------------------------------- MODULE Slots -------------------------------
(***************************************************************************)
(* What the per-IP rate limiter promises, without its counters or locks:   *)
(* an address holds at most MaxPerIp slots, and a connection is turned     *)
(* away only at a moment when its address holds exactly MaxPerIp of them.  *)
(***************************************************************************)
EXTENDS Naturals, FiniteSets

CONSTANTS
  Tasks,      \* the connection tasks
  Ips,        \* the client addresses
  Source,     \* the address of each task
  MaxPerIp    \* slots of one address

VARIABLE answer   \* what each task has been told: "none", "held" or "refused"

Holders(ip) == {t \in Tasks : Source[t] = ip /\ answer[t] = "held"}

Init == answer = [t \in Tasks |-> "none"]

Admit(t) ==
  /\ answer[t] = "none"
  /\ Cardinality(Holders(Source[t])) < MaxPerIp
  /\ answer' = [answer EXCEPT ![t] = "held"]

Refuse(t) ==
  /\ answer[t] = "none"
  /\ Cardinality(Holders(Source[t])) = MaxPerIp
  /\ answer' = [answer EXCEPT ![t] = "refused"]

Leave(t) ==
  /\ answer[t] \in {"held", "refused"}
  /\ answer' = [answer EXCEPT ![t] = "none"]

Next == \E t \in Tasks : Admit(t) \/ Refuse(t) \/ Leave(t)

Spec == Init /\ [][Next]_answer
=============================================================================
