----------------------------- MODULE Diagnostics -----------------------------
(***************************************************************************)
(* The errors of a command: what the Aptos CLI prints on its two streams,  *)
(* and what Parser::parse_errors finds in it when the command is over.     *)
(*                                                                         *)
(* A line of the output opens a diagnostic, or says where it is, or        *)
(* neither.  The cap of the streams is that of Execution.                  *)
(***************************************************************************)
EXTENDS Requests

CONSTANTS
  LineNumbers, \* those the CLI names
  MaxLine,     \* the last that is a u32
  MaxPrinted   \* bound: lines the CLI prints on a stream

\* The CLI counts lines from 1.
ASSUME LinesType == LineNumbers \subseteq Nat \ {0} /\ MaxLine \in Nat \ {0}

VARIABLES
  stdout, stderr,  \* what the CLI has printed
  errors           \* what was found, in the order it is shown

diagnostics == <<stdout, stderr, errors>>

\* How a diagnostic opens: "error[E..]: ", "error: " or "warning[W..]: ", and
\* those with a code may have "error: " in their message.
Coded    == {"error[E]", "error[E] error"}
Simple   == {"error", "error[E] error", "warning[W] error"}
Warnings == {"warning[W]", "warning[W] error"}

Openings(texts) == [text : texts]
Places          == [file : DOMAIN sent, line : LineNumbers]
Line            == Openings(Coded \cup Simple \cup Warnings \cup {"other"}) \cup Places

-----------------------------------------------------------------------------
(* Parser::parse_errors *)

\* The places of the diagnostics that open in one of the ways: a message, and
\* right below it the line that says where.
Found(output, ways) ==
  LET add(places, i) ==
        IF i < Len(output) /\ output[i] \in Openings(ways) /\ output[i + 1] \in Places
        THEN Append(places, output[i + 1]) ELSE places
  IN FoldLeftDomain(add, <<>>, output)

\* A number that is no u32 becomes 1.
Where(place) == [file |-> place.file, line |-> IF place.line > MaxLine THEN 1 ELSE place.line]

Reports(places, severity, coded) ==
  [k \in DOMAIN places |-> [where |-> Where(places[k]), severity |-> severity, coded |-> coded]]

\* Mutant: an error in the file is enough.
KnownFile(found, report) == \E i \in DOMAIN found : found[i].where.file = report.where.file

\* "Avoid duplicates"
Known(found, report) == \E i \in DOMAIN found : found[i].where = report.where

ParseErrors(output) ==
  LET add(found, report) == IF Known(found, report) THEN found ELSE Append(found, report)
  IN FoldLeft(add, Reports(Found(output, Coded), "error", TRUE),
                   Reports(Found(output, Simple), "error", FALSE))
     \o Reports(Found(output, Warnings), "warning", TRUE)

-----------------------------------------------------------------------------
Init == RequestsInit /\ stdout = <<>> /\ stderr = <<>> /\ errors = <<>>

\* A click clears what the command before has left on the page.
Click ==
  /\ Submit
  /\ stdout' = <<>> /\ stderr' = <<>> /\ errors' = <<>>

PrintLine ==
  /\ verdict = "valid"
  /\ \E line \in Line :
       \/ Len(stdout) < MaxPrinted /\ stdout' = Append(stdout, line) /\ UNCHANGED stderr
       \/ Len(stderr) < MaxPrinted /\ stderr' = Append(stderr, line) /\ UNCHANGED stdout
  /\ UNCHANGED <<errors, request, workspace>>

\* The CLI exits, and its errors reach the page before Done: those of stdout and
\* then those of stderr, whenever they were printed.
Done ==
  /\ verdict = "valid"
  /\ errors' = ParseErrors(stdout \o stderr)
  /\ verdict' = "done"
  /\ UNCHANGED <<stdout, stderr, sent, workspace>>

\* The deadline passes, or something else fails: nothing is parsed.
Failed ==
  /\ verdict = "valid"
  /\ verdict' = "none" /\ sent' = NoFiles
  /\ UNCHANGED <<diagnostics, workspace>>

Next ==
  \/ (Explore \/ Refused) /\ UNCHANGED diagnostics
  \/ Click \/ PrintLine \/ Done \/ Failed

Spec == Init /\ [][Next]_<<workspace, request, diagnostics>>
-----------------------------------------------------------------------------
TypeOK ==
  /\ RequestsTypeOK
  /\ \A i \in DOMAIN errors :
       /\ errors[i].where.file \in DOMAIN sent /\ errors[i].where.line \in 1..MaxLine
       /\ errors[i].severity \in {"error", "warning"}

\* When a command is done, every place where one of its streams has an error is
\* among the errors shown, and none is shown again for an error without a code:
\* what the patterns find twice is reported once.
ErrorsPlaced ==
  verdict = "done" =>
    LET shown == {i \in DOMAIN errors : errors[i].severity = "error"} IN
    /\ \A output \in {stdout, stderr} :
         {Where(p) : p \in ToSet(Found(output, Coded \cup Simple))} \subseteq
           {errors[i].where : i \in shown}
    /\ \A i, j \in shown : errors[i].where = errors[j].where /\ i # j => errors[i].coded /\ errors[j].coded
=============================================================================
