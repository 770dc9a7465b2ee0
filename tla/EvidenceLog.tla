---------------------------- MODULE EvidenceLog ----------------------------
(***************************************************************************)
(* What a store of evidence promises, whoever writes to it and whatever    *)
(* becomes of them: a record is added at the end of a stream, once, and    *)
(* stays where it is; and nobody is told that a record is there which is   *)
(* not.  A record may be there without anybody having been told.           *)
(***************************************************************************)
EXTENDS Sequences, Functions

CONSTANTS
  Streams,
  Records    \* what can be recorded, each record once

VARIABLES
  log,       \* by stream: its records, in order
  told       \* the records a caller was told are in the log

Kept == UNION {Range(log[s]) : s \in Streams}

Init ==
  /\ log = [s \in Streams |-> <<>>]
  /\ told = {}

\* The record arrives; its writer may be told so in the same step.
Adds(stream, record) ==
  /\ record \notin Kept
  /\ log' = [log EXCEPT ![stream] = Append(@, record)]
  /\ told' \in {told, told \cup {record}}

\* Somebody is told of what is there: the writer, or whoever reads the log.
Tells ==
  /\ told' # told
  /\ told \subseteq told' /\ told' \subseteq Kept
  /\ UNCHANGED log

Next == Tells \/ \E stream \in Streams, record \in Records : Adds(stream, record)

Spec == Init /\ [][Next]_<<log, told>>

=============================================================================
