--------------------------- MODULE CandidateLedger ---------------------------
(***************************************************************************)
(* What the distillation pipeline promises the readers of its output: a    *)
(* list of candidates that only grows, and never by a second one of the    *)
(* same example, candidate index and teacher prompt version, however often *)
(* the runs that write it are killed and resumed.                          *)
(***************************************************************************)
EXTENDS Sequences

CONSTANT Record   \* the candidates: functions of example, index and prompt at least

VARIABLE records  \* those recorded so far, in file order

\* What _completed_keys tells candidates apart by.
Key(r) == <<r.example, r.index, r.prompt>>

Init == records = <<>>

Add ==
  \E r \in Record :
    /\ \A i \in DOMAIN records : Key(records[i]) # Key(r)
    /\ records' = Append(records, r)

Spec == Init /\ [][Add]_records
=============================================================================
