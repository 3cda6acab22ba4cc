------------------------------ MODULE MCSftRun ------------------------------
(***************************************************************************)
(* SftRun for TLC: two training examples and a held-out one.  The first    *)
(* training example may get a verified candidate and, under another prompt *)
(* version, one of a smaller index, verified or not, so that its target    *)
(* may change between two commands; the second a verified one, so that the *)
(* selection may grow between them; the held-out one may be verified too.  *)
(* The file of examples holds both training examples or one of them.       *)
(***************************************************************************)
EXTENDS SftRun

MCRecord ==
  {[example |-> "e1", index |-> 1, prompt |-> "v1", verified |-> TRUE],
   [example |-> "e1", index |-> 0, prompt |-> "v2", verified |-> TRUE],
   [example |-> "e1", index |-> 0, prompt |-> "v2", verified |-> FALSE],
   [example |-> "e2", index |-> 0, prompt |-> "v1", verified |-> TRUE],
   [example |-> "held", index |-> 0, prompt |-> "v1", verified |-> TRUE]}

MCSources   == {{"e1", "e2", "held"}, {"e1", "held"}}
MCOneSource == {{"e1", "e2", "held"}}
=============================================================================
