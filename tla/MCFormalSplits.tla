---------------------------- MODULE MCFormalSplits ----------------------------
(***************************************************************************)
(* FormalSplits for TLC: five rows in two databases.  Rows 1 and 4 ask the *)
(* same question, as one pair of the source does; row 3 is padded.         *)
(***************************************************************************)
EXTENDS FormalSplits

MCDbOf       == <<1, 2, 1, 1, 2>>
MCQuestionOf == <<"a", "b", "c", "a", "e">>
MCPadded     == {3}
MCUsable     == 1 .. 5
MCSeed       == {1, 2}
MCSize       == {2, 3, 4}

\* The odd seed keeps the file's order, the even one turns it round.
MCShuffle(seed, pool) ==
  [r \in pool |-> IF seed % 2 = 1 THEN r ELSE NumRows - r]
=============================================================================
