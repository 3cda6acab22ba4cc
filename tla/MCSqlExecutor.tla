--------------------------- MODULE MCSqlExecutor ----------------------------
(***************************************************************************)
(* SqlExecutor for TLC: a row takes a unit of a pipe that holds two, so a  *)
(* result of two rows does not fit into it.                                *)
(***************************************************************************)
EXTENDS SqlExecutor

\* No rows, fewer than MaxRows = 2, as many, and one to cut off.
MCTotalRows == 0 .. 3
=============================================================================
