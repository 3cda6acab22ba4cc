----------------------------- MODULE MCGrpoRun ------------------------------
(***************************************************************************)
(* GrpoRun for TLC: two configurations, and rewards that are told apart or *)
(* not.                                                                    *)
(***************************************************************************)
EXTENDS GrpoRun

MCConfig     == {"c1", "c2"}
MCOneReward  == {"low"}
MCTwoRewards == {"low", "high"}
=============================================================================
