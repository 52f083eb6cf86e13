-------------------------- MODULE MCStageController --------------------------
(***************************************************************************)
(* A TLC instance of StageController: lists of no stage, of several stages *)
(* in both orders, and with a stage twice.                                 *)
(***************************************************************************)
EXTENDS StageController, TLC

CONSTANTS a, b, c  \* stages

MCLists == {<<>>, <<a, b>>, <<b, a>>, <<c, b, c>>}
==============================================================================
