-------------------------- MODULE MCPipelineRestart --------------------------
(***************************************************************************)
(* TLC instance of PipelineRestart: one message and the empty one, two     *)
(* programs killed and two started again.                                  *)
(***************************************************************************)
EXTENDS PipelineRestart

MCN == 1
RoomyQueue == 2 * (MCN + 1)
=============================================================================
