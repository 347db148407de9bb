-------------------------- MODULE MCPipelineTimed --------------------------
(***************************************************************************)
(* TLC instance of PipelineTimed: the four messages of generator.c:60, the *)
(* programs started up to 18 seconds apart (a whole run takes 18).         *)
(***************************************************************************)
EXTENDS PipelineTimed

MCN == 4
RoomyQueue == MCN + 1
WholeRun == 18
=============================================================================
