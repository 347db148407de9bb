-------------------------- MODULE MCMessagePipeline --------------------------
(***************************************************************************)
(* TLC instance of MessagePipeline: the four messages of generator.c:60.   *)
(***************************************************************************)
EXTENDS MessagePipeline

MCN == 4
\* A System V queue takes 16384 bytes by default, far more than five messages.
RoomyQueue == MCN + 1
\* Room for two messages only: other programs' messages fill the queue.
TightQueue == 2
=============================================================================
