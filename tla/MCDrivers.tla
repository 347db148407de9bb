----------------------------- MODULE MCDrivers -----------------------------
(***************************************************************************)
(* TLC instance of Drivers.  Two processes use the driver.  LedTimer:      *)
(* writes enough for a request of each process to meet one of the other in *)
(* the callback.  QuantumRead: a quantum smaller than the memory, one as   *)
(* large, and one larger; two writes, so that a short one follows a long   *)
(* one.  QuantumSet: one quantum of three bytes, written in parts and      *)
(* beyond its end, and two quanta of one byte.                             *)
(***************************************************************************)
EXTENDS Drivers

MCParameters == {<<0, 1>>, <<0, 3>>, <<1, 0>>}
MCCounts == 0..2

MCGeometries == {<<3, 1>>, <<1, 2>>}
MCBlocks == 1..3
MCLengths == 1..2
=============================================================================
