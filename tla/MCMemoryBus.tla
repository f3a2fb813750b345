---------------------------- MODULE MCMemoryBus ----------------------------
(* A publisher and two workers over a queue of one: a sender can block     *)
(* behind another, both workers' handlers can, and one worker can exit     *)
(* while the other still runs.                                             *)
EXTENDS MemoryBus

CONSTANTS p1, p2, w1, w2, h1, h2
=============================================================================
