--------------------------- MODULE MCCoreCounters ---------------------------
(* Two cores of one socket, counters of one bit.                           *)
EXTENDS CoreCounters, TLC

CONSTANTS c1, c2, s1

MCSocketOf == (c1 :> s1) @@ (c2 :> s1)

=============================================================================
