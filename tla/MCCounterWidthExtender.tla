----------------------- MODULE MCCounterWidthExtender -----------------------
(* The width extender with two user threads, for TLC. *)
EXTENDS CounterWidthExtender, TLC

\* The user threads run the same code: they are interchangeable.
ReaderSymmetry == Permutations(Readers)
=============================================================================
