--------------------------- MODULE MCSensorServer ---------------------------
(* Small sensor servers for TLC. *)
EXTENDS SensorServer

\* The objects that are work of the pool.
AllWorks == Requesters \cup CounterJobs

Static == [kind |-> "static", x |-> 0]
Absolute == [kind |-> "absolute", x |-> 0]
PerSecond(x) == [kind |-> "persecond", x |-> x]

\* Every kind of request, with the seconds the history can always serve.
AnyRequest == {Static, Absolute} \cup {PerSecond(x) : x \in 1 .. History - 1}
OnlyAbsolute == {Absolute}

\* The most seconds that my_get_callback accepts.
WholeHistory == {PerSecond(History)}
=============================================================================
