--------------------------- MODULE MCPCMLifecycle ---------------------------
(* PCM processes on a two core machine, for TLC. *)
EXTENDS PCMLifecycle, TLC

\* Root with all drivers, with or without perf, or a process that cannot open
\* the MSRs and was told to keep the NMI watchdog.
RootOrCareful ==
    {[msr |-> TRUE, keep |-> FALSE, perf |-> u] : u \in BOOLEAN}
      \cup {[msr |-> FALSE, keep |-> TRUE, perf |-> FALSE]}

\* Direct programming only (PCM_NO_PERF=1).
DirectOnly == {[msr |-> TRUE, keep |-> FALSE, perf |-> FALSE]}

\* The processes run the same program.
ProcSymmetry == Permutations(Procs)
=============================================================================
