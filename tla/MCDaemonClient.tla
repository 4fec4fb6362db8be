--------------------------- MODULE MCDaemonClient ---------------------------
(* Command lines for the model checker. *)
EXTENDS DaemonClient, TLC

CONSTANTS d1, d2

Differences == [mode |-> "difference", subscribers |-> {"memory", "qpi"}, current |-> TRUE]
OldTotals == [mode |-> "absolute", subscribers |-> {"core", "memory"}, current |-> FALSE]

TwoConfigs == d1 :> {Differences, OldTotals} @@ d2 :> {Differences}
FewPolls == d1 :> 2 @@ d2 :> 0
OnePoll == d1 :> 1 @@ d2 :> 0
=============================================================================
