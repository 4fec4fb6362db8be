----------------------------- MODULE CounterBox -----------------------------
(***************************************************************************)
(* What the readers of uncore counters rely on, without registers.  A box  *)
(* is a group of counters.  Once it is configured each counter counts one  *)
(* event; it may be paused and resumed, it never goes back and it never    *)
(* counts anything else until it is abandoned or configured again.  The    *)
(* difference of two samples of one counter is then what happened between  *)
(* them.  UncorePMU implements this specification.                         *)
(***************************************************************************)
EXTENDS Naturals

CONSTANTS
    Boxes, Slots,   \* the boxes, the counters of each
    Events,         \* what a counter can be configured to count
    MaxCount        \* bound of the counters

VARIABLES phase, event, count, seen

vars == <<phase, event, count, seen>>

Zeros == [i \in Slots |-> 0]
NoEvents == [i \in Slots |-> "zero"]

Init ==
    /\ phase = [b \in Boxes |-> "idle"]
    /\ event = [b \in Boxes |-> NoEvents]
    /\ count = [b \in Boxes |-> Zeros]
    /\ seen = [b \in Boxes |-> Zeros]

\* All counters of the box start to count, from any value.
Configure(b) ==
    /\ phase[b] = "idle"
    /\ phase' = [phase EXCEPT ![b] = "running"]
    /\ \E e \in Events : event' = [event EXCEPT ![b] = [i \in Slots |-> e]]
    /\ \E n \in [Slots -> 0 .. MaxCount] : count' = [count EXCEPT ![b] = n]
    /\ UNCHANGED seen

Count(b, i) ==
    /\ phase[b] = "running" /\ count[b][i] < MaxCount
    /\ count' = [count EXCEPT ![b][i] = @ + 1]
    /\ UNCHANGED <<phase, event, seen>>

Pause(b) ==
    /\ phase[b] = "running"
    /\ phase' = [phase EXCEPT ![b] = "paused"]
    /\ UNCHANGED <<event, count, seen>>

Resume(b) ==
    /\ phase[b] = "paused"
    /\ phase' = [phase EXCEPT ![b] = "running"]
    /\ UNCHANGED <<event, count, seen>>

Sample(b, i) ==
    /\ phase[b] # "idle"
    /\ seen' = [seen EXCEPT ![b][i] = count[b][i]]
    /\ UNCHANGED <<phase, event, count>>

\* Nothing is promised any more about the boxes of S.
Abandon(S) ==
    /\ phase' = [b \in Boxes |-> IF b \in S THEN "idle" ELSE phase[b]]
    /\ event' = [b \in Boxes |-> IF b \in S THEN NoEvents ELSE event[b]]
    /\ count' = [b \in Boxes |-> IF b \in S THEN Zeros ELSE count[b]]
    /\ seen' = [b \in Boxes |-> IF b \in S THEN Zeros ELSE seen[b]]

Next ==
    \/ \E b \in Boxes : Configure(b) \/ Pause(b) \/ Resume(b)
    \/ \E b \in Boxes, i \in Slots : Count(b, i) \/ Sample(b, i)
    \/ \E S \in SUBSET Boxes : Abandon(S)

Spec == Init /\ [][Next]_vars
=============================================================================
