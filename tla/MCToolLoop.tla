----------------------------- MODULE MCToolLoop -----------------------------
(* Command lines for the model checker: every way a tool pairs its reads,  *)
(* with and without an external program, a delay and a limit.              *)
EXTENDS ToolLoop

\* The others differ from one of these in their name only.
SomeTools == {pcm, pcm_memory, pcm_raw, pcm_pcie, pcm_iio, pcm_latency}

AnyCase ==
    {c \in [tool : SomeTools, groups : {1, 2}, cmd : BOOLEAN, delay : BOOLEAN, iterations : {0, 2}] :
        /\ c.groups > 1 => c.tool.many # "none"
        /\ c.cmd => c.tool.first # "none"}
=============================================================================
