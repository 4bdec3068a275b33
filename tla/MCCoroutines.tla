---------------------------- MODULE MCCoroutines ----------------------------
(* Coroutines for TLC: a context's SimpleExecutor and a                     *)
(* MultithreadExecutor with two threads.                                    *)
EXTENDS Coroutines

MCKnown == {"simple"}
MCExecutors == {"simple", "multi"}
MCThreads == {"s", "m1", "m2"}
MCExecOf == [th \in MCThreads |-> IF th = "s" THEN "simple" ELSE "multi"]
=============================================================================
