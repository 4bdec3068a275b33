-------------------------- MODULE MCSimpleExecutor --------------------------
(* SimpleExecutor for TLC: values for the constants.                        *)
EXTENDS SimpleExecutor

CONSTANTS t1, t2, t3

MCIdleWait == 2
MCDelays == 0..2
MCTwoDelays == {1, 2}
=============================================================================
