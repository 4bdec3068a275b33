------------------------ MODULE MCMultithreadExecutor ------------------------
(* MultithreadExecutor for TLC: values for the constants and a symmetry.    *)
EXTENDS MultithreadExecutor, TLC

CONSTANTS t1, t2, t3

MCTwoDelays == {1, 2}
TaskSymmetry == Permutations(Tasks)
=============================================================================
