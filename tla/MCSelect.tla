------------------------------ MODULE MCSelect ------------------------------
(* Select for TLC: values for the constants.                                *)
EXTENDS Select

OneFd == {3}
=============================================================================
