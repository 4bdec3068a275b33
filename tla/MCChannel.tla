----------------------------- MODULE MCChannel -----------------------------
(* Channel for TLC: where receivers run and who sends.                      *)
EXTENDS Channel, TLC

CONSTANTS c1, c2, r1, r2, r3

\* Two contexts, and a receiver on a thread without one.
Apart == [r \in Receivers |->
            CASE r = r1 -> c1 [] r = r2 -> c2 [] OTHER -> NoCtx]
=============================================================================
