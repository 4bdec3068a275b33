------------------------------ MODULE MCEpoll ------------------------------
(* Epoll for TLC: values for the constants.                                 *)
EXTENDS Epoll

OneFd == {3}
AllSorts == {"stream", "dgram", "listen"}
=============================================================================
