------------------------------- MODULE MCIocp -------------------------------
(* IOCP for TLC.                                                            *)
EXTENDS Iocp
=============================================================================
