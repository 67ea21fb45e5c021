------------------------------ MODULE MCProxy -------------------------------
(* An instance of ZmqProxy for TLC.                                        *)
EXTENDS ZmqProxy
=============================================================================
