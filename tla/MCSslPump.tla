----------------------------- MODULE MCSslPump ------------------------------
(***************************************************************************)
(* A small instance of SslPump for TLC.                                    *)
(***************************************************************************)
EXTENDS SslPump

TwoEach == [e \in Ends |-> 2]
=============================================================================
