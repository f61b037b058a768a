------------------------------- MODULE MCSend -------------------------------
(* The sending side of one client.                                            *)
EXTENDS SendQueue
=============================================================================
