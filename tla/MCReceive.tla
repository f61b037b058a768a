------------------------------ MODULE MCReceive ------------------------------
(* The receiving side of one device, with its messages of the kinds below.    *)
EXTENDS Receiver

MixedKinds == {<<"chat", "chat">>, <<"dropped", "system">>}
=============================================================================
