------------------------------ MODULE MCInbox ------------------------------
(* The inbox, with the attachments of the messages as definitions.            *)
EXTENDS Inbox, TLC

NoneAttached == [m \in Message |-> NoMedia]

AllAttached == [m \in Message |-> CHOOSE x \in MediaId : TRUE]

\* Nothing is claimed about media that was raced for.
Uncontended == contended = {}

CallSymmetry == Permutations(Call \ {Cron})

Symmetry == CallSymmetry \cup Permutations(Target)
=============================================================================
