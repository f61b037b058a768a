------------------------------- MODULE Outbox -------------------------------
(***************************************************************************)
(* What the sending side of the client promises of a queue of messages:    *)
(* they leave it in the order they entered it, and nothing of a message    *)
(* reaches the relay before its turn has come; what is sent again, late or *)
(* twice concerns only a message whose turn has come.                      *)
(***************************************************************************)
EXTENDS Naturals, Sequences

CONSTANTS
    Message,
    Place        \* where the relay can store one: devices and the inbox of a person

VARIABLES
    waiting,     \* messages that have not left the queue, oldest first
    left,        \* messages that have: sent, or given up
    arrived      \* <<message, place>> at the relay

outboxVars == <<waiting, left, arrived>>

Waiting == {waiting[i] : i \in 1 .. Len(waiting)}

Init == waiting = <<>> /\ left = {} /\ arrived = {}

Accept(m) ==
    /\ m \notin Waiting \cup left
    /\ waiting' = Append(waiting, m)
    /\ UNCHANGED <<left, arrived>>

\* Its turn has come.
Due(m) == m \in left \/ (waiting # <<>> /\ m = Head(waiting))

Arrive(m, place) ==
    /\ Due(m)
    /\ arrived' = arrived \cup {<<m, place>>}
    /\ UNCHANGED <<waiting, left>>

Leave ==
    /\ waiting # <<>>
    /\ waiting' = Tail(waiting)
    /\ left' = left \cup {Head(waiting)}
    /\ UNCHANGED arrived

Next ==
    \/ \E m \in Message : Accept(m) \/ \E place \in Place : Arrive(m, place)
    \/ Leave

Spec == Init /\ [][Next]_outboxVars
=============================================================================
