------------------------------- MODULE Rooms -------------------------------
(***************************************************************************)
(* A space of the relay: rooms.service.ts keeps the room and the list of   *)
(* its messages in redis, and message.send (version 1) and space.join of   *)
(* relay.gateway.ts work on them.  Each redis command is a step of its     *)
(* own, so calls of several members interleave between any two; only       *)
(* consumeMessages reads and deletes the list in one transaction.          *)
(*                                                                         *)
(* A post is named by its sender and stored under its sender's device id.  *)
(* One space: spaces share nothing.                                        *)
(***************************************************************************)
EXTENDS Naturals, Sequences, FiniteSets, SequencesExt

CONSTANTS
    Post,        \* version 1 messages
    Author,      \* the device that sends each
    Visitor,     \* devices, by the deviceId they give to space.join
    ListMax      \* the length that LTRIM leaves: 50

VARIABLES
    room,        \* redis room:<id>: not created, open or expired
    list,        \* redis msgs:<id>, newest first
    listTtl,     \* whether that list has a time to live
    join,        \* where the space.join of each visitor stands
    post,        \* where the message.send of each post stands
    history,     \* <<visitor, post>> received in a space.history
    discarded,   \* history: posts that a visitor consumed and, as its own, was not given
    dropped,     \* history: posts that LTRIM or the list's expiry removed
    cut          \* history: a call ended between LPUSH and EXPIRE

roomVars == <<room, list, listTtl, join, post, history, discarded, dropped, cut>>

ASSUME RoomsAssumption ==
    /\ Author \in [Post -> Visitor]
    /\ ListMax \in Nat \ {0}

PostStep == {"unsent", "push", "trim", "expire", "ok", "error"}

Listed == {list[i] : i \in 1 .. Len(list)}

RoomsTypeOK ==
    /\ room \in {"none", "open", "expired"}
    /\ list \in Seq(Post) /\ listTtl \in BOOLEAN
    /\ join \in [Visitor -> {"idle", "consume"}]
    /\ post \in [Post -> PostStep]
    /\ history \subseteq Visitor \X Post
    /\ discarded \subseteq Post /\ dropped \subseteq Post
    /\ cut \in BOOLEAN

RoomsInit ==
    /\ room = "none"
    /\ list = <<>> /\ listTtl = FALSE
    /\ join = [v \in Visitor |-> "idle"]
    /\ post = [p \in Post |-> "unsent"]
    /\ history = {}
    /\ discarded = {} /\ dropped = {}
    /\ cut = FALSE

CreateRoom ==
    /\ room = "none"
    /\ room' = "open"
    /\ UNCHANGED <<list, listTtl, join, post, history, discarded, dropped, cut>>

\* The key expires: space.expired goes to the members, whose sockets stay.
RoomExpires ==
    /\ room = "open"
    /\ room' = "expired"
    /\ UNCHANGED <<list, listTtl, join, post, history, discarded, dropped, cut>>

\* getRoom, client.join and space.joined; the visitor is turned away from a room
\* that is not there.
JoinRead(v) ==
    /\ join[v] = "idle" /\ room = "open"
    /\ join' = [join EXCEPT ![v] = "consume"]
    /\ UNCHANGED <<room, list, listTtl, post, history, discarded, dropped, cut>>

Others(v) == {p \in Listed : Author[p] # v}

\* A slip: the list is read and left.
ConsumeKeeps(v) ==
    /\ join[v] = "consume"
    /\ join' = [join EXCEPT ![v] = "idle"]
    /\ history' = history \cup {<<v, p>> : p \in Others(v)}
    /\ UNCHANGED <<room, list, listTtl, post, discarded, dropped, cut>>

\* consumeMessages: MULTI of LRANGE and DEL; the visitor's own posts are
\* filtered from the space.history it is sent.
JoinConsume(v) ==
    /\ join[v] = "consume"
    /\ join' = [join EXCEPT ![v] = "idle"]
    /\ history' = history \cup {<<v, p>> : p \in Others(v)}
    /\ discarded' = discarded \cup (Listed \ Others(v))
    /\ list' = <<>> /\ listTtl' = FALSE
    /\ UNCHANGED <<room, post, dropped, cut>>

\* message.receive to whoever is in the room but the sender, which leaves nothing
\* behind; then addMessage begins.  Nobody asks whether the room is still there.
SendLive(p) ==
    /\ post[p] = "unsent" /\ room # "none"
    /\ post' = [post EXCEPT ![p] = "push"]
    /\ UNCHANGED <<room, list, listTtl, join, history, discarded, dropped, cut>>

\* LPUSH
AddPush(p) ==
    /\ post[p] = "push"
    /\ post' = [post EXCEPT ![p] = "trim"]
    /\ list' = <<p>> \o list
    /\ UNCHANGED <<room, listTtl, join, history, discarded, dropped, cut>>

\* LTRIM 0 49
AddTrim(p) ==
    /\ post[p] = "trim"
    /\ post' = [post EXCEPT ![p] = "expire"]
    /\ list' = IF Len(list) > ListMax THEN SubSeq(list, 1, ListMax) ELSE list
    /\ dropped' = dropped \cup (Listed \ {list'[i] : i \in 1 .. Len(list')})
    /\ UNCHANGED <<room, listTtl, join, history, discarded, cut>>

\* EXPIRE, of the list if it is still there, with the post's own lifetime.
AddExpire(p) ==
    /\ post[p] = "expire"
    /\ post' = [post EXCEPT ![p] = "ok"]
    /\ listTtl' = (listTtl \/ list # <<>>)
    /\ UNCHANGED <<room, list, join, history, discarded, dropped, cut>>

\* redis fails one of the three: the sender is told "error", and what has been
\* done stays done.
AddFails(p) ==
    /\ post[p] \in {"push", "trim", "expire"}
    /\ post' = [post EXCEPT ![p] = "error"]
    /\ cut' = (cut \/ post[p] # "push")
    /\ UNCHANGED <<room, list, listTtl, join, history, discarded, dropped>>

ListExpires ==
    /\ listTtl
    /\ dropped' = dropped \cup Listed
    /\ list' = <<>> /\ listTtl' = FALSE
    /\ UNCHANGED <<room, join, post, history, discarded, cut>>

RoomsNext ==
    \/ CreateRoom \/ RoomExpires \/ ListExpires
    \/ \E v \in Visitor : JoinRead(v) \/ JoinConsume(v)
    \/ \E p \in Post : SendLive(p) \/ AddPush(p) \/ AddTrim(p) \/ AddExpire(p) \/ AddFails(p)

RoomsSpec == RoomsInit /\ [][RoomsNext]_roomVars
-----------------------------------------------------------------------------
GivenTo(p) == {v \in Visitor : <<v, p>> \in history}

\* A post whose sender was told "ok" is in one place: still listed, or in the
\* history of one visitor, or consumed by its own sender, or dropped by the cap or
\* the list's expiry; and a list that will never expire is one whose posts are
\* still on the way to EXPIRE, or that a failed call has left.
InOnePlace ==
    /\ \A p \in Post :
          /\ Cardinality(GivenTo(p)) <= 1
          /\ p \in Listed => GivenTo(p) = {} /\ p \notin discarded \cup dropped
          /\ GivenTo(p) # {} => p \notin discarded \cup dropped
          /\ post[p] = "ok" => p \in Listed \cup discarded \cup dropped \/ GivenTo(p) # {}
    /\ list # <<>> /\ ~listTtl /\ ~cut => \E p \in Post : post[p] \in {"trim", "expire"}
=============================================================================
