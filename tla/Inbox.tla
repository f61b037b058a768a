------------------------------- MODULE Inbox -------------------------------
(***************************************************************************)
(* The inbox of one recipient (apps/backend/src/inbox/inbox.service.ts):   *)
(* the messages and message_delivery tables, and the calls that work on    *)
(* them.  The relay interleaves its calls at every await, so each database *)
(* access is a step; media references are counted by Media.tla.            *)
(*                                                                         *)
(* A delivery row is named by its uuid, here a number that no call holds.  *)
(* The redis copies of envelopes are written and never read by the service *)
(* and are left out; so is the table of push tokens, whose lookup succeeds *)
(* or not.                                                                 *)
(***************************************************************************)
EXTENDS Media

CONSTANTS
    Message,      \* message ids; a client that retries sends the same id
    Target,       \* the devices that messages are sent to and acknowledged by
    DefaultDevice,\* recipient_device_id null
    ViewOnce,     \* messages sent with retention VIEW_ONCE
    Ephemeral,    \* messages sent with retention EPHEMERAL
    Attached,     \* the media each message carries, or NoMedia
    Cron,         \* the call of the hourly cleanupExpiredMessages
    RowId,        \* bound: delivery rows alive at once
    InboxMax,     \* INBOX_MAX_MESSAGES
    PushEnabled,  \* Firebase is configured
    NullMatches,  \* whether the ORM drops a null from a findOne condition or throws
    MaxCrashes,   \* bound: restarts of the relay
    NoMessage,
    NoKey

VARIABLES
    messages,     \* the messages table
    deliveries,   \* the message_delivery table, by uuid
    calls,        \* the inbox calls in flight
    crashes,      \* restarts so far
    revived,      \* history: messages of which a stale save brought back a row
    broken,       \* history: messages on which a call was cut short
    contended     \* history: media that was raced for, or left half deleted

inboxVars == <<messages, deliveries, calls, crashes, revived, broken, contended>>

vars == <<inboxVars, mediaVars>>

Status == {"PENDING", "DELIVERED", "ACKNOWLEDGED"}

MessageRow == [delivered : BOOLEAN, viewed : BOOLEAN, expires_at : Expiry]

Delivery == [msg : Message, dev : Target \cup {DefaultDevice}, status : Status]

ASSUME InboxAssumption ==
    /\ Cron \in Call
    /\ ViewOnce \subseteq Message /\ Ephemeral \subseteq Message \ ViewOnce
    /\ Attached \in [Message -> MediaId \cup {NoMedia}]
    /\ RowId \subseteq Nat /\ NoKey \notin RowId
    /\ InboxMax \in Nat /\ MaxCrashes \in Nat
    /\ PushEnabled \in BOOLEAN /\ NullMatches \in BOOLEAN
    /\ NoMessage \notin Message \cup MessageRow
    /\ NoRow \notin Delivery

QueueStep == {"find", "match", "add", "refer", "store", "deliver", "rollback",
              "push", "pushUpdate", "pushLoad", "pushSave", "answer"}

AckStep == {"ack", "check", "load", "mark"}

OtherStep == {"see", "unrefer", "remove", "removeRows", "prune"}

InboxTypeOK ==
    /\ messages \in [Message -> MessageRow \cup {NoMessage}]
    /\ deliveries \in [RowId -> Delivery \cup {NoRow}]
    /\ calls \in [Call -> [pc : QueueStep \cup AckStep \cup OtherStep \cup {"idle"},
                           msg : Message \cup {NoMessage}, dev : Target \cup {DefaultDevice},
                           row : MessageRow \cup {NoMessage},
                           key : RowId \cup {NoKey},
                           collided : BOOLEAN, gone : BOOLEAN,
                           rest : SUBSET Message, expired : SUBSET Message]]
    /\ crashes \in Nat
    /\ revived \subseteq Message /\ broken \subseteq Message
    /\ contended \subseteq MediaId

Idle == [pc |-> "idle", msg |-> NoMessage, dev |-> DefaultDevice, row |-> NoMessage,
         key |-> NoKey, collided |-> FALSE, gone |-> FALSE, rest |-> {}, expired |-> {}]

Stored(m) == messages[m] # NoMessage

Rows(m) == {k \in RowId : deliveries[k] # NoRow /\ deliveries[k].msg = m}

RowsFor(m, targets) == {k \in Rows(m) : deliveries[k].dev \in targets}

Acked(k) == deliveries[k].status = "ACKNOWLEDGED"

Pending(d) == {k \in RowId : /\ deliveries[k] # NoRow /\ ~Acked(k)
                             /\ deliveries[k].dev = d}

\* A uuid that no row and no call has.
FreshKey(k) ==
    LET free == {j \in RowId : deliveries[j] = NoRow /\ \A c \in Call : calls[c].key # j}
    IN  k \in free /\ \A j \in free : k <= j

At(c, pc) == calls[c].pc = pc

Go(c, pc) == calls' = [calls EXCEPT ![c].pc = pc]

End(c) == calls' = [calls EXCEPT ![c] = Idle]

Carries(c, x) == calls[c].pc # "idle" /\ \E m \in {calls[c].msg} \cup calls[c].expired :
                                             m \in Message /\ Attached[m] = x

Sweeping(x) == x \in sweeper.rest \/ sweeper.media = x

\* History: a call on m starts while someone else is at its media.
Contention(c, m) ==
    {x \in MediaId : /\ x = Attached[m]
                     /\ \/ \E b \in Call \ {c} : Carries(b, x)
                        \/ Sweeping(x)}

Begin(c, m, d, pc, row, key) ==
    /\ c # Cron
    /\ At(c, "idle")
    /\ calls' = [calls EXCEPT ![c] = [Idle EXCEPT !.pc = pc, !.msg = m, !.dev = d,
                                                  !.row = row, !.key = key]]
    /\ contended' = contended \cup Contention(c, m)
    /\ UNCHANGED <<messages, deliveries, crashes, revived, broken, mediaVars>>

\* The tables stay as they are; only the call moves.
Steps(c, pc) ==
    /\ Go(c, pc)
    /\ UNCHANGED <<messages, deliveries, crashes, revived, broken, contended>>

Ends(c) ==
    /\ End(c)
    /\ UNCHANGED <<messages, deliveries, crashes, revived, broken, contended>>

\* A repository save of a loaded message: it brings a deleted row back.  Its SELECT and
\* its write are one step here: the marks of a message are only ever set, so what two
\* saves leave behind is what one of them leaves when it starts a little later.
SaveMessage(c, row) ==
    LET m == calls[c].msg
    IN  /\ messages' = [messages EXCEPT ![m] = row]
        /\ revived' = IF Stored(m) THEN revived ELSE revived \cup {m}
        /\ UNCHANGED <<deliveries, crashes, broken, contended, mediaVars>>
-----------------------------------------------------------------------------
(***************************************************************************)
(* queueMessage.                                                           *)
(***************************************************************************)

\* A slip: the cap is compared after the message has been let in.
QueueUncounted(c, m, d) ==
    /\ Cardinality(Pending(d)) <= InboxMax
    /\ Begin(c, m, d, "find", NoMessage, NoKey)

\* The cap on pending deliveries; a full inbox throws.  The count over the
\* inbox and the count over the sender's share of it are taken as one.
QueueCount(c, m, d) ==
    /\ Cardinality(Pending(d)) < InboxMax
    /\ Begin(c, m, d, "find", NoMessage, NoKey)

QueueFind(c) ==
    LET m == calls[c].msg
    IN  /\ At(c, "find")
        /\ Steps(c, IF Stored(m) THEN "match"
                    ELSE IF Attached[m] # NoMedia THEN "refer" ELSE "store")
        /\ UNCHANGED mediaVars

\* A slip: a retry looks for the message, whatever the device.
QueueMatchAny(c) ==
    LET m == calls[c].msg
    IN  /\ At(c, "match")
        /\ Steps(c, IF Rows(m) = {} THEN "add" ELSE "answer")
        /\ UNCHANGED mediaVars

\* The message is known: is there a delivery for this device?
QueueMatch(c) ==
    LET m == calls[c].msg
        d == calls[c].dev
        found == IF d = DefaultDevice THEN Rows(m) ELSE RowsFor(m, {d})
    IN  /\ At(c, "match")
        /\ IF d = DefaultDevice /\ ~NullMatches THEN Ends(c)
           ELSE Steps(c, IF found = {} THEN "add" ELSE "answer")
        /\ UNCHANGED mediaVars

InsertDelivery(c) ==
    \E k \in RowId :
        /\ FreshKey(k)
        /\ deliveries' = [deliveries EXCEPT ![k] = [msg |-> calls[c].msg, dev |-> calls[c].dev,
                                                    status |-> "PENDING"]]

\* The missing delivery is added, or the database refuses and the error is thrown.
QueueAdd(c) ==
    /\ At(c, "add")
    /\ \/ InsertDelivery(c) /\ Go(c, "answer")
       \/ End(c) /\ UNCHANGED deliveries
    /\ UNCHANGED <<messages, crashes, revived, broken, contended, mediaVars>>

\* The media is counted first; if that throws, nothing has been stored.
QueueRefer(c) ==
    LET x == Attached[calls[c].msg]
    IN  /\ At(c, "refer")
        /\ \/ CannotIncrement(x) /\ op[c].do = "none" /\ Ends(c) /\ UNCHANGED mediaVars
           \/ IncrementLoad(c, x) /\ UNCHANGED inboxVars
           \/ SaveFind(c) /\ UNCHANGED inboxVars
           \/ IncrementSave(c) /\ Refused(c) /\ Ends(c)
           \/ IncrementSave(c) /\ ~Refused(c) /\ Steps(c, "store")

NewRow(m) == [delivered |-> FALSE, viewed |-> FALSE,
              expires_at |-> IF m \in ViewOnce \cup Ephemeral THEN "later" ELSE "never"]

\* The message row: inserted; or, when another call was faster, updated or
\* refused as a duplicate, depending on whether the ORM saw the other's row.
QueueStore(c) ==
    LET m == calls[c].msg
    IN  /\ At(c, "store")
        /\ \/ /\ messages' = [messages EXCEPT ![m] =
                                 IF Stored(m)
                                 THEN [@ EXCEPT !.expires_at = NewRow(m).expires_at]
                                 ELSE NewRow(m)]
              /\ Go(c, "deliver")
           \/ /\ Stored(m)
              /\ calls' = [calls EXCEPT ![c].pc = "push", ![c].collided = TRUE]
              /\ UNCHANGED messages
        /\ UNCHANGED <<deliveries, crashes, revived, broken, contended, mediaVars>>

QueueDeliver(c) ==
    /\ At(c, "deliver")
    /\ InsertDelivery(c)
    /\ Go(c, "push")
    /\ UNCHANGED <<messages, crashes, revived, broken, contended, mediaVars>>

\* The database fails either insert: the media reference is taken back, and
\* the error thrown.  A message row already inserted stays, without delivery.
QueueFails(c) ==
    LET m == calls[c].msg
    IN  /\ calls[c].pc \in {"store", "deliver"}
        /\ IF Attached[m] # NoMedia THEN Go(c, "rollback") ELSE End(c)
        /\ broken' = broken \cup {m}
        /\ contended' = IF At(c, "deliver") THEN contended \cup ({Attached[m]} \cap MediaId)
                        ELSE contended
        /\ UNCHANGED <<messages, deliveries, crashes, revived, mediaVars>>

\* decrementReferenceCount called at pc from, going on at pc to.
Unrefer(c, from, Then) ==
    LET x == Attached[calls[c].msg]
    IN  /\ At(c, from)
        /\ \/ ~Exists(x) /\ op[c].do = "none" /\ Then /\ UNCHANGED mediaVars
           \/ DecrementLoad(c, x) /\ UNCHANGED inboxVars
           \/ SaveFind(c) /\ UNCHANGED inboxVars
           \/ DecrementSave(c) /\ Then

QueueRollback(c) == Unrefer(c, "rollback", Ends(c))

\* sendFcmWakeup, when a token is found and Firebase takes the message.
QueuePush(c) ==
    /\ At(c, "push")
    /\ \/ Steps(c, "answer")
       \/ PushEnabled /\ Steps(c, "pushUpdate")
    /\ UNCHANGED mediaVars

\* Every delivery of the message becomes DELIVERED, acknowledged or not.
PushUpdate(c) ==
    /\ At(c, "pushUpdate")
    /\ deliveries' = [k \in RowId |-> IF k \in Rows(calls[c].msg)
                                      THEN [deliveries[k] EXCEPT !.status = "DELIVERED"]
                                      ELSE deliveries[k]]
    /\ Go(c, "pushLoad")
    /\ UNCHANGED <<messages, crashes, revived, broken, contended, mediaVars>>

PushLoad(c) ==
    LET m == calls[c].msg
    IN  /\ At(c, "pushLoad")
        /\ IF Stored(m) /\ ~messages[m].delivered
           THEN calls' = [calls EXCEPT ![c].pc = "pushSave", ![c].row = messages[m]]
           ELSE Go(c, "answer")
        /\ UNCHANGED <<messages, deliveries, crashes, revived, broken, contended, mediaVars>>

PushSave(c) ==
    /\ At(c, "pushSave")
    /\ SaveMessage(c, [calls[c].row EXCEPT !.delivered = TRUE])
    /\ calls' = [calls EXCEPT ![c].pc = "answer", ![c].row = NoMessage]

QueueAnswer(c) == At(c, "answer") /\ Ends(c) /\ UNCHANGED mediaVars

QueueSteps(c) ==
    \/ QueueFind(c) \/ QueueMatch(c) \/ QueueAdd(c)
    \/ QueueRefer(c) \/ QueueStore(c) \/ QueueDeliver(c) \/ QueueFails(c) \/ QueueRollback(c)
    \/ QueuePush(c) \/ PushUpdate(c) \/ PushLoad(c) \/ PushSave(c) \/ QueueAnswer(c)
-----------------------------------------------------------------------------
(***************************************************************************)
(* acknowledgeMessage, markMessageSeen, deleteMessages.                    *)
(***************************************************************************)

\* The delivery of the acknowledging device, or one of the default device.
AckFind(c, m, d) ==
    LET rows == RowsFor(m, {d, DefaultDevice})
    IN  \/ rows = {} /\ Begin(c, m, d, "check", NoMessage, NoKey)
        \/ \E k \in rows : Begin(c, m, deliveries[k].dev, "ack", NoMessage, k)

\* A slip: the client's word for it is stored.
AckSaveSeen(c) ==
    LET k == calls[c].key
    IN  /\ At(c, "ack")
        /\ deliveries' = [deliveries EXCEPT ![k] = [msg |-> calls[c].msg, dev |-> calls[c].dev,
                                                    status |-> "SEEN"]]
        /\ calls' = [calls EXCEPT ![c].pc = "check", ![c].key = NoKey]
        /\ UNCHANGED <<messages, crashes, revived, broken, contended, mediaVars>>

AckSave(c) ==
    LET k == calls[c].key
    IN  /\ At(c, "ack")
        /\ deliveries' = [deliveries EXCEPT ![k] = [msg |-> calls[c].msg, dev |-> calls[c].dev,
                                                    status |-> "ACKNOWLEDGED"]]
        /\ revived' = IF deliveries[k] = NoRow THEN revived \cup {calls[c].msg} ELSE revived
        /\ calls' = [calls EXCEPT ![c].pc = "check", ![c].key = NoKey]
        /\ UNCHANGED <<messages, crashes, broken, contended, mediaVars>>

AckCheck(c) ==
    /\ At(c, "check")
    /\ IF \A k \in Rows(calls[c].msg) : Acked(k) THEN Steps(c, "load") ELSE Ends(c)
    /\ UNCHANGED mediaVars

\* A slip: a message already marked delivered is left alone before its
\* retention is looked at.
AckLoadDelivered(c) ==
    LET m == calls[c].msg
    IN  /\ At(c, "load")
        /\ IF ~Stored(m) \/ messages[m].delivered THEN Ends(c)
           ELSE Steps(c, IF Attached[m] # NoMedia THEN "unrefer" ELSE "remove")
        /\ UNCHANGED mediaVars

\* A fully acknowledged VIEW_ONCE message is removed, another is marked.
AckLoad(c) ==
    LET m == calls[c].msg
    IN  /\ At(c, "load")
        /\ \/ ~Stored(m) /\ Ends(c)
           \/ Stored(m) /\ m \in ViewOnce
                        /\ Steps(c, IF Attached[m] # NoMedia THEN "unrefer" ELSE "remove")
           \/ Stored(m) /\ m \notin ViewOnce /\ messages[m].delivered /\ Ends(c)
           \/ /\ Stored(m) /\ m \notin ViewOnce /\ ~messages[m].delivered
              /\ calls' = [calls EXCEPT ![c].pc = "mark", ![c].row = messages[m]]
              /\ UNCHANGED <<messages, deliveries, crashes, revived, broken, contended>>
        /\ UNCHANGED mediaVars

AckMark(c) ==
    LET row == calls[c].row
    IN  /\ At(c, "mark")
        /\ SaveMessage(c, [row EXCEPT !.delivered = TRUE,
                              !.expires_at = IF calls[c].msg \in Ephemeral THEN "later" ELSE @])
        /\ End(c)

SeenLoad(c, m) ==
    /\ Stored(m)
    /\ ~messages[m].viewed
    /\ Begin(c, m, DefaultDevice, "see", messages[m], NoKey)

SeenSave(c) ==
    /\ At(c, "see")
    /\ SaveMessage(c, [calls[c].row EXCEPT !.viewed = TRUE])
    /\ End(c)

\* A slip: the deleted message's media stays counted.
DeleteCounted(c, m) ==
    /\ Stored(m)
    /\ Begin(c, m, DefaultDevice, "remove", NoMessage, NoKey)

DeleteFind(c, m) ==
    /\ Stored(m)
    /\ Begin(c, m, DefaultDevice, IF Attached[m] # NoMedia THEN "unrefer" ELSE "remove",
             NoMessage, NoKey)

RemoveUnrefer(c) == Unrefer(c, "unrefer", Steps(c, "remove"))

\* The calls that answer for one of these messages no longer can.
Gone(ms, moved) ==
    [b \in Call |-> IF moved[b].msg \in ms THEN [moved[b] EXCEPT !.gone = TRUE] ELSE moved[b]]

RemoveMessage(c) ==
    LET m == calls[c].msg
    IN  /\ At(c, "remove")
        /\ messages' = [messages EXCEPT ![m] = NoMessage]
        /\ calls' = Gone({m}, [calls EXCEPT ![c].pc = "removeRows"])
        /\ UNCHANGED <<deliveries, crashes, revived, broken, contended, mediaVars>>

RemoveRows(c) ==
    LET m == calls[c].msg
    IN  /\ At(c, "removeRows")
        /\ deliveries' = [k \in RowId |-> IF k \in Rows(m) THEN NoRow ELSE deliveries[k]]
        /\ calls' = Gone({m}, [calls EXCEPT ![c] = Idle])
        /\ UNCHANGED <<messages, crashes, revived, broken, contended, mediaVars>>

OtherSteps(c) ==
    \/ AckSave(c) \/ AckCheck(c) \/ AckLoad(c) \/ AckMark(c) \/ SeenSave(c)
    \/ RemoveUnrefer(c) \/ RemoveMessage(c) \/ RemoveRows(c)
-----------------------------------------------------------------------------
(***************************************************************************)
(* cleanupExpiredMessages: uncounts the media of each expired message and  *)
(* deletes the messages; their deliveries stay.                            *)
(***************************************************************************)

ExpiredMessages == {m \in Message : Stored(m) /\ messages[m].expires_at = "past"}

PruneFind ==
    LET rest == {m \in ExpiredMessages : Attached[m] # NoMedia}
    IN  /\ At(Cron, "idle")
        /\ ExpiredMessages # {}
        /\ calls' = [calls EXCEPT ![Cron] = [Idle EXCEPT !.pc = "prune", !.rest = rest,
                                                         !.expired = ExpiredMessages]]
        /\ contended' = contended \cup UNION {Contention(Cron, m) : m \in ExpiredMessages}
        /\ UNCHANGED <<messages, deliveries, crashes, revived, broken, mediaVars>>

Uncounted(m) ==
    /\ calls' = [calls EXCEPT ![Cron].rest = @ \ {m}]
    /\ UNCHANGED <<messages, deliveries, crashes, revived, broken, contended>>

PruneUncount ==
    /\ At(Cron, "prune")
    /\ \E m \in calls[Cron].rest :
          \/ ~Exists(Attached[m]) /\ op[Cron].do = "none" /\ Uncounted(m) /\ UNCHANGED mediaVars
          \/ DecrementLoad(Cron, Attached[m]) /\ UNCHANGED inboxVars
          \/ SaveFind(Cron) /\ UNCHANGED inboxVars
          \/ op[Cron].media = Attached[m] /\ DecrementSave(Cron) /\ Uncounted(m)

\* A slip: only the messages whose media was uncounted are deleted.
PruneCarriers ==
    /\ At(Cron, "prune")
    /\ calls[Cron].rest = {}
    /\ messages' = [m \in Message |-> IF m \in calls[Cron].expired /\ Attached[m] # NoMedia
                                      THEN NoMessage ELSE messages[m]]
    /\ calls' = Gone(calls[Cron].expired, [calls EXCEPT ![Cron] = Idle])
    /\ UNCHANGED <<deliveries, crashes, revived, broken, contended, mediaVars>>

PruneDelete ==
    /\ At(Cron, "prune")
    /\ calls[Cron].rest = {}
    /\ messages' = [m \in Message |-> IF m \in calls[Cron].expired THEN NoMessage
                                      ELSE messages[m]]
    /\ calls' = Gone(calls[Cron].expired, [calls EXCEPT ![Cron] = Idle])
    /\ UNCHANGED <<deliveries, crashes, revived, broken, contended, mediaVars>>

PruneSteps == PruneFind \/ PruneUncount \/ PruneDelete

MessageExpires(m) ==
    /\ Stored(m)
    /\ messages[m].expires_at = "later"
    /\ messages' = [messages EXCEPT ![m].expires_at = "past"]
    /\ UNCHANGED <<deliveries, calls, crashes, revived, broken, contended, mediaVars>>
-----------------------------------------------------------------------------
\* The relay dies and restarts: no call in flight survives.
Crash ==
    LET cut == {c \in Call : ~At(c, "idle")}
        hit == {m \in Message : \E c \in cut : m = calls[c].msg \/ m \in calls[c].expired}
    IN  /\ crashes < MaxCrashes
        /\ crashes' = crashes + 1
        /\ calls' = [c \in Call |-> Idle]
        /\ op' = [c \in Call |-> NoOp]
        /\ sweeper' = [do |-> "idle", pass |-> "expired", rest |-> {}, media |-> NoMedia]
        /\ broken' = broken \cup hit
        /\ contended' = contended \cup ({sweeper.media} \cap MediaId)
                                   \cup {x \in MediaId : \E m \in hit : Attached[m] = x}
        /\ UNCHANGED <<messages, deliveries, revived, media, bucket, age, mixed>>
-----------------------------------------------------------------------------
InboxInit ==
    /\ messages = [m \in Message |-> NoMessage]
    /\ deliveries = [k \in RowId |-> NoRow]
    /\ calls = [c \in Call |-> Idle]
    /\ crashes = 0
    /\ revived = {} /\ broken = {} /\ contended = {}

\* Every media has been uploaded and confirmed by its owner.
UploadedInit ==
    /\ media = [x \in MediaId |-> [state |-> "UPLOADED", reference_count |-> 0,
                                   expires_at |-> "later"]]
    /\ bucket = [x \in MediaId |-> "present"]
    /\ age = [x \in MediaId |-> "old"]
    /\ op = [c \in Call |-> NoOp]
    /\ sweeper = [do |-> "idle", pass |-> "expired", rest |-> {}, media |-> NoMedia]
    /\ mixed = {}

Init == InboxInit /\ UploadedInit

InboxNext ==
    \/ \E c \in Call, m \in Message, d \in Target : QueueCount(c, m, d) \/ AckFind(c, m, d)
    \/ \E c \in Call, m \in Message : SeenLoad(c, m) \/ DeleteFind(c, m)
    \/ \E c \in Call : QueueSteps(c) \/ OtherSteps(c)
    \/ PruneSteps
    \/ \E m \in Message : MessageExpires(m)
    \/ Crash

SweepBegins ==
    /\ SweepStart
    /\ contended' = contended \cup {x \in Due : \E c \in Call : Carries(c, x)}
    /\ UNCHANGED <<messages, deliveries, calls, crashes, revived, broken>>

SweepDeletes(deleted) ==
    /\ SweepRow(deleted)
    /\ contended' = IF deleted THEN contended ELSE contended \cup {sweeper.media}
    /\ UNCHANGED <<messages, deliveries, calls, crashes, revived, broken>>

\* The media worker and its clock, beside the inbox.
MediaWorks ==
    \/ SweepBegins
    \/ \E deleted \in BOOLEAN : SweepDeletes(deleted)
    \/ /\ \/ SweepObject \/ SweepPassEnds
          \/ \E x \in MediaId : DeadlinePasses(x)
       /\ UNCHANGED inboxVars

Next == InboxNext \/ MediaWorks

\* The event loop runs every continuation; the hourly jobs do come.
InboxFairness ==
    /\ \A c \in Call : WF_vars(QueueSteps(c)) /\ WF_vars(OtherSteps(c))
    /\ WF_vars(PruneSteps)

InboxSpec == Init /\ [][InboxNext]_vars

LiveInboxSpec == InboxSpec /\ InboxFairness

Spec == Init /\ [][Next]_vars
-----------------------------------------------------------------------------
(***************************************************************************)
(* Properties.                                                             *)
(***************************************************************************)

\* The last acknowledgement removes: when every delivery of a stored VIEW_ONCE
\* message is acknowledged, some call is on its way to remove it (or, when a
\* retry has just stored it anew, to add a delivery), whatever the devices
\* acknowledge at the same time.  Only a call cut short or a stale save that
\* brings a deleted row back can break this.
LastAckRemoves ==
    \A m \in ViewOnce \ (broken \cup revived) :
        /\ Stored(m)
        /\ Rows(m) # {}
        /\ \A k \in Rows(m) : Acked(k)
        => \E c \in Call : /\ calls[c].msg = m
                           /\ calls[c].pc \in {"check", "load", "unrefer", "remove", "deliver"}

\* As the test "should delete VIEW_ONCE messages" has it: between calls, a
\* VIEW_ONCE message with no delivery left to acknowledge is not stored.
ViewOnceIsDeleted ==
    \A m \in ViewOnce \ broken :
        /\ \A c \in Call : At(c, "idle")
        /\ \A k \in Rows(m) : Acked(k)
        => ~Stored(m)

\* A sender that is told "ok" for a device finds its delivery row in the table
\* until the message is removed, however retries and the calls for the other
\* devices overlap with it; the exception is a call that lost the race for the
\* message row, which adds no delivery of its own, and a lookup for the default
\* device that the ORM takes for any device.
AcceptedIsQueued ==
    \A c \in Call :
        /\ calls[c].pc \in {"push", "pushUpdate", "pushLoad", "pushSave", "answer"}
        /\ ~calls[c].gone /\ ~calls[c].collided
        /\ calls[c].dev = DefaultDevice => ~NullMatches
        => RowsFor(calls[c].msg, {calls[c].dev}) # {}

\* The inbox cap is checked before the insert and not with it: overlapping calls can
\* pass it together, but never by more than their number.  This is so on a relay
\* without Firebase: the update that follows a push (PushUpdate), of the call that
\* stored the message or of one that lost the race to store it, also takes back what
\* has been acknowledged meanwhile and no longer counted.
CapOvershoot ==
    \A d \in Target : Cardinality(Pending(d)) < InboxMax + Cardinality(Call \ {Cron})

\* A message past its expiry does not stay in the inbox.
ExpiredIsPruned ==
    \A m \in Message : m \in ExpiredMessages ~> m \notin ExpiredMessages

CountedNotStored(x) == {c \in Call : /\ calls[c].pc \in {"store", "rollback"}
                                     /\ Attached[calls[c].msg] = x}

StoredNotCounted(x) ==
    {m \in Message :
        /\ Stored(m) /\ Attached[m] = x
        /\ \/ \E c \in Call : calls[c].msg = m /\ At(c, "remove")
           \/ m \in calls[Cron].expired \ calls[Cron].rest}

\* A media's reference count is the number of stored messages that carry it,
\* over any sequence of sends, retries, acknowledgements, deletions, expiries
\* and sweeps, as long as no two calls were at the same media at once and none
\* was cut short.
RefCountExact ==
    \A x \in MediaId \ contended :
        Exists(x) =>
            media[x].reference_count + Cardinality(StoredNotCounted(x)) =
                Cardinality({m \in Message : Stored(m) /\ Attached[m] = x})
                    + Cardinality(CountedNotStored(x))

\* A stored message can show its media: under the same condition neither the
\* row nor the object is swept from under it, unless an earlier sweep was cut
\* short between the two.
MediaOfStoredIsKept ==
    \A m \in Message :
        /\ Stored(m) /\ Attached[m] \in MediaId \ contended
        /\ m \notin StoredNotCounted(Attached[m])
        => Exists(Attached[m]) /\ bucket[Attached[m]] = "present"
=============================================================================
