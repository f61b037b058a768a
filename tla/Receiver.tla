------------------------------ MODULE Receiver ------------------------------
(***************************************************************************)
(* The receiving side of the client (chat_repository.dart, websocket_      *)
(* service.dart, the push handler in main.dart) and the rows of one device *)
(* in the relay's inbox.  The socket's callbacks do not wait for each      *)
(* other, so several processEnvelopes run at once, interleaved at their    *)
(* awaits, over the same Hive boxes.                                       *)
(*                                                                         *)
(* A message is named by its timestamp, the sender's clock, by which the   *)
(* relay sorts and the client keeps its watermark; messages reach the      *)
(* relay in any order.  Decryption, contacts and the block list decide     *)
(* what becomes of an envelope: see Kind.                                  *)
(***************************************************************************)
EXTENDS Naturals

CONSTANTS
    Message,     \* timestamps of the messages for this device
    Run,         \* bound: processEnvelopes calls at once
    Kinds,       \* what the envelopes may turn out to be, together
    PushEnabled, \* Firebase wakes a killed app
    MaxFaults,   \* bound: disconnections, kills, failed queries, lost acknowledgements
    NoMessage

VARIABLES
    kind,        \* what each envelope turns out to be
    row,         \* message_delivery of this device
    due,         \* stored by queueMessage and not emitted yet
    mode,        \* the process: killed, the app, or the push handler
    online,      \* socket connected and authenticated
    wire,        \* message.receive and inbox.messages under way
    fetches,     \* inbox.fetch under way, by their since
    box,         \* Hive box "messages"
    processed,   \* Hive box "processed_envelopes"
    lastSync,    \* the watermark in "sync_metadata"
    notified,    \* the flags notified_<id> in "sync_metadata"
    runs,        \* the processEnvelopes calls
    push,        \* the push handler: the message it was woken for, and whether it has synced
    shown,       \* history: messages the app has shown a notification for, or was
                 \* woken for by a push, which shows one
    seen,        \* history: messages told SEEN that are not in the box
    blind,       \* history: messages the push handler acknowledged without having them
    withheld,    \* history: messages left out of an inbox, which was not asked for since
    faults

relayVars == <<kind, row, due>>
netVars == <<online, wire, fetches>>
storeVars == <<box, processed, lastSync, notified>>
history == <<shown, seen, blind, withheld>>

vars == <<relayVars, mode, netVars, storeVars, runs, push, history, faults>>

\* A message for the chat; a mode change or receipt; an envelope that is acknowledged
\* and dropped: broken, from a blocked sender, or a stranger's attachment.
Kind == {"chat", "system", "dropped"}

ASSUME ReceiveAssumption ==
    /\ Message \subseteq Nat \ {0} /\ Run \subseteq Nat
    /\ Kinds \subseteq [Message -> Kind]
    /\ PushEnabled \in BOOLEAN
    /\ MaxFaults \in Nat
    /\ NoMessage \notin Message

\* What comes over the socket: one message, or an inbox, the oldest message first.
Batch == [msgs : SUBSET Message, fetched : BOOLEAN]

RunStep == {"idle", "next", "save", "notify", "show", "mark", "ack"}

IdleRun == [pc |-> "idle", todo |-> {}, fetched |-> FALSE, active |-> FALSE]

NoPush == [msg |-> NoMessage, synced |-> FALSE]

RelayTypeOK ==
    /\ kind \in [Message -> Kind]
    /\ row \in [Message -> {"none", "pending", "acknowledged"}]
    /\ due \subseteq Message

\* Nothing is under way without a connection.
NetTypeOK ==
    /\ online \in BOOLEAN
    /\ wire \subseteq Batch
    /\ fetches \subseteq Nat
    /\ ~online => wire = {} /\ fetches = {}

StoreTypeOK ==
    /\ box \subseteq Message /\ processed \subseteq Message /\ notified \subseteq Message
    /\ lastSync \in Message \cup {0}

\* The push handler runs only without the app, nothing runs in a killed process,
\* and a run has a message in hand.
ProcessTypeOK ==
    /\ mode \in {"killed", "app", "push"}
    /\ push \in [msg : Message \cup {NoMessage}, synced : BOOLEAN]
    /\ push.msg # NoMessage <=> mode = "push"
    /\ runs \in [Run -> [pc : RunStep, todo : SUBSET Message, fetched : BOOLEAN,
                         active : BOOLEAN]]
    /\ \A r \in Run : runs[r].pc # "idle" => runs[r].todo # {}
    /\ mode = "killed" => ~online /\ \A r \in Run : runs[r] = IdleRun

HistoryTypeOK ==
    /\ shown \subseteq Message /\ seen \subseteq Message
    /\ blind \subseteq Message /\ withheld \subseteq Message
    /\ faults \in 0 .. MaxFaults

ReceiveTypeOK ==
    RelayTypeOK /\ NetTypeOK /\ StoreTypeOK /\ ProcessTypeOK /\ HistoryTypeOK

Init ==
    /\ kind \in Kinds
    /\ row = [m \in Message |-> "none"] /\ due = {}
    /\ mode = "killed"
    /\ online = FALSE /\ wire = {} /\ fetches = {}
    /\ box = {}
    /\ processed = {} /\ lastSync = 0 /\ notified = {}
    /\ runs = [r \in Run |-> IdleRun]
    /\ push = NoPush
    /\ shown = {} /\ seen = {} /\ blind = {} /\ withheld = {}
    /\ faults = 0

Fault == faults < MaxFaults /\ faults' = faults + 1

-----------------------------------------------------------------------------
\* message.send: queueMessage has stored a message for this device.
Store(m) ==
    /\ row[m] = "none"
    /\ row' = [row EXCEPT ![m] = "pending"]
    /\ due' = due \cup {m}
    /\ UNCHANGED <<kind, mode, netVars, storeVars, runs, push, history, faults>>

\* The sender has not got its answer and sends the message once more, which
\* queueMessage finds there.
StoreAgain(m) ==
    /\ row[m] # "none" /\ m \notin due
    /\ Fault
    /\ due' = due \cup {m}
    /\ UNCHANGED <<kind, row, mode, netVars, storeVars, runs, push, history>>

\* After queueMessage the gateway emits message.receive to whoever is connected.
Emit(m) ==
    /\ m \in due
    /\ due' = due \ {m}
    /\ wire' = IF online THEN wire \cup {[msgs |-> {m}, fetched |-> FALSE]} ELSE wire
    /\ UNCHANGED <<kind, row, mode, online, fetches, storeVars, runs, push, history, faults>>

Pending == {m \in Message : row[m] = "pending"}

\* A slip: the watermark is applied to the pending messages as well.
InboxAfter(since) ==
    IF Pending # {} THEN {m \in Pending : m > since}
    ELSE {m \in Message : row[m] # "none" /\ m > since}

\* fetchMessages: what is pending, or else what is newer than the watermark.
InboxOf(since) ==
    IF Pending # {} THEN Pending ELSE {m \in Message : row[m] # "none" /\ m > since}

Answer(since) ==
    /\ since \in fetches
    /\ fetches' = fetches \ {since}
    /\ wire' = wire \cup {[msgs |-> InboxOf(since), fetched |-> TRUE]}
    /\ UNCHANGED <<relayVars, mode, online, storeVars, runs, push, history,
                   faults>>

\* An error in fetchMessages is answered with an empty inbox, which the client takes
\* for what it is told; it asks again when it connects or resumes.
AnswerFails(since) ==
    /\ since \in fetches
    /\ Fault
    /\ fetches' = fetches \ {since}
    /\ wire' = wire \cup {[msgs |-> {}, fetched |-> TRUE]}
    /\ withheld' = withheld \cup Pending
    /\ UNCHANGED <<relayVars, mode, online, storeVars, runs, push, shown, seen, blind>>

-----------------------------------------------------------------------------
\* A callback of the socket calls processEnvelopes.
Deliver(b, r) ==
    /\ b \in wire
    /\ runs[r].pc = "idle" /\ \A q \in Run : q < r => runs[q].pc # "idle"
    /\ b.msgs # {}
    /\ wire' = wire \ {b}
    /\ runs' = [runs EXCEPT ![r] = [pc |-> "next", todo |-> b.msgs, fetched |-> b.fetched,
                                    active |-> FALSE]]
    /\ UNCHANGED <<relayVars, mode, online, fetches, storeVars, push, history, faults>>

\* An empty inbox: nothing to process, and the push handler has synced.
DeliverNothing(b) ==
    /\ b \in wire
    /\ b.msgs = {}
    /\ wire' = wire \ {b}
    /\ push' = [push EXCEPT !.synced = (mode = "push")]
    /\ UNCHANGED <<relayVars, mode, online, fetches, storeVars, runs, history, faults>>

Current(r) == CHOOSE m \in runs[r].todo : \A n \in runs[r].todo : m <= n

At(r, pc) == runs[r].pc = pc

Go(r, pc) == runs' = [runs EXCEPT ![r].pc = pc]

More(r) == At(r, "next")

\* A slip: an envelope that another run is at counts as seen before.
SkipInWork(r) ==
    /\ More(r)
    /\ \/ Current(r) \in processed \/ kind[Current(r)] = "dropped"
       \/ \E q \in Run : q # r /\ At(q, "save") /\ Current(q) = Current(r)
    /\ Go(r, "ack")
    /\ UNCHANGED <<relayVars, mode, netVars, storeVars, push, history, faults>>

\* An envelope seen before, or one to be dropped, is only acknowledged.
Skip(r) ==
    /\ More(r)
    /\ Current(r) \in processed \/ kind[Current(r)] = "dropped"
    /\ Go(r, "ack")
    /\ UNCHANGED <<relayVars, mode, netVars, storeVars, push, history, faults>>

\* A mode change or a receipt takes effect and is never saved.
ApplySystem(r) ==
    /\ More(r)
    /\ Current(r) \notin processed /\ kind[Current(r)] = "system"
    /\ Go(r, "mark")
    /\ UNCHANGED <<relayVars, mode, netVars, storeVars, push, history, faults>>

\* A slip: the message is marked as processed before it is saved.
OpenAndMark(r) ==
    /\ More(r)
    /\ Current(r) \notin processed /\ kind[Current(r)] = "chat"
    /\ processed' = processed \cup {Current(r)}
    /\ \E active \in IF mode = "app" THEN BOOLEAN ELSE {FALSE} :
          /\ runs' = [runs EXCEPT ![r].pc = "save", ![r].active = active]
          /\ seen' = IF active /\ online THEN seen \cup ({Current(r)} \ box) ELSE seen
    /\ UNCHANGED <<relayVars, mode, netVars, box, lastSync, notified, push, shown, blind, withheld,
                   faults>>

\* A chat message is opened: if its conversation is on the screen just now, the
\* sender is told at once that it has been seen.
OpenChat(r) ==
    /\ More(r)
    /\ Current(r) \notin processed /\ kind[Current(r)] = "chat"
    /\ \E active \in IF mode = "app" THEN BOOLEAN ELSE {FALSE} :
          /\ runs' = [runs EXCEPT ![r].pc = "save", ![r].active = active]
          /\ seen' = IF active /\ online THEN seen \cup ({Current(r)} \ box) ELSE seen
    /\ UNCHANGED <<relayVars, mode, netVars, storeVars, push, shown, blind, withheld,
                   faults>>

\* The conversation state is saved; the message goes into the box, in the place
\* of one that another run has put there.
Save(r) ==
    /\ At(r, "save")
    /\ box' = box \cup {Current(r)}
    /\ seen' = seen \ {Current(r)}
    /\ Go(r, "notify")
    /\ UNCHANGED <<relayVars, mode, netVars, processed, lastSync, notified, push, shown, blind,
                   withheld, faults>>

Wanted(r) == ~runs[r].active /\ ~runs[r].fetched /\ Current(r) \notin notified

\* A slip: the notification is shown and then flagged.
FlagAfterShowing(r) ==
    /\ At(r, "notify")
    /\ runs' = [runs EXCEPT ![r].pc = IF Wanted(r) THEN "show" ELSE "mark", ![r].active = FALSE]
    /\ UNCHANGED notified
    /\ UNCHANGED <<relayVars, mode, netVars, box, processed, lastSync, push,
                   history, faults>>

\* The flag is read and written without an await in between.
FlagNotified(r) ==
    /\ At(r, "notify")
    /\ runs' = [runs EXCEPT ![r].pc = IF Wanted(r) THEN "show" ELSE "mark", ![r].active = FALSE]
    /\ notified' = IF Wanted(r) THEN notified \cup {Current(r)} ELSE notified
    /\ UNCHANGED <<relayVars, mode, netVars, box, processed, lastSync, push,
                   history, faults>>

ShowNotification(r) ==
    /\ At(r, "show")
    /\ shown' = shown \cup {Current(r)}
    /\ Go(r, "mark")
    /\ UNCHANGED <<relayVars, mode, netVars, storeVars, push, seen, blind, withheld, faults>>

\* _markProcessed
MarkProcessed(r) ==
    /\ At(r, "mark")
    /\ processed' = processed \cup {Current(r)}
    /\ lastSync' = IF Current(r) > lastSync THEN Current(r) ELSE lastSync
    /\ Go(r, "ack")
    /\ UNCHANGED <<relayVars, mode, netVars, box, notified, push, history,
                   faults>>

\* On to the next envelope; after the last one the push handler knows that its
\* inbox has been synced.
NextEnvelope(r) ==
    IF runs[r].todo # {Current(r)}
    THEN /\ runs' = [runs EXCEPT ![r].pc = "next", ![r].todo = @ \ {Current(r)}]
         /\ UNCHANGED push
    ELSE /\ runs' = [runs EXCEPT ![r] = IdleRun]
         /\ push' = [push EXCEPT !.synced = @ \/ (mode = "push" /\ runs[r].fetched)]

\* sendDeliveryReceipt, over the socket.  Without one, and after three seconds, it
\* goes on to _sendDeliveryReceiptHttp, which calls what the identity does not have
\* (signChallenge, deviceId), catches the error and sends nothing; its result is not
\* looked at.
Acknowledge(r) ==
    /\ At(r, "ack")
    /\ row' = IF online THEN [row EXCEPT ![Current(r)] = "acknowledged"] ELSE row
    /\ NextEnvelope(r)
    /\ UNCHANGED <<kind, due, mode, netVars, storeVars, history, faults>>

AcknowledgementLost(r) ==
    /\ At(r, "ack") /\ online
    /\ Fault
    /\ NextEnvelope(r)
    /\ UNCHANGED <<relayVars, mode, netVars, storeVars, history>>

-----------------------------------------------------------------------------
\* A slip: a new connection fetches nothing.
ConnectOnly ==
    /\ mode # "killed" /\ ~online
    /\ online' = TRUE
    /\ UNCHANGED <<relayVars, mode, wire, fetches, storeVars, runs, push,
                   history, faults>>

\* onConnect: identity.verified fetches the inbox.
Connect ==
    /\ mode # "killed" /\ ~online
    /\ online' = TRUE
    /\ fetches' = fetches \cup {lastSync}
    /\ withheld' = {}
    /\ UNCHANGED <<relayVars, mode, wire, storeVars, runs, push, shown, seen, blind, faults>>

\* didChangeAppLifecycleState(resumed): sync() fetches the inbox again.  Bounded with
\* the faults, except after a query that has failed.
Resume ==
    /\ mode = "app" /\ online
    /\ Fault \/ (withheld # {} /\ UNCHANGED faults)
    /\ fetches' = fetches \cup {lastSync}
    /\ withheld' = {}
    /\ UNCHANGED <<relayVars, mode, online, wire, storeVars, runs, push, shown, seen, blind>>

Disconnect ==
    /\ online
    /\ Fault
    /\ online' = FALSE /\ wire' = {} /\ fetches' = {}
    /\ UNCHANGED <<relayVars, mode, storeVars, runs, push, history>>

\* A slip: the push handler leaves its socket open.
EndsConnected ==
    /\ mode' = "killed"
    /\ UNCHANGED netVars
    /\ runs' = [r \in Run |-> IdleRun]
    /\ push' = NoPush

\* The process ends: only what Hive holds is left.
Ends ==
    /\ mode' = "killed"
    /\ online' = FALSE /\ wire' = {} /\ fetches' = {}
    /\ runs' = [r \in Run |-> IdleRun]
    /\ push' = NoPush

Kill ==
    /\ mode = "app"
    /\ Fault
    /\ Ends
    /\ UNCHANGED <<relayVars, storeVars, history>>

Start ==
    /\ mode = "killed"
    /\ mode' = "app"
    /\ UNCHANGED <<relayVars, netVars, storeVars, runs, push, history, faults>>

\* A push for m, however late, wakes the killed app.  The system has shown its
\* notification; firebaseMessagingBackgroundHandler flags the message.
WakeUp(m) ==
    /\ PushEnabled
    /\ mode = "killed" /\ row[m] # "none"
    /\ mode' = "push"
    /\ push' = [NoPush EXCEPT !.msg = m]
    /\ notified' = notified \cup {m}
    /\ shown' = shown \cup {m}
    /\ UNCHANGED <<relayVars, netVars, box, processed, lastSync, runs, seen, blind, withheld,
                   faults>>

\* The inbox has been synced, or given up, and the grace period is over.
HandlerDone ==
    /\ mode = "push" /\ push.synced
    /\ Ends
    /\ UNCHANGED <<relayVars, storeVars, history, faults>>

\* Five seconds have passed without a sync: the message of the push is acknowledged,
\* if there is a socket to do it over, whether it has been processed or not.
HandlerGivesUp ==
    /\ mode = "push" /\ ~push.synced
    /\ Fault
    /\ \/ /\ online
          /\ row' = [row EXCEPT ![push.msg] = "acknowledged"]
          /\ blind' = blind \cup ({push.msg} \ processed)
       \/ UNCHANGED <<row, blind>>
    /\ push' = [push EXCEPT !.synced = TRUE]
    /\ UNCHANGED <<kind, due, mode, netVars, storeVars, runs, shown, seen, withheld>>

RunStepOf(r) ==
    \/ Skip(r) \/ ApplySystem(r) \/ OpenChat(r) \/ Save(r)
    \/ FlagNotified(r) \/ ShowNotification(r) \/ MarkProcessed(r) \/ Acknowledge(r)

RelayStep == (\E m \in Message : Emit(m)) \/ (\E since \in fetches : Answer(since))

RelayFault == \E since \in fetches : AnswerFails(since)

ClientStep ==
    \/ \E b \in wire : DeliverNothing(b) \/ \E r \in Run : Deliver(b, r)
    \/ \E r \in Run : RunStepOf(r)

Next ==
    \/ \E m \in Message : Store(m) \/ StoreAgain(m) \/ WakeUp(m)
    \/ RelayStep \/ RelayFault
    \/ ClientStep
    \/ \E r \in Run : AcknowledgementLost(r)
    \/ Connect \/ Resume \/ Disconnect
    \/ Kill \/ Start \/ HandlerDone \/ HandlerGivesUp

\* The event loops of the relay and of the client run something while anything is
\* ready, the socket reconnects by itself, and the user starts the app again.
Fairness ==
    /\ WF_vars(RelayStep)
    /\ WF_vars(ClientStep)
    /\ WF_vars(Connect)
    /\ WF_vars(Start)
    /\ WF_vars(HandlerDone)

Spec == Init /\ [][Next]_vars /\ Fairness
-----------------------------------------------------------------------------
Handled(m) ==
    CASE kind[m] = "chat" -> m \in box
      [] kind[m] = "system" -> m \in processed
      [] OTHER -> TRUE

\* The relay forgets a message once it is acknowledged, so the acknowledgement
\* comes after the message is safe on the device: at whatever await the app is
\* killed and however runs overlap.  Left out is what the push handler
\* acknowledges blindly.
AckedIsHandled == \A m \in Message \ blind : row[m] = "acknowledged" => Handled(m)

\* A restart cannot find a message marked as processed that it does not hold:
\* such a message would be acknowledged unseen at its next delivery.
ProcessedIsSaved ==
    \A m \in processed : kind[m] = "chat" => m \in box

\* However often a message arrives, in however many runs and over however many
\* restarts, the app shows no notification for a message that it has shown one for,
\* nor for one whose push has woken it.  The system shows one for every push of its
\* own, whatever the app has shown before: that is not counted.
AppNotifiesOnce == \A r \in Run : At(r, "show") => Current(r) \notin shown

\* Every message the relay holds for the device gets there in the end, unless an error
\* at the relay has kept it from the inbox that was asked for last: the client asks
\* again when it connects or resumes, and nothing makes a connected client do either.
EventuallyHandled ==
    \A m \in Message :
        row[m] = "pending" ~> Handled(m) \/ m \in blind \/ m \in withheld

\* SEEN is told before the message is saved; a kill in between is made good by
\* the redelivery, unless the message is left out of the inbox that was asked for last.
SeenIsSaved ==
    \A m \in Message : m \in seen ~> m \in box \/ m \in blind \/ m \in withheld
=============================================================================
