------------------------------ MODULE SendQueue ------------------------------
(***************************************************************************)
(* The sending side of the client (apps/mobile/lib/features/chat/          *)
(* chat_repository.dart): the box of messages, the persistent queue, the   *)
(* one worker that empties it, and the socket between it and the relay.    *)
(*                                                                         *)
(* A step runs from one await of the client to the next.  The relay keeps  *)
(* what it is given (Inbox.tla has the details) or refuses it.  The queue  *)
(* is sorted by the time of the enqueue, so it is a sequence here.         *)
(***************************************************************************)
EXTENDS Naturals, Sequences

CONSTANTS
    Message,     \* message ids
    Attachment,  \* messages with a file that is uploaded first
    Ghost,       \* messages written in ghost mode, flushed when the chat closes
    System,      \* mode changes and receipts: sent, never kept in the box
    Device,      \* the recipient's devices in the relay's directory
    OwnDevice,   \* the sender's other devices
    NoDevice,    \* target_device_id null: the recipient's inbox
    MaxFaults,   \* bound: disconnections, late or negative answers, crashes
    NoMessage

VARIABLES
    box,         \* Hive box "messages": the sender's copy of each message
    queue,       \* Hive box "offline_send_queue", by timestamp
    uploaded,    \* queue items of status pending_send that once had a file to upload
    composing,   \* sendMessage calls that wait for saveMessage
    worker,      \* processOfflineQueue and the item it is at
    online,      \* the socket is connected and authenticated
    known,       \* messages whose recipient is still in the contacts
    net,         \* message.send requests and their answers
    stored,      \* the deliveries that the relay has stored
    entered,     \* history: the messages in the order they were enqueued
    faults       \* faults so far

clientVars == <<box, queue, uploaded, composing, worker>>

vars == <<clientVars, online, known, net, stored, entered, faults>>

NoRow == [status |-> "none", delivered |-> FALSE, seen |-> FALSE]

Target == Device \cup OwnDevice \cup {NoDevice}

ASSUME SendAssumption ==
    /\ Attachment \subseteq Message /\ Ghost \subseteq Message
    /\ System \subseteq Message \ (Attachment \cup Ghost)
    /\ NoDevice \notin Device \cup OwnDevice /\ Device \cap OwnDevice = {}
    /\ NoMessage \notin Message
    /\ MaxFaults \in Nat

Status == {"PENDING", "UPLOADING", "SENDING", "SENT", "DELIVERED", "SEEN", "FAILED"}

Row == [status : Status, delivered : BOOLEAN, seen : BOOLEAN]

Request == [msg : Message, to : Target, live : BOOLEAN,
            at : {"buffer", "wire", "ok", "error"}]

Step == {"idle", "upload", "address", "wait", "store", "dequeue", "fail"}

Idle == [pc |-> "idle", msg |-> NoMessage, left |-> {}]

Queued == {queue[i] : i \in 1 .. Len(queue)}

Entered == {entered[i] : i \in 1 .. Len(entered)}

\* An item is worked on exactly while its id is in _currentlySendingIds, and it
\* is in the queue until it is settled.
SendTypeOK ==
    /\ box \in [Message -> Row \cup {NoRow}]
    /\ queue \in Seq(Message) /\ entered \in Seq(Message)
    /\ uploaded \subseteq Attachment /\ composing \subseteq Message
    /\ worker \in [pc : Step, msg : Message \cup {NoMessage}, left : SUBSET Target]
    /\ worker.pc = "idle" <=> worker.msg = NoMessage
    /\ worker.pc # "idle" => worker.msg \in Queued
    /\ online \in BOOLEAN
    /\ known \subseteq Message
    /\ net \subseteq Request
    /\ stored \subseteq Message \X Target
    /\ faults \in 0 .. MaxFaults

Init ==
    /\ box = [m \in Message |-> NoRow]
    /\ queue = <<>> /\ entered = <<>>
    /\ uploaded = {} /\ composing = {}
    /\ worker = Idle
    /\ online = FALSE
    /\ known = Message
    /\ net = {} /\ stored = {}
    /\ faults = 0

Fault == faults < MaxFaults /\ faults' = faults + 1

\* A slip: the new row is written whatever the old one says.
AlwaysSetStatus(b, m, s) ==
    IF b[m] = NoRow THEN b
    ELSE [b EXCEPT ![m] = [status |-> s, delivered |-> FALSE, seen |-> FALSE]]

\* _updateMessageStatus: the row is replaced by a new Message, which carries
\* neither deliveredAt nor seenAt.
SetStatus(b, m, s) ==
    IF \/ b[m] = NoRow \/ b[m].seen
       \/ b[m].delivered /\ s \in {"SENT", "SENDING", "PENDING"}
    THEN b
    ELSE [b EXCEPT ![m] = [status |-> s, delivered |-> FALSE, seen |-> FALSE]]

\* _getMessageStatusString
StatusString(row) ==
    CASE row.seen -> "SEEN"
      [] row.delivered -> "DELIVERED"
      [] row.status = "SENT" -> "SENT"
      [] OTHER -> "PENDING"

ToUpload(m) == m \in Attachment \ uploaded

\* A slip: the sort puts the newest item first.
NewestFirst(q) == q[Len(q)]

First(q) == q[1]

Halt(b) == worker' = Idle /\ box' = b

\* _processQueueItem up to its first await.
Take(q, b) ==
    LET m == First(q)
    IN  /\ worker' = [Idle EXCEPT !.pc = IF ToUpload(m) THEN "upload" ELSE "address",
                                  !.msg = m]
        /\ box' = SetStatus(b, m, IF ToUpload(m) THEN "UPLOADING" ELSE "SENDING")

\* A slip: the loop ends with its first item.
StopAfterOne(q) == Halt(box)

\* The loop of processOfflineQueue takes the oldest item, or ends.
TakeNext(q) == IF q # <<>> /\ online THEN Take(q, box) ELSE Halt(box)

\* processOfflineQueue: nothing happens while another call of it is running.
Trigger(q, connected) ==
    IF worker.pc = "idle" /\ q # <<>> /\ connected
    THEN Take(q, box)
    ELSE UNCHANGED <<worker, box>>

-----------------------------------------------------------------------------
\* sendMessage, and the placeholder of a media message: the user sees the
\* message from here on.
SaveMessage(m) ==
    /\ m \notin composing \cup Entered /\ box[m] = NoRow
    /\ composing' = composing \cup {m}
    /\ box' = IF m \in System THEN box
              ELSE [box EXCEPT ![m] = [NoRow EXCEPT !.status = "PENDING"]]
    /\ UNCHANGED <<queue, uploaded, worker, online, known, net, stored, entered, faults>>

\* The save has returned: the item goes into the queue and the worker is called.
Enqueue(m) ==
    /\ m \in composing
    /\ composing' = composing \ {m}
    /\ queue' = Append(queue, m)
    /\ entered' = Append(entered, m)
    /\ Trigger(queue', online)
    /\ UNCHANGED <<uploaded, online, known, net, stored, faults>>

At(pc) == worker.pc = pc

Go(pc) == worker' = [worker EXCEPT !.pc = pc]

\* uploadMedia succeeded: the item becomes pending_send.  A contact lost during
\* the upload is missed now or by the next step, with the same end.
UploadDone ==
    /\ At("upload")
    /\ worker.msg \in known
    /\ uploaded' = uploaded \cup {worker.msg}
    /\ Go("address")
    /\ box' = SetStatus(box, worker.msg, "SENDING")
    /\ UNCHANGED <<queue, composing, online, known, net, stored, entered, faults>>

\* The upload breaks off, or there is no active relay.
UploadBreaks ==
    /\ At("upload")
    /\ Fault
    /\ Halt(SetStatus(box, worker.msg, "PENDING"))
    /\ UNCHANGED <<queue, uploaded, composing, online, known, net, stored, entered>>

\* The file or the contact is gone, or the relay rejects the upload for good.
UploadFails ==
    /\ At("upload")
    /\ Go("fail")
    /\ box' = SetStatus(box, worker.msg, "FAILED")
    /\ UNCHANGED <<queue, uploaded, composing, online, known, net, stored, entered, faults>>

\* The recipient is no longer a contact: "Missing recipient public key".
AddressFails ==
    /\ At("address")
    /\ worker.msg \notin known
    /\ Go("fail")
    /\ box' = SetStatus(box, worker.msg, "FAILED")
    /\ UNCHANGED <<queue, uploaded, composing, online, known, net, stored, entered, faults>>

\* getDevices answers with the directory's devices, or with none when it is
\* late or the socket is down.
Recipients == IF online THEN {Device, {}} ELSE {{}}

Others == IF online THEN {OwnDevice, {}} ELSE {{}}

Emit(m, t) ==
    net' = net \cup {[msg |-> m, to |-> t, live |-> TRUE,
                      at |-> IF online THEN "wire" ELSE "buffer"]}

\* The message is encrypted and addressed, and the first request goes out.
Address ==
    /\ At("address")
    /\ worker.msg \in known
    /\ \E r \in Recipients, o \in Others :
           LET targets == o \cup IF r = {} THEN {NoDevice} ELSE r
           IN  \E t \in targets :
                   /\ Emit(worker.msg, t)
                   /\ worker' = [worker EXCEPT !.pc = "wait", !.left = targets \ {t}]
    /\ UNCHANGED <<box, queue, uploaded, composing, online, known, stored, entered, faults>>

\* The relay stores the message for the device; a repeated request finds it there.
RelayStores(r) ==
    /\ r \in net /\ r.at = "wire"
    /\ stored' = stored \cup {<<r.msg, r.to>>}
    /\ net' = (net \ {r}) \cup IF r.live THEN {[r EXCEPT !.at = "ok"]} ELSE {}
    /\ UNCHANGED <<clientVars, online, known, entered, faults>>

\* A rate limit, a full inbox, a database error.
RelayRefuses(r) ==
    /\ r \in net /\ r.at = "wire"
    /\ Fault
    /\ net' = (net \ {r}) \cup IF r.live THEN {[r EXCEPT !.at = "error"]} ELSE {}
    /\ UNCHANGED <<clientVars, online, known, stored, entered>>

\* The acknowledgement completes the completer; the next target, or all sent.
AnswerOk(r) ==
    /\ r \in net /\ r.at = "ok" /\ At("wait") /\ online
    /\ \/ /\ worker.left = {}
          /\ Go("store")
          /\ net' = net \ {r}
       \/ \E t \in worker.left :
             /\ worker' = [worker EXCEPT !.left = @ \ {t}]
             /\ net' = (net \ {r}) \cup {[msg |-> worker.msg, to |-> t, live |-> TRUE,
                                          at |-> "wire"]}
    /\ UNCHANGED <<box, queue, uploaded, composing, online, known, stored, entered, faults>>

\* A transient failure halts the queue; the item stays.
AnswerError(r) ==
    /\ r \in net /\ r.at = "error" /\ At("wait") /\ online
    /\ net' = net \ {r}
    /\ Halt(box)
    /\ UNCHANGED <<queue, uploaded, composing, online, known, stored, entered, faults>>

\* The request that is waited for; it may have been lost with a connection.
Awaited == {r \in net : r.live}

\* Nobody waits any more for these requests; one that is stored already would
\* change nothing.
Stale(requests) ==
    {[r EXCEPT !.live = FALSE] :
        r \in {q \in requests : q.at \in {"buffer", "wire"} /\ <<q.msg, q.to>> \notin stored}}

\* A slip: a late answer counts as a positive one.
TimeoutIsSuccess ==
    /\ At("wait")
    /\ IF Awaited = {} THEN UNCHANGED faults ELSE Fault
    /\ net' = Stale(net)
    /\ Go("store") /\ UNCHANGED box
    /\ UNCHANGED <<queue, uploaded, composing, online, known, stored, entered>>

\* A slip: the id is not taken off _currentlySendingIds.
TimeoutKeepsId ==
    /\ At("wait")
    /\ IF Awaited = {} THEN UNCHANGED faults ELSE Fault
    /\ net' = Stale(net)
    /\ Go("idle") /\ UNCHANGED box
    /\ UNCHANGED <<queue, uploaded, composing, online, known, stored, entered>>

\* Ten seconds without an answer: the queue halts, the request may still arrive.
Timeout ==
    /\ At("wait")
    /\ IF Awaited = {} THEN UNCHANGED faults ELSE Fault
    /\ net' = Stale(net)
    /\ Halt(box)
    /\ UNCHANGED <<queue, uploaded, composing, online, known, stored, entered>>

\* All targets have it: the row is written anew with what is known by now.  A
\* row that was flushed meanwhile comes back.
StoreSent ==
    /\ At("store")
    /\ LET m == worker.msg
           row == box[m]
       IN  box' = IF m \in System THEN box
                  ELSE IF row = NoRow
                       THEN [box EXCEPT ![m] = [NoRow EXCEPT !.status = "SENT"]]
                       ELSE [box EXCEPT ![m].status = StatusString(row)]
    /\ Go("dequeue")
    /\ UNCHANGED <<queue, uploaded, composing, online, known, net, stored, entered, faults>>

\* The settled item is removed and the loop goes on.
Dequeue ==
    /\ At("dequeue") \/ At("fail")
    /\ \E i \in 1 .. Len(queue) :
          /\ queue[i] = worker.msg
          /\ queue' = SubSeq(queue, 1, i - 1) \o SubSeq(queue, i + 1, Len(queue))
    /\ uploaded' = uploaded \ {worker.msg}
    /\ TakeNext(queue')
    /\ UNCHANGED <<composing, online, known, net, stored, entered, faults>>

-----------------------------------------------------------------------------
\* message.status_update: the recipient acknowledged or opened what the relay
\* has stored for it.
StatusUpdate(m, s) ==
    /\ online
    /\ \E t \in Device \cup {NoDevice} : <<m, t>> \in stored
    /\ box[m] # NoRow
    /\ IF s = "SEEN" THEN ~box[m].seen ELSE ~box[m].delivered
    /\ box' = [box EXCEPT ![m].delivered = TRUE, ![m].seen = @ \/ s = "SEEN"]
    /\ UNCHANGED <<queue, uploaded, composing, worker, online, known, net, stored, entered,
                   faults>>

\* flushGhostMessages: the row goes, the queue is not looked at.
FlushGhost(m) ==
    /\ m \in Ghost /\ box[m] # NoRow
    /\ box' = [box EXCEPT ![m] = NoRow]
    /\ UNCHANGED <<queue, uploaded, composing, worker, online, known, net, stored, entered,
                   faults>>

\* The recipient is blocked or deleted while the message waits.
ForgetContact(m) ==
    /\ m \in known \cap Queued
    /\ known' = known \ {m}
    /\ UNCHANGED <<clientVars, online, net, stored, entered, faults>>

\* onConnect: the socket flushes its buffer and identity.verified triggers the queue.
Connect ==
    /\ ~online
    /\ online' = TRUE
    /\ net' = {[r EXCEPT !.at = IF @ = "buffer" THEN "wire" ELSE @] : r \in net}
    /\ Trigger(queue, TRUE)
    /\ UNCHANGED <<queue, uploaded, composing, known, stored, entered, faults>>

\* Requests under way reach the relay or not; its answers are lost.
Disconnect ==
    /\ online
    /\ Fault
    /\ online' = FALSE
    /\ net' \in SUBSET {r \in net : r.at = "wire"}
    /\ UNCHANGED <<clientVars, known, stored, entered>>

\* flushAllGhosts
GhostsFlushed == [m \in Message |-> IF m \in Ghost THEN NoRow ELSE box[m]]

\* The app is killed and started again.  What Hive has written is still there;
\* init flushes the ghosts, and its call of the worker finds no socket.
Restart ==
    /\ Fault
    /\ box' = GhostsFlushed
    /\ online' = FALSE
    /\ worker' = Idle
    /\ composing' = {}
    /\ net' \in SUBSET Stale({r \in net : r.at = "wire"})
    /\ UNCHANGED <<queue, uploaded, known, stored, entered>>

WorkerStep ==
    \/ UploadDone \/ UploadBreaks \/ UploadFails
    \/ AddressFails \/ Address \/ Timeout \/ StoreSent \/ Dequeue
    \/ \E r \in net : AnswerOk(r) \/ AnswerError(r)

Next ==
    \/ \E m \in Message : SaveMessage(m) \/ Enqueue(m) \/ FlushGhost(m) \/ ForgetContact(m)
    \/ \E m \in Message, s \in {"DELIVERED", "SEEN"} : StatusUpdate(m, s)
    \/ \E r \in net : RelayStores(r) \/ RelayRefuses(r)
    \/ WorkerStep
    \/ Connect \/ Disconnect \/ Restart

\* The event loop runs every continuation whose answer is there, and the relay
\* handles what reaches it.  No step of the user, no new connection and no
\* second answer is taken for granted.
Fairness ==
    /\ WF_vars(WorkerStep)
    /\ WF_vars(\E r \in net : RelayStores(r))

Spec == Init /\ [][Next]_vars /\ Fairness
-----------------------------------------------------------------------------
\* The recipient's part of the message is with the relay.
Covered(m) ==
    (\A d \in Device : <<m, d>> \in stored) \/ <<m, NoDevice>> \in stored

\* Nothing is lost in silence: what has been enqueued is still in the queue, or
\* with the relay for every device the sender was told of, or shows FAILED.
\* Retries, lost answers and restarts come between.  A row that is gone was
\* flushed by the user, a system message has none, and a message that one device
\* has SEEN keeps that tick when the retry for another device fails for good.
NothingLost ==
    \A m \in Entered \ Queued :
        Covered(m) \/ box[m] = NoRow \/ box[m].status = "FAILED" \/ box[m].seen

\* The relay gets the messages in the order they were enqueued: none is stored
\* while an earlier one is still waiting for its turn or for a retry.
InOrder ==
    \A i, j \in 1 .. Len(entered) :
        i < j /\ (\E t \in Target : <<entered[j], t>> \in stored) => entered[i] \notin Queued

\* The queue as the user sees it from outside.
Promise == INSTANCE Outbox WITH Place <- Target, waiting <- queue,
                                left <- Entered \ Queued, arrived <- stored

\* Whatever is retried, late, lost or repeated, and however often the app is
\* restarted, the queue implements an outbox: one message after the other leaves it,
\* in the order of the sends, and what reaches the relay is never of a message whose
\* turn has not come.
IsOutbox == Promise!Spec

\* "Don't downgrade status if it is already DELIVERED or SEEN": a retry of a
\* message that has arrived after all leaves its ticks alone, unless the retry
\* fails for good.
TicksStay ==
    [][\A m \in Message :
          /\ box[m].seen => box'[m].seen \/ box'[m] = NoRow
          /\ box[m].delivered =>
                 box'[m].delivered \/ box'[m].status = "FAILED" \/ box'[m] = NoRow]_vars

\* Nothing goes wrong any more, and the awaited request is not lost or refused.
Undisturbed ==
    /\ faults = MaxFaults /\ online /\ worker.pc # "idle"
    /\ At("wait") => \E r \in Awaited : r.at # "error"

\* One undisturbed run of the worker empties the queue: an item that fails does
\* not stop the others, and none is skipped.
RunDrainsQueue == queue # <<>> /\ Undisturbed ~> queue = <<>>
=============================================================================
