--------------------------- MODULE SendQueueProofs ---------------------------
(***************************************************************************)
(* Theorems about the client's send queue, for any messages, devices and   *)
(* number of faults: its state keeps its shape, the relay gets the         *)
(* messages in order, the queue implements an outbox, nothing is lost in   *)
(* silence, and no retry takes a tick back.                                *)
(***************************************************************************)
EXTENDS SendQueue, TLAPS

\* A message enters once.
EnteredOnce ==
    /\ \A i, j \in 1 .. Len(entered) : entered[i] = entered[j] => i = j
    /\ composing \cap Entered = {}

\* The queue is the end of what has entered.
Behind == Len(entered) - Len(queue)

QueueIsTail ==
    /\ Len(queue) <= Len(entered)
    /\ \A i \in 1 .. Len(queue) : queue[i] = entered[Behind + i]

WorksOnFirst == worker.pc # "idle" => queue # <<>> /\ worker.msg = queue[1]

\* It has left the queue, or is the first in it.
HasTurn(m) == m \in Entered /\ (m \in Queued => m = queue[1])

\* A request, however late, and what it has left at the relay are of a message
\* whose turn has come.
OnlyDue ==
    /\ \A r \in net : HasTurn(r.msg)
    /\ \A x \in stored : HasTurn(x[1])

BoxOK == box \in [Message -> Row \cup {NoRow}]

QueueOK == queue \in Seq(Message) /\ entered \in Seq(Message)

WorkerOK ==
    /\ worker \in [pc : Step, msg : Message \cup {NoMessage}, left : SUBSET Target]
    /\ worker.pc = "idle" <=> worker.msg = NoMessage
    /\ worker.pc = "upload" => worker.msg \in Attachment

NetOK == net \subseteq Request /\ stored \subseteq Message \X Target

RestOK ==
    /\ uploaded \subseteq Attachment /\ composing \subseteq Message
    /\ online \in BOOLEAN
    /\ known \subseteq Message
    /\ faults \in 0 .. MaxFaults

TypesOK == BoxOK /\ QueueOK /\ WorkerOK /\ NetOK /\ RestOK

SendInv == TypesOK /\ EnteredOnce /\ QueueIsTail /\ WorksOnFirst /\ OnlyDue
-----------------------------------------------------------------------------
LEMMA InvInit == Init => SendInv
<1> SUFFICES ASSUME Init PROVE SendInv
    OBVIOUS
<1> USE DEF Init
<1>1. BoxOK /\ QueueOK /\ NetOK /\ RestOK
    <2>1. BoxOK /\ QueueOK
        BY DEF BoxOK, QueueOK
    <2>2. NetOK
        BY DEF NetOK
    <2>3. faults \in 0 .. MaxFaults
        BY SendAssumption
    <2>4. RestOK
        BY <2>3 DEF RestOK
    <2> QED
        BY <2>1, <2>2, <2>4
<1>2. WorkerOK /\ WorksOnFirst
    BY DEF WorkerOK, Idle, Step, WorksOnFirst
<1>3. Len(entered) = 0 /\ Len(queue) = 0
    OBVIOUS
<1>4. EnteredOnce
    BY <1>3 DEF EnteredOnce
<1>5. QueueIsTail
    BY <1>3 DEF QueueIsTail
<1>6. OnlyDue
    BY DEF OnlyDue
<1> QED
    BY <1>1, <1>2, <1>4, <1>5, <1>6 DEF SendInv, TypesOK

\* A row that is rewritten keeps its shape.
LEMMA StatusKeepsShape ==
    ASSUME BoxOK, NEW m \in Message, NEW s \in Status
    PROVE  SetStatus(box, m, s) \in [Message -> Row \cup {NoRow}]
<1>1. [status |-> s, delivered |-> FALSE, seen |-> FALSE] \in Row
    BY DEF Row
<1> QED
    BY <1>1 DEF BoxOK, SetStatus

\* The worker takes the first item of a queue.
LEMMA TakeKeepsShape ==
    ASSUME BoxOK, NEW q \in Seq(Message), q # <<>>, Take(q, box)
    PROVE  /\ worker' \in [pc : Step, msg : Message \cup {NoMessage}, left : SUBSET Target]
           /\ worker'.pc \in {"upload", "address"} /\ worker'.msg = q[1]
           /\ q[1] \in Message
           /\ worker'.pc = "upload" => worker'.msg \in Attachment
           /\ BoxOK'
<1>1. q[1] \in Message
    OBVIOUS
<1>2. worker'.pc \in {"upload", "address"} /\ worker'.msg = q[1] /\ worker'.left = {}
    BY DEF Take, First, Idle
<1>3. worker' \in [pc : Step, msg : Message \cup {NoMessage}, left : SUBSET Target]
    BY <1>1 DEF Take, First, Idle, Step
<1>4. \A s \in Status : SetStatus(box, q[1], s) \in [Message -> Row \cup {NoRow}]
    BY <1>1, StatusKeepsShape
<1>5. "UPLOADING" \in Status /\ "SENDING" \in Status
    BY DEF Status
<1>6. box' = SetStatus(box, q[1], "UPLOADING") \/ box' = SetStatus(box, q[1], "SENDING")
    BY DEF Take, First
<1>7. BoxOK'
    BY <1>4, <1>5, <1>6 DEF BoxOK
<1>8. worker'.pc = "upload" => worker'.msg \in Attachment
    BY DEF Take, First, Idle, ToUpload
<1> QED
    BY <1>1, <1>2, <1>3, <1>7, <1>8

\* The worker, whenever it is called, is at the first item or idle.
LEMMA CalledWorker ==
    ASSUME TypesOK, NEW q \in Seq(Message), NEW c \in BOOLEAN,
           worker.pc # "idle" => q # <<>> /\ worker.msg = q[1],
           Trigger(q, c)
    PROVE  BoxOK' /\ WorkerOK' /\ (worker'.pc # "idle" => q # <<>> /\ worker'.msg = q[1])
<1>1. CASE worker.pc = "idle" /\ q # <<>> /\ c
    <2>1. Take(q, box)
        BY <1>1 DEF Trigger
    <2>2. /\ worker' \in [pc : Step, msg : Message \cup {NoMessage}, left : SUBSET Target]
          /\ worker'.pc \in {"upload", "address"} /\ worker'.msg = q[1]
          /\ q[1] \in Message /\ BoxOK'
          /\ worker'.pc = "upload" => worker'.msg \in Attachment
        BY <2>1, <1>1, TakeKeepsShape DEF TypesOK
    <2>3. q[1] # NoMessage
        BY <2>2, SendAssumption
    <2> QED
        BY <2>2, <2>3, <1>1 DEF WorkerOK
<1>2. CASE ~(worker.pc = "idle" /\ q # <<>> /\ c)
    <2>1. UNCHANGED <<worker, box>>
        BY <1>2 DEF Trigger
    <2> QED
        BY <2>1 DEF TypesOK, BoxOK, WorkerOK
<1> QED
    BY <1>1, <1>2

LEMMA LoopedWorker ==
    ASSUME TypesOK, NEW q \in Seq(Message), TakeNext(q)
    PROVE  BoxOK' /\ WorkerOK' /\ (worker'.pc # "idle" => q # <<>> /\ worker'.msg = q[1])
<1>1. CASE q # <<>> /\ online
    <2>1. Take(q, box)
        BY <1>1 DEF TakeNext
    <2>2. /\ worker' \in [pc : Step, msg : Message \cup {NoMessage}, left : SUBSET Target]
          /\ worker'.pc \in {"upload", "address"} /\ worker'.msg = q[1]
          /\ q[1] \in Message /\ BoxOK'
          /\ worker'.pc = "upload" => worker'.msg \in Attachment
        BY <2>1, <1>1, TakeKeepsShape DEF TypesOK
    <2>3. q[1] # NoMessage
        BY <2>2, SendAssumption
    <2> QED
        BY <2>2, <2>3, <1>1 DEF WorkerOK
<1>2. CASE ~(q # <<>> /\ online)
    <2>1. worker' = Idle /\ box' = box
        BY <1>2 DEF TakeNext, Halt
    <2> QED
        BY <2>1 DEF TypesOK, BoxOK, WorkerOK, Idle, Step
<1> QED
    BY <1>1, <1>2
-----------------------------------------------------------------------------
(***************************************************************************)
(* What happens to the queue.                                              *)
(***************************************************************************)

LEMMA MessagesEnterAtTheEnd ==
    ASSUME SendInv, NEW m \in Message, Enqueue(m)
    PROVE  /\ queue' \in Seq(Message) /\ entered' \in Seq(Message)
           /\ Len(queue') = Len(queue) + 1 /\ Len(entered') = Len(entered) + 1
           /\ \A i \in 1 .. Len(queue) : queue'[i] = queue[i]
           /\ \A i \in 1 .. Len(entered) : entered'[i] = entered[i]
           /\ queue'[Len(queue) + 1] = m /\ entered'[Len(entered) + 1] = m
           /\ queue' # <<>>
<1>1. queue \in Seq(Message) /\ entered \in Seq(Message)
    BY DEF SendInv, TypesOK, QueueOK
<1>2. queue' = Append(queue, m) /\ entered' = Append(entered, m)
    BY DEF Enqueue
<1> QED
    BY <1>1, <1>2

\* The queue holds a message once.
LEMMA QueuedOnce ==
    ASSUME SendInv, NEW i \in 1 .. Len(queue), NEW j \in 1 .. Len(queue), queue[i] = queue[j]
    PROVE  i = j
<1>1. /\ Len(queue) \in Nat /\ Len(entered) \in Nat /\ Len(queue) <= Len(entered)
      /\ queue[i] = entered[Behind + i] /\ queue[j] = entered[Behind + j]
    BY DEF SendInv, TypesOK, QueueOK, QueueIsTail
<1>2. Behind + i \in 1 .. Len(entered) /\ Behind + j \in 1 .. Len(entered)
    BY <1>1 DEF Behind
<1>3. Behind + i = Behind + j
    BY <1>1, <1>2 DEF SendInv, EnteredOnce
<1> QED
    BY <1>1, <1>3 DEF Behind

LEMMA FirstLeaves ==
    ASSUME SendInv, Dequeue
    PROVE  /\ queue # <<>> /\ worker.msg = queue[1]
           /\ queue' = Tail(queue)
           /\ queue' \in Seq(Message) /\ Len(queue') = Len(queue) - 1 /\ Len(queue) > 0
           /\ \A i \in 1 .. Len(queue') : queue'[i] = queue[i + 1]
<1>1. queue \in Seq(Message) /\ queue # <<>> /\ worker.msg = queue[1]
    BY DEF SendInv, TypesOK, QueueOK, WorksOnFirst, Dequeue, At
<1>2. PICK i \in 1 .. Len(queue) :
          queue[i] = worker.msg
          /\ queue' = SubSeq(queue, 1, i - 1) \o SubSeq(queue, i + 1, Len(queue))
    BY DEF Dequeue
<1>3. Len(queue) \in Nat /\ Len(queue) > 0
    BY <1>1
<1>4. i = 1
    BY <1>1, <1>2, <1>3, QueuedOnce
<1>5. queue' = SubSeq(queue, 1, 0) \o SubSeq(queue, 2, Len(queue))
    BY <1>2, <1>4
<1>6. SubSeq(queue, 1, 0) = <<>>
    BY <1>1
<1>7. SubSeq(queue, 2, Len(queue)) = Tail(queue)
    BY <1>1
<1>8. Tail(queue) \in Seq(Message)
    BY <1>1
<1>9. queue' = Tail(queue)
    BY <1>5, <1>6, <1>7, <1>8
<1> QED
    BY <1>1, <1>3, <1>9

\* The steps that leave the queue alone.
LEMMA QueueStays ==
    ASSUME Next, \A m \in Message : ~Enqueue(m), ~Dequeue
    PROVE  UNCHANGED <<queue, entered>>
<1>1. ASSUME NEW m \in Message, SaveMessage(m) \/ FlushGhost(m) \/ ForgetContact(m)
      PROVE  UNCHANGED <<queue, entered>>
    BY <1>1 DEF SaveMessage, FlushGhost, ForgetContact, clientVars
<1>2. ASSUME NEW m \in Message, NEW s \in {"DELIVERED", "SEEN"}, StatusUpdate(m, s)
      PROVE  UNCHANGED <<queue, entered>>
    BY <1>2 DEF StatusUpdate
<1>3. ASSUME NEW r \in net, RelayStores(r) \/ RelayRefuses(r) \/ AnswerOk(r) \/ AnswerError(r)
      PROVE  UNCHANGED <<queue, entered>>
    BY <1>3 DEF RelayStores, RelayRefuses, AnswerOk, AnswerError, clientVars
<1>4. CASE UploadDone \/ UploadBreaks \/ UploadFails \/ AddressFails \/ Address \/ Timeout
           \/ StoreSent
    BY <1>4 DEF UploadDone, UploadBreaks, UploadFails, AddressFails, Address, Timeout, StoreSent
<1>5. CASE Connect \/ Disconnect \/ Restart
    BY <1>5 DEF Connect, Disconnect, Restart, clientVars
<1> QED
    BY <1>1, <1>2, <1>3, <1>4, <1>5 DEF Next, WorkerStep
-----------------------------------------------------------------------------
(***************************************************************************)
(* The box and the worker.                                                 *)
(***************************************************************************)

LEMMA WorkerKept ==
    ASSUME SendInv, Next
    PROVE  BoxOK' /\ WorkerOK' /\ WorksOnFirst'
<1> USE DEF SendInv, TypesOK, WorksOnFirst
<1>1. ASSUME NEW m \in Message, SaveMessage(m)
      PROVE  BoxOK' /\ WorkerOK' /\ WorksOnFirst'
    <2>1. [NoRow EXCEPT !.status = "PENDING"] \in Row
        BY DEF NoRow, Row, Status
    <2>2. BoxOK'
        BY <1>1, <2>1 DEF SaveMessage, BoxOK
    <2>3. UNCHANGED <<worker, queue>>
        BY <1>1 DEF SaveMessage
    <2> QED
        BY <2>2, <2>3 DEF WorkerOK
<1>2. ASSUME NEW m \in Message, Enqueue(m)
      PROVE  BoxOK' /\ WorkerOK' /\ WorksOnFirst'
    <2>1. /\ queue' \in Seq(Message) /\ queue' # <<>>
          /\ \A i \in 1 .. Len(queue) : queue'[i] = queue[i]
        BY <1>2, MessagesEnterAtTheEnd
    <2>2. queue # <<>> => queue'[1] = queue[1]
        <3>1. queue # <<>> => Len(queue) \in Nat /\ Len(queue) > 0
            BY DEF QueueOK
        <3> QED
            BY <2>1, <3>1
    <2>3. worker.pc # "idle" => queue' # <<>> /\ worker.msg = queue'[1]
        BY <2>1, <2>2
    <2>4. online \in BOOLEAN /\ Trigger(queue', online)
        BY <1>2 DEF RestOK, Enqueue
    <2>5. BoxOK' /\ WorkerOK' /\ (worker'.pc # "idle" => queue' # <<>> /\ worker'.msg = queue'[1])
        BY <2>1, <2>3, <2>4, CalledWorker
    <2> QED
        BY <2>5
<1>3. CASE Dequeue
    <2>1. queue' \in Seq(Message) /\ TakeNext(queue')
        BY <1>3, FirstLeaves DEF Dequeue
    <2>2. BoxOK' /\ WorkerOK' /\ (worker'.pc # "idle" => queue' # <<>> /\ worker'.msg = queue'[1])
        BY <2>1, LoopedWorker
    <2> QED
        BY <2>2
<1>4. CASE Connect
    <2>1. Trigger(queue, TRUE) /\ queue \in Seq(Message) /\ queue' = queue
        BY <1>4 DEF Connect, QueueOK
    <2>2. BoxOK' /\ WorkerOK' /\ (worker'.pc # "idle" => queue # <<>> /\ worker'.msg = queue[1])
        BY <2>1, CalledWorker
    <2> QED
        BY <2>1, <2>2
<1>5. ASSUME NEW m \in Message, FlushGhost(m) \/ ForgetContact(m)
      PROVE  BoxOK' /\ WorkerOK' /\ WorksOnFirst'
    <2>1. BoxOK'
        BY <1>5 DEF FlushGhost, ForgetContact, clientVars, BoxOK
    <2>2. UNCHANGED <<worker, queue>>
        BY <1>5 DEF FlushGhost, ForgetContact, clientVars
    <2> QED
        BY <2>1, <2>2 DEF WorkerOK
<1>6. ASSUME NEW m \in Message, NEW s \in {"DELIVERED", "SEEN"}, StatusUpdate(m, s)
      PROVE  BoxOK' /\ WorkerOK' /\ WorksOnFirst'
    <2>1. box[m] \in Row /\ box' = [box EXCEPT ![m].delivered = TRUE, ![m].seen = @ \/ s = "SEEN"]
        BY <1>6 DEF StatusUpdate, BoxOK
    <2>2. [[box[m] EXCEPT !.delivered = TRUE] EXCEPT !.seen = @ \/ s = "SEEN"] \in Row
        BY <2>1 DEF Row
    <2>3. BoxOK'
        BY <2>1, <2>2 DEF BoxOK
    <2>4. UNCHANGED <<worker, queue>>
        BY <1>6 DEF StatusUpdate
    <2> QED
        BY <2>3, <2>4 DEF WorkerOK
<1>7. ASSUME NEW r \in net, RelayStores(r) \/ RelayRefuses(r)
      PROVE  BoxOK' /\ WorkerOK' /\ WorksOnFirst'
    BY <1>7 DEF RelayStores, RelayRefuses, clientVars, BoxOK, WorkerOK
<1>8. ASSUME UNCHANGED queue, UNCHANGED box, NEW left \in SUBSET Target, worker.pc # "idle",
             worker' = [worker EXCEPT !.pc = "wait", !.left = left]
      PROVE  BoxOK' /\ WorkerOK' /\ WorksOnFirst'
    <2>1. "wait" \in Step
        BY DEF Step
    <2>2. worker' \in [pc : Step, msg : Message \cup {NoMessage}, left : SUBSET Target]
        BY <1>8, <2>1 DEF WorkerOK
    <2>3. worker'.pc = "wait" /\ worker'.msg = worker.msg
        BY <1>8 DEF WorkerOK
    <2> QED
        BY <1>8, <2>2, <2>3 DEF BoxOK, WorkerOK
<1>9. ASSUME UNCHANGED queue, NEW pc \in Step \ {"idle", "upload"}, Go(pc), worker.pc # "idle"
      PROVE  WorkerOK' /\ WorksOnFirst'
    BY <1>9 DEF WorkerOK, Go
<1>10. ASSUME UNCHANGED queue, worker' = Idle
       PROVE  WorkerOK' /\ WorksOnFirst'
    BY <1>10 DEF WorkerOK, Idle, Step
<1>11. worker.pc # "idle" => worker.msg \in Message
    BY SendAssumption DEF WorkerOK
<1>12. CASE UploadDone
    <2>1. BoxOK'
        BY <1>11, <1>12, StatusKeepsShape DEF UploadDone, At, BoxOK, Status
    <2> QED
        BY <2>1, <1>9, <1>12 DEF UploadDone, At, Step
<1>13. CASE UploadBreaks
    <2>1. BoxOK'
        BY <1>11, <1>13, StatusKeepsShape DEF UploadBreaks, At, Halt, BoxOK, Status
    <2> QED
        BY <2>1, <1>10, <1>13 DEF UploadBreaks, Halt
<1>14. CASE UploadFails \/ AddressFails
    <2>1. BoxOK'
        BY <1>11, <1>14, StatusKeepsShape DEF UploadFails, AddressFails, At, BoxOK, Status
    <2> QED
        BY <2>1, <1>9, <1>14 DEF UploadFails, AddressFails, At, Step
<1>15. CASE Address
    <2>1. PICK targets, t : targets \subseteq Target
                 /\ worker' = [worker EXCEPT !.pc = "wait", !.left = targets \ {t}]
        <3>1. \A r \in Recipients, o \in Others :
                  (o \cup IF r = {} THEN {NoDevice} ELSE r) \subseteq Target
            BY DEF Recipients, Others, Target
        <3> QED
            BY <1>15, <3>1 DEF Address
    <2>2. targets \ {t} \in SUBSET Target /\ worker.pc # "idle" /\ UNCHANGED <<queue, box>>
        BY <2>1, <1>15 DEF Address, At
    <2> QED
        BY <2>1, <2>2, <1>8 DEF Step
<1>16. ASSUME NEW r \in net, AnswerOk(r)
       PROVE  BoxOK' /\ WorkerOK' /\ WorksOnFirst'
    <2>1. UNCHANGED <<queue, box>> /\ worker.pc = "wait" /\ worker.left \in SUBSET Target
        BY <1>16 DEF AnswerOk, At, WorkerOK
    <2>2. CASE Go("store")
        BY <2>1, <2>2, <1>9 DEF Step, BoxOK
    <2>3. ASSUME NEW t \in worker.left, worker' = [worker EXCEPT !.left = @ \ {t}]
          PROVE  BoxOK' /\ WorkerOK' /\ WorksOnFirst'
        BY <2>1, <2>3 DEF BoxOK, WorkerOK
    <2> QED
        BY <2>2, <2>3, <1>16 DEF AnswerOk
<1>17. ASSUME Timeout \/ \E r \in net : AnswerError(r)
       PROVE  BoxOK' /\ WorkerOK' /\ WorksOnFirst'
    BY <1>10, <1>17 DEF Timeout, AnswerError, Halt, BoxOK
<1>18. CASE StoreSent
    <2> DEFINE m == worker.msg
    <2>1. m \in Message /\ UNCHANGED queue /\ worker.pc # "idle" /\ Go("dequeue")
        BY <1>11, <1>18 DEF StoreSent, At
    <2>2. [NoRow EXCEPT !.status = "SENT"] \in Row
        BY DEF NoRow, Row, Status
    <2>3. ASSUME box[m] # NoRow PROVE [box[m] EXCEPT !.status = StatusString(box[m])] \in Row
        <3>1. StatusString(box[m]) \in Status
            BY DEF StatusString, Status
        <3>2. box[m] \in Row
            BY <2>1, <2>3 DEF BoxOK
        <3> QED
            BY <3>1, <3>2 DEF Row
    <2>4. BoxOK'
        BY <1>18, <2>1, <2>2, <2>3 DEF StoreSent, BoxOK
    <2> QED
        BY <2>1, <2>4, <1>9 DEF Step
<1>19. CASE Disconnect
    BY <1>19 DEF Disconnect, clientVars, BoxOK, WorkerOK
<1>20. CASE Restart
    <2>1. BoxOK'
        BY <1>20 DEF Restart, GhostsFlushed, BoxOK
    <2>2. UNCHANGED queue /\ worker' = Idle
        BY <1>20 DEF Restart
    <2> QED
        BY <2>1, <2>2, <1>10
<1> QED
    BY <1>1, <1>2, <1>3, <1>4, <1>5, <1>6, <1>7, <1>12, <1>13, <1>14, <1>15, <1>16, <1>17,
       <1>18, <1>19, <1>20 DEF Next, WorkerStep
-----------------------------------------------------------------------------
(***************************************************************************)
(* The requests and what is at the relay.                                  *)
(***************************************************************************)

\* Every request is one that was there before, or is of the worker's message.
RequestsFollow ==
    /\ NetOK'
    /\ \A r \in net' :
          \/ r.msg = worker.msg /\ worker.pc \in {"address", "wait"}
          \/ \E q \in net : q.msg = r.msg
    /\ \A x \in stored' : x \in stored \/ \E q \in net : q.msg = x[1]

LEMMA RequestsKept == ASSUME SendInv, Next PROVE RequestsFollow
<1> USE DEF SendInv, TypesOK, NetOK
<1>1. ASSUME UNCHANGED stored, \A r \in net' : r \in net PROVE RequestsFollow
    BY <1>1 DEF RequestsFollow
<1>2. ASSUME NEW m \in Message, SaveMessage(m) \/ Enqueue(m) \/ FlushGhost(m) \/ ForgetContact(m)
      PROVE  RequestsFollow
    BY <1>1, <1>2 DEF SaveMessage, Enqueue, FlushGhost, ForgetContact, clientVars
<1>3. ASSUME NEW m \in Message, NEW s \in {"DELIVERED", "SEEN"}, StatusUpdate(m, s)
      PROVE  RequestsFollow
    BY <1>1, <1>3 DEF StatusUpdate
<1>4. CASE UploadDone \/ UploadBreaks \/ UploadFails \/ AddressFails \/ StoreSent \/ Dequeue
    BY <1>1, <1>4 DEF UploadDone, UploadBreaks, UploadFails, AddressFails, StoreSent, Dequeue
<1>5. worker.pc # "idle" => worker.msg \in Message
    BY SendAssumption DEF WorkerOK
<1>6. CASE Address
    <2>1. PICK t \in Target : Emit(worker.msg, t)
        <3>1. \A r \in Recipients, o \in Others :
                  (o \cup IF r = {} THEN {NoDevice} ELSE r) \subseteq Target
            BY DEF Recipients, Others, Target
        <3> QED
            BY <1>6, <3>1 DEF Address
    <2> DEFINE new == [msg |-> worker.msg, to |-> t, live |-> TRUE,
                       at |-> IF online THEN "wire" ELSE "buffer"]
    <2>2. worker.pc = "address" /\ UNCHANGED stored /\ net' = net \cup {new}
        BY <1>6, <2>1 DEF Address, At, Emit
    <2>3. new \in Request /\ new.msg = worker.msg
        BY <1>5, <2>2 DEF Request
    <2> QED
        BY <2>2, <2>3 DEF RequestsFollow
<1>7. ASSUME NEW r \in net, RelayStores(r)
      PROVE  RequestsFollow
    <2>1. r \in Request
        OBVIOUS
    <2>2. [r EXCEPT !.at = "ok"] \in Request /\ [r EXCEPT !.at = "ok"].msg = r.msg
        BY <2>1 DEF Request
    <2>3. net' \subseteq net \cup {[r EXCEPT !.at = "ok"]} /\ stored' = stored \cup {<<r.msg, r.to>>}
        BY <1>7 DEF RelayStores
    <2>4. <<r.msg, r.to>> \in Message \X Target
        BY <2>1 DEF Request
    <2>5. <<r.msg, r.to>>[1] = r.msg
        OBVIOUS
    <2>6. \A x \in stored' : x \in stored \/ x[1] = r.msg
        BY <2>3, <2>5
    <2>7. \A q \in net' : q \in net \/ q.msg = r.msg
        BY <2>2, <2>3
    <2>8. NetOK'
        BY <2>2, <2>3, <2>4
    <2> QED
        BY <2>6, <2>7, <2>8 DEF RequestsFollow
<1>8. ASSUME NEW r \in net, RelayRefuses(r)
      PROVE  RequestsFollow
    <2>1. r \in Request
        OBVIOUS
    <2>2. [r EXCEPT !.at = "error"] \in Request /\ [r EXCEPT !.at = "error"].msg = r.msg
        BY <2>1 DEF Request
    <2>3. net' \subseteq net \cup {[r EXCEPT !.at = "error"]} /\ UNCHANGED stored
        BY <1>8 DEF RelayRefuses
    <2> QED
        BY <2>2, <2>3 DEF RequestsFollow
<1>9. ASSUME NEW r \in net, AnswerOk(r)
      PROVE  RequestsFollow
    <2>1. worker.pc = "wait" /\ UNCHANGED stored
        BY <1>9 DEF AnswerOk, At
    <2>2. ASSUME NEW t \in worker.left,
                 net' = (net \ {r}) \cup {[msg |-> worker.msg, to |-> t, live |-> TRUE, at |-> "wire"]}
          PROVE  RequestsFollow
        <3> DEFINE new == [msg |-> worker.msg, to |-> t, live |-> TRUE, at |-> "wire"]
        <3>1. t \in Target
            BY DEF WorkerOK
        <3>2. new \in Request /\ new.msg = worker.msg
            BY <1>5, <2>1, <3>1 DEF Request
        <3> QED
            BY <2>1, <2>2, <3>2 DEF RequestsFollow
    <2> QED
        BY <1>1, <1>9, <2>1, <2>2 DEF AnswerOk
<1>10. ASSUME NEW r \in net, AnswerError(r)
       PROVE  RequestsFollow
    BY <1>1, <1>10 DEF AnswerError
<1>11. ASSUME NEW S \in SUBSET net
       PROVE  \A r \in Stale(S) : r \in Request /\ \E q \in S : q.msg = r.msg
    <2>1. ASSUME NEW q \in S
          PROVE  [q EXCEPT !.live = FALSE] \in Request /\ [q EXCEPT !.live = FALSE].msg = q.msg
        BY DEF Request
    <2>2. \A r \in Stale(S) : \E q \in S : r = [q EXCEPT !.live = FALSE]
        BY DEF Stale
    <2> QED
        BY <2>1, <2>2 DEF RequestsFollow
<1>12. CASE Timeout
    <2>1. net' = Stale(net) /\ UNCHANGED stored
        BY <1>12 DEF Timeout
    <2> QED
        BY <1>11, <2>1 DEF RequestsFollow
<1>13. CASE Connect
    <2>1. net' = {[r EXCEPT !.at = IF @ = "buffer" THEN "wire" ELSE @] : r \in net}
          /\ UNCHANGED stored
        BY <1>13 DEF Connect
    <2>2. \A r \in net : LET q == [r EXCEPT !.at = IF @ = "buffer" THEN "wire" ELSE @]
                         IN  q \in Request /\ q.msg = r.msg
        BY DEF Request
    <2> QED
        BY <2>1, <2>2 DEF RequestsFollow
<1>14. CASE Disconnect
    BY <1>1, <1>14 DEF Disconnect
<1>15. CASE Restart
    <2> DEFINE S == {r \in net : r.at = "wire"}
    <2>1. S \in SUBSET net
        OBVIOUS
    <2>2. net' \subseteq Stale(S) /\ UNCHANGED stored
        BY <1>15 DEF Restart
    <2> HIDE DEF S
    <2>3. \A r \in Stale(S) : r \in Request /\ \E q \in net : q.msg = r.msg
        BY <1>11, <2>1
    <2> QED
        BY <2>2, <2>3 DEF RequestsFollow
<1> QED
    BY <1>2, <1>3, <1>4, <1>6, <1>7, <1>8, <1>9, <1>10, <1>12, <1>13, <1>14, <1>15
       DEF Next, WorkerStep

LEMMA RestKept == ASSUME SendInv, Next PROVE RestOK'
<1> USE DEF SendInv, TypesOK, RestOK
<1>1. ASSUME Fault PROVE faults' \in 0 .. MaxFaults
    BY <1>1, SendAssumption DEF Fault
<1>2. ASSUME NEW m \in Message, SaveMessage(m) \/ Enqueue(m) \/ FlushGhost(m) \/ ForgetContact(m)
      PROVE  RestOK'
    BY <1>2 DEF SaveMessage, Enqueue, FlushGhost, ForgetContact, clientVars
<1>3. ASSUME NEW m \in Message, NEW s \in {"DELIVERED", "SEEN"}, StatusUpdate(m, s)
      PROVE  RestOK'
    BY <1>3 DEF StatusUpdate
<1>4. ASSUME NEW r \in net, RelayStores(r) \/ RelayRefuses(r) \/ AnswerOk(r) \/ AnswerError(r)
      PROVE  RestOK'
    BY <1>1, <1>4 DEF RelayStores, RelayRefuses, AnswerOk, AnswerError, clientVars
<1>5. CASE UploadBreaks \/ UploadFails \/ AddressFails \/ Address \/ Timeout \/ StoreSent \/ Dequeue
    BY <1>1, <1>5 DEF UploadBreaks, UploadFails, AddressFails, Address, Timeout, StoreSent, Dequeue
<1>6. CASE UploadDone
    <2>1. worker.msg \in Attachment
        BY <1>6 DEF UploadDone, At, WorkerOK
    <2> QED
        BY <1>6, <2>1 DEF UploadDone
<1>7. CASE Connect \/ Disconnect \/ Restart
    BY <1>1, <1>7 DEF Connect, Disconnect, Restart, clientVars
<1> QED
    BY <1>2, <1>3, <1>4, <1>5, <1>6, <1>7 DEF Next, WorkerStep
-----------------------------------------------------------------------------
(***************************************************************************)
(* The order.                                                              *)
(***************************************************************************)

\* No step but SaveMessage begins a message, and it begins no entered one.
LEMMA ComposingFollows ==
    ASSUME Next
    PROVE  composing' \cap Entered \subseteq composing
<1>1. ASSUME NEW m \in Message, SaveMessage(m) \/ Enqueue(m) \/ FlushGhost(m) \/ ForgetContact(m)
      PROVE  composing' \cap Entered \subseteq composing
    BY <1>1 DEF SaveMessage, Enqueue, FlushGhost, ForgetContact, clientVars
<1>2. ASSUME NEW m \in Message, NEW s \in {"DELIVERED", "SEEN"}, StatusUpdate(m, s)
      PROVE  UNCHANGED composing
    BY <1>2 DEF StatusUpdate
<1>3. ASSUME NEW r \in net, RelayStores(r) \/ RelayRefuses(r) \/ AnswerOk(r) \/ AnswerError(r)
      PROVE  UNCHANGED composing
    BY <1>3 DEF RelayStores, RelayRefuses, AnswerOk, AnswerError, clientVars
<1>4. CASE UploadDone \/ UploadBreaks \/ UploadFails \/ AddressFails \/ Address \/ Timeout
           \/ StoreSent \/ Dequeue
    BY <1>4 DEF UploadDone, UploadBreaks, UploadFails, AddressFails, Address, Timeout,
       StoreSent, Dequeue
<1>5. CASE Connect \/ Disconnect \/ Restart
    BY <1>5 DEF Connect, Disconnect, Restart, clientVars
<1> QED
    BY <1>1, <1>2, <1>3, <1>4, <1>5 DEF Next, WorkerStep

LEMMA OrderKept ==
    ASSUME SendInv, Next
    PROVE  QueueOK' /\ EnteredOnce' /\ QueueIsTail'
<1> USE DEF SendInv, TypesOK, QueueOK
<1>1. /\ queue \in Seq(Message) /\ entered \in Seq(Message)
      /\ Len(queue) \in Nat /\ Len(entered) \in Nat
    OBVIOUS
<1>2. composing' \cap Entered = {}
    BY ComposingFollows DEF EnteredOnce
<1>3. ASSUME NEW m \in Message, Enqueue(m)
      PROVE  QueueOK' /\ EnteredOnce' /\ QueueIsTail'
    <2>1. /\ queue' \in Seq(Message) /\ entered' \in Seq(Message)
          /\ Len(queue') = Len(queue) + 1 /\ Len(entered') = Len(entered) + 1
          /\ \A i \in 1 .. Len(queue) : queue'[i] = queue[i]
          /\ \A i \in 1 .. Len(entered) : entered'[i] = entered[i]
          /\ queue'[Len(queue) + 1] = m /\ entered'[Len(entered) + 1] = m
        BY <1>3, MessagesEnterAtTheEnd
    <2>2. m \notin Entered /\ m \notin composing' /\ m \in composing
        BY <1>3 DEF Enqueue, EnteredOnce
    <2>3. \A i \in 1 .. Len(entered) : entered[i] # m
        BY <2>2 DEF Entered
    <2>4. \A i, j \in 1 .. Len(entered) : entered[i] = entered[j] => i = j
        BY DEF EnteredOnce
    <2>5. \A i \in 1 .. Len(entered') : i \in 1 .. Len(entered) \/ i = Len(entered) + 1
        BY <1>1, <2>1
    <2>6. \A i, j \in 1 .. Len(entered') : entered'[i] = entered'[j] => i = j
        BY <2>1, <2>3, <2>4, <2>5
    <2>7. Entered' \subseteq Entered \cup {m}
        BY <2>1, <2>5 DEF Entered
    <2>8. EnteredOnce'
        BY <1>2, <2>2, <2>6, <2>7 DEF EnteredOnce
    <2>9. Len(queue) <= Len(entered) /\ \A i \in 1 .. Len(queue) : queue[i] = entered[Behind + i]
        BY DEF QueueIsTail
    <2>10. Behind' = Behind /\ Behind \in Nat /\ Behind + Len(queue) = Len(entered)
        BY <1>1, <2>1, <2>9 DEF Behind
    <2>11. ASSUME NEW i \in 1 .. Len(queue') PROVE queue'[i] = entered'[Behind + i]
        <3>1. CASE i = Len(queue) + 1
            BY <1>1, <2>1, <2>10, <3>1
        <3>2. CASE i \in 1 .. Len(queue)
            <4>1. Behind + i \in 1 .. Len(entered)
                BY <1>1, <2>10, <3>2
            <4> QED
                BY <2>1, <2>9, <3>2, <4>1
        <3> QED
            BY <1>1, <2>1, <3>1, <3>2
    <2>12. QueueIsTail'
        BY <1>1, <2>1, <2>9, <2>10, <2>11 DEF QueueIsTail
    <2> QED
        BY <2>1, <2>8, <2>12
<1>4. CASE Dequeue
    <2>1. /\ queue' \in Seq(Message) /\ Len(queue') = Len(queue) - 1 /\ Len(queue) > 0
          /\ \A i \in 1 .. Len(queue') : queue'[i] = queue[i + 1]
        BY <1>4, FirstLeaves
    <2>2. UNCHANGED entered
        BY <1>4 DEF Dequeue
    <2>3. EnteredOnce'
        BY <1>2, <2>2 DEF EnteredOnce, Entered
    <2>4. Len(queue) <= Len(entered) /\ \A i \in 1 .. Len(queue) : queue[i] = entered[Behind + i]
        BY DEF QueueIsTail
    <2>5. Behind' = Behind + 1 /\ Behind \in Nat
        BY <1>1, <2>1, <2>2, <2>4 DEF Behind
    <2>6. ASSUME NEW i \in 1 .. Len(queue') PROVE queue'[i] = entered[(Behind + 1) + i]
        <3>1. i + 1 \in 1 .. Len(queue) /\ Behind + (i + 1) = (Behind + 1) + i
            BY <1>1, <2>1, <2>5
        <3> QED
            BY <2>1, <2>4, <3>1
    <2> QED
        BY <1>1, <2>1, <2>2, <2>3, <2>4, <2>5, <2>6 DEF QueueIsTail
<1>5. CASE UNCHANGED <<queue, entered>>
    BY <1>2, <1>5 DEF EnteredOnce, Entered, QueueIsTail, Behind
<1> QED
    BY <1>3, <1>4, <1>5, QueueStays

\* A message whose turn has come keeps it: what enters goes behind it, and what
\* leaves is the first.
LEMMA TurnsKept ==
    ASSUME SendInv, Next, NEW m, HasTurn(m)
    PROVE  HasTurn(m)'
<1>1. /\ queue \in Seq(Message) /\ entered \in Seq(Message)
      /\ Len(queue) \in Nat /\ Len(entered) \in Nat
    BY DEF SendInv, TypesOK, QueueOK
<1>2. ASSUME NEW n \in Message, Enqueue(n)
      PROVE  HasTurn(m)'
    <2>1. /\ Len(queue') = Len(queue) + 1 /\ Len(entered') = Len(entered) + 1
          /\ \A i \in 1 .. Len(queue) : queue'[i] = queue[i]
          /\ \A i \in 1 .. Len(entered) : entered'[i] = entered[i]
          /\ queue'[Len(queue) + 1] = n
        BY <1>2, MessagesEnterAtTheEnd
    <2>2. m # n
        BY <1>2 DEF Enqueue, SendInv, EnteredOnce, HasTurn
    <2>3. m \in Entered'
        <3>1. PICK i \in 1 .. Len(entered) : entered[i] = m
            BY DEF HasTurn, Entered
        <3>2. i \in 1 .. Len(entered') /\ entered'[i] = m
            BY <1>1, <2>1, <3>1
        <3> QED
            BY <3>2 DEF Entered
    <2>4. ASSUME m \in Queued' PROVE m = queue'[1]
        <3>1. PICK i \in 1 .. Len(queue') : queue'[i] = m
            BY <2>4 DEF Queued
        <3>2. i \in 1 .. Len(queue) /\ queue[i] = m
            BY <1>1, <2>1, <2>2, <3>1
        <3>3. m = queue[1] /\ 1 \in 1 .. Len(queue)
            BY <1>1, <3>2 DEF HasTurn, Queued
        <3> QED
            BY <2>1, <3>3
    <2> QED
        BY <2>3, <2>4 DEF HasTurn
<1>3. CASE Dequeue
    <2>1. /\ Len(queue') = Len(queue) - 1 /\ Len(queue) > 0
          /\ \A i \in 1 .. Len(queue') : queue'[i] = queue[i + 1]
        BY <1>3, FirstLeaves
    <2>2. Entered' = Entered
        BY <1>3 DEF Dequeue, Entered
    <2>3. ASSUME m \in Queued' PROVE FALSE
        <3>1. PICK i \in 1 .. Len(queue') : queue'[i] = m
            BY <2>3 DEF Queued
        <3>2. i + 1 \in 1 .. Len(queue) /\ queue[i + 1] = m /\ 1 \in 1 .. Len(queue)
            BY <1>1, <2>1, <3>1
        <3>3. queue[1] = m
            BY <3>2 DEF HasTurn, Queued
        <3>4. i + 1 = 1
            BY <3>2, <3>3, QueuedOnce
        <3> QED
            BY <1>1, <2>1, <3>1, <3>4
    <2> QED
        BY <2>2, <2>3 DEF HasTurn
<1>4. CASE UNCHANGED <<queue, entered>>
    BY <1>4 DEF HasTurn, Entered, Queued
<1> QED
    BY <1>2, <1>3, <1>4, QueueStays

\* The worker is at a message whose turn has come.
LEMMA WorkerHasTurn ==
    ASSUME SendInv, worker.pc # "idle"
    PROVE  HasTurn(worker.msg)
<1>1. /\ queue \in Seq(Message) /\ entered \in Seq(Message)
      /\ queue # <<>> /\ worker.msg = queue[1]
      /\ Len(queue) <= Len(entered) /\ \A i \in 1 .. Len(queue) : queue[i] = entered[Behind + i]
    BY DEF SendInv, TypesOK, QueueOK, WorksOnFirst, QueueIsTail
<1>2. Len(queue) \in Nat /\ Len(queue) > 0 /\ Len(entered) \in Nat
    BY <1>1
<1>3. Behind + 1 \in 1 .. Len(entered) /\ 1 \in 1 .. Len(queue)
    BY <1>1, <1>2 DEF Behind
<1> QED
    BY <1>1, <1>3 DEF HasTurn, Entered

LEMMA DueKept == ASSUME SendInv, Next PROVE OnlyDue'
<1>1. \A r \in net' : (r.msg = worker.msg /\ worker.pc # "idle") \/ \E q \in net : q.msg = r.msg
    BY RequestsKept DEF RequestsFollow
<1>2. \A x \in stored' : x \in stored \/ \E q \in net : q.msg = x[1]
    BY RequestsKept DEF RequestsFollow
<1>3. \A r \in net' : HasTurn(r.msg)
    BY <1>1, WorkerHasTurn DEF SendInv, OnlyDue
<1>4. \A x \in stored' : HasTurn(x[1])
    BY <1>2 DEF SendInv, OnlyDue
<1>5. \A m : HasTurn(m) => HasTurn(m)'
    BY TurnsKept
<1>6. ASSUME NEW r \in net' PROVE HasTurn(r.msg)'
    BY <1>3, <1>5
<1>7. ASSUME NEW x \in stored' PROVE HasTurn(x[1])'
    BY <1>4, <1>5
<1> QED
    BY <1>6, <1>7 DEF OnlyDue
-----------------------------------------------------------------------------
LEMMA InvKept == SendInv /\ [Next]_vars => SendInv'
<1> SUFFICES ASSUME SendInv, [Next]_vars PROVE SendInv'
    OBVIOUS
<1>1. CASE Next
    <2>1. BoxOK' /\ WorkerOK' /\ WorksOnFirst'
        BY <1>1, WorkerKept
    <2>2. NetOK'
        BY <1>1, RequestsKept DEF RequestsFollow
    <2>3. RestOK'
        BY <1>1, RestKept
    <2>4. QueueOK' /\ EnteredOnce' /\ QueueIsTail'
        BY <1>1, OrderKept
    <2>5. OnlyDue'
        BY <1>1, DueKept
    <2> QED
        BY <2>1, <2>2, <2>3, <2>4, <2>5 DEF SendInv, TypesOK
<1>2. CASE UNCHANGED vars
    <2> USE <1>2 DEF vars, clientVars
    <2>1. TypesOK'
        BY DEF SendInv, TypesOK, BoxOK, QueueOK, WorkerOK, NetOK, RestOK
    <2>2. EnteredOnce' /\ QueueIsTail' /\ WorksOnFirst'
        BY DEF SendInv, EnteredOnce, Entered, QueueIsTail, Behind, WorksOnFirst
    <2>3. OnlyDue'
        BY DEF SendInv, OnlyDue, HasTurn, Entered, Queued
    <2> QED
        BY <2>1, <2>2, <2>3 DEF SendInv
<1> QED
    BY <1>1, <1>2

LEMMA InvHolds == Spec => []SendInv
<1> QED
    BY InvInit, InvKept, PTL DEF Spec

\* The client's state keeps its shape, and an item is worked on only while it is
\* in the queue.
THEOREM SendTypeCorrect == Spec => []SendTypeOK
<1>1. SendInv => SendTypeOK
    <2> SUFFICES ASSUME SendInv PROVE SendTypeOK
        OBVIOUS
    <2>1. worker.pc # "idle" => worker.msg \in Queued
        <3> SUFFICES ASSUME worker.pc # "idle" PROVE worker.msg \in Queued
            OBVIOUS
        <3>1. queue \in Seq(Message) /\ queue # <<>> /\ worker.msg = queue[1]
            BY DEF SendInv, TypesOK, QueueOK, WorksOnFirst
        <3>2. 1 \in 1 .. Len(queue)
            BY <3>1
        <3> QED
            BY <3>1, <3>2 DEF Queued
    <2>2. TypesOK
        BY DEF SendInv
    <2> QED
        BY <2>1, <2>2 DEF TypesOK, BoxOK, QueueOK, WorkerOK, NetOK, RestOK, SendTypeOK
<1> QED
    BY <1>1, InvHolds, PTL

\* Of two messages in the queue's history, the later one is not at the relay while
\* the earlier one waits.
LEMMA DueIsOrdered == SendInv => InOrder
<1> SUFFICES ASSUME SendInv, NEW i \in 1 .. Len(entered), NEW j \in 1 .. Len(entered), i < j,
                    NEW t \in Target, <<entered[j], t>> \in stored, entered[i] \in Queued
             PROVE  FALSE
    BY DEF InOrder
<1>1. /\ Len(queue) \in Nat /\ Len(entered) \in Nat /\ Len(queue) <= Len(entered)
      /\ \A k \in 1 .. Len(queue) : queue[k] = entered[Behind + k]
    BY DEF SendInv, TypesOK, QueueOK, QueueIsTail
<1>2. \A k, l \in 1 .. Len(entered) : entered[k] = entered[l] => k = l
    BY DEF SendInv, EnteredOnce
<1>3. Behind \in Nat /\ Behind + Len(queue) = Len(entered)
    BY <1>1 DEF Behind
<1>4. PICK k \in 1 .. Len(queue) : queue[k] = entered[i]
    BY DEF Queued
<1>5. Behind + k \in 1 .. Len(entered) /\ entered[Behind + k] = entered[i]
    BY <1>1, <1>3, <1>4
<1>6. i = Behind + k
    BY <1>2, <1>5
<1>7. j - Behind \in 1 .. Len(queue) /\ Behind + (j - Behind) = j /\ j - Behind # 1
    BY <1>1, <1>3, <1>6
<1>8. queue[j - Behind] = entered[j]
    BY <1>1, <1>7
<1>9. entered[j] \in Queued
    BY <1>7, <1>8 DEF Queued
<1>10. HasTurn(<<entered[j], t>>[1])
    BY DEF SendInv, OnlyDue
<1>11. entered[j] = queue[1]
    BY <1>9, <1>10 DEF HasTurn
<1>12. 1 \in 1 .. Len(queue)
    BY <1>1, <1>7
<1>13. j - Behind = 1
    BY <1>7, <1>8, <1>11, <1>12, QueuedOnce
<1> QED
    BY <1>7, <1>13

\* However requests are retried, late or lost and the app restarted, the relay gets
\* the messages in the order they were enqueued.
THEOREM StoredInOrder == Spec => []InOrder
<1> QED
    BY DueIsOrdered, InvHolds, PTL
-----------------------------------------------------------------------------
(***************************************************************************)
(* The refinement.                                                         *)
(***************************************************************************)

LEMMA EnqueueAccepts ==
    ASSUME SendInv, NEW m \in Message, Enqueue(m)
    PROVE  Promise!Accept(m)
<1>1. queue \in Seq(Message) /\ entered \in Seq(Message)
    BY DEF SendInv, TypesOK, QueueOK
<1>2. /\ queue' = Append(queue, m) /\ entered' = Append(entered, m) /\ m \in composing
      /\ UNCHANGED stored
    BY DEF Enqueue
<1>3. m \notin Entered
    BY <1>2 DEF SendInv, EnteredOnce
<1>4. /\ Len(queue) \in Nat /\ Len(entered) \in Nat
      /\ Len(queue) <= Len(entered) /\ \A i \in 1 .. Len(queue) : queue[i] = entered[Behind + i]
    BY DEF SendInv, TypesOK, QueueOK, QueueIsTail
<1>5. Queued \subseteq Entered
    <2>1. \A i \in 1 .. Len(queue) : Behind + i \in 1 .. Len(entered)
        BY <1>4 DEF Behind
    <2> QED
        BY <1>4, <2>1 DEF Queued, Entered
<1>6. Entered' = Entered \cup {m} /\ Queued' = Queued \cup {m}
    <2>1. /\ Len(queue') = Len(queue) + 1 /\ Len(entered') = Len(entered) + 1
          /\ \A i \in 1 .. Len(queue) : queue'[i] = queue[i]
          /\ \A i \in 1 .. Len(entered) : entered'[i] = entered[i]
          /\ queue'[Len(queue) + 1] = m /\ entered'[Len(entered) + 1] = m
        BY MessagesEnterAtTheEnd
    <2>2. /\ \A i : i \in 1 .. Len(queue') <=> i \in 1 .. Len(queue) \/ i = Len(queue) + 1
          /\ \A i : i \in 1 .. Len(entered') <=> i \in 1 .. Len(entered) \/ i = Len(entered) + 1
        BY <1>4, <2>1
    <2>3. Entered' = Entered \cup {m}
        BY <2>1, <2>2 DEF Entered
    <2>4. Queued' = Queued \cup {m}
        BY <2>1, <2>2 DEF Queued
    <2> QED
        BY <2>3, <2>4
<1>7. (Entered \ Queued)' = Entered \ Queued
    BY <1>3, <1>5, <1>6
<1> QED
    BY <1>2, <1>3, <1>5, <1>7 DEF Promise!Accept, Promise!Waiting, Queued

LEMMA DequeueLeaves ==
    ASSUME SendInv, Dequeue
    PROVE  Promise!Leave
<1>1. /\ queue # <<>> /\ queue' = Tail(queue) /\ Len(queue') = Len(queue) - 1 /\ Len(queue) > 0
      /\ \A i \in 1 .. Len(queue') : queue'[i] = queue[i + 1]
    BY FirstLeaves
<1>2. /\ queue \in Seq(Message) /\ Len(queue) \in Nat /\ Len(entered) \in Nat
      /\ Len(queue) <= Len(entered) /\ \A i \in 1 .. Len(queue) : queue[i] = entered[Behind + i]
    BY DEF SendInv, TypesOK, QueueOK, QueueIsTail
<1>3. UNCHANGED <<entered, stored>> /\ Entered' = Entered
    BY DEF Dequeue, Entered
<1>4. queue[1] \in Entered
    <2>1. 1 \in 1 .. Len(queue) /\ Behind + 1 \in 1 .. Len(entered)
        BY <1>1, <1>2 DEF Behind
    <2> QED
        BY <1>2, <2>1 DEF Entered
<1>5. Queued' = Queued \ {queue[1]}
    <2>1. ASSUME NEW i \in 1 .. Len(queue') PROVE queue'[i] \in Queued \ {queue[1]}
        <3>1. i + 1 \in 1 .. Len(queue) /\ 1 \in 1 .. Len(queue) /\ i + 1 # 1
            BY <1>1, <1>2
        <3>2. queue[i + 1] # queue[1]
            BY <3>1, QueuedOnce
        <3> QED
            BY <1>1, <3>1, <3>2 DEF Queued
    <2>2. ASSUME NEW i \in 1 .. Len(queue), queue[i] # queue[1] PROVE queue[i] \in Queued'
        <3>1. i - 1 \in 1 .. Len(queue') /\ (i - 1) + 1 = i
            BY <1>1, <1>2, <2>2
        <3> QED
            BY <1>1, <3>1 DEF Queued
    <2> QED
        BY <2>1, <2>2 DEF Queued
<1>6. Head(queue) = queue[1]
    BY <1>1, <1>2
<1>7. (Entered \ Queued)' = (Entered \ Queued) \cup {Head(queue)}
    BY <1>3, <1>4, <1>5, <1>6
<1> QED
    BY <1>1, <1>3, <1>7 DEF Promise!Leave

LEMMA StoringArrives ==
    ASSUME SendInv, NEW r \in net, RelayStores(r)
    PROVE  \E m \in Message, place \in Target : Promise!Arrive(m, place)
<1>1. r.msg \in Message /\ r.to \in Target
    BY DEF SendInv, TypesOK, NetOK, Request
<1>2. stored' = stored \cup {<<r.msg, r.to>>} /\ UNCHANGED <<queue, entered>>
    BY DEF RelayStores, clientVars
<1>3. HasTurn(r.msg)
    BY DEF SendInv, OnlyDue
<1>4. r.msg \in Entered \ Queued \/ (queue # <<>> /\ r.msg = Head(queue))
    <2>1. queue \in Seq(Message)
        BY DEF SendInv, TypesOK, QueueOK
    <2>2. r.msg \in Queued => queue # <<>>
        BY <2>1 DEF Queued
    <2> QED
        BY <1>3, <2>1, <2>2 DEF HasTurn
<1>5. (Entered \ Queued)' = Entered \ Queued
    BY <1>2 DEF Entered, Queued
<1>6. Promise!Arrive(r.msg, r.to)
    BY <1>2, <1>4, <1>5 DEF Promise!Arrive, Promise!Due
<1> QED
    BY <1>1, <1>6

\* Every other step leaves the queue, its history and the relay alone.
LEMMA OtherStepsStutter ==
    ASSUME Next, \A m \in Message : ~Enqueue(m), ~Dequeue, \A r \in net : ~RelayStores(r)
    PROVE  UNCHANGED Promise!outboxVars
<1>1. UNCHANGED <<queue, entered>>
    BY QueueStays
<1>2. ASSUME NEW m \in Message, SaveMessage(m) \/ FlushGhost(m) \/ ForgetContact(m)
      PROVE  UNCHANGED stored
    BY <1>2 DEF SaveMessage, FlushGhost, ForgetContact
<1>3. ASSUME NEW m \in Message, NEW s \in {"DELIVERED", "SEEN"}, StatusUpdate(m, s)
      PROVE  UNCHANGED stored
    BY <1>3 DEF StatusUpdate
<1>4. ASSUME NEW r \in net, RelayRefuses(r) \/ AnswerOk(r) \/ AnswerError(r)
      PROVE  UNCHANGED stored
    BY <1>4 DEF RelayRefuses, AnswerOk, AnswerError
<1>5. ASSUME \/ UploadDone \/ UploadBreaks \/ UploadFails \/ AddressFails \/ Address
             \/ Timeout \/ StoreSent
      PROVE  UNCHANGED stored
    BY <1>5 DEF UploadDone, UploadBreaks, UploadFails, AddressFails, Address, Timeout, StoreSent
<1>6. ASSUME Connect \/ Disconnect \/ Restart
      PROVE  UNCHANGED stored
    BY <1>6 DEF Connect, Disconnect, Restart
<1>7. UNCHANGED stored
    BY <1>2, <1>3, <1>4, <1>5, <1>6 DEF Next, WorkerStep
<1> QED
    BY <1>1, <1>7 DEF Promise!outboxVars, Entered, Queued

\* The queue implements the outbox, for any messages, devices and faults: messages
\* leave in the order of the sends, and nothing of one reaches the relay before its
\* turn.
THEOREM QueueImplementsOutbox == Spec => IsOutbox
<1>1. Init => Promise!Init
    <2> SUFFICES ASSUME Init PROVE Promise!Init
        OBVIOUS
    <2>1. queue = <<>> /\ stored = {} /\ Len(entered) = 0
        BY DEF Init
    <2>2. Entered = {}
        BY <2>1 DEF Entered
    <2> QED
        BY <2>1, <2>2 DEF Promise!Init
<1>2. SendInv /\ [Next]_vars => [Promise!Next]_(Promise!outboxVars)
    <2> SUFFICES ASSUME SendInv, [Next]_vars PROVE [Promise!Next]_(Promise!outboxVars)
        OBVIOUS
    <2>1. ASSUME NEW m \in Message, Enqueue(m) PROVE Promise!Next
        BY <2>1, EnqueueAccepts DEF Promise!Next
    <2>2. CASE Dequeue
        BY <2>2, DequeueLeaves DEF Promise!Next
    <2>3. ASSUME NEW r \in net, RelayStores(r) PROVE Promise!Next
        BY <2>3, StoringArrives DEF Promise!Next
    <2>4. CASE UNCHANGED vars
        BY <2>4 DEF vars, clientVars, Promise!outboxVars, Entered, Queued
    <2> QED
        BY <2>1, <2>2, <2>3, <2>4, OtherStepsStutter
<1> QED
    BY <1>1, <1>2, InvHolds, PTL DEF Spec, IsOutbox, Promise!Spec
-----------------------------------------------------------------------------
(***************************************************************************)
(* Nothing is lost.                                                        *)
(***************************************************************************)

\* The request that is waited for is one, and what has an answer is waited for.
OneIsAwaited ==
    /\ \A q \in net : q.live => worker.pc = "wait" /\ q.msg = worker.msg
    /\ \A q, r \in net : q.live /\ r.live => q = r
    /\ \A q \in net : q.at \in {"ok", "error"} => q.live
    /\ \A q \in net : q.at = "ok" => <<q.msg, q.to>> \in stored

\* While it is waited for, every device of the recipient, or the recipient's inbox,
\* has the message, or is asked, or will be.
EachIsAsked ==
    \A q \in net : q.live =>
        \E T \in {Device, {NoDevice}} :
            \A t \in T : t \in worker.left \/ t = q.to \/ <<worker.msg, t>> \in stored

\* It shows FAILED, or a tick that stays, or nothing.
GivenUp(m) == box[m] = NoRow \/ box[m].status = "FAILED" \/ box[m].seen

WorkIsSettled ==
    /\ worker.pc \in {"store", "dequeue"} => Covered(worker.msg)
    /\ worker.pc = "fail" => GivenUp(worker.msg)

LossInv == OneIsAwaited /\ EachIsAsked /\ WorkIsSettled /\ NothingLost

\* A row is written for one message.
LEMMA OneRowChanges ==
    ASSUME BoxOK, NEW m \in Message, NEW x, NEW s \in Status, x # m
    PROVE  SetStatus(box, x, s)[m] = box[m]
<1> QED
    BY DEF BoxOK, SetStatus

LEMMA TakeLeavesOthers ==
    ASSUME BoxOK, NEW m \in Message, NEW q, q[1] # m, Take(q, box)
    PROVE  box'[m] = box[m]
<1>1. box' = SetStatus(box, q[1], "UPLOADING") \/ box' = SetStatus(box, q[1], "SENDING")
    BY DEF Take, First
<1>2. "UPLOADING" \in Status /\ "SENDING" \in Status
    BY DEF Status
<1> QED
    BY <1>1, <1>2, OneRowChanges

\* The worker writes the row of its own message only, or of the next.
LEMMA GivenUpKept ==
    ASSUME SendInv, Next, NEW m \in Entered, GivenUp(m),
           m \notin Queued \/ (worker.pc = "fail" /\ worker.msg = m)
    PROVE  GivenUp(m)'
<1> USE DEF SendInv, TypesOK
<1>1. m \in Message
    BY DEF QueueOK, Entered
<1>2. worker.pc \notin {"idle", "fail"} => worker.msg # m /\ worker.msg \in Message
    <2> SUFFICES ASSUME worker.pc \notin {"idle", "fail"}
                 PROVE  worker.msg # m /\ worker.msg \in Message
        OBVIOUS
    <2>1. queue \in Seq(Message) /\ queue # <<>> /\ worker.msg = queue[1]
        BY DEF QueueOK, WorksOnFirst
    <2>2. 1 \in 1 .. Len(queue)
        BY <2>1
    <2> QED
        BY <2>1, <2>2 DEF Queued
<1>3. ASSUME box'[m] = box[m] PROVE GivenUp(m)'
    BY <1>3 DEF GivenUp
<1>4. ASSUME NEW n \in Message, SaveMessage(n) PROVE GivenUp(m)'
    <2>1. n # m
        BY <1>4 DEF SaveMessage
    <2> QED
        BY <1>1, <1>3, <1>4, <2>1 DEF SaveMessage, BoxOK
<1>5. ASSUME NEW n \in Message, Enqueue(n) PROVE GivenUp(m)'
    <2>1. Trigger(queue', online) /\ n # m
        BY <1>5 DEF Enqueue, EnteredOnce
    <2>2. ASSUME worker.pc = "idle" PROVE queue'[1] # m
        <3>1. /\ queue' \in Seq(Message) /\ Len(queue') = Len(queue) + 1
              /\ \A i \in 1 .. Len(queue) : queue'[i] = queue[i]
              /\ queue'[Len(queue) + 1] = n
            BY <1>5, MessagesEnterAtTheEnd
        <3>2. Len(queue) \in Nat
            BY DEF QueueOK
        <3>3. m \notin Queued
            BY <2>2
        <3>4. CASE Len(queue) = 0
            BY <2>1, <3>1, <3>4
        <3>5. CASE Len(queue) # 0
            <4>1. 1 \in 1 .. Len(queue)
                BY <3>2, <3>5
            <4> QED
                BY <3>1, <3>3, <4>1 DEF Queued
        <3> QED
            BY <3>4, <3>5
    <2>3. (worker.pc = "idle" /\ Take(queue', box)) \/ UNCHANGED box
        BY <2>1 DEF Trigger
    <2> QED
        BY <1>1, <1>3, <2>2, <2>3, TakeLeavesOthers
<1>6. CASE Connect
    <2>1. (worker.pc = "idle" /\ queue # <<>> /\ Take(queue, box)) \/ UNCHANGED box
        BY <1>6 DEF Connect, Trigger
    <2>2. ASSUME worker.pc = "idle", queue # <<>> PROVE queue[1] # m
        <3>1. 1 \in 1 .. Len(queue)
            BY <2>2 DEF QueueOK
        <3> QED
            BY <2>2, <3>1 DEF Queued
    <2> QED
        BY <1>1, <1>3, <2>1, <2>2, TakeLeavesOthers
<1>7. CASE Dequeue
    <2>1. /\ worker.msg = queue[1] /\ queue' \in Seq(Message)
          /\ Len(queue') = Len(queue) - 1 /\ Len(queue) > 0
          /\ \A i \in 1 .. Len(queue') : queue'[i] = queue[i + 1]
        BY <1>7, FirstLeaves
    <2>2. ASSUME queue' # <<>> PROVE queue'[1] # m
        <3>1. Len(queue) \in Nat /\ Len(queue') \in Nat /\ Len(queue') # 0
            BY <2>1, <2>2 DEF QueueOK
        <3>2. 1 \in 1 .. Len(queue') /\ 1 \in 1 .. Len(queue) /\ 2 \in 1 .. Len(queue)
            BY <2>1, <3>1
        <3>3. queue'[1] = queue[2] /\ queue[2] # queue[1]
            BY <2>1, <3>2, QueuedOnce
        <3>4. queue[2] \in Queued
            BY <3>2 DEF Queued
        <3> QED
            BY <2>1, <3>3, <3>4
    <2>3. (queue' # <<>> /\ Take(queue', box)) \/ UNCHANGED box
        BY <1>7 DEF Dequeue, TakeNext, Halt
    <2> QED
        BY <1>1, <1>3, <2>2, <2>3, TakeLeavesOthers
<1>8. CASE UploadDone \/ UploadBreaks \/ UploadFails \/ AddressFails
    <2>1. \E s \in Status : box' = SetStatus(box, worker.msg, s)
        BY <1>8 DEF UploadDone, UploadBreaks, UploadFails, AddressFails, Halt, Status
    <2>2. worker.msg # m
        BY <1>2, <1>8 DEF UploadDone, UploadBreaks, UploadFails, AddressFails, At
    <2> QED
        BY <1>1, <1>3, <2>1, <2>2, OneRowChanges
<1>9. CASE StoreSent
    <2>1. worker.msg # m
        BY <1>2, <1>9 DEF StoreSent, At
    <2>2. box'[m] = box[m]
        BY <1>1, <1>9, <2>1 DEF StoreSent, BoxOK
    <2> QED
        BY <1>3, <2>2
<1>10. CASE Address \/ Timeout \/ \E r \in net : AnswerOk(r) \/ AnswerError(r)
    BY <1>3, <1>10 DEF Address, Timeout, AnswerOk, AnswerError, Halt
<1>11. ASSUME NEW r \in net, RelayStores(r) \/ RelayRefuses(r) PROVE GivenUp(m)'
    BY <1>3, <1>11 DEF RelayStores, RelayRefuses, clientVars
<1>12. ASSUME NEW n \in Message, NEW s \in {"DELIVERED", "SEEN"}, StatusUpdate(n, s)
       PROVE  GivenUp(m)'
    <2>1. box' = [box EXCEPT ![n].delivered = TRUE, ![n].seen = @ \/ s = "SEEN"] /\ box[n] # NoRow
        BY <1>12 DEF StatusUpdate
    <2>2. CASE n = m
        <3>1. box[m] \in Row
            BY <1>1, <2>1, <2>2 DEF BoxOK
        <3>2. box'[m] = [[box[m] EXCEPT !.delivered = TRUE] EXCEPT !.seen = @ \/ s = "SEEN"]
            BY <1>1, <2>1, <2>2 DEF BoxOK
        <3>3. box'[m].status = box[m].status /\ (box[m].seen => box'[m].seen)
            BY <3>1, <3>2 DEF Row
        <3> QED
            BY <2>1, <2>2, <3>3 DEF GivenUp
    <2>3. CASE n # m
        BY <1>1, <1>3, <2>1, <2>3 DEF BoxOK
    <2> QED
        BY <2>2, <2>3
<1>13. ASSUME NEW n \in Message, FlushGhost(n) \/ ForgetContact(n) PROVE GivenUp(m)'
    <2>1. box'[m] = box[m] \/ box'[m] = NoRow
        BY <1>1, <1>13 DEF FlushGhost, ForgetContact, clientVars, BoxOK
    <2> QED
        BY <2>1 DEF GivenUp
<1>14. CASE Disconnect \/ Restart
    <2>1. box'[m] = box[m] \/ box'[m] = NoRow
        BY <1>1, <1>14 DEF Disconnect, Restart, GhostsFlushed, clientVars, BoxOK
    <2> QED
        BY <2>1 DEF GivenUp
<1> QED
    BY <1>4, <1>5, <1>6, <1>7, <1>8, <1>9, <1>10, <1>11, <1>12, <1>13, <1>14
       DEF Next, WorkerStep

Waiting == OneIsAwaited /\ EachIsAsked

LEMMA NobodyWaits ==
    ASSUME \A q \in net' : ~q.live /\ q.at \notin {"ok", "error"}
    PROVE  Waiting'
<1> QED
    BY DEF Waiting, OneIsAwaited, EachIsAsked

LEMMA WaitGoesOn ==
    ASSUME Waiting, net' = net, stored' = stored, worker' = worker \/ worker.pc # "wait"
    PROVE  Waiting'
<1> QED
    BY DEF Waiting, OneIsAwaited, EachIsAsked

\* At the first request, at the answer of the relay and at the next request, one
\* is waited for.
LEMMA WaitStarts ==
    ASSUME SendInv, Waiting, Address
    PROVE  Waiting'
<1>1. PICK r \in Recipients, o \in Others :
          LET targets == o \cup IF r = {} THEN {NoDevice} ELSE r
          IN  \E t \in targets :
                   /\ Emit(worker.msg, t)
                   /\ worker' = [worker EXCEPT !.pc = "wait", !.left = targets \ {t}]
    BY DEF Address
<1> DEFINE targets == o \cup IF r = {} THEN {NoDevice} ELSE r
<1>2. PICK t \in targets :
          /\ Emit(worker.msg, t)
          /\ worker' = [worker EXCEPT !.pc = "wait", !.left = targets \ {t}]
    BY <1>1
<1>3. \A q \in net : ~q.live /\ q.at \notin {"ok", "error"}
    BY DEF Address, At, Waiting, OneIsAwaited
<1>4. worker'.pc = "wait" /\ worker'.msg = worker.msg /\ worker'.left = targets \ {t}
    BY <1>2 DEF SendInv, TypesOK, WorkerOK
<1>5. PICK new : /\ net' = net \cup {new} /\ new.msg = worker.msg /\ new.to = t
                 /\ new.live /\ new.at \in {"buffer", "wire"}
    <2>1. PICK new : new = [msg |-> worker.msg, to |-> t, live |-> TRUE,
                            at |-> IF online THEN "wire" ELSE "buffer"]
        OBVIOUS
    <2>2. net' = net \cup {new}
        BY <1>2, <2>1 DEF Emit
    <2>3. new.msg = worker.msg /\ new.to = t /\ new.live /\ new.at \in {"buffer", "wire"}
        BY <2>1
    <2> QED
        BY <2>2, <2>3
<1>6. r = Device \/ r = {}
    BY DEF Recipients
<1>7. \E T \in {Device, {NoDevice}} : T \subseteq targets
    <2>1. CASE r = {}
        BY <2>1
    <2>2. CASE r # {}
        BY <1>6, <2>2
    <2> QED
        BY <2>1, <2>2
<1>8. OneIsAwaited'
    BY <1>3, <1>4, <1>5 DEF OneIsAwaited
<1>9. \A T : T \subseteq targets => \A x \in T : x \in worker'.left \/ x = new.to
    BY <1>4, <1>5
<1>10. EachIsAsked'
    <2> SUFFICES ASSUME NEW q \in net', q.live
                 PROVE  \E T \in {Device, {NoDevice}} :
                            \A x \in T : x \in worker'.left \/ x = q.to
                                         \/ <<worker'.msg, x>> \in stored'
        BY DEF EachIsAsked
    <2>1. q = new
        BY <1>3, <1>5
    <2>2. PICK T \in {Device, {NoDevice}} : T \subseteq targets
        BY <1>7
    <2>3. \A x \in T : x \in worker'.left \/ x = new.to
        BY <1>9, <2>2
    <2> QED
        BY <2>1, <2>2, <2>3
<1> QED
    BY <1>8, <1>10 DEF Waiting

LEMMA AnswerComes ==
    ASSUME SendInv, Waiting, NEW r \in net, RelayStores(r) \/ RelayRefuses(r)
    PROVE  Waiting'
<1>1. r \in Request /\ worker' = worker /\ stored \subseteq stored' /\ r.at = "wire"
    BY DEF SendInv, TypesOK, NetOK, RelayStores, RelayRefuses, clientVars
<1>2. CASE ~r.live
    <2>1. net' \subseteq net
        BY <1>2 DEF RelayStores, RelayRefuses
    <2> QED
        BY <1>1, <2>1 DEF Waiting, OneIsAwaited, EachIsAsked
<1>3. CASE r.live
    <2>1. PICK a \in {"ok", "error"} :
              /\ net' = (net \ {r}) \cup {[r EXCEPT !.at = a]}
              /\ a = "ok" => <<r.msg, r.to>> \in stored'
        BY <1>3 DEF RelayStores, RelayRefuses
    <2>2. PICK new : /\ net' = (net \ {r}) \cup {new} /\ new.msg = r.msg /\ new.to = r.to
                     /\ new.live /\ new.at = a
        <3>1. PICK new : new = [r EXCEPT !.at = a]
            OBVIOUS
        <3>2. new.msg = r.msg /\ new.to = r.to /\ new.live /\ new.at = a
            BY <1>1, <1>3, <3>1 DEF Request
        <3> QED
            BY <2>1, <3>1, <3>2
    <2>3. \A q \in net \ {r} : ~q.live /\ q.at \notin {"ok", "error"}
        BY <1>3 DEF Waiting, OneIsAwaited
    <2>4. worker.pc = "wait" /\ r.msg = worker.msg
        BY <1>3 DEF Waiting, OneIsAwaited
    <2>5. OneIsAwaited'
        BY <1>1, <2>1, <2>2, <2>3, <2>4 DEF OneIsAwaited
    <2>6. EachIsAsked'
        BY <1>1, <1>3, <2>2, <2>3 DEF Waiting, EachIsAsked
    <2> QED
        BY <2>5, <2>6 DEF Waiting
<1> QED
    BY <1>2, <1>3

LEMMA NextIsAsked ==
    ASSUME SendInv, Waiting, NEW r \in net, AnswerOk(r)
    PROVE  Waiting' /\ (worker'.pc = "store" => Covered(worker.msg))
<1>1. /\ r.at = "ok" /\ r.live /\ worker.pc = "wait" /\ r.msg = worker.msg
      /\ <<r.msg, r.to>> \in stored /\ stored' = stored
    BY DEF AnswerOk, At, Waiting, OneIsAwaited
<1>2. \A q \in net \ {r} : ~q.live /\ q.at \notin {"ok", "error"}
    BY <1>1 DEF Waiting, OneIsAwaited
<1>3. PICK T \in {Device, {NoDevice}} :
          \A x \in T : x \in worker.left \/ x = r.to \/ <<worker.msg, x>> \in stored
    BY <1>1 DEF Waiting, EachIsAsked
<1>4. CASE worker.left = {} /\ Go("store") /\ net' = net \ {r}
    <2>1. Waiting'
        BY <1>2, <1>4, NobodyWaits
    <2>2. \A x \in T : <<worker.msg, x>> \in stored
        BY <1>1, <1>3, <1>4
    <2> QED
        BY <1>3, <2>1, <2>2 DEF Covered
<1>5. ASSUME NEW t \in worker.left,
             worker' = [worker EXCEPT !.left = @ \ {t}],
             net' = (net \ {r}) \cup {[msg |-> worker.msg, to |-> t, live |-> TRUE,
                                       at |-> "wire"]}
      PROVE  Waiting' /\ (worker'.pc = "store" => Covered(worker.msg))
    <2>1. worker'.pc = "wait" /\ worker'.msg = worker.msg /\ worker'.left = worker.left \ {t}
        BY <1>1, <1>5 DEF SendInv, TypesOK, WorkerOK
    <2>2. PICK new : /\ net' = (net \ {r}) \cup {new} /\ new.msg = worker.msg /\ new.to = t
                     /\ new.live /\ new.at = "wire"
        <3>1. PICK new : new = [msg |-> worker.msg, to |-> t, live |-> TRUE, at |-> "wire"]
            OBVIOUS
        <3>2. net' = (net \ {r}) \cup {new}
            BY <1>5, <3>1
        <3>3. new.msg = worker.msg /\ new.to = t /\ new.live /\ new.at = "wire"
            BY <3>1
        <3> QED
            BY <3>2, <3>3
    <2>3. OneIsAwaited'
        BY <1>2, <2>1, <2>2 DEF OneIsAwaited
    <2>4. \A x \in T : x \in worker'.left \/ x = new.to \/ <<worker'.msg, x>> \in stored'
        BY <1>1, <1>3, <2>1, <2>2
    <2>5. EachIsAsked'
        BY <1>2, <1>3, <2>2, <2>4 DEF EachIsAsked
    <2> QED
        BY <2>1, <2>3, <2>5 DEF Waiting
<1> QED
    BY <1>4, <1>5 DEF AnswerOk

LEMMA StaleIsNotAwaited ==
    ASSUME SendInv, NEW S, S \subseteq net
    PROVE  \A q \in Stale(S) : ~q.live /\ q.at \in {"buffer", "wire"}
<1> SUFFICES ASSUME NEW q \in Stale(S) PROVE ~q.live /\ q.at \in {"buffer", "wire"}
    OBVIOUS
<1>1. PICK r \in S : r.at \in {"buffer", "wire"} /\ q = [r EXCEPT !.live = FALSE]
    BY DEF Stale
<1>2. r \in Request
    BY DEF SendInv, TypesOK, NetOK
<1> QED
    BY <1>1, <1>2 DEF Request

LEMMA ConnectionKeepsWait ==
    ASSUME SendInv, Waiting, Connect
    PROVE  Waiting'
<1>1. /\ net' = {[r EXCEPT !.at = IF @ = "buffer" THEN "wire" ELSE @] : r \in net}
      /\ stored' = stored /\ (worker.pc = "wait" => worker' = worker)
    BY DEF Connect, Trigger
<1>2. \A r \in net : r \in Request
    BY DEF SendInv, TypesOK, NetOK
<1>3. \A q \in net' : \E r \in net :
          /\ q = [r EXCEPT !.at = IF @ = "buffer" THEN "wire" ELSE @]
          /\ q.live = r.live /\ q.msg = r.msg /\ q.to = r.to
          /\ q.at \in {"ok", "error"} => q.at = r.at
    BY <1>1, <1>2 DEF Request
<1>4. ASSUME NEW q \in net', q.live
      PROVE  worker.pc = "wait" /\ q.msg = worker.msg
    BY <1>3, <1>4 DEF Waiting, OneIsAwaited
<1>5. ASSUME NEW p \in net', NEW q \in net', p.live, q.live PROVE p = q
    <2>1. PICK r \in net : p = [r EXCEPT !.at = IF @ = "buffer" THEN "wire" ELSE @] /\ r.live
        BY <1>3, <1>5
    <2>2. PICK s \in net : q = [s EXCEPT !.at = IF @ = "buffer" THEN "wire" ELSE @] /\ s.live
        BY <1>3, <1>5
    <2>3. r = s
        BY <2>1, <2>2 DEF Waiting, OneIsAwaited
    <2> QED
        BY <2>1, <2>2, <2>3
<1>6. \A q \in net' : q.at \in {"ok", "error"} => q.live
    BY <1>3 DEF Waiting, OneIsAwaited
<1>7. \A q \in net' : q.at = "ok" => <<q.msg, q.to>> \in stored'
    BY <1>1, <1>3 DEF Waiting, OneIsAwaited
<1>8. OneIsAwaited'
    BY <1>1, <1>4, <1>5, <1>6, <1>7 DEF OneIsAwaited
<1>9. EachIsAsked'
    <2> SUFFICES ASSUME NEW q \in net', q.live
                 PROVE  \E T \in {Device, {NoDevice}} :
                            \A t \in T : t \in worker'.left \/ t = q.to
                                         \/ <<worker'.msg, t>> \in stored'
        BY DEF EachIsAsked
    <2>1. PICK r \in net : r.live /\ q.to = r.to
        BY <1>3
    <2>2. \E T \in {Device, {NoDevice}} :
              \A t \in T : t \in worker.left \/ t = r.to \/ <<worker.msg, t>> \in stored
        BY <2>1 DEF Waiting, EachIsAsked
    <2> QED
        BY <1>1, <1>4, <2>1, <2>2
<1> QED
    BY <1>8, <1>9 DEF Waiting

LEMMA WaitingKept == ASSUME SendInv, Waiting, Next PROVE Waiting'
<1>1. ASSUME NEW m \in Message, SaveMessage(m) \/ Enqueue(m) \/ FlushGhost(m) \/ ForgetContact(m)
      PROVE  Waiting'
    BY <1>1, WaitGoesOn
       DEF SaveMessage, Enqueue, Trigger, FlushGhost, ForgetContact, clientVars
<1>2. ASSUME NEW m \in Message, NEW s \in {"DELIVERED", "SEEN"}, StatusUpdate(m, s)
      PROVE  Waiting'
    BY <1>2, WaitGoesOn DEF StatusUpdate
<1>3. ASSUME NEW r \in net, RelayStores(r) \/ RelayRefuses(r) PROVE Waiting'
    BY <1>3, AnswerComes
<1>4. CASE UploadDone \/ UploadBreaks \/ UploadFails \/ AddressFails \/ StoreSent \/ Dequeue
    BY <1>4, WaitGoesOn
       DEF UploadDone, UploadBreaks, UploadFails, AddressFails, StoreSent, Dequeue, At
<1>5. CASE Address
    BY <1>5, WaitStarts
<1>6. ASSUME NEW r \in net, AnswerOk(r) PROVE Waiting'
    BY <1>6, NextIsAsked
<1>7. ASSUME NEW r \in net, AnswerError(r) PROVE Waiting'
    <2>1. net' = net \ {r} /\ r.at = "error"
        BY <1>7 DEF AnswerError
    <2>2. \A q \in net' : ~q.live /\ q.at \notin {"ok", "error"}
        BY <2>1 DEF Waiting, OneIsAwaited
    <2> QED
        BY <2>2, NobodyWaits
<1>8. CASE Timeout
    BY <1>8, StaleIsNotAwaited, NobodyWaits DEF Timeout
<1>9. CASE Restart
    <2>1. {r \in net : r.at = "wire"} \subseteq net
        OBVIOUS
    <2>2. net' \subseteq Stale({r \in net : r.at = "wire"})
        BY <1>9 DEF Restart
    <2>3. \A q \in net' : ~q.live /\ q.at \in {"buffer", "wire"}
        BY <2>1, <2>2, StaleIsNotAwaited
    <2> QED
        BY <2>3, NobodyWaits
<1>10. CASE Disconnect
    <2>1. net' \subseteq net /\ worker' = worker /\ stored' = stored
        BY <1>10 DEF Disconnect, clientVars
    <2> QED
        BY <2>1 DEF Waiting, OneIsAwaited, EachIsAsked
<1>11. CASE Connect
    BY <1>11, ConnectionKeepsWait
<1> QED
    BY <1>1, <1>2, <1>3, <1>4, <1>5, <1>6, <1>7, <1>8, <1>9, <1>10, <1>11 DEF Next, WorkerStep

\* The relay keeps what it has stored.
LEMMA StoredStays ==
    ASSUME Next
    PROVE  stored \subseteq stored'
<1>1. ASSUME NEW n \in Message,
             SaveMessage(n) \/ Enqueue(n) \/ FlushGhost(n) \/ ForgetContact(n)
      PROVE  stored \subseteq stored'
    BY <1>1 DEF SaveMessage, Enqueue, FlushGhost, ForgetContact
<1>2. ASSUME NEW n \in Message, NEW s \in {"DELIVERED", "SEEN"}, StatusUpdate(n, s)
      PROVE  stored \subseteq stored'
    BY <1>2 DEF StatusUpdate
<1>3. ASSUME NEW r \in net, RelayStores(r) \/ RelayRefuses(r) \/ AnswerOk(r) \/ AnswerError(r)
      PROVE  stored \subseteq stored'
    BY <1>3 DEF RelayStores, RelayRefuses, AnswerOk, AnswerError
<1>4. CASE UploadDone \/ UploadBreaks \/ UploadFails \/ AddressFails \/ Address \/ Timeout
           \/ StoreSent \/ Dequeue
    BY <1>4 DEF UploadDone, UploadBreaks, UploadFails, AddressFails, Address, Timeout,
                StoreSent, Dequeue
<1>5. CASE Connect \/ Disconnect \/ Restart
    BY <1>5 DEF Connect, Disconnect, Restart
<1> QED
    BY <1>1, <1>2, <1>3, <1>4, <1>5 DEF Next, WorkerStep

LEMMA CoverageKept ==
    ASSUME Next, NEW m, Covered(m)
    PROVE  Covered(m)'
<1> QED
    BY StoredStays DEF Covered

\* The worker reaches the end of its item in three ways.
LEMMA WorkEnds ==
    ASSUME SendInv, Waiting, Next
    PROVE  /\ worker'.pc \in {"store", "dequeue"} =>
                  /\ worker'.msg = worker.msg
                  /\ worker.pc \in {"store", "dequeue"} \/ Covered(worker.msg)
           /\ worker'.pc = "fail" =>
                  /\ worker'.msg = worker.msg
                  /\ (worker.pc = "fail" /\ ~Dequeue)
                     \/ box' = SetStatus(box, worker.msg, "FAILED")
<1> DEFINE Goal == /\ worker'.pc \in {"store", "dequeue"} =>
                         /\ worker'.msg = worker.msg
                         /\ worker.pc \in {"store", "dequeue"} \/ Covered(worker.msg)
                   /\ worker'.pc = "fail" =>
                         /\ worker'.msg = worker.msg
                         /\ (worker.pc = "fail" /\ ~Dequeue)
                            \/ box' = SetStatus(box, worker.msg, "FAILED")
<1>1. worker \in [pc : Step, msg : Message \cup {NoMessage}, left : SUBSET Target]
    BY DEF SendInv, TypesOK, WorkerOK
<1>2. ASSUME worker'.pc \in {"idle", "upload", "address", "wait"} PROVE Goal
    BY <1>2
<1>3. ASSUME worker' = worker, ~Dequeue PROVE Goal
    BY <1>3
<1>4. ASSUME NEW q, NEW b, Take(q, b) PROVE Goal
    BY <1>4 DEF Take, Idle
<1>5. ASSUME NEW b, Halt(b) PROVE Goal
    BY <1>5 DEF Halt, Idle
<1>6. CASE Dequeue
    BY <1>4, <1>5, <1>6 DEF Dequeue, TakeNext
<1>7. CASE ~Dequeue
    <2>1. ASSUME NEW m \in Message, SaveMessage(m) \/ FlushGhost(m) \/ ForgetContact(m) PROVE Goal
        BY <1>3, <1>7, <2>1 DEF SaveMessage, FlushGhost, ForgetContact, clientVars
    <2>2. ASSUME NEW m \in Message, Enqueue(m) PROVE Goal
        BY <1>3, <1>4, <1>7, <2>2 DEF Enqueue, Trigger
    <2>3. ASSUME NEW m \in Message, NEW s \in {"DELIVERED", "SEEN"}, StatusUpdate(m, s) PROVE Goal
        BY <1>3, <1>7, <2>3 DEF StatusUpdate
    <2>4. ASSUME NEW r \in net, RelayStores(r) \/ RelayRefuses(r) PROVE Goal
        BY <1>3, <1>7, <2>4 DEF RelayStores, RelayRefuses, clientVars
    <2>5. ASSUME NEW r \in net, AnswerError(r) PROVE Goal
        BY <1>5, <2>5 DEF AnswerError
    <2>6. ASSUME NEW r \in net, AnswerOk(r) PROVE Goal
        <3>1. Go("store") \/ \E t : worker' = [worker EXCEPT !.left = @ \ {t}]
            BY <2>6 DEF AnswerOk
        <3>2. worker.pc = "wait"
            BY <2>6 DEF AnswerOk, At
        <3> QED
            BY <1>1, <2>6, <3>1, <3>2, NextIsAsked DEF Go
    <2>7. CASE UploadDone
        BY <1>1, <2>7 DEF UploadDone, Go
    <2>8. CASE UploadBreaks \/ Timeout \/ Restart
        BY <1>5, <2>8 DEF UploadBreaks, Timeout, Restart, Halt
    <2>9. CASE UploadFails \/ AddressFails
        BY <1>1, <2>9 DEF UploadFails, AddressFails, Go
    <2>10. CASE Address
        BY <1>1, <2>10 DEF Address
    <2>11. CASE StoreSent
        BY <1>1, <2>11 DEF StoreSent, Go, At
    <2>12. CASE Connect
        BY <1>3, <1>4, <1>7, <2>12 DEF Connect, Trigger
    <2>13. CASE Disconnect
        BY <1>3, <1>7, <2>13 DEF Disconnect, clientVars
    <2> QED
        BY <1>7, <2>1, <2>2, <2>3, <2>4, <2>5, <2>6, <2>7, <2>8, <2>9, <2>10, <2>11, <2>12, <2>13
           DEF Next, WorkerStep
<1> QED
    BY <1>6, <1>7

LEMMA FirstHasEntered ==
    ASSUME SendInv, worker.pc # "idle"
    PROVE  worker.msg \in Entered /\ worker.msg \in Message
<1>1. /\ queue \in Seq(Message) /\ entered \in Seq(Message) /\ queue # <<>>
      /\ worker.msg = queue[1] /\ Len(queue) <= Len(entered)
      /\ \A i \in 1 .. Len(queue) : queue[i] = entered[Behind + i]
    BY DEF SendInv, TypesOK, QueueOK, WorksOnFirst, QueueIsTail
<1>2. 1 \in 1 .. Len(queue) /\ Behind + 1 \in 1 .. Len(entered)
    BY <1>1 DEF Behind
<1> QED
    BY <1>1, <1>2 DEF Entered

LEMMA FailureShows ==
    ASSUME BoxOK, NEW m \in Message, box' = SetStatus(box, m, "FAILED")
    PROVE  GivenUp(m)'
<1>1. CASE box[m] = NoRow \/ box[m].seen
    BY <1>1 DEF SetStatus, GivenUp
<1>2. CASE ~(box[m] = NoRow \/ box[m].seen)
    BY <1>2 DEF SetStatus, GivenUp, BoxOK
<1> QED
    BY <1>1, <1>2

LEMMA SettledKept == ASSUME SendInv, Waiting, WorkIsSettled, Next PROVE WorkIsSettled'
<1>1. ASSUME worker'.pc \in {"store", "dequeue"} PROVE Covered(worker.msg)'
    <2>1. worker'.msg = worker.msg /\ Covered(worker.msg)
        BY <1>1, WorkEnds DEF WorkIsSettled
    <2>2. PICK m : m = worker.msg
        OBVIOUS
    <2>3. Covered(m)'
        BY <2>1, <2>2, CoverageKept
    <2> QED
        BY <2>1, <2>2, <2>3 DEF Covered
<1>2. ASSUME worker'.pc = "fail" PROVE GivenUp(worker.msg)'
    <2>1. /\ worker'.msg = worker.msg
          /\ (worker.pc = "fail" /\ ~Dequeue) \/ box' = SetStatus(box, worker.msg, "FAILED")
        BY <1>2, WorkEnds
    <2>2. worker.msg \in Entered /\ worker.msg \in Message
        <3>1. worker'.msg # NoMessage
            BY <1>2, WorkerKept DEF WorkerOK
        <3>2. worker.pc # "idle"
            BY <2>1, <3>1 DEF SendInv, TypesOK, WorkerOK
        <3> QED
            BY <3>2, FirstHasEntered
    <2>3. PICK m \in Entered : m = worker.msg /\ m \in Message
        BY <2>2
    <2>4. GivenUp(m)'
        <3>1. ASSUME worker.pc = "fail" PROVE GivenUp(m)'
            BY <2>3, <3>1, GivenUpKept DEF WorkIsSettled
        <3>2. ASSUME box' = SetStatus(box, worker.msg, "FAILED") PROVE GivenUp(m)'
            BY <2>3, <3>2, FailureShows DEF SendInv, TypesOK
        <3> QED
            BY <2>1, <3>1, <3>2
    <2> QED
        BY <2>1, <2>3, <2>4 DEF GivenUp
<1> QED
    BY <1>1, <1>2 DEF WorkIsSettled

\* A message leaves the queue when the worker has settled it.
LEMMA OnlySettledLeave ==
    ASSUME SendInv, Next, NEW m \in Entered' \ Queued'
    PROVE  /\ m \in Entered
           /\ m \notin Queued \/ (Dequeue /\ worker.msg = m)
<1>1. queue \in Seq(Message) /\ entered \in Seq(Message)
    BY DEF SendInv, TypesOK, QueueOK
<1>2. ASSUME NEW n \in Message, Enqueue(n) PROVE m \in Entered /\ m \notin Queued
    <2>1. /\ Len(queue') = Len(queue) + 1 /\ Len(entered') = Len(entered) + 1
          /\ \A i \in 1 .. Len(queue) : queue'[i] = queue[i]
          /\ \A i \in 1 .. Len(entered) : entered'[i] = entered[i]
          /\ queue'[Len(queue) + 1] = n /\ entered'[Len(entered) + 1] = n
        BY <1>2, MessagesEnterAtTheEnd
    <2>2. n \in Queued' /\ \A x \in Queued : x \in Queued'
        BY <1>1, <2>1 DEF Queued
    <2>3. PICK i \in 1 .. Len(entered') : entered'[i] = m
        BY DEF Entered
    <2>4. i \in 1 .. Len(entered)
        BY <1>1, <2>1, <2>2, <2>3
    <2> QED
        BY <2>1, <2>2, <2>3, <2>4 DEF Entered
<1>3. CASE Dequeue
    <2>1. entered' = entered /\ Len(queue') = Len(queue) - 1
          /\ worker.msg = queue[1]
          /\ \A i \in 1 .. Len(queue') : queue'[i] = queue[i + 1]
        BY <1>3, FirstLeaves DEF Dequeue
    <2>2. ASSUME m \in Queued, worker.msg # m PROVE m \in Queued'
        <3>1. PICK i \in 1 .. Len(queue) : queue[i] = m
            BY <2>2 DEF Queued
        <3>2. i - 1 \in 1 .. Len(queue') /\ (i - 1) + 1 = i
            BY <1>1, <2>1, <2>2, <3>1
        <3>3. queue'[i - 1] = m
            BY <2>1, <3>1, <3>2
        <3> QED
            BY <3>2, <3>3 DEF Queued
    <2> QED
        BY <1>3, <2>1, <2>2 DEF Entered
<1>4. ASSUME \A n \in Message : ~Enqueue(n), ~Dequeue PROVE m \in Entered /\ m \notin Queued
    BY <1>4, QueueStays DEF Entered, Queued
<1> QED
    BY <1>2, <1>3, <1>4

LEMMA LossKept == ASSUME SendInv, LossInv, Next PROVE LossInv'
<1>1. Waiting'
    BY WaitingKept DEF LossInv, Waiting
<1>2. WorkIsSettled'
    BY SettledKept DEF LossInv, Waiting
<1>3. ASSUME NEW m \in Entered' \ Queued' PROVE Covered(m)' \/ GivenUp(m)'
    <2>1. m \in Entered /\ (m \notin Queued \/ (Dequeue /\ worker.msg = m))
        BY OnlySettledLeave
    <2>2. CASE m \notin Queued
        <3>1. Covered(m) \/ GivenUp(m)
            BY <2>1, <2>2 DEF LossInv, NothingLost, GivenUp
        <3> QED
            BY <2>1, <2>2, <3>1, CoverageKept, GivenUpKept
    <2>3. CASE Dequeue /\ worker.msg = m
        <3>1. worker.pc \in {"dequeue", "fail"}
            BY <2>3 DEF Dequeue, At
        <3>2. CASE worker.pc = "dequeue"
            BY <2>3, <3>2, CoverageKept DEF LossInv, WorkIsSettled
        <3>3. CASE worker.pc = "fail"
            BY <2>1, <2>3, <3>3, GivenUpKept DEF LossInv, WorkIsSettled
        <3> QED
            BY <3>1, <3>2, <3>3
    <2> QED
        BY <2>1, <2>2, <2>3
<1>4. NothingLost'
    BY <1>3 DEF NothingLost, GivenUp
<1> QED
    BY <1>1, <1>2, <1>4 DEF LossInv, Waiting

\* A message that has left the queue is with the relay, or shows that it is not,
\* through every retry, lost answer and restart.
THEOREM SendLosesNothing == Spec => []NothingLost
<1>1. Init => LossInv
    <2> SUFFICES ASSUME Init PROVE LossInv
        OBVIOUS
    <2>1. OneIsAwaited /\ EachIsAsked
        BY DEF Init, OneIsAwaited, EachIsAsked
    <2>2. WorkIsSettled
        BY DEF Init, Idle, WorkIsSettled
    <2>3. Entered = {}
        BY DEF Init, Entered
    <2> QED
        BY <2>1, <2>2, <2>3 DEF LossInv, NothingLost
<1>2. SendInv /\ LossInv /\ [Next]_vars => LossInv'
    <2> SUFFICES ASSUME SendInv, LossInv, [Next]_vars PROVE LossInv'
        OBVIOUS
    <2>1. CASE Next
        BY <2>1, LossKept
    <2>2. CASE UNCHANGED vars
        BY <2>2 DEF vars, clientVars, LossInv, OneIsAwaited, EachIsAsked, WorkIsSettled,
                    NothingLost, Covered, GivenUp, Entered, Queued
    <2> QED
        BY <2>1, <2>2
<1>3. LossInv => NothingLost
    BY DEF LossInv
<1> QED
    BY <1>1, <1>2, <1>3, InvHolds, PTL DEF Spec
-----------------------------------------------------------------------------
(***************************************************************************)
(* The ticks.  Only a file that is still to be uploaded is marked whatever *)
(* the row says, so it must not have reached anybody.                      *)
(***************************************************************************)

Arrived(m) == \E t \in Target : <<m, t>> \in stored

Sent(m) == Arrived(m) \/ \E r \in net : r.msg = m

\* Of a message in the queue nothing goes out before its file is uploaded.
UploadComesFirst ==
    /\ \A m \in Queued : ToUpload(m) => ~Sent(m)
    /\ worker.pc \in {"address", "wait"} => ~ToUpload(worker.msg)

\* A tick stands for a copy at the relay.
TicksAreTrue == \A m \in Message : box[m].delivered => Arrived(m)

TicksInv == UploadComesFirst /\ TicksAreTrue

\* What a step does to a row that only StatusUpdate gives a tick.
RowStays(old, new) ==
    /\ old.seen => new.seen \/ new = NoRow
    /\ old.delivered => new.delivered \/ new.status = "FAILED" \/ new = NoRow

RowGainsNothing(old, new) == RowStays(old, new) /\ (new.delivered => old.delivered)

LEMMA StatusKeepsTicks ==
    ASSUME BoxOK, NEW m \in Message, NEW x \in Message, NEW s \in Status,
           s \in {"SENT", "SENDING", "PENDING", "FAILED"} \/ ~box[x].delivered
    PROVE  RowGainsNothing(box[m], SetStatus(box, x, s)[m])
<1>1. CASE SetStatus(box, x, s) = box
    BY <1>1 DEF RowGainsNothing, RowStays
<1>2. CASE SetStatus(box, x, s) # box
    <2>1. /\ ~box[x].seen
          /\ ~(box[x].delivered /\ s \in {"SENT", "SENDING", "PENDING"})
          /\ SetStatus(box, x, s) =
                [box EXCEPT ![x] = [status |-> s, delivered |-> FALSE, seen |-> FALSE]]
        BY <1>2 DEF SetStatus
    <2>2. CASE x # m
        <3>1. SetStatus(box, x, s)[m] = box[m]
            BY <2>1, <2>2 DEF BoxOK
        <3> QED
            BY <3>1 DEF RowGainsNothing, RowStays
    <2>3. CASE x = m
        <3>1. SetStatus(box, x, s)[m] = [status |-> s, delivered |-> FALSE, seen |-> FALSE]
            BY <2>1, <2>3 DEF BoxOK
        <3>2. box[m].delivered => s = "FAILED"
            BY <2>1, <2>3
        <3> QED
            BY <2>1, <2>3, <3>1, <3>2 DEF RowGainsNothing, RowStays
    <2> QED
        BY <2>2, <2>3
<1> QED
    BY <1>1, <1>2

\* The worker marks a message UPLOADING only before anything of it went out.
LEMMA TakeKeepsTicks ==
    ASSUME BoxOK, TicksAreTrue, NEW q \in Seq(Message), q # <<>>,
           ToUpload(q[1]) => ~Arrived(q[1]), Take(q, box)
    PROVE  \A m \in Message : RowGainsNothing(box[m], box'[m])
<1>1. q[1] \in Message /\ "UPLOADING" \in Status /\ "SENDING" \in Status
    BY DEF Status
<1>2. \/ ToUpload(q[1]) /\ box' = SetStatus(box, q[1], "UPLOADING")
      \/ box' = SetStatus(box, q[1], "SENDING")
    BY DEF Take, First
<1>3. ToUpload(q[1]) => ~box[q[1]].delivered
    BY <1>1 DEF TicksAreTrue
<1> QED
    BY <1>1, <1>2, <1>3, StatusKeepsTicks

\* What has not entered the queue has not gone out.
LEMMA NothingBeforeTurn ==
    ASSUME SendInv, NEW m, Sent(m)
    PROVE  HasTurn(m)
<1>1. ASSUME NEW t \in Target, <<m, t>> \in stored PROVE HasTurn(m)
    <2>1. <<m, t>>[1] = m
        OBVIOUS
    <2> QED
        BY <1>1, <2>1 DEF SendInv, OnlyDue
<1>2. ASSUME NEW r \in net, r.msg = m PROVE HasTurn(m)
    BY <1>2 DEF SendInv, OnlyDue
<1> QED
    BY <1>1, <1>2 DEF Sent, Arrived

\* What goes out is of the worker's message, when it has been addressed.
LEMMA OnlyAddressedGoesOut ==
    ASSUME SendInv, Next, NEW m, Sent(m)'
    PROVE  Sent(m) \/ (worker.pc \in {"address", "wait"} /\ worker.msg = m)
<1> USE RequestsKept DEF RequestsFollow
<1>1. ASSUME NEW t \in Target, <<m, t>> \in stored'
      PROVE  Sent(m)
    <2>1. <<m, t>>[1] = m
        OBVIOUS
    <2> QED
        BY <1>1, <2>1 DEF Sent, Arrived
<1>2. ASSUME NEW r \in net', r.msg = m
      PROVE  Sent(m) \/ (worker.pc \in {"address", "wait"} /\ worker.msg = m)
    BY <1>2 DEF Sent
<1> QED
    BY <1>1, <1>2 DEF Sent, Arrived

\* The first step of a call of the worker, and of the loop.
LEMMA CallKeepsTicks ==
    ASSUME SendInv, TicksInv, NEW q \in Seq(Message), NEW c \in BOOLEAN, Trigger(q, c),
           q # <<>> => (ToUpload(q[1]) => ~Arrived(q[1]))
    PROVE  \A m \in Message : RowGainsNothing(box[m], box'[m])
<1>1. CASE worker.pc = "idle" /\ q # <<>> /\ c
    BY <1>1, TakeKeepsTicks DEF Trigger, SendInv, TypesOK, TicksInv
<1>2. CASE ~(worker.pc = "idle" /\ q # <<>> /\ c)
    BY <1>2 DEF Trigger, RowGainsNothing, RowStays
<1> QED
    BY <1>1, <1>2

\* The first item of the queue, also when a message has just entered it or left it.
LEMMA QueuedIsUntouched ==
    ASSUME SendInv, TicksInv, NEW m, ToUpload(m),
           m \in Queued \/ m \in composing
    PROVE  ~Sent(m)
<1>1. CASE m \in Queued
    BY <1>1 DEF TicksInv, UploadComesFirst
<1>2. CASE m \in composing
    <2>1. m \notin Entered
        BY <1>2 DEF SendInv, EnteredOnce
    <2> QED
        BY <2>1, NothingBeforeTurn DEF HasTurn
<1> QED
    BY <1>1, <1>2

LEMMA FirstOfQueue ==
    ASSUME NEW q \in Seq(Message), q # <<>>
    PROVE  1 \in 1 .. Len(q) /\ q[1] \in Message
<1> QED
    OBVIOUS

\* Rows are rewritten, by whoever it is, without a lost tick, and a new tick is
\* for a message that the relay has.
RowsFollow ==
    \A m \in Message :
        /\ RowStays(box[m], box'[m])
        /\ box'[m].delivered => box[m].delivered \/ Arrived(m)

LEMMA RowsKept == ASSUME SendInv, TicksInv, Next PROVE RowsFollow
<1> USE DEF SendInv, TypesOK
<1>1. ASSUME \A m \in Message : RowGainsNothing(box[m], box'[m]) PROVE RowsFollow
    BY <1>1 DEF RowsFollow, RowGainsNothing
<1>2. ASSUME \A m \in Message : box'[m] = box[m] \/ box'[m] = NoRow PROVE RowsFollow
    BY <1>2 DEF RowsFollow, RowStays, NoRow
<1>3. worker.pc # "idle" => worker.msg \in Message
    BY SendAssumption DEF WorkerOK
<1>4. ASSUME NEW n \in Message, SaveMessage(n) PROVE RowsFollow
    <2>1. box[n] = NoRow /\ \A m \in Message \ {n} : box'[m] = box[m]
        BY <1>4 DEF SaveMessage, BoxOK
    <2>2. box'[n].delivered = FALSE
        BY <1>4, <2>1 DEF SaveMessage, BoxOK, NoRow
    <2>3. RowGainsNothing(box[n], box'[n])
        BY <2>1, <2>2 DEF RowGainsNothing, RowStays, NoRow
    <2>4. \A m \in Message \ {n} : RowGainsNothing(box[m], box'[m])
        BY <2>1 DEF RowGainsNothing, RowStays
    <2> QED
        BY <1>1, <2>3, <2>4
<1>5. ASSUME NEW n \in Message, Enqueue(n) PROVE RowsFollow
    <2>1. /\ queue' \in Seq(Message) /\ Len(queue') = Len(queue) + 1
          /\ \A i \in 1 .. Len(queue) : queue'[i] = queue[i]
          /\ queue'[Len(queue) + 1] = n /\ Len(queue) \in Nat
        BY <1>5, MessagesEnterAtTheEnd DEF QueueOK
    <2>2. ASSUME queue' # <<>> PROVE queue'[1] \in Queued \/ queue'[1] = n
        BY <2>1 DEF Queued
    <2>3. n \in composing /\ Trigger(queue', online)
        BY <1>5 DEF Enqueue
    <2>4. queue' # <<>> => (ToUpload(queue'[1]) => ~Arrived(queue'[1]))
        BY <2>2, <2>3, QueuedIsUntouched DEF Sent
    <2> QED
        BY <1>1, <2>1, <2>3, <2>4, CallKeepsTicks DEF RestOK
<1>6. queue # <<>> => (ToUpload(queue[1]) => ~Arrived(queue[1]))
    <2> SUFFICES ASSUME queue # <<>>, ToUpload(queue[1]) PROVE ~Arrived(queue[1])
        OBVIOUS
    <2>1. queue[1] \in Queued
        BY FirstOfQueue DEF QueueOK, Queued
    <2> QED
        BY <2>1, QueuedIsUntouched DEF Sent
<1>7. CASE Connect
    BY <1>1, <1>6, <1>7, CallKeepsTicks DEF Connect, QueueOK
<1>8. CASE Dequeue
    <2>1. /\ queue' \in Seq(Message) /\ Len(queue') = Len(queue) - 1 /\ Len(queue) > 0
          /\ \A i \in 1 .. Len(queue') : queue'[i] = queue[i + 1]
        BY <1>8, FirstLeaves
    <2>2. (queue' # <<>> /\ Take(queue', box)) \/ UNCHANGED box
        BY <1>8 DEF Dequeue, TakeNext, Halt
    <2>3. CASE queue' # <<>> /\ Take(queue', box)
        <3>1. 1 \in 1 .. Len(queue') /\ Len(queue) \in Nat
            BY <2>1, <2>3, FirstOfQueue DEF QueueOK
        <3>2. 2 \in 1 .. Len(queue) /\ queue'[1] = queue[2]
            BY <2>1, <3>1
        <3>3. queue'[1] \in Queued
            BY <3>2 DEF Queued
        <3>4. ToUpload(queue'[1]) => ~Arrived(queue'[1])
            BY <3>3, QueuedIsUntouched DEF Sent
        <3> QED
            BY <1>1, <2>1, <2>3, <3>4, TakeKeepsTicks DEF TicksInv
    <2> QED
        BY <1>2, <2>2, <2>3
<1>9. CASE UploadDone \/ UploadBreaks \/ UploadFails \/ AddressFails
    <2>1. \E s \in {"SENDING", "PENDING", "FAILED"} : box' = SetStatus(box, worker.msg, s)
        BY <1>9 DEF UploadDone, UploadBreaks, UploadFails, AddressFails, Halt
    <2>2. worker.msg \in Message /\ {"SENDING", "PENDING", "FAILED"} \subseteq Status
        BY <1>3, <1>9 DEF UploadDone, UploadBreaks, UploadFails, AddressFails, At, Status
    <2> QED
        BY <1>1, <2>1, <2>2, StatusKeepsTicks
<1>10. CASE StoreSent
    <2>1. worker.msg \in Message
        BY <1>3, <1>10 DEF StoreSent, At
    <2>2. \A m \in Message \ {worker.msg} : box'[m] = box[m]
        BY <1>10, <2>1 DEF StoreSent, BoxOK
    <2>3. RowGainsNothing(box[worker.msg], box'[worker.msg])
        <3>1. CASE worker.msg \in System
            BY <1>10, <3>1 DEF StoreSent, RowGainsNothing, RowStays
        <3>2. CASE worker.msg \notin System /\ box[worker.msg] = NoRow
            BY <1>10, <2>1, <3>2 DEF StoreSent, RowGainsNothing, RowStays, NoRow, BoxOK
        <3>3. CASE worker.msg \notin System /\ box[worker.msg] # NoRow
            <4>1. box' = [box EXCEPT ![worker.msg].status = StatusString(box[worker.msg])]
                BY <1>10, <3>3 DEF StoreSent
            <4>2. /\ box'[worker.msg].seen = box[worker.msg].seen
                  /\ box'[worker.msg].delivered = box[worker.msg].delivered
                BY <2>1, <4>1 DEF BoxOK
            <4> QED
                BY <4>2 DEF RowGainsNothing, RowStays
        <3> QED
            BY <3>1, <3>2, <3>3
    <2>4. \A m \in Message \ {worker.msg} : RowGainsNothing(box[m], box'[m])
        BY <2>2 DEF RowGainsNothing, RowStays
    <2> QED
        BY <1>1, <2>3, <2>4
<1>11. CASE Address \/ Timeout \/ \E r \in net : AnswerOk(r) \/ AnswerError(r)
    BY <1>2, <1>11 DEF Address, Timeout, AnswerOk, AnswerError, Halt
<1>12. ASSUME NEW r \in net, RelayStores(r) \/ RelayRefuses(r) PROVE RowsFollow
    BY <1>2, <1>12 DEF RelayStores, RelayRefuses, clientVars
<1>13. ASSUME NEW n \in Message, NEW s \in {"DELIVERED", "SEEN"}, StatusUpdate(n, s)
       PROVE  RowsFollow
    <2>1. /\ box' = [box EXCEPT ![n].delivered = TRUE, ![n].seen = @ \/ s = "SEEN"]
          /\ box[n] # NoRow /\ \E t \in Device \cup {NoDevice} : <<n, t>> \in stored
        BY <1>13 DEF StatusUpdate
    <2>2. Arrived(n)
        BY <2>1 DEF Arrived, Target
    <2>3. box'[n] = [[box[n] EXCEPT !.delivered = TRUE] EXCEPT !.seen = @ \/ s = "SEEN"]
        BY <2>1 DEF BoxOK
    <2>4. box[n] \in Row
        BY <2>1 DEF BoxOK
    <2>5. box'[n].delivered /\ (box[n].seen => box'[n].seen)
        BY <2>3, <2>4 DEF Row
    <2>6. \A m \in Message \ {n} : box'[m] = box[m]
        BY <2>1 DEF BoxOK
    <2> QED
        BY <2>2, <2>5, <2>6 DEF RowsFollow, RowStays
<1>14. ASSUME NEW n \in Message, FlushGhost(n) \/ ForgetContact(n) PROVE RowsFollow
    <2>1. \A m \in Message : box'[m] = box[m] \/ box'[m] = NoRow
        BY <1>14 DEF FlushGhost, ForgetContact, clientVars, BoxOK
    <2> QED
        BY <1>2, <2>1
<1>15. CASE Disconnect \/ Restart
    <2>1. \A m \in Message : box'[m] = box[m] \/ box'[m] = NoRow
        BY <1>15 DEF Disconnect, Restart, GhostsFlushed, clientVars, BoxOK
    <2> QED
        BY <1>2, <2>1
<1> QED
    BY <1>4, <1>5, <1>7, <1>8, <1>9, <1>10, <1>11, <1>12, <1>13, <1>14, <1>15
       DEF Next, WorkerStep

\* The mark of an uploaded file goes with the item only.
LEMMA UploadsStay ==
    ASSUME Next, ~Dequeue
    PROVE  uploaded \subseteq uploaded'
<1>1. ASSUME NEW n \in Message,
             SaveMessage(n) \/ Enqueue(n) \/ FlushGhost(n) \/ ForgetContact(n)
      PROVE  uploaded \subseteq uploaded'
    BY <1>1 DEF SaveMessage, Enqueue, FlushGhost, ForgetContact, clientVars
<1>2. ASSUME NEW n \in Message, NEW s \in {"DELIVERED", "SEEN"}, StatusUpdate(n, s)
      PROVE  uploaded \subseteq uploaded'
    BY <1>2 DEF StatusUpdate
<1>3. ASSUME NEW r \in net, RelayStores(r) \/ RelayRefuses(r) \/ AnswerOk(r) \/ AnswerError(r)
      PROVE  uploaded \subseteq uploaded'
    BY <1>3 DEF RelayStores, RelayRefuses, AnswerOk, AnswerError, clientVars
<1>4. CASE UploadDone \/ UploadBreaks \/ UploadFails \/ AddressFails \/ Address \/ Timeout
           \/ StoreSent
    BY <1>4 DEF UploadDone, UploadBreaks, UploadFails, AddressFails, Address, Timeout, StoreSent
<1>5. CASE Connect \/ Disconnect \/ Restart
    BY <1>5 DEF Connect, Disconnect, Restart, clientVars
<1> QED
    BY <1>1, <1>2, <1>3, <1>4, <1>5 DEF Next, WorkerStep

\* A queued file that is to be uploaded was so before.
LEMMA StillToUpload ==
    ASSUME SendInv, Next, NEW m \in Queued', ToUpload(m)'
    PROVE  ToUpload(m) /\ (m \in Queued \/ m \in composing)
<1>1. PICK i \in 1 .. Len(queue') : queue'[i] = m
    BY DEF Queued
<1>2. Len(queue) \in Nat
    BY DEF SendInv, TypesOK, QueueOK
<1>3. ASSUME NEW n \in Message, Enqueue(n)
      PROVE  ToUpload(m) /\ (m \in Queued \/ m \in composing)
    <2>1. /\ Len(queue') = Len(queue) + 1 /\ queue'[Len(queue) + 1] = n
          /\ \A j \in 1 .. Len(queue) : queue'[j] = queue[j]
        BY <1>3, MessagesEnterAtTheEnd
    <2>2. i \in 1 .. Len(queue) \/ i = Len(queue) + 1
        BY <1>1, <1>2, <2>1
    <2>3. m \in Queued \/ m = n
        BY <1>1, <2>1, <2>2 DEF Queued
    <2> QED
        BY <1>3, <2>3 DEF Enqueue, ToUpload
<1>4. CASE Dequeue
    <2>1. /\ worker.msg = queue[1] /\ Len(queue') = Len(queue) - 1 /\ Len(queue) > 0
          /\ \A j \in 1 .. Len(queue') : queue'[j] = queue[j + 1]
        BY <1>4, FirstLeaves
    <2>2. i + 1 \in 1 .. Len(queue) /\ queue[i + 1] = m /\ 1 \in 1 .. Len(queue) /\ i + 1 # 1
        BY <1>1, <1>2, <2>1
    <2>3. m # worker.msg
        BY <2>1, <2>2, QueuedOnce
    <2>4. m \in Queued
        BY <2>2 DEF Queued
    <2> QED
        BY <1>4, <2>3, <2>4 DEF Dequeue, ToUpload
<1>5. CASE (\A n \in Message : ~Enqueue(n)) /\ ~Dequeue
    <2>1. queue' = queue
        BY <1>5, QueueStays
    <2>2. m \in Queued
        BY <1>1, <2>1 DEF Queued
    <2> QED
        BY <1>5, <2>2, UploadsStay DEF ToUpload
<1> QED
    BY <1>3, <1>4, <1>5

\* The worker addresses a message whose file is uploaded, or that has none.
LEMMA AddressedIsUploaded ==
    ASSUME SendInv, UploadComesFirst, Next, worker'.pc \in {"address", "wait"}
    PROVE  ~ToUpload(worker.msg)'
<1> DEFINE Good == ~ToUpload(worker.msg)'
<1> SUFFICES Good
    OBVIOUS
<1>1. ASSUME UNCHANGED <<worker, uploaded>> PROVE Good
    BY <1>1 DEF UploadComesFirst, ToUpload
<1>2. ASSUME NEW q, Take(q, box) PROVE worker'.msg = q[1] /\ ~ToUpload(q[1])
    BY <1>2 DEF Take, First, Idle
<1>3. ASSUME NEW q, NEW c, Trigger(q, c), UNCHANGED uploaded PROVE Good
    BY <1>1, <1>2, <1>3 DEF Trigger, ToUpload
<1>4. ASSUME NEW n \in Message, Enqueue(n) PROVE Good
    BY <1>3, <1>4 DEF Enqueue
<1>5. CASE Connect
    BY <1>3, <1>5 DEF Connect
<1>6. CASE Dequeue
    <2>1. Take(queue', box)
        BY <1>6 DEF Dequeue, TakeNext, Halt, Idle
    <2>2. worker'.msg = queue'[1] /\ ~ToUpload(queue'[1])
        BY <1>2, <2>1
    <2>3. queue' # <<>>
        BY <1>6 DEF Dequeue, TakeNext, Halt, Idle
    <2>4. /\ worker.msg = queue[1] /\ queue' \in Seq(Message) /\ Len(queue') = Len(queue) - 1
          /\ Len(queue) > 0 /\ \A j \in 1 .. Len(queue') : queue'[j] = queue[j + 1]
        BY <1>6, FirstLeaves
    <2>5. Len(queue) \in Nat /\ 1 \in 1 .. Len(queue')
        BY <2>3, <2>4, FirstOfQueue DEF SendInv, TypesOK, QueueOK
    <2>6. 1 \in 1 .. Len(queue) /\ 2 \in 1 .. Len(queue) /\ queue'[1] = queue[2]
        BY <2>4, <2>5
    <2>7. queue'[1] # worker.msg
        BY <2>4, <2>6, QueuedOnce
    <2> QED
        BY <1>6, <2>2, <2>7 DEF Dequeue, ToUpload
<1>7. CASE UploadDone
    BY <1>7 DEF UploadDone, Go, ToUpload, SendInv, TypesOK, WorkerOK
<1>8. CASE Address \/ \E r \in net : AnswerOk(r)
    <2>1. worker.pc \in {"address", "wait"} /\ worker'.msg = worker.msg /\ uploaded' = uploaded
        BY <1>8 DEF Address, AnswerOk, At, Go, SendInv, TypesOK, WorkerOK
    <2> QED
        BY <2>1 DEF UploadComesFirst, ToUpload
<1>9. CASE UploadBreaks \/ UploadFails \/ AddressFails \/ Timeout \/ StoreSent \/ Restart
           \/ \E r \in net : AnswerError(r)
    <2>1. worker'.pc \in {"idle", "fail", "dequeue"}
        BY <1>9 DEF UploadBreaks, UploadFails, AddressFails, Timeout, StoreSent, Restart,
                    AnswerError, Halt, Go, Idle, SendInv, TypesOK, WorkerOK
    <2> QED
        BY <2>1
<1>10. ASSUME NEW n \in Message, SaveMessage(n) \/ FlushGhost(n) \/ ForgetContact(n) PROVE Good
    BY <1>1, <1>10 DEF SaveMessage, FlushGhost, ForgetContact, clientVars
<1>11. ASSUME NEW n \in Message, NEW s \in {"DELIVERED", "SEEN"}, StatusUpdate(n, s) PROVE Good
    BY <1>1, <1>11 DEF StatusUpdate
<1>12. ASSUME NEW r \in net, RelayStores(r) \/ RelayRefuses(r) PROVE Good
    BY <1>1, <1>12 DEF RelayStores, RelayRefuses, clientVars
<1>13. CASE Disconnect
    BY <1>1, <1>13 DEF Disconnect, clientVars
<1> HIDE DEF Good
<1> QED
    BY <1>4, <1>5, <1>6, <1>7, <1>8, <1>9, <1>10, <1>11, <1>12, <1>13 DEF Next, WorkerStep

LEMMA TicksKept == ASSUME SendInv, TicksInv, Next PROVE TicksInv'
<1>1. ASSUME NEW m \in Queued', ToUpload(m)', Sent(m)'
      PROVE  FALSE
    <2>1. ToUpload(m) /\ ~Sent(m)
        BY <1>1, StillToUpload, QueuedIsUntouched
    <2>2. worker.pc \in {"address", "wait"} /\ worker.msg = m
        BY <1>1, <2>1, OnlyAddressedGoesOut
    <2> QED
        BY <2>1, <2>2 DEF TicksInv, UploadComesFirst
<1>2. UploadComesFirst'
    BY <1>1, AddressedIsUploaded DEF TicksInv, UploadComesFirst
<1>3. TicksAreTrue'
    BY RowsKept, StoredStays DEF RowsFollow, TicksInv, TicksAreTrue, Arrived
<1> QED
    BY <1>2, <1>3 DEF TicksInv

\* A message that has been delivered or seen keeps its ticks through every retry,
\* unless the retry fails for good or the row is flushed.
THEOREM TicksAreKept == Spec => TicksStay
<1>1. Init => TicksInv
    <2> SUFFICES ASSUME Init PROVE TicksInv
        OBVIOUS
    <2>1. Queued = {}
        BY DEF Init, Queued
    <2>2. worker.pc = "idle"
        BY DEF Init, Idle
    <2>3. TicksAreTrue
        BY DEF Init, TicksAreTrue, NoRow
    <2> QED
        BY <2>1, <2>2, <2>3 DEF TicksInv, UploadComesFirst
<1>2. SendInv /\ TicksInv /\ [Next]_vars => TicksInv'
    <2> SUFFICES ASSUME SendInv, TicksInv, [Next]_vars PROVE TicksInv'
        OBVIOUS
    <2>1. CASE Next
        BY <2>1, TicksKept
    <2>2. CASE UNCHANGED vars
        BY <2>2 DEF vars, clientVars, TicksInv, UploadComesFirst, TicksAreTrue, Queued, ToUpload,
                    Sent, Arrived
    <2> QED
        BY <2>1, <2>2
<1>3. SendInv /\ TicksInv /\ [Next]_vars =>
          [\A m \in Message :
              /\ box[m].seen => box'[m].seen \/ box'[m] = NoRow
              /\ box[m].delivered =>
                     box'[m].delivered \/ box'[m].status = "FAILED" \/ box'[m] = NoRow]_vars
    BY RowsKept DEF RowsFollow, RowStays
<1> QED
    BY <1>1, <1>2, <1>3, InvHolds, PTL DEF Spec, TicksStay
=============================================================================
