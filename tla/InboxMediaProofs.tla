------------------------- MODULE InboxMediaProofs -------------------------
(***************************************************************************)
(* Theorems about the media that messages carry: for every number of       *)
(* messages, calls and media, the reference count of a media that nobody   *)
(* raced for is the number of stored messages that carry it, and neither   *)
(* its row nor its object is swept.  The invariant is stated for one media *)
(* x: Alone(x) says who is at it, Knows(x) what that call may take for     *)
(* granted about its message, RowSound(x) how row, object and worker fit   *)
(* together, CountSound(x) what the count is while a call is between       *)
(* counting and storing, or between uncounting and removing.               *)
(***************************************************************************)
EXTENDS InboxProofs

\* At most one call is at the media, and none while the worker is.
Alone(x) ==
    /\ \A b, c \in Call : Carries(b, x) /\ Carries(c, x) => b = c
    /\ Sweeping(x) => \A c \in Call : ~Carries(c, x)

\* What a call at pc takes for granted about its message being stored.
Granted(pc, there) ==
    /\ pc \in {"refer", "store", "rollback"} => ~there
    /\ pc \in {"deliver", "pushSave", "mark", "see", "unrefer", "remove"} => there

Knows(x) ==
    /\ \A c \in Call, m \in Message :
          calls[c].msg = m /\ Attached[m] = x => Granted(calls[c].pc, Stored(m))
    /\ \A m \in calls[Cron].expired : Attached[m] = x => Stored(m)

Carriers(x) == {m \in Message : Stored(m) /\ Attached[m] = x}

\* The call has counted its message and not stored it.
Owes(call, x) == call.pc \in {"store", "rollback"} /\ Attached[call.msg] = x

Owed(x) == \E c \in Call : Owes(calls[c], x)

\* The call has uncounted m and is about to remove it.
Removes(call, m) == call.msg = m /\ call.pc = "remove"

Leaving(m) ==
    \/ \E c \in Call : Removes(calls[c], m)
    \/ m \in calls[Cron].expired \ calls[Cron].rest

Counted(x) == {m \in Carriers(x) : ~Leaving(m)}

\* What is counted has no deadline.
Unscheduled(row) == row.reference_count > 0 => row.expires_at = "never"

\* What a call has selected is what is stored, but for a deadline that has passed.
Current(seen, row) ==
    /\ seen.reference_count = row.reference_count
    /\ seen.expires_at = "never" => row.expires_at = "never"

RowSound(x) ==
    /\ Sweeping(x) => Carriers(x) = {}
    /\ ~Exists(x) => Carriers(x) = {} /\ ~Owed(x)
    /\ Exists(x) => Unscheduled(media[x]) /\ (bucket[x] = "present" \/ sweeper.media = x)
    /\ \A c \in Call : op[c].do # "none" /\ op[c].media = x =>
           /\ Exists(x) /\ op[c].row.reference_count = media[x].reference_count
           /\ Unscheduled(op[c].row)
           /\ op[c].saving => op[c].seen # NoRow /\ Current(op[c].seen, media[x])

CountSound(x) ==
    /\ IsFiniteSet(Carriers(x))
    /\ Exists(x) => media[x].reference_count =
                        Cardinality(Counted(x)) + (IF Owed(x) THEN 1 ELSE 0)

\* The worker has an object in hand only between its two deletions.
WorkerSound == sweeper.do # "deleteRow" => sweeper.media = NoMedia

Fits(x) == Alone(x) /\ Knows(x) /\ RowSound(x) /\ CountSound(x)
-----------------------------------------------------------------------------
(***************************************************************************)
(* Who comes to a media.                                                   *)
(***************************************************************************)

LEMMA ContendedGrows ==
    ASSUME [Next]_vars
    PROVE  contended \subseteq contended'
<1>1. ASSUME NEW c \in Call, QueueSteps(c)
      PROVE  contended \subseteq contended'
    BY <1>1 DEF QueueSteps, QueueFind, QueueMatch, QueueAdd, QueueRefer, QueueStore, QueueDeliver,
       QueueFails, QueueRollback, QueuePush, PushUpdate, PushLoad, PushSave, QueueAnswer,
       Unrefer, SaveMessage, Steps, Ends, inboxVars
<1>2. ASSUME NEW c \in Call, OtherSteps(c)
      PROVE  contended \subseteq contended'
    BY <1>2 DEF OtherSteps, AckSave, AckCheck, AckLoad, AckMark, SeenSave, RemoveUnrefer,
       RemoveMessage, RemoveRows, Unrefer, SaveMessage, Steps, Ends, inboxVars
<1>3. ASSUME NEW c \in Call, NEW m \in Message, SeenLoad(c, m) \/ DeleteFind(c, m)
      PROVE  contended \subseteq contended'
    BY <1>3 DEF SeenLoad, DeleteFind, Begin
<1>4. ASSUME NEW c \in Call, NEW m \in Message, NEW d \in Target,
             QueueCount(c, m, d) \/ AckFind(c, m, d)
      PROVE  contended \subseteq contended'
    BY <1>4 DEF QueueCount, AckFind, Begin
<1>5. PruneSteps \/ Crash \/ (\E m \in Message : MessageExpires(m))
          => contended \subseteq contended'
    BY DEF PruneSteps, PruneFind, PruneUncount, PruneDelete, Uncounted, MessageExpires, Crash,
       inboxVars
<1>6. MediaWorks \/ UNCHANGED vars => contended \subseteq contended'
    BY DEF MediaWorks, SweepBegins, SweepDeletes, inboxVars, vars
<1> QED
    BY <1>1, <1>2, <1>3, <1>4, <1>5, <1>6 DEF Next, InboxNext

\* A call that goes on keeps its message, unless it ends.
LEMMA CallKeepsMessage ==
    ASSUME TablesSound, NEW c \in Call, QueueSteps(c) \/ OtherSteps(c)
    PROVE  /\ calls[c].pc # "idle"
           /\ \/ calls'[c].pc = "idle"
              \/ calls'[c].msg = calls[c].msg /\ calls'[c].expired = calls[c].expired
<1>1. PICK old \in CallRecord : old = calls[c]
    BY RecordsOK
<1>2. calls \in [Call -> CallRecord]
    BY RecordsOK
<1>3. ASSUME NEW pc, Go(c, pc)
      PROVE  calls'[c].msg = calls[c].msg /\ calls'[c].expired = calls[c].expired
    <2>1. calls'[c] = [old EXCEPT !.pc = pc]
        BY <1>1, <1>2, <1>3 DEF Go
    <2> QED
        BY <1>1, <2>1 DEF CallRecord
<1>4. End(c) => calls'[c].pc = "idle"
    BY <1>2 DEF End, Idle
<1>5. CASE QueueSteps(c)
    <2>1. calls[c].pc # "idle"
        BY <1>5 DEF QueueSteps, QueueFind, QueueMatch, QueueAdd, QueueRefer, QueueStore,
           QueueDeliver, QueueFails, QueueRollback, QueuePush, PushUpdate, PushLoad, PushSave,
           QueueAnswer, Unrefer, At
    <2>2. CASE QueueStore(c)
        BY <1>1, <1>2, <1>3, <2>1, <2>2 DEF QueueStore, CallRecord
    <2>3. CASE PushLoad(c)
        BY <1>1, <1>2, <1>3, <2>1, <2>3 DEF PushLoad, CallRecord
    <2>4. CASE PushSave(c)
        BY <1>1, <1>2, <1>3, <2>1, <2>4 DEF PushSave, CallRecord
    <2>5. CASE QueueRefer(c) \/ QueueRollback(c)
        BY <1>3, <1>4, <2>1, <2>5 DEF QueueRefer, QueueRollback, Unrefer, Steps, Ends, inboxVars
    <2>6. CASE QueueFind(c) \/ QueueMatch(c) \/ QueueAdd(c) \/ QueueDeliver(c) \/ QueueFails(c)
        BY <1>3, <1>4, <2>1, <2>6 DEF QueueFind, QueueMatch, QueueAdd, QueueDeliver, QueueFails,
           Steps, Ends
    <2>7. CASE QueuePush(c) \/ PushUpdate(c) \/ QueueAnswer(c)
        BY <1>3, <1>4, <2>1, <2>7 DEF QueuePush, PushUpdate, QueueAnswer, Steps, Ends
    <2> QED
        BY <1>5, <2>2, <2>3, <2>4, <2>5, <2>6, <2>7 DEF QueueSteps
<1>6. CASE OtherSteps(c)
    <2>1. calls[c].pc # "idle"
        BY <1>6 DEF OtherSteps, AckSave, AckCheck, AckLoad, AckMark, SeenSave, RemoveUnrefer,
           RemoveMessage, RemoveRows, Unrefer, At
    <2>2. CASE AckSave(c)
        BY <1>1, <1>2, <2>1, <2>2 DEF AckSave, CallRecord
    <2>3. CASE AckLoad(c)
        <3>1. calls' = [calls EXCEPT ![c].pc = "mark", ![c].row = messages[calls[c].msg]] =>
                  calls'[c].msg = calls[c].msg /\ calls'[c].expired = calls[c].expired
            BY <1>1, <1>2 DEF CallRecord
        <3> QED
            BY <1>3, <1>4, <2>1, <2>3, <3>1 DEF AckLoad, Steps, Ends
    <2>4. CASE RemoveMessage(c)
        <3>1. PICK moved : moved = [old EXCEPT !.pc = "removeRows"]
            OBVIOUS
        <3>2. moved \in CallRecord /\ moved.msg = old.msg /\ moved.expired = old.expired
            BY <3>1 DEF CallRecord, OtherStep
        <3>3. calls'[c] = moved \/ calls'[c] = [moved EXCEPT !.gone = TRUE]
            BY <1>1, <1>2, <2>4, <3>1 DEF RemoveMessage, Gone
        <3> QED
            BY <1>1, <2>1, <3>2, <3>3 DEF CallRecord
    <2>5. CASE RemoveRows(c)
        <3>1. calls'[c] = Idle \/ calls'[c] = [Idle EXCEPT !.gone = TRUE]
            BY <1>2, <2>5 DEF RemoveRows, Gone
        <3> QED
            BY <2>1, <3>1 DEF Idle
    <2>6. CASE AckCheck(c) \/ AckMark(c) \/ SeenSave(c) \/ RemoveUnrefer(c)
        BY <1>3, <1>4, <2>1, <2>6 DEF AckCheck, AckMark, SeenSave, RemoveUnrefer, Unrefer, Steps,
           Ends, inboxVars
    <2> QED
        BY <1>6, <2>2, <2>3, <2>4, <2>5, <2>6 DEF OtherSteps
<1> QED
    BY <1>5, <1>6

\* A call that begins has seen who else is at the media of its message.
LEMMA BeginsAlone ==
    ASSUME TablesSound, NEW x \in MediaId, x \notin contended', NEW c \in Call, NEW m \in Message,
           NEW d, NEW pc, NEW row, NEW key, Begin(c, m, d, pc, row, key), Attached[m] = x
    PROVE  /\ \A b \in Call : ~Carries(b, x)
           /\ ~Sweeping(x)
<1>1. x \notin Contention(c, m)
    BY DEF Begin
<1>2. ~Carries(c, x)
    BY DEF Begin, Carries, At
<1> QED
    BY <1>1, <1>2 DEF Contention

\* As long as a media is not raced for, a call comes to it when no one is there.
LEMMA CarrierBegins ==
    ASSUME TablesSound, [Next]_vars, NEW x \in MediaId, x \notin contended',
           NEW c \in Call, Carries(c, x)'
    PROVE  \/ Carries(c, x)
           \/ /\ Begins(c) \/ (c = Cron /\ PruneFind)
              /\ \A b \in Call : ~Carries(b, x)
              /\ ~Sweeping(x)
<1>1. calls \in [Call -> CallRecord]
    BY RecordsOK
<1>2. calls'[c].pc # "idle"
    BY DEF Carries
<1>3. CASE Same(calls[c], calls'[c])
    BY <1>3 DEF Same, Carries
<1>4. ~Crash
    BY <1>2 DEF Crash, Idle
<1>5. CASE Begins(c)
    <2>1. PICK m \in Message, d \in Target \cup {DefaultDevice} :
              \E pc, row, key : Begin(c, m, d, pc, row, key)
        <3>1. PICK m \in Message : \/ \E d \in Target : QueueCount(c, m, d) \/ AckFind(c, m, d)
                                   \/ SeenLoad(c, m) \/ DeleteFind(c, m)
            BY <1>5 DEF Begins
        <3>2. \A k \in RowId : deliveries[k] # NoRow =>
                  deliveries[k].dev \in Target \cup {DefaultDevice}
            BY DEF TablesSound, InboxTypeOK, Delivery
        <3>3. ASSUME NEW d \in Target, NEW k \in RowsFor(m, {d, DefaultDevice})
              PROVE  deliveries[k].dev \in Target \cup {DefaultDevice}
            BY <3>2, <3>3 DEF RowsFor, Rows
        <3> QED
            BY <3>1, <3>3 DEF QueueCount, AckFind, SeenLoad, DeleteFind
    <2>2. PICK pc, row, key : Begin(c, m, d, pc, row, key)
        BY <2>1
    <2>3. calls'[c].msg = m /\ calls'[c].expired = {}
        BY <2>2, BeginFacts
    <2>4. Attached[m] = x
        BY <2>3 DEF Carries
    <2> QED
        BY <1>5, <2>2, <2>4, BeginsAlone
<1>6. CASE QueueSteps(c) \/ OtherSteps(c)
    BY <1>2, <1>6, CallKeepsMessage DEF Carries
<1>7. CASE c = Cron /\ PruneSteps
    <2>1. CASE PruneFind
        <3>1. calls'[c].msg = NoMessage /\ calls'[c].expired = ExpiredMessages
            BY <1>1, <1>7, <2>1 DEF PruneFind, Idle
        <3>2. PICK m \in ExpiredMessages : m \in Message /\ Attached[m] = x
            BY <3>1, InboxAssumption DEF Carries
        <3>3. x \notin Contention(c, m)
            BY <1>7, <2>1, <3>2 DEF PruneFind
        <3>4. ~Carries(c, x)
            BY <1>7, <2>1 DEF PruneFind, Carries, At
        <3> QED
            BY <1>7, <2>1, <3>2, <3>3, <3>4 DEF Contention
    <2>2. CASE PruneUncount
        <3>1. calls[c].pc # "idle"
            BY <1>7, <2>2 DEF PruneUncount, At
        <3>2. calls'[c].msg = calls[c].msg /\ calls'[c].expired = calls[c].expired
            BY <1>1, <1>7, <2>2 DEF PruneUncount, Uncounted, inboxVars, CallRecord
        <3> QED
            BY <3>1, <3>2 DEF Carries
    <2>3. ~PruneDelete
        BY <1>1, <1>2, <1>7 DEF PruneDelete, Gone, Idle
    <2> QED
        BY <1>7, <2>1, <2>2, <2>3 DEF PruneSteps
<1> QED
    BY <1>3, <1>4, <1>5, <1>6, <1>7, Movers DEF Moves

\* The steps of the worker.
LEMMA WorkerSteps ==
    ASSUME [Next]_vars
    PROVE  \/ UNCHANGED sweeper
           \/ SweepBegins
           \/ \E deleted \in BOOLEAN : SweepDeletes(deleted)
           \/ (SweepObject \/ SweepPassEnds) /\ UNCHANGED inboxVars
           \/ Crash
<1>1. ASSUME NEW c \in Call, QueueSteps(c)
      PROVE  UNCHANGED sweeper
    BY <1>1 DEF QueueSteps, QueueFind, QueueMatch, QueueAdd, QueueRefer, QueueStore, QueueDeliver,
       QueueFails, QueueRollback, QueuePush, PushUpdate, PushLoad, PushSave, QueueAnswer,
       Unrefer, SaveMessage, IncrementLoad, IncrementSave, DecrementLoad, DecrementSave, Load, Save,
       SaveFind, mediaVars
<1>2. ASSUME NEW c \in Call, OtherSteps(c)
      PROVE  UNCHANGED sweeper
    BY <1>2 DEF OtherSteps, AckSave, AckCheck, AckLoad, AckMark, SeenSave, RemoveUnrefer,
       RemoveMessage, RemoveRows, Unrefer, SaveMessage, DecrementLoad, DecrementSave, Load, Save,
       SaveFind, mediaVars
<1>3. ASSUME NEW c \in Call, NEW m \in Message, SeenLoad(c, m) \/ DeleteFind(c, m)
      PROVE  UNCHANGED sweeper
    BY <1>3 DEF SeenLoad, DeleteFind, Begin, mediaVars
<1>4. ASSUME NEW c \in Call, NEW m \in Message, NEW d \in Target,
             QueueCount(c, m, d) \/ AckFind(c, m, d)
      PROVE  UNCHANGED sweeper
    BY <1>4 DEF QueueCount, AckFind, Begin, mediaVars
<1>5. PruneSteps \/ (\E m \in Message : MessageExpires(m)) => UNCHANGED sweeper
    BY DEF PruneSteps, PruneFind, PruneUncount, PruneDelete, DecrementLoad, DecrementSave, Load,
       Save, SaveFind, MessageExpires, mediaVars
<1>6. UNCHANGED vars \/ (\E x \in MediaId : DeadlinePasses(x)) => UNCHANGED sweeper
    BY DEF DeadlinePasses, vars, mediaVars
<1> QED
    BY <1>1, <1>2, <1>3, <1>4, <1>5, <1>6 DEF Next, InboxNext, MediaWorks

LEMMA WorkerKept ==
    ASSUME TablesSound, WorkerSound, [Next]_vars
    PROVE  WorkerSound'
<1>1. sweeper \in [do : SweepStep, pass : SweepPass, rest : SUBSET MediaId,
                   media : MediaId \cup {NoMedia}]
    BY DEF TablesSound, MediaInv, MediaTypeOK
<1>2. CASE SweepObject
    BY <1>1, <1>2 DEF SweepObject, WorkerSound
<1>3. CASE SweepPassEnds
    BY <1>1, <1>3 DEF SweepPassEnds, WorkerSound
<1>4. ASSUME NEW deleted \in BOOLEAN, SweepDeletes(deleted)
      PROVE  WorkerSound'
    BY <1>1, <1>4 DEF SweepDeletes, SweepRow, WorkerSound
<1>5. CASE UNCHANGED sweeper \/ SweepBegins \/ Crash
    BY <1>5 DEF WorkerSound, SweepBegins, SweepStart, Crash
<1> QED
    BY <1>2, <1>3, <1>4, <1>5, WorkerSteps

\* The worker comes to a media that was due when its pass began.
LEMMA SweepBeginsAt ==
    ASSUME TablesSound, [Next]_vars, NEW x \in MediaId, Sweeping(x)'
    PROVE  Sweeping(x) \/ (SweepBegins /\ x \in Due)
<1>1. x # NoMedia
    BY MediaAssumption
<1>2. sweeper \in [do : SweepStep, pass : SweepPass, rest : SUBSET MediaId,
                   media : MediaId \cup {NoMedia}]
    BY DEF TablesSound, MediaInv, MediaTypeOK
<1>3. CASE UNCHANGED sweeper
    BY <1>3 DEF Sweeping
<1>4. CASE SweepBegins
    BY <1>1, <1>4 DEF SweepBegins, SweepStart, Sweeping
<1>5. ASSUME NEW deleted \in BOOLEAN, SweepDeletes(deleted)
      PROVE  Sweeping(x)
    BY <1>1, <1>2, <1>5 DEF SweepDeletes, SweepRow, Sweeping
<1>6. CASE SweepObject
    BY <1>1, <1>2, <1>6 DEF SweepObject, Sweeping
<1>7. CASE SweepPassEnds
    <2>1. Abandoned = {}
        BY DEF Abandoned, TablesSound, NoUploads
    <2> QED
        BY <1>1, <1>2, <1>7, <2>1 DEF SweepPassEnds, Sweeping
<1>8. ~Crash
    BY <1>1 DEF Crash, Sweeping
<1> QED
    BY <1>3, <1>4, <1>5, <1>6, <1>7, <1>8, WorkerSteps

\* No one comes to a media at which someone is.
LEMMA AloneKept ==
    ASSUME TablesSound, [Next]_vars, NEW x \in MediaId, x \notin contended', Alone(x)
    PROVE  Alone(x)'
<1>1. ASSUME NEW b \in Call, NEW c \in Call, Carries(b, x)', Carries(c, x)'
      PROVE  b = c
    <2>1. CASE Carries(b, x) /\ Carries(c, x)
        BY <2>1 DEF Alone
    <2>2. CASE \A a \in Call : ~Carries(a, x)
        <3>1. /\ Begins(b) \/ (b = Cron /\ PruneFind)
              /\ Begins(c) \/ (c = Cron /\ PruneFind)
            BY <1>1, <2>2, CarrierBegins
        <3>2. ASSUME NEW a \in Call, Begins(a) \/ (a = Cron /\ PruneFind)
              PROVE  \A z \in Call : z # a => calls'[z] = calls[z]
            BY <3>2, RecordsOK DEF Begins, QueueCount, AckFind, SeenLoad, DeleteFind, Begin, PruneFind
        <3> QED
            BY <1>1, <2>2, <3>1, <3>2 DEF Carries
    <2> QED
        BY <1>1, <2>1, <2>2, CarrierBegins
<1>2. ASSUME Sweeping(x)', NEW c \in Call, Carries(c, x)'
      PROVE  FALSE
    <2>1. CASE Carries(c, x)
        <3>1. SweepBegins /\ x \in Due
            BY <1>2, <2>1, SweepBeginsAt DEF Alone
        <3> QED
            BY <2>1, <3>1 DEF SweepBegins
    <2>2. CASE Begins(c) \/ (c = Cron /\ PruneFind)
        <3>1. ~Sweeping(x)
            BY <1>2, <2>1, CarrierBegins
        <3>2. UNCHANGED sweeper
            BY <2>2 DEF Begins, QueueCount, AckFind, SeenLoad, DeleteFind, Begin, PruneFind, mediaVars
        <3> QED
            BY <1>2, <3>1, <3>2 DEF Sweeping
    <2> QED
        BY <1>2, <2>1, <2>2, CarrierBegins
<1> QED
    BY <1>1, <1>2 DEF Alone
-----------------------------------------------------------------------------
(***************************************************************************)
(* Which messages carry a media.                                           *)
(***************************************************************************)

Stores(c, x) ==
    QueueStore(c) /\ Attached[calls[c].msg] = x /\ calls'[c].pc = "deliver"

\* A message comes and goes by the call that is at its media.
LEMMA StoredTurns ==
    ASSUME TablesSound, [Next]_vars, NEW x \in MediaId, Knows(x),
           NEW m \in Message, Attached[m] = x
    PROVE  \/ messages'[m] # NoMessage <=> Stored(m)
           \/ \E c \in Call : calls[c].msg = m /\ (Stores(c, x) \/ RemoveMessage(c))
           \/ PruneDelete /\ m \in calls[Cron].expired
<1>1. messages \in [Message -> MessageRow \cup {NoMessage}] /\ NoMessage \notin MessageRow
    BY InboxAssumption DEF TablesSound, InboxTypeOK
<1>2. CASE UNCHANGED messages
    BY <1>2 DEF Stored
<1>3. ASSUME NEW c \in Call, QueueStore(c)
      PROVE  \/ messages'[m] # NoMessage <=> Stored(m)
             \/ calls[c].msg = m /\ Stores(c, x)
    <2>1. CASE calls[c].msg = m
        <3>1. At(c, "store") /\ ~Stored(m)
            BY <1>3, <2>1 DEF QueueStore, Knows, Granted, At
        <3>2. Go(c, "deliver")
            BY <1>3, <2>1, <3>1 DEF QueueStore
        <3> QED
            BY <1>3, <2>1, <3>2, RecordsOK DEF Stores, Go, CallRecord
    <2>2. CASE calls[c].msg # m
        BY <1>1, <1>3, <2>2 DEF QueueStore, Stored
    <2> QED
        BY <2>1, <2>2
<1>4. ASSUME NEW c \in Call, PushSave(c) \/ AckMark(c) \/ SeenSave(c)
      PROVE  messages'[m] # NoMessage <=> Stored(m)
    <2>1. calls[c].msg = m => Stored(m)
        BY <1>4 DEF PushSave, AckMark, SeenSave, Knows, Granted, At
    <2>2. messages' \in [Message -> MessageRow \cup {NoMessage}]
        BY MessagesTyped
    <2>3. PICK row \in MessageRow : row = calls[c].row
        BY <1>4 DEF PushSave, AckMark, SeenSave, At, TablesSound, CallsSound, CallSound
    <2>4. /\ [row EXCEPT !.delivered = TRUE] \in MessageRow
          /\ [row EXCEPT !.viewed = TRUE] \in MessageRow
          /\ \A e \in Expiry : [row EXCEPT !.delivered = TRUE, !.expires_at = e] \in MessageRow
        BY <2>3 DEF MessageRow
    <2>5. PICK new \in MessageRow : messages' = [messages EXCEPT ![calls[c].msg] = new]
        <3>1. CASE PushSave(c)
            BY <2>3, <2>4, <3>1 DEF PushSave, SaveMessage
        <3>2. CASE AckMark(c)
            <4>1. row.expires_at \in Expiry /\ "later" \in Expiry
                BY <2>3 DEF MessageRow, Expiry
            <4>2. [row EXCEPT !.delivered = TRUE,
                              !.expires_at = IF calls[c].msg \in Ephemeral THEN "later" ELSE @]
                      \in MessageRow
                BY <2>3, <2>4, <4>1 DEF MessageRow
            <4> QED
                BY <2>3, <3>2, <4>2 DEF AckMark, SaveMessage
        <3>3. CASE SeenSave(c)
            BY <2>3, <2>4, <3>3 DEF SeenSave, SaveMessage
        <3> QED
            BY <1>4, <3>1, <3>2, <3>3
    <2> QED
        BY <1>1, <2>1, <2>5 DEF Stored
<1>5. ASSUME NEW c \in Call, RemoveMessage(c), calls[c].msg # m
      PROVE  messages'[m] # NoMessage <=> Stored(m)
    BY <1>1, <1>5 DEF RemoveMessage, Stored
<1>6. ASSUME PruneDelete, m \notin calls[Cron].expired
      PROVE  messages'[m] # NoMessage <=> Stored(m)
    BY <1>1, <1>6 DEF PruneDelete, Stored
<1>7. ASSUME NEW n \in Message, MessageExpires(n)
      PROVE  messages'[m] # NoMessage <=> Stored(m)
    <2>1. PICK row \in MessageRow : row = messages[n]
        BY <1>1, <1>7 DEF MessageExpires, Stored
    <2>2. [row EXCEPT !.expires_at = "past"] \in MessageRow
        BY <2>1 DEF MessageRow, Expiry
    <2>3. messages' = [messages EXCEPT ![n] = [row EXCEPT !.expires_at = "past"]]
        BY <1>7, <2>1 DEF MessageExpires
    <2> QED
        BY <1>1, <2>1, <2>2, <2>3 DEF Stored
<1> QED
    BY <1>2, <1>3, <1>4, <1>5, <1>6, <1>7, MessageSteps

\* While a call is at the media, no other call makes its messages come or go.
LEMMA OthersLeaveStored ==
    ASSUME TablesSound, [Next]_vars, NEW x \in MediaId, Alone(x), Knows(x),
           NEW m \in Message, Attached[m] = x, NEW c \in Call, Carries(c, x),
           Same(calls[c], calls'[c])
    PROVE  messages'[m] # NoMessage <=> Stored(m)
<1>1. calls \in [Call -> CallRecord]
    BY RecordsOK
<1>2. ASSUME NEW b \in Call, calls[b].msg = m, Stores(b, x) \/ RemoveMessage(b)
      PROVE  FALSE
    <2>1. Carries(b, x)
        BY <1>2 DEF Carries, Stores, QueueStore, RemoveMessage, At
    <2>2. b = c
        BY <2>1 DEF Alone
    <2>3. CASE Stores(b, x)
        BY <2>2, <2>3 DEF Stores, QueueStore, Same, At
    <2>4. CASE RemoveMessage(b)
        <3>1. PICK moved : moved = [calls[b] EXCEPT !.pc = "removeRows"]
            OBVIOUS
        <3>2. moved \in CallRecord /\ moved.pc = "removeRows"
            BY <1>1, <3>1 DEF CallRecord, OtherStep
        <3>3. calls'[b] \in {moved, [moved EXCEPT !.gone = TRUE]}
            BY <1>1, <2>4, <3>1 DEF RemoveMessage, Gone
        <3>4. calls'[b].pc = "removeRows"
            BY <3>2, <3>3 DEF CallRecord
        <3> QED
            BY <2>2, <2>4, <3>4 DEF RemoveMessage, Same, At
    <2> QED
        BY <1>2, <2>3, <2>4
<1>3. ASSUME PruneDelete, m \in calls[Cron].expired
      PROVE  FALSE
    <2>1. Carries(Cron, x) /\ Cron \in Call
        BY <1>3, InboxAssumption DEF Carries, PruneDelete, At
    <2>2. Cron = c
        BY <2>1 DEF Alone
    <2>3. calls'[Cron].expired = {}
        BY <1>1, <1>3, <2>1 DEF PruneDelete, Gone, Idle
    <2> QED
        BY <1>3, <2>2, <2>3 DEF Same
<1> QED
    BY <1>2, <1>3, StoredTurns

\* What a call takes for granted when it goes on is what it has just seen or done.
LEMMA QueueGranted ==
    ASSUME TablesSound, [Next]_vars, NEW x \in MediaId, x \notin contended', Knows(x),
           NEW c \in Call, QueueSteps(c), NEW m \in Message, calls[c].msg = m, Attached[m] = x
    PROVE  calls'[c].pc = "idle" \/ Granted(calls'[c].pc, messages'[m] # NoMessage)
<1>1. PICK old \in CallRecord : old = calls[c]
    BY RecordsOK
<1>2. calls \in [Call -> CallRecord] /\ Granted(old.pc, Stored(m))
    BY <1>1, RecordsOK DEF Knows
<1>3. messages \in [Message -> MessageRow \cup {NoMessage}] /\ NoMessage \notin MessageRow
    BY InboxAssumption DEF TablesSound, InboxTypeOK
<1>4. ASSUME NEW pc, Go(c, pc)
      PROVE  calls'[c].pc = pc
    BY <1>1, <1>2, <1>4 DEF Go, CallRecord
<1>5. End(c) => calls'[c].pc = "idle"
    BY <1>2 DEF End, Idle
<1>6. x # NoMedia
    BY MediaAssumption
<1>7. CASE QueueFind(c)
    BY <1>4, <1>6, <1>7 DEF QueueFind, Steps, Stored, Granted
<1>8. CASE QueueMatch(c) \/ QueueAdd(c) \/ QueuePush(c) \/ PushUpdate(c) \/ QueueAnswer(c)
    BY <1>4, <1>5, <1>8 DEF QueueMatch, QueueAdd, QueuePush, PushUpdate, QueueAnswer, Steps, Ends,
       Granted
<1>9. CASE QueueRefer(c)
    <2>1. old.pc = "refer" /\ UNCHANGED messages
        BY <1>1, <1>9 DEF QueueRefer, At, Steps, Ends, inboxVars
    <2>2. calls'[c].pc \in {"idle", "refer", "store"}
        BY <1>1, <1>4, <1>5, <1>9, <2>1 DEF QueueRefer, Steps, Ends, inboxVars
    <2> QED
        BY <1>2, <2>1, <2>2 DEF Granted, Stored
<1>10. CASE QueueStore(c)
    <2>1. old.pc = "store" /\ ~Stored(m)
        BY <1>1, <1>2, <1>10 DEF QueueStore, At, Granted
    <2>2. calls'[c].pc = "deliver" /\ messages'[m] = NewRow(m)
        BY <1>3, <1>4, <1>10, <2>1 DEF QueueStore
    <2> QED
        BY <1>3, <2>2, NewRowTyped DEF Granted
<1>11. CASE QueueDeliver(c)
    BY <1>4, <1>11 DEF QueueDeliver, Granted
<1>12. CASE QueueFails(c)
    <2>1. old.pc = "store"
        BY <1>1, <1>12 DEF QueueFails, At
    <2>2. calls'[c].pc = "rollback" /\ UNCHANGED messages
        BY <1>4, <1>6, <1>12 DEF QueueFails
    <2> QED
        BY <1>2, <2>1, <2>2 DEF Granted, Stored
<1>13. CASE QueueRollback(c)
    <2>1. old.pc = "rollback" /\ UNCHANGED messages
        BY <1>1, <1>13 DEF QueueRollback, Unrefer, At, Ends, inboxVars
    <2>2. calls'[c].pc \in {"idle", "rollback"}
        BY <1>1, <1>5, <1>13, <2>1 DEF QueueRollback, Unrefer, Ends, inboxVars
    <2> QED
        BY <1>2, <2>1, <2>2 DEF Granted, Stored
<1>14. CASE PushLoad(c)
    <2>1. UNCHANGED messages
        BY <1>14 DEF PushLoad
    <2>2. \/ calls'[c].pc = "answer"
          \/ calls'[c].pc = "pushSave" /\ Stored(m)
        <3>1. calls' = [calls EXCEPT ![c].pc = "pushSave", ![c].row = messages[m]] =>
                  calls'[c].pc = "pushSave"
            BY <1>1, <1>2 DEF CallRecord
        <3> QED
            BY <1>4, <1>14, <3>1 DEF PushLoad
    <2> QED
        BY <2>1, <2>2 DEF Granted, Stored
<1>15. CASE PushSave(c)
    <2>1. calls'[c].pc = "answer"
        BY <1>1, <1>2, <1>15 DEF PushSave, CallRecord
    <2> QED
        BY <2>1 DEF Granted
<1> QED
    BY <1>7, <1>8, <1>9, <1>10, <1>11, <1>12, <1>13, <1>14, <1>15 DEF QueueSteps

LEMMA OtherGranted ==
    ASSUME TablesSound, [Next]_vars, NEW x \in MediaId, Knows(x),
           NEW c \in Call, OtherSteps(c), NEW m \in Message, calls[c].msg = m, Attached[m] = x
    PROVE  calls'[c].pc = "idle" \/ Granted(calls'[c].pc, messages'[m] # NoMessage)
<1>1. PICK old \in CallRecord : old = calls[c]
    BY RecordsOK
<1>2. calls \in [Call -> CallRecord] /\ Granted(old.pc, Stored(m))
    BY <1>1, RecordsOK DEF Knows
<1>3. ASSUME NEW pc, Go(c, pc)
      PROVE  calls'[c].pc = pc
    BY <1>1, <1>2, <1>3 DEF Go, CallRecord
<1>4. End(c) => calls'[c].pc = "idle"
    BY <1>2 DEF End, Idle
<1>5. CASE AckSave(c)
    <2>1. calls'[c].pc = "check"
        BY <1>1, <1>2, <1>5 DEF AckSave, CallRecord
    <2> QED
        BY <2>1 DEF Granted
<1>6. CASE AckCheck(c) \/ AckMark(c) \/ SeenSave(c)
    BY <1>3, <1>4, <1>6 DEF AckCheck, AckMark, SeenSave, Steps, Ends, Granted
<1>7. CASE AckLoad(c)
    <2>1. UNCHANGED messages
        BY <1>7 DEF AckLoad, Steps, Ends
    <2>2. \/ calls'[c].pc = "idle"
          \/ calls'[c].pc \in {"unrefer", "remove", "mark"} /\ Stored(m)
        <3>1. calls' = [calls EXCEPT ![c].pc = "mark", ![c].row = messages[m]] =>
                  calls'[c].pc = "mark"
            BY <1>1, <1>2 DEF CallRecord
        <3> QED
            BY <1>3, <1>4, <1>7, <3>1 DEF AckLoad, Steps, Ends
    <2> QED
        BY <2>1, <2>2 DEF Granted, Stored
<1>8. CASE RemoveUnrefer(c)
    <2>1. old.pc = "unrefer" /\ UNCHANGED messages
        BY <1>1, <1>8 DEF RemoveUnrefer, Unrefer, At, Steps, inboxVars
    <2>2. calls'[c].pc \in {"unrefer", "remove"}
        BY <1>1, <1>3, <1>8, <2>1 DEF RemoveUnrefer, Unrefer, Steps, inboxVars
    <2> QED
        BY <1>2, <2>1, <2>2 DEF Granted, Stored
<1>9. CASE RemoveMessage(c)
    <2>1. calls'[c].pc = "removeRows"
        BY <1>1, <1>2, <1>9 DEF RemoveMessage, Gone, CallRecord
    <2> QED
        BY <2>1 DEF Granted
<1>10. CASE RemoveRows(c)
    BY <1>2, <1>10 DEF RemoveRows, Gone, Idle
<1> QED
    BY <1>5, <1>6, <1>7, <1>8, <1>9, <1>10 DEF OtherSteps

\* The hourly job does nothing but prune.
LEMMA CronOnlyPrunes ==
    ASSUME TablesSound
    PROVE  ~QueueSteps(Cron) /\ ~OtherSteps(Cron) /\ ~Begins(Cron)
<1>1. calls[Cron].pc \in {"idle", "prune"}
    BY InboxAssumption DEF TablesSound, CallsSound, CallSound
<1>2. ~QueueSteps(Cron)
    BY <1>1 DEF QueueSteps, QueueFind, QueueMatch, QueueAdd, QueueRefer, QueueStore, QueueDeliver,
       QueueFails, QueueRollback, QueuePush, PushUpdate, PushLoad, PushSave, QueueAnswer, Unrefer,
       At
<1>3. ~OtherSteps(Cron)
    BY <1>1 DEF OtherSteps, AckSave, AckCheck, AckLoad, AckMark, SeenSave, RemoveUnrefer,
       RemoveMessage, RemoveRows, Unrefer, At
<1>4. ~Begins(Cron)
    BY DEF Begins, QueueCount, AckFind, SeenLoad, DeleteFind, Begin
<1> QED
    BY <1>2, <1>3, <1>4

LEMMA KnowsKept ==
    ASSUME TablesSound, [Next]_vars, NEW x \in MediaId, x \notin contended', Alone(x), Knows(x)
    PROVE  Knows(x)'
<1>1. calls \in [Call -> CallRecord] /\ Cron \in Call
    BY RecordsOK, InboxAssumption
<1>2. ASSUME NEW c \in Call, NEW m \in Message, calls'[c].msg = m, Attached[m] = x,
             calls'[c].pc # "idle"
      PROVE  Granted(calls'[c].pc, messages'[m] # NoMessage)
    <2>1. Carries(c, x)'
        BY <1>2 DEF Carries
    <2>2. c # Cron
        BY <1>2, CallsKept, InboxAssumption DEF CallsOK, CallsSound, CallSound
    <2>3. CASE Begins(c)
        <3>1. PICK n \in Message : \/ \E d \in Target : QueueCount(c, n, d) \/ AckFind(c, n, d)
                                   \/ SeenLoad(c, n) \/ DeleteFind(c, n)
            BY <2>3 DEF Begins
        <3>2. ASSUME NEW d, NEW pc, NEW row, NEW key, Begin(c, n, d, pc, row, key)
              PROVE  calls'[c].pc = pc /\ calls'[c].msg = n /\ UNCHANGED messages
            BY <3>2, BeginFacts DEF Begin
        <3>3. \/ calls'[c].pc \in {"find", "check", "ack"}
              \/ calls'[c].pc \in {"see", "unrefer", "remove"} /\ messages'[n] # NoMessage /\ n = m
            BY <1>2, <3>1, <3>2 DEF QueueCount, AckFind, SeenLoad, DeleteFind, Stored
        <3> QED
            BY <3>3 DEF Granted
    <2>4. CASE Same(calls[c], calls'[c])
        <3>1. calls[c].msg = m /\ calls[c].pc = calls'[c].pc
            BY <1>2, <2>4 DEF Same
        <3>2. Carries(c, x)
            BY <1>2, <3>1 DEF Carries
        <3>3. Granted(calls[c].pc, Stored(m))
            BY <1>2, <3>1 DEF Knows
        <3>4. messages'[m] # NoMessage <=> Stored(m)
            BY <1>2, <2>4, <3>2, OthersLeaveStored
        <3> QED
            BY <3>1, <3>3, <3>4 DEF Granted
    <2>5. CASE QueueSteps(c) \/ OtherSteps(c)
        <3>1. calls[c].msg = m
            BY <1>2, <2>5, CallKeepsMessage
        <3> QED
            BY <1>2, <2>5, <3>1, QueueGranted, OtherGranted
    <2>6. ~Crash
        BY <1>2 DEF Crash, Idle
    <2> QED
        BY <2>2, <2>3, <2>4, <2>5, <2>6, Movers DEF Moves
<1>3. ASSUME NEW m \in calls'[Cron].expired, Attached[m] = x
      PROVE  messages'[m] # NoMessage
    <2>1. CASE Same(calls[Cron], calls'[Cron])
        <3>1. m \in calls[Cron].expired /\ m \in Message
            BY <1>1, <1>3, <2>1 DEF Same, CallRecord
        <3>2. calls[Cron].pc # "idle"
            BY <1>1, <3>1 DEF TablesSound, CallsSound, CallSound, Idle
        <3>3. Carries(Cron, x) /\ Stored(m)
            BY <1>3, <3>1, <3>2 DEF Carries, Knows
        <3> QED
            BY <1>1, <1>3, <2>1, <3>1, <3>3, OthersLeaveStored
    <2>2. CASE PruneFind
        BY <1>1, <1>3, <2>2 DEF PruneFind, ExpiredMessages, Stored, Idle
    <2>3. CASE PruneUncount
        <3>1. calls'[Cron].expired = calls[Cron].expired /\ UNCHANGED messages
            BY <1>1, <2>3 DEF PruneUncount, Uncounted, inboxVars, CallRecord
        <3> QED
            BY <1>3, <3>1 DEF Knows, Stored
    <2>4. calls'[Cron].expired # {}
        BY <1>3
    <2>5. ~PruneDelete /\ ~Crash
        BY <1>1, <2>4 DEF PruneDelete, Gone, Crash, Idle
    <2> QED
        BY <1>1, <2>1, <2>2, <2>3, <2>5, CronOnlyPrunes, Movers DEF Moves, PruneSteps
<1>4. ASSUME NEW c \in Call, NEW m \in Message, calls'[c].msg = m, calls'[c].pc = "idle"
      PROVE  FALSE
    BY <1>4, CallsKept, InboxAssumption DEF CallsOK, CallsSound, CallSound
<1> QED
    BY <1>2, <1>3, <1>4 DEF Knows, Stored
-----------------------------------------------------------------------------
(***************************************************************************)
(* The steps by which a count changes, or what it is compared with.        *)
(***************************************************************************)

Refers(c, x) ==
    At(c, "refer") /\ op[c].media = x /\ IncrementSave(c) /\ Steps(c, "store")

Returns(c, x) ==
    At(c, "rollback") /\ op[c].media = x /\ DecrementSave(c) /\ Ends(c)

Uncounts(c, x) ==
    At(c, "unrefer") /\ op[c].media = x /\ DecrementSave(c) /\ Steps(c, "remove")

Prunes(m, x) ==
    /\ At(Cron, "prune") /\ m \in calls[Cron].rest /\ Attached[m] = x
    /\ op[Cron].media = x /\ DecrementSave(Cron) /\ Uncounted(m)

Deletes(c, x) == RemoveMessage(c) /\ Attached[calls[c].msg] = x

Swept(x) == SweepDeletes(TRUE) /\ sweeper.media = x

\* The row of a media is counted up and down, or swept; nothing else adds or
\* removes it or changes its count.
LEMMA RowTurns ==
    ASSUME TablesSound, [Next]_vars, NEW x \in MediaId
    PROVE  \/ /\ media'[x] # NoRow <=> Exists(x)
              /\ Exists(x) => Current(media[x], media'[x])
           \/ \E c \in Call : Refers(c, x) \/ Returns(c, x) \/ Uncounts(c, x)
           \/ \E m \in Message : Prunes(m, x)
           \/ Swept(x)
<1> DEFINE Kept == /\ media'[x] # NoRow <=> Exists(x)
                   /\ Exists(x) => Current(media[x], media'[x])
<1>1. media \in [MediaId -> Row \cup {NoRow}] /\ NoRow \notin Row
    BY MediaAssumption DEF TablesSound, MediaInv, MediaTypeOK
<1>2. UNCHANGED media => Kept
    BY DEF Exists, Current
<1>3. ASSUME NEW c \in Call, IncrementSave(c) \/ DecrementSave(c), op[c].media # x
      PROVE  Kept
    <2>1. media'[x] = media[x]
        BY <1>1, <1>3 DEF IncrementSave, DecrementSave, Save
    <2> QED
        BY <2>1 DEF Exists, Current
<1>10. ASSUME NEW c \in Call, IncrementSave(c), Refused(c)
       PROVE  Kept
    <2>1. media' = [media EXCEPT ![op[c].media] = media[op[c].media]]
        BY <1>10 DEF IncrementSave, Save, Saved, Refused, Exists
    <2> QED
        BY <1>1, <2>1 DEF Exists, Current
<1> HIDE DEF Kept
<1>4. ASSUME NEW c \in Call, QueueSteps(c)
      PROVE  Kept \/ Refers(c, x) \/ Returns(c, x)
    <2>1. CASE QueueRefer(c)
        BY <1>2, <1>3, <1>10, <2>1 DEF QueueRefer, Refers, IncrementLoad, Load, SaveFind, mediaVars
    <2>2. CASE QueueRollback(c)
        BY <1>2, <1>3, <2>2 DEF QueueRollback, Unrefer, Returns, DecrementLoad, Load, SaveFind,
           mediaVars
    <2>3. CASE ~QueueRefer(c) /\ ~QueueRollback(c)
        BY <1>2, <1>4, <2>3 DEF QueueSteps, QueueFind, QueueMatch, QueueAdd, QueueStore,
           QueueDeliver, QueueFails, QueuePush, PushUpdate, PushLoad, PushSave, QueueAnswer,
           SaveMessage, mediaVars
    <2> QED
        BY <2>1, <2>2, <2>3
<1>5. ASSUME NEW c \in Call, OtherSteps(c)
      PROVE  Kept \/ Uncounts(c, x)
    <2>1. CASE RemoveUnrefer(c)
        BY <1>2, <1>3, <2>1 DEF RemoveUnrefer, Unrefer, Uncounts, DecrementLoad, Load, SaveFind,
           mediaVars
    <2>2. CASE ~RemoveUnrefer(c)
        BY <1>2, <1>5, <2>2 DEF OtherSteps, AckSave, AckCheck, AckLoad, AckMark, SeenSave,
           RemoveMessage, RemoveRows, SaveMessage, mediaVars
    <2> QED
        BY <2>1, <2>2
<1>6. ASSUME PruneSteps
      PROVE  Kept \/ \E m \in Message : Prunes(m, x)
    <2>1. CASE PruneUncount
        <3>1. PICK m \in calls[Cron].rest :
                  \/ UNCHANGED mediaVars
                  \/ DecrementLoad(Cron, Attached[m]) \/ SaveFind(Cron)
                  \/ op[Cron].media = Attached[m] /\ DecrementSave(Cron) /\ Uncounted(m)
            BY <2>1 DEF PruneUncount
        <3>2. m \in Message /\ Cron \in Call
            BY RecordsOK, InboxAssumption DEF CallRecord
        <3>3. CASE op[Cron].media = Attached[m] /\ DecrementSave(Cron) /\ Uncounted(m)
            BY <1>3, <2>1, <3>2, <3>3 DEF Prunes, PruneUncount
        <3> QED
            BY <1>2, <3>1, <3>3 DEF DecrementLoad, Load, SaveFind, mediaVars
    <2> QED
        BY <1>2, <1>6, <2>1 DEF PruneSteps, PruneFind, PruneDelete, mediaVars
<1>7. ASSUME NEW c \in Call, Begins(c)
      PROVE  Kept
    BY <1>2, <1>7 DEF Begins, QueueCount, AckFind, SeenLoad, DeleteFind, Begin, mediaVars
<1>8. Crash \/ UNCHANGED vars \/ (\E m \in Message : MessageExpires(m)) => Kept
    BY <1>2 DEF Crash, MessageExpires, vars, mediaVars
<1>9. ASSUME NEW deleted \in BOOLEAN, SweepDeletes(deleted)
      PROVE  Kept \/ Swept(x)
    <2>1. CASE deleted /\ sweeper.media # x
        <3>1. media'[x] = media[x]
            BY <1>1, <1>9, <2>1 DEF SweepDeletes, SweepRow
        <3> QED
            BY <3>1 DEF Kept, Exists, Current
    <2>2. CASE ~deleted
        BY <1>2, <1>9, <2>2 DEF SweepDeletes, SweepRow
    <2>3. CASE deleted /\ sweeper.media = x
        BY <1>9, <2>3 DEF Swept
    <2> QED
        BY <2>1, <2>2, <2>3
<1>13. ASSUME NEW y \in MediaId, DeadlinePasses(y)
       PROVE  Kept
    <2>1. PICK row \in Row : row = media[y]
        BY <1>1, <1>13 DEF DeadlinePasses, Exists
    <2>2. PICK new : new = [row EXCEPT !.expires_at = "past"]
        OBVIOUS
    <2>3. new \in Row /\ new.reference_count = row.reference_count
        BY <2>2 DEF Row, Expiry
    <2>5. row.expires_at # "never"
        BY <1>13, <2>1 DEF DeadlinePasses
    <2>4. media' = [media EXCEPT ![y] = new]
        BY <1>13, <2>1, <2>2 DEF DeadlinePasses
    <2> QED
        BY <1>1, <2>1, <2>3, <2>4, <2>5 DEF Kept, Exists, Current
<1>11. ASSUME MediaWorks
       PROVE  Kept \/ Swept(x)
    <2>1. SweepBegins \/ SweepObject \/ SweepPassEnds => UNCHANGED media
        BY DEF SweepBegins, SweepStart, SweepObject, SweepPassEnds
    <2> QED
        BY <1>2, <1>9, <1>13, <1>11, <2>1 DEF MediaWorks
<1>12. Kept \/ (\E c \in Call : Refers(c, x) \/ Returns(c, x) \/ Uncounts(c, x))
           \/ (\E m \in Message : Prunes(m, x)) \/ Swept(x)
    BY <1>4, <1>5, <1>6, <1>7, <1>8, <1>11 DEF Next, InboxNext, Begins
<1> QED
    BY <1>12 DEF Kept

\* Who is counted for and not stored changes when a call counts, stores or takes
\* its count back.
LEMMA OwesTurns ==
    ASSUME TablesSound, [Next]_vars, NEW x \in MediaId, x \notin contended', Knows(x), RowSound(x),
           NEW c \in Call
    PROVE  \/ Owes(calls'[c], x) <=> Owes(calls[c], x)
           \/ Refers(c, x) \/ Returns(c, x) \/ Stores(c, x)
<1>1. PICK old \in CallRecord : old = calls[c]
    BY RecordsOK
<1>2. /\ calls \in [Call -> CallRecord] /\ CallSound(c, old) /\ Holds(old, op[c])
      /\ x # NoMedia
    BY <1>1, RecordsOK, MediaAssumption DEF TablesSound, CallsSound
<1>3. ASSUME NEW pc, Go(c, pc)
      PROVE  calls'[c].pc = pc /\ calls'[c].msg = old.msg
    <2>1. calls'[c] = [old EXCEPT !.pc = pc]
        BY <1>1, <1>2, <1>3 DEF Go
    <2> QED
        BY <2>1 DEF CallRecord
<1>4. End(c) => ~Owes(calls'[c], x)
    BY <1>2 DEF End, Idle, Owes
<1>5. CASE Same(calls[c], calls'[c])
    BY <1>5 DEF Same, Owes
<1>6. CASE Crash
    <2>1. ~Owes(calls'[c], x)
        BY <1>6 DEF Crash, Idle, Owes
    <2>2. ASSUME Owes(calls[c], x)
          PROVE  FALSE
        <3>1. ~At(c, "idle") /\ calls[c].msg \in Message /\ Attached[calls[c].msg] = x
            BY <1>1, <1>2, <2>2 DEF Owes, CallSound, At
        <3> QED
            BY <1>6, <3>1 DEF Crash
    <2> QED
        BY <2>1, <2>2
<1>7. CASE Begins(c)
    <2>1. ASSUME NEW m, NEW d, NEW row, NEW key,
                 NEW pc \in {"find", "check", "ack", "see", "unrefer", "remove"},
                 Begin(c, m, d, pc, row, key)
          PROVE  calls'[c].pc = pc /\ old.pc = "idle"
        BY <1>1, <2>1, BeginFacts DEF At
    <2>2. old.pc = "idle" /\ calls'[c].pc \in {"find", "check", "ack", "see", "unrefer", "remove"}
        BY <1>7, <2>1 DEF Begins, QueueCount, AckFind, SeenLoad, DeleteFind
    <2> QED
        BY <1>1, <2>2 DEF Owes
<1>8. CASE OtherSteps(c)
    <2>1. old.pc \notin {"store", "rollback"}
        BY <1>1, <1>8 DEF OtherSteps, AckSave, AckCheck, AckLoad, AckMark, SeenSave, RemoveUnrefer,
           RemoveMessage, RemoveRows, Unrefer, At
    <2>2. calls'[c].pc \notin {"store", "rollback"}
        <3>1. CASE RemoveMessage(c)
            BY <1>1, <1>2, <3>1 DEF RemoveMessage, Gone, CallRecord
        <3>2. CASE RemoveRows(c)
            BY <1>2, <3>2 DEF RemoveRows, Gone, Idle
        <3>3. CASE AckSave(c) \/ AckLoad(c)
            BY <1>1, <1>2, <1>3, <1>4, <3>3 DEF AckSave, AckLoad, Steps, Ends, CallRecord, End, Idle
        <3>4. CASE AckCheck(c) \/ AckMark(c) \/ SeenSave(c)
            BY <1>1, <1>2, <1>3, <3>4 DEF AckCheck, AckMark, SeenSave, Steps, Ends, End, Idle
        <3>5. CASE RemoveUnrefer(c)
            BY <1>1, <1>3, <2>1, <3>5 DEF RemoveUnrefer, Unrefer, Steps, inboxVars
        <3> QED
            BY <1>8, <3>1, <3>2, <3>3, <3>4, <3>5 DEF OtherSteps
    <2> QED
        BY <1>1, <2>1, <2>2 DEF Owes
<1>9. CASE QueueSteps(c)
    <2> DEFINE m == old.msg
    <2>1. CASE QueueFind(c)
        <3>1. old.pc = "find"
            BY <1>1, <2>1 DEF QueueFind, At
        <3>2. calls'[c].pc = "store" => Attached[m] = NoMedia
            BY <1>1, <1>3, <2>1 DEF QueueFind, Steps
        <3>3. calls'[c].msg = m /\ calls'[c].pc # "rollback"
            BY <1>1, <1>3, <2>1 DEF QueueFind, Steps
        <3> QED
            BY <1>1, <1>2, <3>1, <3>2, <3>3 DEF Owes
    <2>2. CASE QueueRefer(c)
        <3>1. old.pc = "refer"
            BY <1>1, <2>2 DEF QueueRefer, At
        <3>2. CASE IncrementSave(c) /\ Steps(c, "store")
            <4>1. op[c].media = Attached[m] /\ calls'[c].msg = m
                BY <1>2, <1>3, <3>1, <3>2 DEF IncrementSave, Holds, Steps
            <4>2. CASE Attached[m] = x
                BY <1>1, <3>1, <3>2, <4>1, <4>2 DEF Refers, At
            <4>3. CASE Attached[m] # x
                BY <1>1, <4>1, <4>3 DEF Owes
            <4> QED
                BY <4>2, <4>3
        <3> QED
            BY <1>1, <1>4, <2>2, <3>1, <3>2 DEF QueueRefer, Ends, inboxVars, Owes
    <2>3. CASE QueueStore(c)
        <3>1. old.pc = "store"
            BY <1>1, <2>3 DEF QueueStore, At
        <3>2. calls'[c].pc \in {"deliver", "push"}
            BY <1>1, <1>2, <1>3, <2>3 DEF QueueStore, CallRecord
        <3>3. CASE Attached[m] = x
            <4>1. ~Stored(m)
                BY <1>1, <1>2, <3>1, <3>3 DEF Knows, Granted, CallSound
            <4>2. calls'[c].pc = "deliver"
                BY <1>1, <1>3, <2>3, <4>1 DEF QueueStore
            <4> QED
                BY <1>1, <2>3, <3>3, <4>2 DEF Stores
        <3>4. CASE Attached[m] # x
            BY <1>1, <3>2, <3>4 DEF Owes
        <3> QED
            BY <3>3, <3>4
    <2>4. CASE QueueFails(c)
        <3>1. old.pc \in {"store", "deliver"} /\ m \in Message
            BY <1>1, <1>2, <2>4 DEF QueueFails, CallSound
        <3>2. CASE Attached[m] = x
            <4>1. old.pc = "store"
                BY <1>1, <2>4, <3>1, <3>2 DEF QueueFails, At
            <4>2. calls'[c].pc = "rollback" /\ calls'[c].msg = m
                BY <1>1, <1>2, <1>3, <2>4, <3>2 DEF QueueFails
            <4> QED
                BY <1>1, <3>2, <4>1, <4>2 DEF Owes
        <3>3. CASE Attached[m] # x
            BY <1>1, <1>3, <1>4, <2>4, <3>3 DEF QueueFails, Owes
        <3> QED
            BY <3>2, <3>3
    <2>5. CASE QueueRollback(c)
        <3>1. old.pc = "rollback" /\ At(c, "rollback")
            BY <1>1, <2>5 DEF QueueRollback, Unrefer, At
        <3>2. CASE Attached[m] = x
            <4>1. Owed(x)
                BY <1>1, <3>1, <3>2 DEF Owed, Owes
            <4>2. Exists(x)
                BY <4>1 DEF RowSound
            <4>3. CASE DecrementSave(c) /\ Ends(c)
                <5>1. op[c].media = x
                    BY <1>2, <3>1, <3>2, <4>3 DEF DecrementSave, Holds
                <5> QED
                    BY <3>1, <4>3, <5>1 DEF Returns
            <4> QED
                BY <1>1, <2>5, <3>2, <4>2, <4>3 DEF QueueRollback, Unrefer, inboxVars, Owes
        <3>3. CASE Attached[m] # x
            BY <1>1, <1>4, <2>5, <3>3 DEF QueueRollback, Unrefer, Ends, inboxVars, Owes
        <3> QED
            BY <3>2, <3>3
    <2>6. CASE QueueMatch(c) \/ QueueAdd(c) \/ QueueDeliver(c)
        <3>1. old.pc \in {"match", "add", "deliver"}
            BY <1>1, <2>6 DEF QueueMatch, QueueAdd, QueueDeliver, At
        <3>2. ~Owes(calls'[c], x)
            BY <1>3, <1>4, <2>6 DEF QueueMatch, QueueAdd, QueueDeliver, Steps, Ends, Owes
        <3> QED
            BY <1>1, <3>1, <3>2 DEF Owes
    <2>7. CASE QueuePush(c) \/ PushUpdate(c) \/ QueueAnswer(c)
        <3>1. old.pc \in {"push", "pushUpdate", "answer"}
            BY <1>1, <2>7 DEF QueuePush, PushUpdate, QueueAnswer, At
        <3>2. ~Owes(calls'[c], x)
            BY <1>3, <1>4, <2>7 DEF QueuePush, PushUpdate, QueueAnswer, Steps, Ends, Owes
        <3> QED
            BY <1>1, <3>1, <3>2 DEF Owes
    <2>8. CASE PushLoad(c) \/ PushSave(c)
        <3>1. old.pc \in {"pushLoad", "pushSave"}
            BY <1>1, <2>8 DEF PushLoad, PushSave, At
        <3>2. calls'[c].pc \in {"pushSave", "answer"}
            BY <1>1, <1>2, <1>3, <2>8 DEF PushLoad, PushSave, CallRecord
        <3> QED
            BY <1>1, <3>1, <3>2 DEF Owes
    <2> QED
        BY <1>9, <2>1, <2>2, <2>3, <2>4, <2>5, <2>6, <2>7, <2>8 DEF QueueSteps
<1>10. CASE c = Cron /\ PruneSteps
    <2>1. calls'[c].pc \notin {"store", "rollback"} /\ old.pc \notin {"store", "rollback"}
        BY <1>1, <1>2, <1>10, CallsKept DEF CallsOK, CallsSound, CallSound
    <2> QED
        BY <1>1, <2>1 DEF Owes
<1> QED
    BY <1>5, <1>6, <1>7, <1>8, <1>9, <1>10, Movers DEF Moves

\* A message is about to be removed from the moment its media is uncounted.
LEMMA RemovesTurns ==
    ASSUME TablesSound, [Next]_vars, NEW x \in MediaId, x \notin contended', Knows(x), RowSound(x),
           NEW c \in Call, NEW m \in Message, Attached[m] = x
    PROVE  \/ Removes(calls'[c], m) <=> Removes(calls[c], m)
           \/ Uncounts(c, x)
           \/ Deletes(c, x) /\ calls[c].msg = m
<1>1. PICK old \in CallRecord : old = calls[c]
    BY RecordsOK
<1>2. /\ calls \in [Call -> CallRecord] /\ CallSound(c, old) /\ Holds(old, op[c])
      /\ x # NoMedia
    BY <1>1, RecordsOK, MediaAssumption DEF TablesSound, CallsSound
<1>3. ASSUME NEW pc, Go(c, pc)
      PROVE  calls'[c].pc = pc /\ calls'[c].msg = old.msg
    <2>1. calls'[c] = [old EXCEPT !.pc = pc]
        BY <1>1, <1>2, <1>3 DEF Go
    <2> QED
        BY <2>1 DEF CallRecord
<1>4. End(c) => ~Removes(calls'[c], m)
    BY <1>2 DEF End, Idle, Removes
<1>5. CASE Same(calls[c], calls'[c])
    BY <1>5 DEF Same, Removes
<1>6. CASE Crash
    <2>1. ~Removes(calls'[c], m)
        BY <1>6 DEF Crash, Idle, Removes
    <2>2. ASSUME Removes(calls[c], m)
          PROVE  FALSE
        <3>1. ~At(c, "idle") /\ calls[c].msg = m
            BY <2>2 DEF Removes, At
        <3> QED
            BY <1>6, <3>1 DEF Crash
    <2> QED
        BY <2>1, <2>2
<1>7. CASE Begins(c)
    <2>1. PICK n \in Message : \/ \E d \in Target : QueueCount(c, n, d) \/ AckFind(c, n, d)
                               \/ SeenLoad(c, n) \/ DeleteFind(c, n)
        BY <1>7 DEF Begins
    <2>2. ASSUME NEW d, NEW pc, NEW row, NEW key, Begin(c, n, d, pc, row, key)
          PROVE  calls'[c].pc = pc /\ calls'[c].msg = n /\ old.pc = "idle"
        BY <1>1, <2>2, BeginFacts DEF At
    <2>3. /\ old.pc = "idle" /\ calls'[c].msg = n
          /\ calls'[c].pc = "remove" => Attached[n] = NoMedia
        <3>1. CASE DeleteFind(c, n)
            BY <2>2, <3>1 DEF DeleteFind
        <3>2. CASE SeenLoad(c, n) \/ \E d \in Target : QueueCount(c, n, d)
            BY <2>2, <3>2 DEF SeenLoad, QueueCount
        <3>3. CASE \E d \in Target : AckFind(c, n, d)
            BY <2>2, <3>3 DEF AckFind
        <3> QED
            BY <2>1, <3>1, <3>2, <3>3
    <2> QED
        BY <1>1, <1>2, <2>3 DEF Removes
<1>8. CASE QueueSteps(c)
    <2>1. old.pc # "remove"
        BY <1>1, <1>8 DEF QueueSteps, QueueFind, QueueMatch, QueueAdd, QueueRefer, QueueStore,
           QueueDeliver, QueueFails, QueueRollback, QueuePush, PushUpdate, PushLoad, PushSave,
           QueueAnswer, Unrefer, At
    <2>2. calls'[c].pc # "remove"
        <3>1. CASE QueueStore(c) \/ PushLoad(c) \/ PushSave(c)
            BY <1>1, <1>2, <1>3, <3>1 DEF QueueStore, PushLoad, PushSave, CallRecord
        <3>2. CASE QueueRefer(c) \/ QueueRollback(c)
            BY <1>1, <1>2, <1>3, <2>1, <3>2 DEF QueueRefer, QueueRollback, Unrefer, Steps, Ends,
               End, Idle, inboxVars
        <3>3. CASE QueueFind(c) \/ QueueMatch(c) \/ QueueAdd(c) \/ QueueDeliver(c) \/ QueueFails(c)
            BY <1>2, <1>3, <3>3 DEF QueueFind, QueueMatch, QueueAdd, QueueDeliver, QueueFails,
               Steps, Ends, End, Idle
        <3>4. CASE QueuePush(c) \/ PushUpdate(c) \/ QueueAnswer(c)
            BY <1>2, <1>3, <3>4 DEF QueuePush, PushUpdate, QueueAnswer, Steps, Ends, End, Idle
        <3> QED
            BY <1>8, <3>1, <3>2, <3>3, <3>4 DEF QueueSteps
    <2> QED
        BY <1>1, <2>1, <2>2 DEF Removes
<1>9. CASE OtherSteps(c)
    <2> DEFINE n == old.msg
    <2>1. CASE AckLoad(c)
        <3>1. old.pc = "load"
            BY <1>1, <2>1 DEF AckLoad, At
        <3>2. calls' = [calls EXCEPT ![c].pc = "mark", ![c].row = messages[n]] =>
                  calls'[c].pc = "mark"
            BY <1>1, <1>2 DEF CallRecord
        <3>3. \/ calls'[c].pc \in {"mark", "unrefer"} \/ ~Removes(calls'[c], m)
              \/ calls'[c].pc = "remove" /\ calls'[c].msg = n /\ Attached[n] = NoMedia
            BY <1>1, <1>3, <1>4, <2>1, <3>2 DEF AckLoad, Steps, Ends
        <3> QED
            BY <1>1, <1>2, <3>1, <3>3 DEF Removes
    <2>2. CASE RemoveUnrefer(c)
        <3>1. old.pc = "unrefer" /\ At(c, "unrefer")
            BY <1>1, <2>2 DEF RemoveUnrefer, Unrefer, At
        <3>2. CASE n = m
            <4>1. Stored(m)
                BY <1>1, <3>1, <3>2 DEF Knows, Granted
            <4>2. Exists(x)
                BY <4>1 DEF RowSound, Carriers
            <4>3. CASE DecrementSave(c) /\ Steps(c, "remove")
                <5>1. op[c].media = x
                    BY <1>2, <3>1, <3>2, <4>3 DEF DecrementSave, Holds
                <5> QED
                    BY <3>1, <4>3, <5>1 DEF Uncounts
            <4> QED
                BY <1>1, <2>2, <3>2, <4>2, <4>3 DEF RemoveUnrefer, Unrefer, inboxVars, Removes
        <3>3. CASE n # m
            BY <1>1, <1>3, <2>2, <3>3 DEF RemoveUnrefer, Unrefer, Steps, inboxVars, Removes
        <3> QED
            BY <3>2, <3>3
    <2>3. CASE RemoveMessage(c)
        <3>1. calls'[c].pc = "removeRows"
            BY <1>1, <1>2, <2>3 DEF RemoveMessage, Gone, CallRecord
        <3> QED
            BY <2>3, <3>1 DEF Removes, Deletes
    <2>4. CASE RemoveRows(c) \/ AckSave(c)
        <3>1. old.pc \in {"removeRows", "ack"}
            BY <1>1, <2>4 DEF RemoveRows, AckSave, At
        <3>2. calls'[c].pc \in {"idle", "check"}
            BY <1>1, <1>2, <2>4 DEF RemoveRows, AckSave, Gone, Idle, CallRecord
        <3> QED
            BY <1>1, <3>1, <3>2 DEF Removes
    <2>5. CASE AckCheck(c) \/ AckMark(c) \/ SeenSave(c)
        <3>1. old.pc \in {"check", "mark", "see"}
            BY <1>1, <2>5 DEF AckCheck, AckMark, SeenSave, At
        <3>2. ~Removes(calls'[c], m)
            BY <1>3, <1>4, <2>5 DEF AckCheck, AckMark, SeenSave, Steps, Ends, Removes
        <3> QED
            BY <1>1, <3>1, <3>2 DEF Removes
    <2> QED
        BY <1>9, <2>1, <2>2, <2>3, <2>4, <2>5 DEF OtherSteps
<1>10. CASE c = Cron /\ PruneSteps
    <2>1. calls'[c].pc # "remove" /\ old.pc # "remove"
        BY <1>1, <1>2, <1>10, CallsKept DEF CallsOK, CallsSound, CallSound
    <2> QED
        BY <1>1, <2>1 DEF Removes
<1> QED
    BY <1>5, <1>6, <1>7, <1>8, <1>9, <1>10, Movers DEF Moves

\* The expired messages are about to be deleted from the moment they are uncounted.
LEMMA CronTurns ==
    ASSUME TablesSound, [Next]_vars, NEW x \in MediaId, x \notin contended', Knows(x), RowSound(x),
           NEW m \in Message, Attached[m] = x
    PROVE  \/ m \in calls'[Cron].expired \ calls'[Cron].rest <=>
                  m \in calls[Cron].expired \ calls[Cron].rest
           \/ \E n \in Message : Prunes(n, x)
           \/ PruneDelete
<1>1. /\ Cron \in Call /\ calls \in [Call -> CallRecord] /\ CallSound(Cron, calls[Cron])
      /\ x # NoMedia
    BY RecordsOK, InboxAssumption, MediaAssumption DEF TablesSound, CallsSound
<1>2. CASE Same(calls[Cron], calls'[Cron])
    BY <1>2 DEF Same
<1>3. CASE Crash
    <2>1. m \notin calls[Cron].expired
        <3> SUFFICES ASSUME m \in calls[Cron].expired
                     PROVE  FALSE
            OBVIOUS
        <3>1. ~At(Cron, "idle")
            BY <1>1 DEF CallSound, At, Idle
        <3> QED
            BY <1>1, <1>3, <3>1 DEF Crash
    <2>2. calls'[Cron].expired = {}
        BY <1>1, <1>3 DEF Crash, Idle
    <2> QED
        BY <2>1, <2>2
<1>4. CASE PruneFind
    <2>1. calls[Cron].expired = {}
        BY <1>1, <1>4 DEF PruneFind, CallSound, At, Idle
    <2>2. /\ calls'[Cron].expired = ExpiredMessages
          /\ calls'[Cron].rest = {n \in ExpiredMessages : Attached[n] # NoMedia}
        BY <1>1, <1>4 DEF PruneFind, Idle
    <2> QED
        BY <1>1, <2>1, <2>2
<1>5. CASE PruneUncount
    <2>1. PICK n \in calls[Cron].rest :
              \/ ~Exists(Attached[n]) /\ Uncounted(n)
              \/ UNCHANGED inboxVars
              \/ op[Cron].media = Attached[n] /\ DecrementSave(Cron) /\ Uncounted(n)
        BY <1>5 DEF PruneUncount
    <2>2. n \in Message /\ n \in calls[Cron].expired
        BY <1>1, <2>1 DEF CallRecord, CallSound
    <2>3. CASE UNCHANGED inboxVars
        BY <2>3 DEF inboxVars
    <2>4. CASE Uncounted(n) /\ Attached[n] # x
        <3>1. /\ calls'[Cron].expired = calls[Cron].expired
              /\ calls'[Cron].rest = calls[Cron].rest \ {n}
            BY <1>1, <2>4 DEF Uncounted, CallRecord
        <3> QED
            BY <2>4, <3>1
    <2>5. CASE Attached[n] = x
        <3>1. Stored(n)
            BY <2>2, <2>5 DEF Knows
        <3>2. Exists(x)
            BY <2>2, <2>5, <3>1 DEF RowSound, Carriers
        <3> QED
            BY <1>5, <2>1, <2>2, <2>3, <2>5, <3>2 DEF Prunes, PruneUncount
    <2> QED
        BY <2>1, <2>3, <2>4, <2>5
<1> QED
    BY <1>1, <1>2, <1>3, <1>4, <1>5, CronOnlyPrunes, Movers DEF Moves, PruneSteps
-----------------------------------------------------------------------------
(***************************************************************************)
(* Row, object and worker.                                                 *)
(***************************************************************************)

\* The row a call writes back, and the count in it: nobody else is at the media,
\* so the row is the one that the call has loaded and selected.
LEMMA SavedRow ==
    ASSUME TablesSound, NEW c \in Call, NEW x \in MediaId, op[c].media = x, RowSound(x)
    PROVE  /\ IncrementSave(c) =>
                  /\ media'[x] # NoRow /\ Unscheduled(media'[x])
                  /\ media'[x].reference_count = op[c].row.reference_count + 1
           /\ DecrementSave(c) =>
                  /\ media'[x] # NoRow /\ Unscheduled(media'[x])
                  /\ media'[x].reference_count = IF op[c].row.reference_count <= 1 THEN 0
                                                 ELSE op[c].row.reference_count - 1
<1>1. media \in [MediaId -> Row \cup {NoRow}] /\ NoRow \notin Row
    BY MediaAssumption DEF TablesSound, MediaInv, MediaTypeOK
<1>2. op[c].do \in {"increment", "decrement"} => op[c].row \in Row
    BY DEF TablesSound, MediaInv, LoadsSound, Loaded, Sound
<1>3. ASSUME NEW new \in Row, Save(c, new), op[c].do # "none", Unscheduled(new)
      PROVE  /\ media'[x] # NoRow /\ media'[x].reference_count = new.reference_count
             /\ Unscheduled(media'[x])
    <2>1. media[x] # NoRow /\ op[c].seen # NoRow /\ Current(op[c].seen, media[x])
        BY <1>3 DEF RowSound, Exists, Save
    <2>2. PICK r \in Updated(media[x], op[c].seen, new) : media' = [media EXCEPT ![x] = r]
        BY <1>3, <2>1 DEF Save, Saved
    <2>3. r.reference_count = new.reference_count
        BY <2>1, <2>2 DEF Updated, Column, Current
    <2>6. Unscheduled(r)
        BY <1>3, <2>1, <2>2, <2>3 DEF Updated, Deadlines, Column, Current, Unscheduled
    <2>4. op[c].seen \in Row /\ media[x] \in Row
        BY <1>1, <2>1 DEF TablesSound, MediaInv, MediaTypeOK
    <2>5. r \in Row
        BY <1>3, <2>2, <2>4 DEF Updated, Deadlines, Column, Row
    <2> QED
        BY <1>1, <2>2, <2>3, <2>5, <2>6
<1>4. ASSUME IncrementSave(c)
      PROVE  /\ media'[x] # NoRow /\ Unscheduled(media'[x])
             /\ media'[x].reference_count = op[c].row.reference_count + 1
    <2>1. PICK new : new = [state |-> "REFERENCED",
                            reference_count |-> op[c].row.reference_count + 1,
                            expires_at |-> "never"]
        OBVIOUS
    <2>2. new \in Row /\ new.reference_count = op[c].row.reference_count + 1
        BY <1>2, <1>4, <2>1 DEF IncrementSave, Row, MediaState, Expiry
    <2>3. Save(c, new) /\ Unscheduled(new)
        BY <1>4, <2>1 DEF IncrementSave, Unscheduled
    <2> QED
        BY <1>3, <1>4, <2>2, <2>3 DEF IncrementSave
<1>5. ASSUME DecrementSave(c)
      PROVE  /\ media'[x] # NoRow /\ Unscheduled(media'[x])
             /\ media'[x].reference_count = IF op[c].row.reference_count <= 1 THEN 0
                                            ELSE op[c].row.reference_count - 1
    <2>1. PICK row \in Row : row = op[c].row
        BY <1>2, <1>5 DEF DecrementSave
    <2>2. PICK new : new = Decremented(row)
        OBVIOUS
    <2>3. new \in Row
        BY <2>2 DEF Decremented, Row, MediaState, Expiry
    <2>4. new.reference_count = IF row.reference_count <= 1 THEN 0 ELSE row.reference_count - 1
        BY <2>1, <2>2 DEF Decremented, Row
    <2>5. Save(c, new)
        BY <1>5, <2>1, <2>2 DEF DecrementSave
    <2>6. Unscheduled(row)
        BY <1>5, <2>1 DEF DecrementSave, RowSound
    <2>7. Unscheduled(new)
        BY <2>2, <2>6 DEF Unscheduled, Decremented, Row
    <2> QED
        BY <1>3, <1>5, <2>1, <2>3, <2>4, <2>5, <2>7 DEF DecrementSave
<1> QED
    BY <1>4, <1>5

\* A row in hand is the one that was in hand before, or has just been loaded, and
\* the row selected for the save is one of the table.
LEMMA OpTurns ==
    ASSUME TablesSound, [Next]_vars, NEW c \in Call, op'[c].do # "none"
    PROVE  \/ op'[c] = op[c]
           \/ /\ Exists(op'[c].media) /\ op'[c].row = media[op'[c].media] /\ UNCHANGED media
              /\ ~op'[c].saving
           \/ /\ op[c].do # "none" /\ op'[c].media = op[c].media /\ op'[c].row = op[c].row
              /\ op'[c].seen = media[op[c].media] /\ UNCHANGED media
<1> DEFINE Kept == op'[c] = op[c]
           Fresh == /\ Exists(op'[c].media) /\ op'[c].row = media[op'[c].media] /\ UNCHANGED media
                    /\ ~op'[c].saving
           Found == /\ op[c].do # "none" /\ op'[c].media = op[c].media /\ op'[c].row = op[c].row
                    /\ op'[c].seen = media[op[c].media] /\ UNCHANGED media
<1>1. op \in [Call -> OpRecord]
    BY DEF TablesSound, MediaInv, MediaTypeOK, OpRecord
<1>2. ASSUME NEW b \in Call, NEW x \in MediaId, IncrementLoad(b, x) \/ DecrementLoad(b, x)
      PROVE  Kept \/ Fresh
    <2>1. Exists(x)
        BY <1>2 DEF IncrementLoad, CannotIncrement, DecrementLoad
    <2>2. PICK do : op' = [op EXCEPT ![b] = NewOp(do, x, media[x])] /\ UNCHANGED media
        BY <1>2 DEF IncrementLoad, DecrementLoad, Load
    <2> QED
        BY <1>1, <2>1, <2>2 DEF NewOp
<1>3. ASSUME NEW b \in Call, IncrementSave(b) \/ DecrementSave(b)
      PROVE  Kept
    BY <1>1, <1>3 DEF IncrementSave, DecrementSave, Save, NoOp, NewOp
<1>4. UNCHANGED mediaVars \/ SweepSteps \/ (\E x \in MediaId : DeadlinePasses(x)) => Kept
    BY DEF mediaVars, SweepSteps, SweepStart, SweepObject, SweepRow, SweepPassEnds, DeadlinePasses
<1>5. ~Restarts
    BY DEF Restarts, NoOp, NewOp
<1>6. ASSUME NEW b \in Call, SaveFind(b)
      PROVE  Kept \/ Found
    BY <1>6, FindFacts DEF TablesSound, SaveFind
<1> QED
    BY <1>2, <1>3, <1>4, <1>5, <1>6, StepsOnMedia DEF OnMedia, vars

LEMMA HolderCarries ==
    ASSUME TablesSound, NEW c \in Call, NEW x \in MediaId, op[c].do # "none", op[c].media = x
    PROVE  Carries(c, x)
<1>1. calls[c] \in CallRecord /\ CallSound(c, calls[c]) /\ Holds(calls[c], op[c])
    BY RecordsOK DEF TablesSound, CallsSound
<1> QED
    BY <1>1 DEF Holds, CallSound, CallRecord, Carries

\* The object of a media is touched by the worker only.
LEMMA BucketTurns ==
    ASSUME TablesSound, [Next]_vars
    PROVE  UNCHANGED bucket \/ SweepObject
BY StepsOnMedia DEF OnMedia, Restarts, vars, mediaVars, IncrementLoad, IncrementSave, DecrementLoad,
   DecrementSave, Load, Save, SaveFind, SweepSteps, SweepStart, SweepRow, SweepPassEnds, DeadlinePasses

\* A media that is due and that no call is at is carried by no message.
LEMMA DueUncarried ==
    ASSUME TablesSound, NEW x \in MediaId, RowSound(x), CountSound(x), x \in Due,
           \A c \in Call : ~Carries(c, x)
    PROVE  Carriers(x) = {}
<1>1. Exists(x) /\ media[x] \in Row /\ media[x].reference_count = 0
    BY DEF Due, Exists, TablesSound, MediaInv, MediaTypeOK, RowSound, Unscheduled, Row
<1>2. IsFiniteSet(Counted(x)) /\ Cardinality(Counted(x)) \in Nat
    BY FS_Subset, FS_CardinalityType DEF CountSound, Counted
<1>3. Cardinality(Counted(x)) = 0
    BY <1>1, <1>2 DEF CountSound
<1>4. Counted(x) = {}
    BY <1>2, <1>3, FS_EmptySet
<1>5. ASSUME NEW m \in Message, Attached[m] = x, Leaving(m)
      PROVE  FALSE
    <2>1. Cron \in Call /\ CallSound(Cron, calls[Cron])
        BY InboxAssumption DEF TablesSound, CallsSound
    <2>2. m \in calls[Cron].expired => calls[Cron].pc = "prune"
        BY <2>1 DEF CallSound
    <2> QED
        BY <1>5, <2>1, <2>2 DEF Leaving, Removes, Carries
<1> QED
    BY <1>4, <1>5 DEF Counted, Carriers

LEMMA RowKept ==
    ASSUME TablesSound, WorkerSound, [Next]_vars, NEW x \in MediaId, x \notin contended', Fits(x)
    PROVE  RowSound(x)'
<1> USE DEF Fits
<1>1. /\ calls \in [Call -> CallRecord] /\ Cron \in Call /\ x # NoMedia
      /\ media \in [MediaId -> Row \cup {NoRow}] /\ bucket \in [MediaId -> {"absent", "present", "deleted"}]
      /\ messages \in [Message -> MessageRow \cup {NoMessage}]
      /\ op \in [Call -> OpRecord]
    BY RecordsOK, InboxAssumption, MediaAssumption DEF TablesSound, MediaInv, MediaTypeOK, OpRecord, InboxTypeOK
<1>2. ASSUME NEW c \in Call, Refers(c, x) \/ Returns(c, x) \/ Uncounts(c, x)
      PROVE  /\ Exists(x) /\ media'[x] # NoRow /\ Unscheduled(media'[x])
             /\ Carries(c, x) /\ op'[c].do = "none"
    <2>1. op[c].do # "none" /\ op[c].media = x /\ (IncrementSave(c) \/ DecrementSave(c))
        BY <1>2 DEF Refers, Returns, Uncounts, IncrementSave, DecrementSave
    <2>2. op'[c].do = "none"
        BY <1>1, <2>1 DEF IncrementSave, DecrementSave, Save, NoOp, NewOp
    <2> QED
        BY <2>1, <2>2, SavedRow, HolderCarries DEF RowSound
<1>3. ASSUME NEW m \in Message, Prunes(m, x)
      PROVE  /\ Exists(x) /\ media'[x] # NoRow /\ Unscheduled(media'[x])
             /\ Carries(Cron, x) /\ op'[Cron].do = "none"
    <2>1. op[Cron].do # "none" /\ op[Cron].media = x /\ DecrementSave(Cron)
        BY <1>3 DEF Prunes, DecrementSave
    <2>2. op'[Cron].do = "none"
        BY <1>1, <2>1 DEF DecrementSave, Save, NoOp, NewOp
    <2> QED
        BY <1>1, <2>1, <2>2, SavedRow, HolderCarries DEF RowSound
<1>4. ASSUME NEW c \in Call, Stores(c, x)
      PROVE  Carries(c, x) /\ Owed(x)
    BY <1>4 DEF Stores, QueueStore, Owed, Owes, At, Carries, TablesSound, CallsSound, CallSound
<1>5. ASSUME Carriers(x) = {}, NEW m \in Message, Attached[m] = x, messages'[m] # NoMessage
      PROVE  \E c \in Call : Stores(c, x)
    <2>1. ~Stored(m)
        BY <1>5 DEF Carriers
    <2>2. ASSUME NEW c \in Call, RemoveMessage(c), calls[c].msg = m
          PROVE  FALSE
        BY <1>1, <1>5, <2>2 DEF RemoveMessage
    <2>3. ASSUME PruneDelete, m \in calls[Cron].expired
          PROVE  FALSE
        BY <1>1, <1>5, <2>3 DEF PruneDelete
    <2> QED
        BY <1>5, <2>1, <2>2, <2>3, StoredTurns
<1>6. ASSUME Sweeping(x)', NEW m \in Message, Attached[m] = x, messages'[m] # NoMessage
      PROVE  FALSE
    <2>1. CASE Sweeping(x)
        BY <1>4, <1>5, <1>6, <2>1 DEF RowSound, Alone
    <2>2. CASE SweepBegins /\ x \in Due
        <3>1. \A c \in Call : ~Carries(c, x)
            BY <2>2 DEF SweepBegins
        <3>2. Carriers(x) = {}
            BY <2>2, <3>1, DueUncarried
        <3> QED
            BY <1>6, <2>2, <3>2 DEF SweepBegins, Carriers, Stored
    <2> QED
        BY <1>6, <2>1, <2>2, SweepBeginsAt
<1>7. ASSUME media'[x] = NoRow
      PROVE  Carriers(x)' = {} /\ ~Owed(x)'
    <2>1. CASE ~Exists(x)
        <3>1. Carriers(x) = {} /\ ~Owed(x)
            BY <2>1 DEF RowSound
        <3>2. Carriers(x)' = {}
            BY <1>4, <1>5, <3>1 DEF Carriers, Stored
        <3>3. ASSUME NEW c \in Call, Owes(calls'[c], x)
              PROVE  FALSE
            <4>1. ~Owes(calls[c], x)
                BY <3>1 DEF Owed
            <4>2. Refers(c, x) \/ Returns(c, x) \/ Stores(c, x)
                BY <3>3, <4>1, OwesTurns
            <4> QED
                BY <1>2, <1>4, <2>1, <3>1, <4>2
        <3> QED
            BY <3>2, <3>3 DEF Owed
    <2>2. CASE Swept(x)
        <3>1. Carriers(x) = {} /\ \A c \in Call : ~Carries(c, x)
            BY <2>2 DEF Swept, Sweeping, RowSound, Alone
        <3>2. UNCHANGED <<messages, calls>>
            BY <2>2 DEF Swept, SweepDeletes
        <3>3. ~Owed(x)
            BY <3>1 DEF Owed, Owes, Carries, TablesSound, CallsSound, CallSound
        <3> QED
            BY <3>1, <3>2, <3>3 DEF Carriers, Stored, Owed
    <2> QED
        BY <1>2, <1>3, <1>7, <2>1, <2>2, RowTurns
<1>8. ASSUME media'[x] # NoRow
      PROVE  bucket'[x] = "present" \/ sweeper'.media = x
    <2>1. ~Swept(x)
        BY <1>1, <1>8 DEF Swept, SweepDeletes, SweepRow
    <2>2. bucket[x] = "present" \/ sweeper.media = x
        BY <1>2, <1>3, <1>8, <2>1, RowTurns DEF RowSound
    <2>3. sweeper \in [do : SweepStep, pass : SweepPass, rest : SUBSET MediaId,
                       media : MediaId \cup {NoMedia}]
        BY DEF TablesSound, MediaInv, MediaTypeOK
    <2>4. CASE SweepObject
        <3>1. bucket[x] = "present"
            BY <1>1, <2>2, <2>4 DEF SweepObject, WorkerSound
        <3>2. PICK y \in sweeper.rest : /\ bucket' \in {bucket, ObjectGone(y)}
                                        /\ sweeper'.media = y
            BY <2>3, <2>4 DEF SweepObject
        <3> QED
            BY <1>1, <3>1, <3>2 DEF ObjectGone
    <2>5. CASE UNCHANGED bucket
        <3>1. CASE UNCHANGED sweeper
            BY <2>2, <2>5, <3>1
        <3>2. CASE SweepBegins
            BY <1>1, <2>2, <2>5, <3>2 DEF SweepBegins, SweepStart, WorkerSound
        <3>3. ASSUME NEW deleted \in BOOLEAN, SweepDeletes(deleted)
              PROVE  bucket'[x] = "present"
            <4>1. sweeper.media # x
                BY <2>1, <3>3 DEF SweepDeletes, Swept
            <4> QED
                BY <2>2, <2>5, <4>1
        <3>4. CASE SweepPassEnds
            BY <2>2, <2>3, <2>5, <3>4 DEF SweepPassEnds
        <3>5. CASE Crash
            BY <2>2, <2>5, <3>5 DEF Crash
        <3> QED
            BY <2>4, <3>1, <3>2, <3>3, <3>4, <3>5, WorkerSteps
    <2> QED
        BY <2>4, <2>5, BucketTurns
<1>9. ASSUME NEW c \in Call, op'[c].do # "none", op'[c].media = x
      PROVE  /\ media'[x] # NoRow /\ op'[c].row.reference_count = media'[x].reference_count
             /\ Unscheduled(op'[c].row)
             /\ op'[c].saving => op'[c].seen # NoRow /\ Current(op'[c].seen, media'[x])
    <2>1. CASE Exists(x) /\ op'[c].row = media[x] /\ UNCHANGED media /\ ~op'[c].saving
        BY <2>1 DEF Exists, RowSound
    <2>2. CASE op'[c] = op[c]
        <3>1. /\ Exists(x) /\ op[c].row.reference_count = media[x].reference_count
              /\ Unscheduled(op[c].row)
              /\ op[c].saving => op[c].seen # NoRow /\ Current(op[c].seen, media[x])
            BY <1>9, <2>2 DEF RowSound
        <3>2. Carries(c, x)
            BY <1>9, <2>2, HolderCarries
        <3>3. ASSUME NEW b \in Call, Carries(b, x), op'[b].do = "none"
              PROVE  FALSE
            BY <1>9, <3>2, <3>3 DEF Alone
        <3>4. ~Swept(x)
            BY <3>2 DEF Swept, Alone, Sweeping
        <3>5. media'[x] # NoRow /\ Current(media[x], media'[x])
            BY <1>1, <1>2, <1>3, <3>1, <3>3, <3>4, RowTurns
        <3> QED
            BY <2>2, <3>1, <3>5 DEF Current
    <2>3. CASE /\ op[c].do # "none" /\ op[c].media = x /\ op'[c].row = op[c].row
               /\ op'[c].seen = media[x] /\ UNCHANGED media
        BY <2>3 DEF RowSound, Exists, Current
    <2> QED
        BY <1>9, <2>1, <2>2, <2>3, OpTurns
<1>10. Sweeping(x)' => Carriers(x)' = {}
    BY <1>6 DEF Carriers, Stored
<1>11. ASSUME media'[x] # NoRow
       PROVE  Unscheduled(media'[x])
    <2>1. ~Swept(x)
        BY <1>1, <1>11 DEF Swept, SweepDeletes, SweepRow
    <2>2. CASE Exists(x) /\ Current(media[x], media'[x])
        BY <2>2 DEF RowSound, Current, Unscheduled
    <2> QED
        BY <1>2, <1>3, <1>11, <2>1, <2>2, RowTurns
<1> QED
    BY <1>7, <1>8, <1>9, <1>10, <1>11 DEF RowSound, Exists, Unscheduled, Current
-----------------------------------------------------------------------------
(***************************************************************************)
(* The count.                                                              *)
(***************************************************************************)

\* A call that owes for a media, or is about to remove a message that carries it,
\* is at the media.
LEMMA DebtorCarries ==
    ASSUME TablesSound, NEW x \in MediaId, NEW c \in Call
    PROVE  /\ Owes(calls[c], x) => Carries(c, x)
           /\ \A m \in Message : Attached[m] = x /\ Removes(calls[c], m) => Carries(c, x)
           /\ \A m \in calls[Cron].expired : Attached[m] = x => Carries(Cron, x)
<1>1. CallSound(c, calls[c]) /\ Cron \in Call /\ CallSound(Cron, calls[Cron])
    BY InboxAssumption DEF TablesSound, CallsSound
<1>2. Owes(calls[c], x) => Carries(c, x)
    BY <1>1 DEF Owes, CallSound, Carries
<1>3. \A m \in Message : Attached[m] = x /\ Removes(calls[c], m) => Carries(c, x)
    BY DEF Removes, Carries
<1>4. ASSUME NEW m \in calls[Cron].expired, Attached[m] = x
      PROVE  Carries(Cron, x)
    <2>1. calls[Cron].pc = "prune" /\ m \in Message
        BY <1>1, <1>4, RecordsOK DEF CallSound, CallRecord
    <2> QED
        BY <1>4, <2>1 DEF Carries
<1> QED
    BY <1>2, <1>3, <1>4

\* The same after a step: with one call at the media, only that call matters.
LEMMA SoleCarrier ==
    ASSUME TablesSound, [Next]_vars, NEW x \in MediaId, x \notin contended', Alone(x),
           NEW c \in Call, Carries(c, x)
    PROVE  /\ Owed(x) <=> Owes(calls[c], x)
           /\ (\E b \in Call : Owes(calls'[b], x)) <=> Owes(calls'[c], x)
           /\ c # Cron => \A m \in Message : Attached[m] = x =>
                  /\ Leaving(m) <=> Removes(calls[c], m)
                  /\ Leaving(m)' <=> Removes(calls'[c], m)
           /\ c = Cron => \A m \in Message : Attached[m] = x =>
                  /\ Leaving(m) <=> m \in calls[Cron].expired \ calls[Cron].rest
                  /\ Leaving(m)' <=> m \in calls'[Cron].expired \ calls'[Cron].rest
<1>1. ASSUME NEW b \in Call, b # c
      PROVE  ~Carries(b, x) /\ ~Carries(b, x)'
    <2>1. ~Carries(b, x)
        BY <1>1 DEF Alone
    <2> QED
        BY <2>1, CarrierBegins
<1>2. ASSUME NEW b \in Call
      PROVE  /\ Owes(calls[b], x) => Carries(b, x)
             /\ Owes(calls'[b], x) => Carries(b, x)'
    <2>1. CallSound(b, calls'[b])
        BY CallsKept DEF CallsOK, CallsSound
    <2> QED
        BY <2>1, DebtorCarries DEF Owes, CallSound, Carries
<1>3. ASSUME NEW m \in Message, Attached[m] = x, NEW b \in Call
      PROVE  /\ Removes(calls[b], m) => Carries(b, x)
             /\ Removes(calls'[b], m) => Carries(b, x)'
    BY <1>3 DEF Removes, Carries
<1>4. ASSUME NEW m \in Message, Attached[m] = x
      PROVE  /\ m \in calls[Cron].expired => Carries(Cron, x)
             /\ m \in calls'[Cron].expired => Carries(Cron, x)'
    <2>1. Cron \in Call /\ CallSound(Cron, calls[Cron]) /\ CallSound(Cron, calls'[Cron])
        BY CallsKept, InboxAssumption DEF TablesSound, CallsOK, CallsSound
    <2>2. /\ m \in calls[Cron].expired => calls[Cron].pc = "prune"
          /\ m \in calls'[Cron].expired => calls'[Cron].pc = "prune"
        BY <2>1 DEF CallSound
    <2> QED
        BY <1>4, <2>2 DEF Carries
<1>5. c = Cron => \A m \in Message : ~Removes(calls[c], m) /\ ~Removes(calls'[c], m)
    <2>1. CallSound(c, calls[c]) /\ CallSound(c, calls'[c])
        BY CallsKept DEF TablesSound, CallsOK, CallsSound
    <2> QED
        BY <2>1 DEF CallSound, Removes
<1>6. Cron \in Call
    BY InboxAssumption
<1>7. Owed(x) <=> Owes(calls[c], x)
    BY <1>1, <1>2 DEF Owed
<1>8. (\E b \in Call : Owes(calls'[b], x)) <=> Owes(calls'[c], x)
    BY <1>1, <1>2
<1>9. ASSUME NEW m \in Message, Attached[m] = x, c # Cron
      PROVE  /\ Leaving(m) <=> Removes(calls[c], m)
             /\ Leaving(m)' <=> Removes(calls'[c], m)
    <2>1. \A b \in Call : b # c => ~Removes(calls[b], m) /\ ~Removes(calls'[b], m)
        BY <1>1, <1>3, <1>9
    <2>2. m \notin calls[Cron].expired /\ m \notin calls'[Cron].expired
        BY <1>1, <1>4, <1>6, <1>9
    <2> QED
        BY <2>1, <2>2 DEF Leaving
<1>10. ASSUME NEW m \in Message, Attached[m] = x, c = Cron
       PROVE  /\ Leaving(m) <=> m \in calls[Cron].expired \ calls[Cron].rest
              /\ Leaving(m)' <=> m \in calls'[Cron].expired \ calls'[Cron].rest
    <2>1. \A b \in Call : ~Removes(calls[b], m) /\ ~Removes(calls'[b], m)
        BY <1>1, <1>3, <1>5, <1>10
    <2> QED
        BY <2>1 DEF Leaving
<1> QED
    BY <1>7, <1>8, <1>9, <1>10

\* The messages that carry a media stay finitely many.
LEMMA CarriersFinite ==
    ASSUME TablesSound, [Next]_vars, NEW x \in MediaId, x \notin contended', Fits(x)
    PROVE  IsFiniteSet(Carriers(x)')
<1> USE DEF Fits
<1>1. messages \in [Message -> MessageRow \cup {NoMessage}]
    BY DEF TablesSound, InboxTypeOK
<1>2. ASSUME NEW m \in Message, Attached[m] = x, messages'[m] # NoMessage
      PROVE  Stored(m) \/ \E c \in Call : Stores(c, x) /\ calls[c].msg = m
    <2>1. ASSUME NEW c \in Call, RemoveMessage(c), calls[c].msg = m
          PROVE  FALSE
        BY <1>1, <1>2, <2>1 DEF RemoveMessage
    <2>2. ASSUME PruneDelete, m \in calls[Cron].expired
          PROVE  FALSE
        BY <1>1, <1>2, <2>2 DEF PruneDelete
    <2> QED
        BY <1>2, <2>1, <2>2, StoredTurns
<1>3. CASE \A c \in Call : ~Stores(c, x)
    <2>1. Carriers(x)' \subseteq Carriers(x)
        BY <1>2, <1>3 DEF Carriers, Stored
    <2> QED
        BY <2>1, FS_Subset DEF CountSound
<1>4. ASSUME NEW c \in Call, Stores(c, x)
      PROVE  IsFiniteSet(Carriers(x)')
    <2>1. ASSUME NEW b \in Call, Stores(b, x)
          PROVE  b = c
        BY <1>4, <2>1, DebtorCarries DEF Stores, QueueStore, Owes, At, Alone
    <2>2. PICK m : m = calls[c].msg
        OBVIOUS
    <2>3. Carriers(x)' \subseteq Carriers(x) \cup {m}
        BY <1>2, <2>1, <2>2 DEF Carriers, Stored
    <2>4. IsFiniteSet(Carriers(x) \cup {m})
        <3>1. PICK P : P = Carriers(x)
            OBVIOUS
        <3>2. IsFiniteSet(P \cup {m})
            BY <3>1, FS_AddElement DEF CountSound
        <3> QED
            BY <3>1, <3>2
    <2> QED
        BY <2>3, <2>4, FS_Subset
<1> QED
    BY <1>3, <1>4

\* What there is to compare when the messages stay and a call c, not the hourly
\* job, is at the media: only whether c was and is about to remove its message.
LEMMA CountedBy ==
    ASSUME TablesSound, [Next]_vars, NEW x \in MediaId, x \notin contended', Alone(x),
           NEW c \in Call, c # Cron, Carries(c, x), UNCHANGED messages
    PROVE  Counted(x)' = {m \in Carriers(x) : ~Removes(calls'[c], m)}
<1>1. \A m \in Message : Attached[m] = x => (Leaving(m)' <=> Removes(calls'[c], m))
    BY SoleCarrier
<1> QED
    BY <1>1 DEF Counted, Carriers, Stored

\* Counting the media before the message is stored.
LEMMA CountRefers ==
    ASSUME TablesSound, [Next]_vars, NEW x \in MediaId, x \notin contended', Fits(x),
           NEW c \in Call, Refers(c, x)
    PROVE  /\ Exists(x) /\ Counted(x)' = Counted(x) /\ ~Owed(x) /\ Owed(x)'
           /\ media'[x].reference_count = media[x].reference_count + 1
<1> USE DEF Fits
<1>1. PICK old \in CallRecord : old = calls[c]
    BY RecordsOK
<1>2. calls \in [Call -> CallRecord] /\ CallSound(c, old) /\ Holds(old, op[c])
    BY <1>1, RecordsOK DEF TablesSound, CallsSound
<1>3. /\ old.pc = "refer" /\ op[c].media = x /\ IncrementSave(c) /\ op[c].do = "increment"
      /\ Go(c, "store") /\ UNCHANGED messages
    BY <1>1 DEF Refers, At, Steps, IncrementSave
<1>4. calls'[c] = [old EXCEPT !.pc = "store"]
    BY <1>1, <1>2, <1>3 DEF Go
<1>5. calls'[c].pc = "store" /\ calls'[c].msg = old.msg
    BY <1>4 DEF CallRecord
<1>6. Carries(c, x) /\ c # Cron /\ Attached[old.msg] = x
    BY <1>2, <1>3, HolderCarries DEF Holds, CallSound
<1>7. /\ Exists(x) /\ op[c].row.reference_count = media[x].reference_count
    BY <1>3 DEF RowSound
<1>8. media'[x].reference_count = media[x].reference_count + 1
    BY <1>3, <1>7, SavedRow
<1>9. ~Owed(x) /\ Owed(x)'
    <2>1. ~Owes(calls[c], x) /\ Owes(calls'[c], x)
        BY <1>1, <1>3, <1>5, <1>6 DEF Owes
    <2> QED
        BY <1>6, <2>1, SoleCarrier DEF Owed
<1>10. Counted(x)' = Counted(x)
    <2>1. \A m \in Message : ~Removes(calls[c], m) /\ ~Removes(calls'[c], m)
        BY <1>1, <1>3, <1>5 DEF Removes
    <2>2. \A m \in Message : Attached[m] = x => ~Leaving(m)
        BY <1>6, <2>1, SoleCarrier
    <2> QED
        BY <1>3, <1>6, <2>1, <2>2, CountedBy DEF Counted, Carriers
<1> QED
    BY <1>7, <1>8, <1>9, <1>10

\* Taking the count back when the message could not be stored.
LEMMA CountReturns ==
    ASSUME TablesSound, [Next]_vars, NEW x \in MediaId, x \notin contended', Fits(x),
           NEW c \in Call, Returns(c, x)
    PROVE  /\ Exists(x) /\ Counted(x)' = Counted(x) /\ Owed(x) /\ ~Owed(x)'
           /\ media'[x].reference_count = IF media[x].reference_count <= 1 THEN 0
                                          ELSE media[x].reference_count - 1
<1> USE DEF Fits
<1>1. PICK old \in CallRecord : old = calls[c]
    BY RecordsOK
<1>2. calls \in [Call -> CallRecord] /\ CallSound(c, old) /\ Holds(old, op[c])
    BY <1>1, RecordsOK DEF TablesSound, CallsSound
<1>3. /\ old.pc = "rollback" /\ op[c].media = x /\ DecrementSave(c) /\ op[c].do = "decrement"
      /\ End(c) /\ UNCHANGED messages
    BY <1>1 DEF Returns, At, Ends, DecrementSave
<1>4. calls'[c] = Idle
    BY <1>2, <1>3 DEF End
<1>5. Carries(c, x) /\ c # Cron /\ Attached[old.msg] = x
    BY <1>2, <1>3, HolderCarries DEF Holds, CallSound
<1>6. /\ Exists(x) /\ op[c].row.reference_count = media[x].reference_count
    BY <1>3 DEF RowSound
<1>7. media'[x].reference_count = IF media[x].reference_count <= 1 THEN 0
                                  ELSE media[x].reference_count - 1
    BY <1>3, <1>6, SavedRow
<1>8. Owed(x) /\ ~Owed(x)'
    <2>1. Owes(calls[c], x) /\ ~Owes(calls'[c], x)
        BY <1>1, <1>3, <1>4, <1>5 DEF Owes, Idle
    <2> QED
        BY <1>5, <2>1, SoleCarrier DEF Owed
<1>9. Counted(x)' = Counted(x)
    <2>1. \A m \in Message : ~Removes(calls[c], m) /\ ~Removes(calls'[c], m)
        BY <1>1, <1>3, <1>4 DEF Removes, Idle
    <2>2. \A m \in Message : Attached[m] = x => ~Leaving(m)
        BY <1>5, <2>1, SoleCarrier
    <2> QED
        BY <1>3, <1>5, <2>1, <2>2, CountedBy DEF Counted, Carriers
<1> QED
    BY <1>6, <1>7, <1>8, <1>9

\* Uncounting the media of a message that is still stored.
LEMMA CountUncounts ==
    ASSUME TablesSound, [Next]_vars, NEW x \in MediaId, x \notin contended', Fits(x),
           NEW c \in Call, Uncounts(c, x)
    PROVE  /\ Exists(x) /\ ~Owed(x) /\ ~Owed(x)'
           /\ \E m \in Counted(x) : Counted(x)' = Counted(x) \ {m}
           /\ media'[x].reference_count = IF media[x].reference_count <= 1 THEN 0
                                          ELSE media[x].reference_count - 1
<1> USE DEF Fits
<1>1. PICK old \in CallRecord : old = calls[c]
    BY RecordsOK
<1>2. calls \in [Call -> CallRecord] /\ CallSound(c, old) /\ Holds(old, op[c])
    BY <1>1, RecordsOK DEF TablesSound, CallsSound
<1>3. /\ old.pc = "unrefer" /\ op[c].media = x /\ DecrementSave(c) /\ op[c].do = "decrement"
      /\ Go(c, "remove") /\ UNCHANGED messages
    BY <1>1 DEF Uncounts, At, Steps, DecrementSave
<1>4. calls'[c] = [old EXCEPT !.pc = "remove"]
    BY <1>1, <1>2, <1>3 DEF Go
<1>5. calls'[c].pc = "remove" /\ calls'[c].msg = old.msg
    BY <1>4 DEF CallRecord
<1>6. Carries(c, x) /\ c # Cron /\ Attached[old.msg] = x /\ old.msg \in Message
    BY <1>2, <1>3, HolderCarries DEF Holds, CallSound
<1>7. /\ Exists(x) /\ op[c].row.reference_count = media[x].reference_count
    BY <1>3 DEF RowSound
<1>8. media'[x].reference_count = IF media[x].reference_count <= 1 THEN 0
                                  ELSE media[x].reference_count - 1
    BY <1>3, <1>7, SavedRow
<1>9. ~Owed(x) /\ ~Owed(x)'
    <2>1. ~Owes(calls[c], x) /\ ~Owes(calls'[c], x)
        BY <1>1, <1>3, <1>5 DEF Owes
    <2> QED
        BY <1>6, <2>1, SoleCarrier DEF Owed
<1>10. old.msg \in Carriers(x)
    BY <1>1, <1>3, <1>6 DEF Knows, Granted, Carriers
<1>11. Counted(x) = Carriers(x)
    <2>1. \A m \in Message : ~Removes(calls[c], m)
        BY <1>1, <1>3 DEF Removes
    <2>2. \A m \in Message : Attached[m] = x => ~Leaving(m)
        BY <1>6, <2>1, SoleCarrier
    <2> QED
        BY <2>2 DEF Counted, Carriers
<1>12. Counted(x)' = Carriers(x) \ {old.msg}
    BY <1>3, <1>5, <1>6, CountedBy DEF Removes
<1> QED
    BY <1>7, <1>8, <1>9, <1>10, <1>11, <1>12

\* The hourly job uncounts the media of an expired message.
LEMMA CountPrunes ==
    ASSUME TablesSound, [Next]_vars, NEW x \in MediaId, x \notin contended', Fits(x),
           NEW n \in Message, Prunes(n, x)
    PROVE  /\ Exists(x) /\ ~Owed(x) /\ ~Owed(x)'
           /\ n \in Counted(x) /\ Counted(x)' = Counted(x) \ {n}
           /\ media'[x].reference_count = IF media[x].reference_count <= 1 THEN 0
                                          ELSE media[x].reference_count - 1
<1> USE DEF Fits
<1>1. PICK old \in CallRecord : old = calls[Cron]
    BY RecordsOK, InboxAssumption
<1>2. /\ calls \in [Call -> CallRecord] /\ CallSound(Cron, old) /\ Cron \in Call
    BY <1>1, RecordsOK, InboxAssumption DEF TablesSound, CallsSound
<1>3. /\ old.pc = "prune" /\ op[Cron].media = x /\ DecrementSave(Cron) /\ op[Cron].do = "decrement"
      /\ Uncounted(n) /\ UNCHANGED messages /\ n \in old.rest /\ Attached[n] = x
    BY <1>1 DEF Prunes, At, Uncounted, DecrementSave
<1>4. calls'[Cron] = [old EXCEPT !.rest = @ \ {n}]
    BY <1>1, <1>2, <1>3 DEF Uncounted
<1>5. /\ calls'[Cron].pc = "prune" /\ calls'[Cron].expired = old.expired
      /\ calls'[Cron].rest = old.rest \ {n}
    BY <1>3, <1>4 DEF CallRecord
<1>6. Carries(Cron, x) /\ n \in old.expired
    BY <1>2, <1>3, HolderCarries DEF CallSound
<1>7. /\ Exists(x) /\ op[Cron].row.reference_count = media[x].reference_count
    BY <1>2, <1>3 DEF RowSound
<1>8. media'[x].reference_count = IF media[x].reference_count <= 1 THEN 0
                                  ELSE media[x].reference_count - 1
    BY <1>2, <1>3, <1>7, SavedRow
<1>9. ~Owed(x) /\ ~Owed(x)'
    <2>1. ~Owes(calls[Cron], x) /\ ~Owes(calls'[Cron], x)
        BY <1>1, <1>3, <1>5 DEF Owes
    <2> QED
        BY <1>2, <1>6, <2>1, SoleCarrier DEF Owed
<1>10. n \in Carriers(x)
    BY <1>1, <1>3, <1>6 DEF Knows, Carriers
<1>11. \A m \in Message : Attached[m] = x =>
           /\ Leaving(m) <=> m \in old.expired \ old.rest
           /\ Leaving(m)' <=> m \in old.expired \ (old.rest \ {n})
    BY <1>1, <1>2, <1>5, <1>6, SoleCarrier
<1>12. n \in Counted(x)
    BY <1>3, <1>10, <1>11 DEF Counted
<1>13. Counted(x)' = Counted(x) \ {n}
    BY <1>3, <1>6, <1>11 DEF Counted, Carriers, Stored
<1> QED
    BY <1>7, <1>8, <1>9, <1>12, <1>13

\* Storing the message that was counted.
LEMMA CountStores ==
    ASSUME TablesSound, [Next]_vars, NEW x \in MediaId, x \notin contended', Fits(x),
           NEW c \in Call, Stores(c, x)
    PROVE  /\ Owed(x) /\ ~Owed(x)' /\ UNCHANGED media
           /\ \E m : m \notin Counted(x) /\ Counted(x)' = Counted(x) \cup {m}
<1> USE DEF Fits
<1>1. PICK old \in CallRecord : old = calls[c]
    BY RecordsOK
<1>2. PICK m : m = old.msg
    OBVIOUS
<1>3. /\ calls \in [Call -> CallRecord] /\ CallSound(c, old)
      /\ messages \in [Message -> MessageRow \cup {NoMessage}] /\ NoMessage \notin MessageRow
    BY <1>1, RecordsOK, InboxAssumption DEF TablesSound, CallsSound, InboxTypeOK
<1>4. /\ old.pc = "store" /\ QueueStore(c) /\ calls'[c].pc = "deliver" /\ Attached[m] = x
    BY <1>1, <1>2 DEF Stores, QueueStore, At
<1>5. m \in Message /\ c # Cron /\ UNCHANGED media
    BY <1>2, <1>3, <1>4 DEF CallSound, QueueStore, mediaVars
<1>6. Carries(c, x)
    BY <1>1, <1>2, <1>4, <1>5 DEF Carries
<1>7. ~Stored(m)
    BY <1>1, <1>2, <1>4, <1>5 DEF Knows, Granted
<1>8. messages' = [messages EXCEPT ![m] = NewRow(m)]
    BY <1>1, <1>2, <1>4, <1>7 DEF QueueStore
<1>9. messages'[m] # NoMessage /\ \A n \in Message : n # m => messages'[n] = messages[n]
    BY <1>3, <1>5, <1>8, NewRowTyped
<1>10. Owed(x) /\ ~Owed(x)'
    <2>1. Owes(calls[c], x) /\ ~Owes(calls'[c], x)
        BY <1>1, <1>2, <1>4 DEF Owes
    <2> QED
        BY <1>6, <2>1, SoleCarrier DEF Owed
<1>11. \A n \in Message : Attached[n] = x => ~Leaving(n) /\ ~Leaving(n)'
    <2>1. \A n \in Message : ~Removes(calls[c], n) /\ ~Removes(calls'[c], n)
        BY <1>1, <1>4 DEF Removes
    <2> QED
        BY <1>5, <1>6, <2>1, SoleCarrier
<1>12. m \notin Counted(x) /\ Counted(x)' = Counted(x) \cup {m}
    BY <1>4, <1>5, <1>7, <1>9, <1>11 DEF Counted, Carriers, Stored
<1> QED
    BY <1>5, <1>10, <1>12

\* Removing the message that was uncounted.
LEMMA CountDeletes ==
    ASSUME TablesSound, [Next]_vars, NEW x \in MediaId, x \notin contended', Fits(x),
           NEW c \in Call, Deletes(c, x)
    PROVE  ~Owed(x) /\ ~Owed(x)' /\ UNCHANGED media /\ Counted(x)' = Counted(x)
<1> USE DEF Fits
<1>1. PICK old \in CallRecord : old = calls[c]
    BY RecordsOK
<1>2. PICK m : m = old.msg
    OBVIOUS
<1>3. /\ calls \in [Call -> CallRecord] /\ CallSound(c, old)
      /\ messages \in [Message -> MessageRow \cup {NoMessage}]
    BY <1>1, RecordsOK DEF TablesSound, CallsSound, InboxTypeOK
<1>4. /\ old.pc = "remove" /\ messages' = [messages EXCEPT ![m] = NoMessage] /\ Attached[m] = x
      /\ UNCHANGED media
    BY <1>1, <1>2 DEF Deletes, RemoveMessage, At, mediaVars
<1>5. calls'[c].pc = "removeRows"
    BY <1>1, <1>3 DEF Deletes, RemoveMessage, Gone, CallRecord
<1>6. m \in Message /\ c # Cron
    BY <1>2, <1>3, <1>4 DEF CallSound
<1>7. Carries(c, x)
    BY <1>1, <1>2, <1>4, <1>6 DEF Carries
<1>8. ~Owed(x) /\ ~Owed(x)'
    <2>1. ~Owes(calls[c], x) /\ ~Owes(calls'[c], x)
        BY <1>1, <1>4, <1>5 DEF Owes
    <2> QED
        BY <1>7, <2>1, SoleCarrier DEF Owed
<1>9. \A n \in Message : Attached[n] = x => (Leaving(n) <=> n = m) /\ ~Leaving(n)'
    <2>1. \A n \in Message : (Removes(calls[c], n) <=> n = m) /\ ~Removes(calls'[c], n)
        BY <1>1, <1>2, <1>4, <1>5 DEF Removes
    <2> QED
        BY <1>6, <1>7, <2>1, SoleCarrier
<1>10. messages'[m] = NoMessage /\ \A n \in Message : n # m => messages'[n] = messages[n]
    BY <1>3, <1>4, <1>6
<1>11. Counted(x)' = Counted(x)
    BY <1>4, <1>6, <1>9, <1>10 DEF Counted, Carriers, Stored
<1> QED
    BY <1>4, <1>8, <1>11

\* The hourly job removes the messages that it has uncounted.
LEMMA CountPruned ==
    ASSUME TablesSound, [Next]_vars, NEW x \in MediaId, x \notin contended', Fits(x), PruneDelete
    PROVE  (Owed(x)' <=> Owed(x)) /\ UNCHANGED media /\ Counted(x)' = Counted(x)
<1> USE DEF Fits
<1>1. PICK old \in CallRecord : old = calls[Cron]
    BY RecordsOK, InboxAssumption
<1>2. /\ calls \in [Call -> CallRecord] /\ CallSound(Cron, old) /\ Cron \in Call
      /\ messages \in [Message -> MessageRow \cup {NoMessage}]
    BY <1>1, RecordsOK, InboxAssumption DEF TablesSound, CallsSound, InboxTypeOK
<1>3. old.pc = "prune" /\ old.rest = {} /\ UNCHANGED media
    BY <1>1 DEF PruneDelete, At, mediaVars
<1>4. /\ calls'[Cron].expired = {} /\ calls'[Cron].pc = "idle"
    BY <1>2 DEF PruneDelete, Gone, Idle
<1>5. \A b \in Call : b # Cron => Same(calls[b], calls'[b])
    <2> SUFFICES ASSUME NEW b \in Call, b # Cron PROVE Same(calls[b], calls'[b])
        OBVIOUS
    <2>1. calls'[b] \in {calls[b], [calls[b] EXCEPT !.gone = TRUE]}
        BY <1>2 DEF PruneDelete, Gone
    <2> QED
        BY <2>1, SameIfGone
<1>6. \A b \in Call : Owes(calls'[b], x) <=> Owes(calls[b], x)
    BY <1>1, <1>3, <1>4, <1>5 DEF Owes, Same
<1>7. \A b \in Call, m \in Message : Removes(calls'[b], m) <=> Removes(calls[b], m)
    BY <1>1, <1>3, <1>4, <1>5 DEF Removes, Same
<1>8. \A m \in Message : m \in old.expired => Leaving(m)
    BY <1>1, <1>3 DEF Leaving
<1>9. \A m \in Message : m \notin old.expired => (Leaving(m)' <=> Leaving(m))
    BY <1>1, <1>4, <1>7 DEF Leaving
<1>10. \A m \in Message : messages'[m] = IF m \in old.expired THEN NoMessage ELSE messages[m]
    BY <1>1, <1>2 DEF PruneDelete
<1>11. Counted(x)' = Counted(x)
    BY <1>8, <1>9, <1>10 DEF Counted, Carriers, Stored
<1>12. Owed(x)' <=> Owed(x)
    BY <1>6 DEF Owed
<1> QED
    BY <1>3, <1>11, <1>12

Turns(x) ==
    \/ \E c \in Call : \/ Refers(c, x) \/ Returns(c, x) \/ Uncounts(c, x)
                       \/ Stores(c, x) \/ Deletes(c, x)
    \/ \E n \in Message : Prunes(n, x)
    \/ PruneDelete
    \/ Swept(x)

\* No other step has a part in it.
LEMMA CountQuiet ==
    ASSUME TablesSound, [Next]_vars, NEW x \in MediaId, x \notin contended', Fits(x), ~Turns(x)
    PROVE  /\ Owed(x)' <=> Owed(x)
           /\ Counted(x)' = Counted(x)
           /\ media'[x] # NoRow <=> Exists(x)
           /\ Exists(x) => media'[x].reference_count = media[x].reference_count
<1> USE DEF Fits
<1>1. \A c \in Call : Owes(calls'[c], x) <=> Owes(calls[c], x)
    BY OwesTurns DEF Turns
<1>2. \A c \in Call, m \in Message : Attached[m] = x =>
          (Removes(calls'[c], m) <=> Removes(calls[c], m))
    BY RemovesTurns DEF Turns
<1>3. \A m \in Message : Attached[m] = x =>
          (m \in calls'[Cron].expired \ calls'[Cron].rest <=>
               m \in calls[Cron].expired \ calls[Cron].rest)
    BY CronTurns DEF Turns
<1>4. \A m \in Message : Attached[m] = x => (messages'[m] # NoMessage <=> Stored(m))
    <2> SUFFICES ASSUME NEW m \in Message, Attached[m] = x
                 PROVE  messages'[m] # NoMessage <=> Stored(m)
        OBVIOUS
    <2>1. \A c \in Call : calls[c].msg = m => ~RemoveMessage(c) /\ ~Stores(c, x)
        BY DEF Turns, Deletes
    <2> QED
        BY <2>1, StoredTurns DEF Turns
<1>5. \A m \in Message : Attached[m] = x => (Leaving(m)' <=> Leaving(m))
    BY <1>2, <1>3 DEF Leaving
<1>6. Owed(x)' <=> Owed(x)
    BY <1>1 DEF Owed
<1>7. Counted(x)' = Counted(x)
    BY <1>4, <1>5 DEF Counted, Carriers, Stored
<1> QED
    BY <1>6, <1>7, RowTurns DEF Turns, Current

LEMMA CountKept ==
    ASSUME TablesSound, [Next]_vars, NEW x \in MediaId, x \notin contended', Fits(x)
    PROVE  CountSound(x)'
<1> USE DEF Fits
<1> DEFINE Exact == media'[x].reference_count =
                        Cardinality(Counted(x)') + (IF Owed(x)' THEN 1 ELSE 0)
<1>1. PICK P : P = Counted(x)
    OBVIOUS
<1>2. IsFiniteSet(P) /\ Cardinality(P) \in Nat
    BY <1>1, FS_Subset, FS_CardinalityType DEF CountSound, Counted
<1>3. Exists(x) => media[x].reference_count = Cardinality(P) + (IF Owed(x) THEN 1 ELSE 0)
    BY <1>1 DEF CountSound
<1>4. ASSUME NEW m \in P
      PROVE  /\ Cardinality(P \ {m}) = Cardinality(P) - 1 /\ Cardinality(P \ {m}) \in Nat
    <2>1. IsFiniteSet(P \ {m}) /\ Cardinality(P \ {m}) = Cardinality(P) - 1
        BY <1>2, <1>4, FS_RemoveElement
    <2> QED
        BY <2>1, FS_CardinalityType
<1>5. ASSUME NEW m, m \notin P
      PROVE  Cardinality(P \cup {m}) = Cardinality(P) + 1
    BY <1>2, <1>5, FS_AddElement
<1>6. ASSUME NEW c \in Call, Refers(c, x)
      PROVE  Exact
    <2>1. /\ Exists(x) /\ Counted(x)' = P /\ ~Owed(x) /\ Owed(x)'
          /\ media'[x].reference_count = media[x].reference_count + 1
        BY <1>1, <1>6, CountRefers
    <2> QED
        BY <1>2, <1>3, <2>1
<1>7. ASSUME NEW c \in Call, Returns(c, x)
      PROVE  Exact
    <2>1. /\ Exists(x) /\ Counted(x)' = P /\ Owed(x) /\ ~Owed(x)'
          /\ media'[x].reference_count = IF media[x].reference_count <= 1 THEN 0
                                         ELSE media[x].reference_count - 1
        BY <1>1, <1>7, CountReturns
    <2> QED
        BY <1>2, <1>3, <2>1
<1>8. ASSUME Exists(x), ~Owed(x), ~Owed(x)', NEW m \in P, Counted(x)' = P \ {m},
             media'[x].reference_count = IF media[x].reference_count <= 1 THEN 0
                                         ELSE media[x].reference_count - 1
      PROVE  Exact
    BY <1>2, <1>3, <1>4, <1>8
<1>9. ASSUME NEW c \in Call, Uncounts(c, x)
      PROVE  Exact
    BY <1>1, <1>8, <1>9, CountUncounts
<1>10. ASSUME NEW n \in Message, Prunes(n, x)
       PROVE  Exact
    BY <1>1, <1>8, <1>10, CountPrunes
<1>11. ASSUME NEW c \in Call, Stores(c, x), Exists(x)'
       PROVE  Exact
    <2>1. Owed(x) /\ ~Owed(x)' /\ UNCHANGED media
        BY <1>11, CountStores
    <2>2. PICK m : m \notin P /\ Counted(x)' = P \cup {m}
        BY <1>1, <1>11, CountStores
    <2>3. Cardinality(Counted(x)') = Cardinality(P) + 1
        BY <1>5, <2>2
    <2> QED
        BY <1>2, <1>3, <1>11, <2>1, <2>3 DEF Exists
<1>12. ASSUME NEW c \in Call, Deletes(c, x), Exists(x)'
       PROVE  Exact
    <2>1. ~Owed(x) /\ ~Owed(x)' /\ UNCHANGED media /\ Counted(x)' = P
        BY <1>1, <1>12, CountDeletes
    <2> QED
        BY <1>3, <1>12, <2>1 DEF Exists
<1>13. ASSUME PruneDelete, Exists(x)'
       PROVE  Exact
    <2>1. (Owed(x)' <=> Owed(x)) /\ UNCHANGED media /\ Counted(x)' = P
        BY <1>1, <1>13, CountPruned
    <2> QED
        BY <1>3, <1>13, <2>1 DEF Exists
<1>14. ASSUME ~Turns(x), Exists(x)'
       PROVE  Exact
    <2>1. /\ Owed(x)' <=> Owed(x)
          /\ Counted(x)' = P
          /\ Exists(x)' <=> Exists(x)
          /\ Exists(x) => media'[x].reference_count = media[x].reference_count
        BY <1>1, <1>14, CountQuiet DEF Exists
    <2> QED
        BY <1>3, <1>14, <2>1
<1>15. ~(Swept(x) /\ Exists(x)')
    BY DEF Swept, SweepDeletes, SweepRow, Exists, TablesSound, MediaInv, MediaTypeOK
<1> HIDE DEF Exact
<1>16. Exists(x)' => Exact
    BY <1>6, <1>7, <1>9, <1>10, <1>11, <1>12, <1>13, <1>14, <1>15 DEF Turns
<1> QED
    BY <1>16, CarriersFinite DEF CountSound, Exact
-----------------------------------------------------------------------------
(***************************************************************************)
(* Theorems.                                                               *)
(***************************************************************************)

AttachmentInv == WorkerSound /\ \A x \in MediaId \ contended : Fits(x)

LEMMA AttachmentStarts == Init => AttachmentInv
<1> SUFFICES ASSUME Init PROVE AttachmentInv
    OBVIOUS
<1>1. /\ \A c \in Call : calls[c] = Idle /\ op[c] = NoOp
      /\ \A m \in Message : ~Stored(m)
      /\ Cron \in Call
    BY InboxAssumption DEF Init, InboxInit, UploadedInit, Stored
<1>2. ASSUME NEW x \in MediaId
      PROVE  Fits(x)
    <2>1. /\ Exists(x) /\ media[x].reference_count = 0 /\ bucket[x] = "present" /\ ~Sweeping(x)
        <3>1. media[x] = [state |-> "UPLOADED", reference_count |-> 0, expires_at |-> "later"]
            BY DEF Init, UploadedInit
        <3>2. media[x] \in Row
            BY <3>1 DEF Row, MediaState, Expiry
        <3> QED
            BY <3>1, <3>2, MediaAssumption DEF Init, UploadedInit, Exists, Sweeping
    <2>2. \A c \in Call : ~Carries(c, x) /\ ~Owes(calls[c], x)
        BY <1>1 DEF Carries, Owes, Idle
    <2>3. Carriers(x) = {} /\ Counted(x) = {} /\ ~Owed(x)
        BY <1>1, <2>2 DEF Carriers, Counted, Owed
    <2>4. Knows(x)
        BY <1>1 DEF Knows, Granted, Idle
    <2>5. RowSound(x)
        BY <1>1, <2>1, <2>3 DEF RowSound, NoOp, NewOp, Unscheduled
    <2>6. CountSound(x)
        BY <2>1, <2>3, FS_EmptySet DEF CountSound
    <2> QED
        BY <2>1, <2>2, <2>4, <2>5, <2>6 DEF Fits, Alone
<1>3. WorkerSound
    BY DEF Init, UploadedInit, WorkerSound
<1> QED
    BY <1>2, <1>3 DEF AttachmentInv

LEMMA AttachmentKept ==
    ASSUME InboxInv, AttachmentInv, [Next]_vars
    PROVE  AttachmentInv'
<1>1. TablesSound /\ WorkerSound'
    BY WorkerKept DEF InboxInv, AttachmentInv
<1>2. ASSUME NEW x \in MediaId, x \notin contended'
      PROVE  Fits(x)'
    <2>1. Fits(x)
        BY <1>2, ContendedGrows DEF AttachmentInv
    <2> QED
        BY <1>1, <1>2, <2>1, AloneKept, KnowsKept, RowKept, CountKept DEF Fits, AttachmentInv
<1> QED
    BY <1>1, <1>2 DEF AttachmentInv

LEMMA AttachmentHolds == Spec => []AttachmentInv
<1>1. InboxInv /\ AttachmentInv /\ [Next]_vars => AttachmentInv'
    BY AttachmentKept
<1> QED
    BY <1>1, AttachmentStarts, InboxHolds, PTL DEF Spec

\* The reference count of a media that nobody raced for is the number of stored
\* messages that carry it, but for the one a call has just counted or uncounted:
\* over any sequence of sends, retries, acknowledgements, deletions, expiries and
\* sweeps, with the worker beside them and other media raced for at will.
THEOREM CountIsNumberOfCarriers == Spec => []RefCountExact
<1>1. InboxInv /\ AttachmentInv => RefCountExact
    <2> SUFFICES ASSUME InboxInv, AttachmentInv, NEW x \in MediaId \ contended, Exists(x)
                 PROVE  media[x].reference_count + Cardinality(StoredNotCounted(x)) =
                            Cardinality({m \in Message : Stored(m) /\ Attached[m] = x})
                                + Cardinality(CountedNotStored(x))
        BY DEF RefCountExact
    <2>1. TablesSound /\ Fits(x)
        BY DEF InboxInv, AttachmentInv
    <2>2. PICK S, T : S = Carriers(x) /\ T = Counted(x)
        OBVIOUS
    <2>3. StoredNotCounted(x) = S \ T /\ S \cap T = T
        BY <2>2 DEF StoredNotCounted, Carriers, Counted, Leaving, Removes, At
    <2>4. IsFiniteSet(S) /\ IsFiniteSet(T) /\ Cardinality(S) \in Nat /\ Cardinality(T) \in Nat
        BY <2>1, <2>2, FS_Subset, FS_CardinalityType DEF Fits, CountSound, Counted
    <2>5. Cardinality(S \ T) = Cardinality(S) - Cardinality(T)
        BY <2>3, <2>4, FS_Difference
    <2>6. Cardinality(CountedNotStored(x)) = IF Owed(x) THEN 1 ELSE 0
        <3>1. CountedNotStored(x) = {c \in Call : Owes(calls[c], x)}
            BY DEF CountedNotStored, Owes
        <3>2. ASSUME NEW c \in Call, Owes(calls[c], x)
              PROVE  CountedNotStored(x) = {c}
            BY <2>1, <3>1, <3>2, DebtorCarries DEF Fits, Alone
        <3> QED
            BY <3>1, <3>2, FS_EmptySet, FS_Singleton DEF Owed
    <2>7. media[x].reference_count = Cardinality(T) + (IF Owed(x) THEN 1 ELSE 0)
        BY <2>1, <2>2 DEF Fits, CountSound
    <2> QED
        BY <2>2, <2>3, <2>4, <2>5, <2>6, <2>7 DEF Carriers
<1> QED
    BY <1>1, InboxHolds, AttachmentHolds, PTL

\* The media of a stored message, raced for by nobody, has its row and its object,
\* whatever the worker sweeps meanwhile.
THEOREM StoredMediaIsNotSwept == Spec => []MediaOfStoredIsKept
<1>1. AttachmentInv => MediaOfStoredIsKept
    <2> SUFFICES ASSUME AttachmentInv, NEW m \in Message, Stored(m),
                        Attached[m] \in MediaId \ contended
                 PROVE  Exists(Attached[m]) /\ bucket[Attached[m]] = "present"
        BY DEF MediaOfStoredIsKept
    <2>1. PICK x : x = Attached[m]
        OBVIOUS
    <2>2. RowSound(x) /\ m \in Carriers(x)
        BY <2>1 DEF AttachmentInv, Fits, Carriers
    <2> QED
        BY <2>1, <2>2 DEF RowSound, Sweeping
<1> QED
    BY <1>1, AttachmentHolds, PTL
=============================================================================
