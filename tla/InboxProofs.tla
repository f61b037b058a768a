---------------------------- MODULE InboxProofs ----------------------------
(***************************************************************************)
(* Theorems about the inbox, for every number of messages, devices, calls  *)
(* and media, every cap and either behaviour of the ORM, with the media    *)
(* worker and restarts interleaved.  CallsSound says what a call holds at  *)
(* each of its awaits; KeySound that a delivery's uuid, which a call keeps *)
(* across an await, still names the delivery it was read from.             *)
(***************************************************************************)
EXTENDS Inbox, MediaProofs, FiniteSetTheorems

CallRecord == [pc : QueueStep \cup AckStep \cup OtherStep \cup {"idle"},
               msg : Message \cup {NoMessage}, dev : Target \cup {DefaultDevice},
               row : MessageRow \cup {NoMessage}, key : RowId \cup {NoKey},
               collided : BOOLEAN, gone : BOOLEAN,
               rest : SUBSET Message, expired : SUBSET Message]

\* What a call has at hand, given where it stands.
CallSound(c, call) ==
    /\ call.pc = "idle" => call = Idle
    /\ call.pc \notin {"idle", "prune"} => call.msg \in Message
    /\ call.pc \in {"idle", "prune"} => call.msg = NoMessage
    /\ c = Cron => call.pc \in {"idle", "prune"}
    /\ c # Cron => call.pc # "prune"
    /\ call.pc = "ack" <=> call.key # NoKey
    /\ call.pc \in {"pushSave", "mark", "see"} => call.row \in MessageRow
    /\ call.pc # "prune" => call.expired = {}
    /\ call.rest \subseteq call.expired
    /\ \A m \in call.rest : Attached[m] # NoMedia
    /\ call.pc \in {"refer", "rollback", "unrefer"} => Attached[call.msg] # NoMedia

\* A media row is held only by the call that counts it or takes its count back.
Holds(call, o) ==
    \/ o.do = "none"
    \/ o.do = "increment" /\ call.pc = "refer" /\ o.media = Attached[call.msg]
    \/ /\ o.do = "decrement" /\ call.pc \in {"rollback", "unrefer"}
       /\ o.media = Attached[call.msg]
    \/ o.do = "decrement" /\ call.pc = "prune" /\ \E m \in call.rest : o.media = Attached[m]

CallsSound == \A c \in Call : CallSound(c, calls[c]) /\ Holds(calls[c], op[c])

NoUploads == \A x \in MediaId : Exists(x) => media[x].state # "UPLOADING"

TablesSound == MediaInv /\ NoUploads /\ InboxTypeOK /\ CallsSound
-----------------------------------------------------------------------------
LEMMA UploadedStarts == UploadedInit => MediaInv /\ NoUploads
<1>1. [state |-> "UPLOADED", reference_count |-> 0, expires_at |-> "later"] \in Row
    BY DEF Row, MediaState, Expiry
<1> QED
    BY <1>1 DEF UploadedInit, NoUploads, MediaInv, MediaTypeOK, RowsSound, LoadsSound, SweepSound,
       Loaded, Exists, Sound, Consistent, NoOp, NewOp, OpStep, SweepStep, SweepPass

LEMMA TablesStart == Init => TablesSound
<1> SUFFICES ASSUME Init PROVE TablesSound
    OBVIOUS
<1>1. MediaInv /\ NoUploads
    BY UploadedStarts DEF Init
<1>2. InboxTypeOK
    BY DEF Init, InboxInit, InboxTypeOK, Idle
<1>3. CallsSound
    BY InboxAssumption DEF Init, InboxInit, UploadedInit, CallsSound, CallSound, Holds, Idle, NoOp, NewOp
<1> QED
    BY <1>1, <1>2, <1>3 DEF TablesSound

\* Every step of the inbox on the media tables is one of the media service.
OnMedia ==
    \/ UNCHANGED mediaVars
    \/ \E c \in Call, x \in MediaId : IncrementLoad(c, x) \/ DecrementLoad(c, x)
    \/ \E c \in Call : SaveFind(c) \/ IncrementSave(c) \/ DecrementSave(c)
    \/ SweepSteps
    \/ \E x \in MediaId : DeadlinePasses(x)

Restarts ==
    /\ op' = [c \in Call |-> NoOp]
    /\ sweeper' = [do |-> "idle", pass |-> "expired", rest |-> {}, media |-> NoMedia]
    /\ UNCHANGED <<media, bucket, age, mixed>>

LEMMA AttachedMedia ==
    ASSUME TablesSound, NEW c \in Call
    PROVE  /\ calls[c].pc \in {"refer", "rollback", "unrefer"} => Attached[calls[c].msg] \in MediaId
           /\ \A m \in calls[c].rest : Attached[m] \in MediaId
BY InboxAssumption DEF TablesSound, CallsSound, CallSound, InboxTypeOK

LEMMA StepsOnMedia ==
    ASSUME TablesSound, Next
    PROVE  OnMedia \/ Restarts
<1>1. ASSUME NEW c \in Call, QueueSteps(c)
      PROVE  OnMedia
    BY <1>1, AttachedMedia DEF OnMedia, QueueSteps, QueueFind, QueueMatch, QueueAdd, QueueRefer,
       QueueStore, QueueDeliver, QueueFails, QueueRollback, QueuePush, PushUpdate, PushLoad,
       PushSave, QueueAnswer, Unrefer, SaveMessage, At, inboxVars
<1>2. ASSUME NEW c \in Call, OtherSteps(c)
      PROVE  OnMedia
    BY <1>2, AttachedMedia DEF OnMedia, OtherSteps, AckSave, AckCheck, AckLoad, AckMark, SeenSave,
       RemoveUnrefer, RemoveMessage, RemoveRows, Unrefer, SaveMessage, At
<1>3. CASE PruneSteps
    <2>1. CASE PruneUncount
        BY <2>1, AttachedMedia, InboxAssumption DEF OnMedia, PruneUncount
    <2> QED
        BY <1>3, <2>1 DEF PruneSteps, PruneFind, PruneDelete, OnMedia
<1>4. ASSUME NEW c \in Call, NEW m \in Message, NEW d \in Target,
             QueueCount(c, m, d) \/ AckFind(c, m, d)
      PROVE  OnMedia
    BY <1>4 DEF OnMedia, QueueCount, AckFind, Begin
<1>5. ASSUME NEW c \in Call, NEW m \in Message, SeenLoad(c, m) \/ DeleteFind(c, m)
      PROVE  OnMedia
    BY <1>5 DEF OnMedia, SeenLoad, DeleteFind, Begin
<1>6. ASSUME NEW m \in Message, MessageExpires(m)
      PROVE  OnMedia
    BY <1>6 DEF OnMedia, MessageExpires
<1>7. CASE Crash
    BY <1>7 DEF Restarts, Crash
<1>8. CASE MediaWorks
    BY <1>8 DEF MediaWorks, SweepBegins, SweepDeletes, OnMedia, SweepSteps
<1> QED
    BY <1>1, <1>2, <1>3, <1>4, <1>5, <1>6, <1>7, <1>8 DEF Next, InboxNext

\* A save brings no state into the table but the table's and its row's.
LEMMA SavedState ==
    ASSUME NEW c \in Call, NEW row, row.state # "UPLOADING", NEW new \in Saved(c, row),
           new # NoRow,
           media[op[c].media] # NoRow => media[op[c].media].state # "UPLOADING"
    PROVE  new.state # "UPLOADING"
BY DEF Saved, Updated, Column

LEMMA MediaKept ==
    ASSUME TablesSound, [Next]_vars
    PROVE  MediaInv' /\ NoUploads'
<1> USE DEF TablesSound
<1>1. CASE UNCHANGED mediaVars
    BY <1>1 DEF mediaVars, MediaInv, MediaTypeOK, RowsSound, LoadsSound, Loaded, SweepSound,
       Exists, Sound, NoUploads
<1>2. ASSUME NEW c \in Call, NEW x \in MediaId, IncrementLoad(c, x) \/ DecrementLoad(c, x)
      PROVE  MediaInv' /\ NoUploads'
    <2>1. Exists(x) /\ media[x].state # "UPLOADING"
        BY <1>2 DEF IncrementLoad, CannotIncrement, DecrementLoad, NoUploads
    <2>2. MediaInv'
        BY <1>2, <2>1, LoadKeeps DEF IncrementLoad, DecrementLoad
    <2> QED
        BY <1>2, <2>2 DEF NoUploads, Exists, IncrementLoad, DecrementLoad, Load
<1>3. ASSUME NEW c \in Call, IncrementSave(c) \/ DecrementSave(c)
      PROVE  MediaInv' /\ NoUploads'
    <2>1. MediaInv'
        BY <1>3, IncrementKeeps, DecrementKeeps
    <2>2. op[c].media \in MediaId /\ Sound(op[c].media, op[c].row) /\ op[c].row.state # "UPLOADING"
        BY <1>3 DEF IncrementSave, DecrementSave, MediaInv, LoadsSound, Loaded
    <2>3. PICK row : Save(c, row) /\ row.state # "UPLOADING"
        <3>1. CASE IncrementSave(c)
            <4> DEFINE new == [state |-> "REFERENCED",
                               reference_count |-> op[c].row.reference_count + 1,
                               expires_at |-> "never"]
            <4>1. new.state # "UPLOADING" /\ Save(c, new)
                BY <3>1 DEF IncrementSave
            <4> HIDE DEF new
            <4> QED
                BY <4>1
        <3>2. CASE DecrementSave(c)
            <4>1. Decremented(op[c].row).state # "UPLOADING"
                BY <2>2 DEF Decremented, Sound, Row
            <4> QED
                BY <3>2, <4>1 DEF DecrementSave
        <3> QED
            BY <1>3, <3>1, <3>2
    <2>4. PICK new \in Saved(c, row) : media' = [media EXCEPT ![op[c].media] = new]
        BY <2>3 DEF Save
    <2>5. new # NoRow => new.state # "UPLOADING"
        BY <2>2, <2>3, <2>4, SavedState DEF NoUploads, Exists
    <2> QED
        BY <2>1, <2>2, <2>4, <2>5 DEF NoUploads, Exists, MediaInv, MediaTypeOK
<1>7. ASSUME NEW c \in Call, SaveFind(c)
      PROVE  MediaInv' /\ NoUploads'
    BY <1>7, FindKeeps DEF SaveFind, NoUploads, Exists
<1>4. ASSUME SweepSteps
      PROVE  MediaInv' /\ NoUploads'
    <2>1. \A x \in MediaId : media'[x] \in {media[x], NoRow}
        BY <1>4 DEF SweepSteps, SweepStart, SweepObject, SweepRow, SweepPassEnds, MediaInv,
           MediaTypeOK
    <2> QED
        BY <1>4, <2>1, SweepStepsKeep DEF NoUploads, Exists
<1>5. ASSUME NEW x \in MediaId, DeadlinePasses(x)
      PROVE  MediaInv' /\ NoUploads'
    <2>1. MediaInv'
        BY <1>5, ClientStepsKeep
    <2>2. media[x] \in Row /\ media' = [media EXCEPT ![x].expires_at = "past"]
        BY <1>5 DEF DeadlinePasses, MediaInv, MediaTypeOK, Exists
    <2>3. [media[x] EXCEPT !.expires_at = "past"].state = media[x].state
        BY <2>2 DEF Row
    <2> QED
        BY <1>5, <2>1, <2>2, <2>3 DEF NoUploads, Exists, DeadlinePasses, MediaInv, MediaTypeOK
<1>6. CASE Restarts
    BY <1>6 DEF Restarts, MediaInv, MediaTypeOK, RowsSound, LoadsSound, Loaded, SweepSound, Exists,
       Sound, NoUploads, NoOp, NewOp, OpStep, SweepStep, SweepPass
<1> QED
    BY <1>1, <1>2, <1>3, <1>4, <1>5, <1>6, <1>7, StepsOnMedia DEF OnMedia, vars
-----------------------------------------------------------------------------
(***************************************************************************)
(* The calls.                                                              *)
(***************************************************************************)

CallsOK == calls \in [Call -> CallRecord] /\ CallsSound

LEMMA RecordsOK ==
    ASSUME TablesSound
    PROVE  calls \in [Call -> CallRecord]
BY DEF TablesSound, InboxTypeOK, CallRecord

\* A call that moves leaves the others where they are.
LEMMA OneMoves ==
    ASSUME TablesSound, NEW c \in Call, NEW new \in CallRecord,
           calls' = [calls EXCEPT ![c] = new], CallSound(c, new), Holds(new, op'[c]),
           \A b \in Call : b # c => op'[b] = op[b]
    PROVE  CallsOK'
<1>1. calls \in [Call -> CallRecord]
    BY RecordsOK
<1>2. calls' \in [Call -> CallRecord] /\ calls'[c] = new
    BY <1>1
<1>3. \A b \in Call : b # c => calls'[b] = calls[b]
    BY <1>1
<1> QED
    BY <1>2, <1>3 DEF TablesSound, CallsSound, CallsOK

LEMMA IdleSound ==
    ASSUME NEW c \in Call
    PROVE  Idle \in CallRecord /\ CallSound(c, Idle)
BY InboxAssumption DEF Idle, CallRecord, CallSound

LEMMA CallEnds ==
    ASSUME TablesSound, NEW c \in Call, End(c), op'[c].do = "none",
           \A b \in Call : b # c => op'[b] = op[b]
    PROVE  CallsOK'
BY OneMoves, IdleSound DEF End, Holds

\* The steps of a call between awaits at which it holds nothing but its message.
Plain == {"find", "match", "add", "store", "deliver", "push", "pushUpdate", "pushLoad",
          "answer", "check", "load", "remove", "removeRows"}

LEMMA CallGoes ==
    ASSUME TablesSound, NEW c \in Call, NEW pc \in Plain \cup {"refer", "rollback", "unrefer"},
           calls[c].pc \notin {"idle", "prune", "ack"},
           pc \notin Plain => Attached[calls[c].msg] # NoMedia,
           Go(c, pc), op'[c].do = "none", \A b \in Call : b # c => op'[b] = op[b]
    PROVE  CallsOK'
<1>1. PICK old \in CallRecord : old = calls[c]
    BY RecordsOK
<1>2. PICK new : new = [old EXCEPT !.pc = pc]
    OBVIOUS
<1>3. new \in CallRecord
    BY <1>2 DEF CallRecord, QueueStep, AckStep, OtherStep, Plain
<1>4. /\ new.pc = pc /\ new.msg = old.msg /\ new.key = old.key /\ new.expired = old.expired
      /\ new.rest = old.rest
    BY <1>2 DEF CallRecord
<1>5. CallSound(c, old)
    BY <1>1 DEF TablesSound, CallsSound
<1>6. CallSound(c, new)
    BY <1>1, <1>4, <1>5 DEF CallSound, Plain
<1>7. calls' = [calls EXCEPT ![c] = new]
    BY <1>1, <1>2 DEF Go
<1> QED
    BY <1>3, <1>6, <1>7, OneMoves DEF Holds

LEMMA CallBegins ==
    ASSUME TablesSound, NEW c \in Call, NEW m \in Message, NEW d \in Target \cup {DefaultDevice},
           NEW pc \in Plain \cup {"unrefer", "ack", "see"}, NEW row \in MessageRow \cup {NoMessage},
           NEW key \in RowId \cup {NoKey}, pc = "ack" <=> key # NoKey, pc = "see" => row \in MessageRow,
           pc = "unrefer" => Attached[m] # NoMedia, Begin(c, m, d, pc, row, key)
    PROVE  CallsOK'
<1>1. PICK new : new = [Idle EXCEPT !.pc = pc, !.msg = m, !.dev = d, !.row = row, !.key = key]
    OBVIOUS
<1>2. /\ new.pc = pc /\ new.msg = m /\ new.row = row /\ new.key = key /\ new.expired = {}
      /\ new.rest = {}
    BY <1>1 DEF Idle
<1>3. new \in CallRecord
    BY <1>1 DEF CallRecord, QueueStep, AckStep, OtherStep, Plain, Idle
<1>4. CallSound(c, new)
    BY <1>2 DEF CallSound, Plain, Begin
<1>5. op[c].do = "none"
    BY DEF TablesSound, CallsSound, Holds, Begin, At
<1>6. calls' = [calls EXCEPT ![c] = new] /\ op' = op
    BY <1>1 DEF Begin, mediaVars
<1> QED
    BY <1>3, <1>4, <1>5, <1>6, OneMoves DEF Holds

\* The calls on a removed message hear of it, wherever they stand.
LEMMA GoneKeeps ==
    ASSUME TablesSound, NEW c \in Call, NEW new \in CallRecord, NEW ms,
           calls' = Gone(ms, [calls EXCEPT ![c] = new]), CallSound(c, new),
           NoMessage \notin ms, Holds(new, op[c]), op' = op
    PROVE  CallsOK'
<1>1. PICK moved : moved = [calls EXCEPT ![c] = new]
    OBVIOUS
<1>2. moved \in [Call -> CallRecord] /\ \A b \in Call : CallSound(b, moved[b]) /\ Holds(moved[b], op[b])
    BY <1>1, RecordsOK DEF TablesSound, CallsSound
<1>3. ASSUME NEW b \in Call
      PROVE  calls'[b] \in CallRecord /\ CallSound(b, calls'[b]) /\ Holds(calls'[b], op[b])
    <2>1. PICK old \in CallRecord : old = moved[b]
        BY <1>2
    <2>2. PICK told : told = [old EXCEPT !.gone = TRUE]
        OBVIOUS
    <2>3. told \in CallRecord
        BY <2>2 DEF CallRecord
    <2>4. /\ told.pc = old.pc /\ told.msg = old.msg /\ told.row = old.row /\ told.key = old.key
          /\ told.expired = old.expired /\ told.rest = old.rest
        BY <2>2 DEF CallRecord
    <2>5. CASE old.msg \in ms
        <3>1. calls'[b] = told
            BY <1>1, <2>1, <2>2, <2>5 DEF Gone
        <3>2. old.pc # "idle"
            BY <1>2, <2>1, <2>5 DEF CallSound
        <3>3. CallSound(b, old) /\ Holds(old, op[b])
            BY <1>2, <2>1
        <3>4. CallSound(b, told) /\ Holds(told, op[b])
            BY <2>4, <3>2, <3>3 DEF CallSound, Holds
        <3> QED
            BY <2>3, <3>1, <3>4
    <2>6. CASE old.msg \notin ms
        <3>1. calls'[b] = old
            BY <1>1, <2>1, <2>6 DEF Gone
        <3> QED
            BY <1>2, <2>1, <3>1
    <2> QED
        BY <2>5, <2>6
<1>4. calls' = [b \in Call |-> calls'[b]]
    BY DEF Gone
<1> QED
    BY <1>3, <1>4 DEF CallsOK, CallsSound

\* A call that selects for its save holds what it held.
LEMMA FindCalls ==
    ASSUME TablesSound, NEW c \in Call, SaveFind(c), UNCHANGED inboxVars
    PROVE  CallsOK'
<1>1. calls' = calls /\ op'[c].do = op[c].do /\ op'[c].media = op[c].media
      /\ \A b \in Call : b # c => op'[b] = op[b]
    BY FindFacts DEF TablesSound, inboxVars
<1>2. Holds(calls[c], op'[c])
    BY <1>1 DEF TablesSound, CallsSound, Holds
<1> QED
    BY <1>1, <1>2, RecordsOK DEF TablesSound, CallsSound, CallsOK

LEMMA QueueStepsCalls ==
    ASSUME TablesSound, NEW c \in Call, QueueSteps(c)
    PROVE  CallsOK'
<1> DEFINE m == calls[c].msg
<1>1. /\ calls[c] \in CallRecord /\ CallSound(c, calls[c]) /\ Holds(calls[c], op[c])
      /\ op \in [Call -> OpRecord]
    BY RecordsOK DEF TablesSound, CallsSound, MediaInv, MediaTypeOK, OpRecord
<1>2. calls[c].pc \notin {"refer", "rollback", "unrefer", "prune"} => op[c].do = "none"
    BY <1>1 DEF Holds
<1>3. CASE QueueFind(c)
    BY <1>1, <1>2, <1>3, CallGoes DEF QueueFind, Steps, At, Plain, mediaVars
<1>4. CASE QueueMatch(c)
    BY <1>1, <1>2, <1>4, CallGoes, CallEnds DEF QueueMatch, Steps, Ends, At, Plain, mediaVars
<1>5. CASE QueueAdd(c)
    BY <1>1, <1>2, <1>5, CallGoes, CallEnds DEF QueueAdd, At, Plain, mediaVars
<1>6. CASE QueueRefer(c)
    <2>1. At(c, "refer")
        BY <1>6 DEF QueueRefer
    <2>2. CASE CannotIncrement(Attached[m]) /\ op[c].do = "none" /\ Ends(c) /\ UNCHANGED mediaVars
        BY <2>2, CallEnds DEF Ends, mediaVars
    <2>3. CASE IncrementLoad(c, Attached[m]) /\ UNCHANGED inboxVars
        <3>1. /\ calls' = calls /\ op'[c].do = "increment" /\ op'[c].media = Attached[m]
              /\ \A b \in Call : b # c => op'[b] = op[b]
            BY <1>1, <2>3 DEF IncrementLoad, Load, NewOp, inboxVars
        <3>2. Holds(calls[c], op'[c])
            BY <2>1, <3>1 DEF Holds, At
        <3> QED
            BY <3>1, <3>2, RecordsOK DEF TablesSound, CallsSound, CallsOK
    <2>4. CASE IncrementSave(c) /\ (Ends(c) \/ Steps(c, "store"))
        <3>1. op'[c].do = "none" /\ \A b \in Call : b # c => op'[b] = op[b]
            BY <1>1, <2>4 DEF IncrementSave, Save, NoOp, NewOp
        <3> QED
            BY <2>1, <2>4, <3>1, CallGoes, CallEnds DEF Steps, Ends, At, Plain
    <2> QED
        BY <1>6, <2>2, <2>3, <2>4, FindCalls DEF QueueRefer
<1>7. CASE QueueStore(c)
    <2>1. op[c].do = "none" /\ op' = op /\ calls[c].pc = "store"
        BY <1>2, <1>7 DEF QueueStore, At, mediaVars
    <2>2. CASE Go(c, "deliver")
        BY <2>1, <2>2, CallGoes DEF Plain
    <2>3. CASE calls' = [calls EXCEPT ![c].pc = "push", ![c].collided = TRUE]
        <3>1. PICK new : new = [calls[c] EXCEPT !.pc = "push", !.collided = TRUE]
            OBVIOUS
        <3>2. /\ new \in CallRecord /\ new.pc = "push" /\ new.msg = m /\ new.key = calls[c].key
              /\ new.expired = calls[c].expired /\ new.rest = calls[c].rest
            BY <1>1, <3>1 DEF CallRecord, QueueStep
        <3>3. CallSound(c, new)
            BY <1>1, <2>1, <3>2 DEF CallSound
        <3>4. calls' = [calls EXCEPT ![c] = new]
            BY <2>3, <3>1, RecordsOK
        <3> QED
            BY <2>1, <3>2, <3>3, <3>4, OneMoves DEF Holds
    <2> QED
        BY <1>7, <2>2, <2>3 DEF QueueStore
<1>8. CASE QueueDeliver(c)
    BY <1>1, <1>2, <1>8, CallGoes DEF QueueDeliver, At, Plain, mediaVars
<1>9. CASE QueueFails(c)
    BY <1>1, <1>2, <1>9, CallGoes, CallEnds DEF QueueFails, At, Plain, mediaVars
<1>10. CASE QueueRollback(c)
    <2>1. At(c, "rollback")
        BY <1>10 DEF QueueRollback, Unrefer
    <2>2. CASE ~Exists(Attached[m]) /\ op[c].do = "none" /\ Ends(c) /\ UNCHANGED mediaVars
        BY <2>2, CallEnds DEF Ends, mediaVars
    <2>3. CASE DecrementLoad(c, Attached[m]) /\ UNCHANGED inboxVars
        <3>1. /\ calls' = calls /\ op'[c].do = "decrement" /\ op'[c].media = Attached[m]
              /\ \A b \in Call : b # c => op'[b] = op[b]
            BY <1>1, <2>3 DEF DecrementLoad, Load, NewOp, inboxVars
        <3>2. Holds(calls[c], op'[c])
            BY <2>1, <3>1 DEF Holds, At
        <3> QED
            BY <3>1, <3>2, RecordsOK DEF TablesSound, CallsSound, CallsOK
    <2>4. CASE DecrementSave(c) /\ Ends(c)
        <3>1. op'[c].do = "none" /\ \A b \in Call : b # c => op'[b] = op[b]
            BY <1>1, <2>4 DEF DecrementSave, Save, NoOp, NewOp
        <3> QED
            BY <2>4, <3>1, CallEnds DEF Ends
    <2> QED
        BY <1>10, <2>2, <2>3, <2>4, FindCalls DEF QueueRollback, Unrefer
<1>11. CASE QueuePush(c)
    BY <1>1, <1>2, <1>11, CallGoes DEF QueuePush, Steps, At, Plain, mediaVars
<1>12. CASE PushUpdate(c)
    BY <1>1, <1>2, <1>12, CallGoes DEF PushUpdate, At, Plain, mediaVars
<1>13. CASE PushLoad(c)
    <2>1. op[c].do = "none" /\ op' = op /\ calls[c].pc = "pushLoad" /\ m \in Message
        BY <1>1, <1>2, <1>13 DEF PushLoad, At, mediaVars, CallSound
    <2>2. CASE Go(c, "answer")
        BY <2>1, <2>2, CallGoes DEF Plain
    <2>3. CASE /\ Stored(m)
               /\ calls' = [calls EXCEPT ![c].pc = "pushSave", ![c].row = messages[m]]
        <3>1. PICK new : new = [calls[c] EXCEPT !.pc = "pushSave", !.row = messages[m]]
            OBVIOUS
        <3>2. messages[m] \in MessageRow
            BY <2>1, <2>3 DEF Stored, TablesSound, InboxTypeOK
        <3>3. /\ new \in CallRecord /\ new.pc = "pushSave" /\ new.msg = m /\ new.key = calls[c].key
              /\ new.expired = calls[c].expired /\ new.rest = calls[c].rest
              /\ new.row = messages[m]
            BY <1>1, <3>1, <3>2 DEF CallRecord, QueueStep
        <3>4. CallSound(c, new)
            BY <1>1, <2>1, <3>2, <3>3 DEF CallSound
        <3>5. calls' = [calls EXCEPT ![c] = new]
            BY <2>3, <3>1, RecordsOK
        <3> QED
            BY <2>1, <3>3, <3>4, <3>5, OneMoves DEF Holds
    <2> QED
        BY <1>13, <2>2, <2>3 DEF PushLoad
<1>14. CASE PushSave(c)
    <2>1. op[c].do = "none" /\ op' = op /\ calls[c].pc = "pushSave"
        BY <1>1, <1>2, <1>14 DEF PushSave, SaveMessage, At, mediaVars
    <2>2. PICK new : new = [calls[c] EXCEPT !.pc = "answer", !.row = NoMessage]
        OBVIOUS
    <2>3. /\ new \in CallRecord /\ new.pc = "answer" /\ new.msg = m /\ new.key = calls[c].key
          /\ new.expired = calls[c].expired /\ new.rest = calls[c].rest
        BY <1>1, <2>2 DEF CallRecord, QueueStep
    <2>4. CallSound(c, new)
        BY <1>1, <2>1, <2>3 DEF CallSound
    <2>5. calls' = [calls EXCEPT ![c] = new]
        BY <1>14, <2>2, RecordsOK DEF PushSave
    <2> QED
        BY <2>1, <2>3, <2>4, <2>5, OneMoves DEF Holds
<1>15. CASE QueueAnswer(c)
    BY <1>1, <1>2, <1>15, CallEnds DEF QueueAnswer, Ends, At, mediaVars
<1> QED
    BY <1>3, <1>4, <1>5, <1>6, <1>7, <1>8, <1>9, <1>10, <1>11, <1>12, <1>13, <1>14, <1>15
       DEF QueueSteps

LEMMA OtherStepsCalls ==
    ASSUME TablesSound, NEW c \in Call, OtherSteps(c)
    PROVE  CallsOK'
<1> DEFINE m == calls[c].msg
<1>1. /\ calls[c] \in CallRecord /\ CallSound(c, calls[c]) /\ Holds(calls[c], op[c])
      /\ op \in [Call -> OpRecord]
    BY RecordsOK DEF TablesSound, CallsSound, MediaInv, MediaTypeOK, OpRecord
<1>2. calls[c].pc \notin {"refer", "rollback", "unrefer", "prune"} => op[c].do = "none"
    BY <1>1 DEF Holds
<1>3. CASE AckSave(c)
    <2>1. op[c].do = "none" /\ op' = op /\ calls[c].pc = "ack"
        BY <1>1, <1>2, <1>3 DEF AckSave, At, mediaVars
    <2>2. PICK new : new = [calls[c] EXCEPT !.pc = "check", !.key = NoKey]
        OBVIOUS
    <2>3. /\ new \in CallRecord /\ new.pc = "check" /\ new.msg = m /\ new.key = NoKey
          /\ new.expired = calls[c].expired /\ new.rest = calls[c].rest
        BY <1>1, <2>2 DEF CallRecord, AckStep
    <2>4. CallSound(c, new)
        BY <1>1, <2>1, <2>3 DEF CallSound
    <2>5. calls' = [calls EXCEPT ![c] = new]
        BY <1>3, <2>2, RecordsOK DEF AckSave
    <2> QED
        BY <2>1, <2>3, <2>4, <2>5, OneMoves DEF Holds
<1>4. CASE AckCheck(c)
    BY <1>1, <1>2, <1>4, CallGoes, CallEnds DEF AckCheck, Steps, Ends, At, Plain, mediaVars
<1>5. CASE AckLoad(c)
    <2>1. op[c].do = "none" /\ op' = op /\ calls[c].pc = "load" /\ m \in Message
        BY <1>1, <1>2, <1>5 DEF AckLoad, At, mediaVars, CallSound
    <2>2. CASE Ends(c)
        BY <2>1, <2>2, CallEnds DEF Ends
    <2>3. CASE Steps(c, IF Attached[m] # NoMedia THEN "unrefer" ELSE "remove")
        BY <2>1, <2>3, CallGoes DEF Steps, Plain
    <2>4. CASE /\ Stored(m)
               /\ calls' = [calls EXCEPT ![c].pc = "mark", ![c].row = messages[m]]
        <3>1. PICK new : new = [calls[c] EXCEPT !.pc = "mark", !.row = messages[m]]
            OBVIOUS
        <3>2. messages[m] \in MessageRow
            BY <2>1, <2>4 DEF Stored, TablesSound, InboxTypeOK
        <3>3. /\ new \in CallRecord /\ new.pc = "mark" /\ new.msg = m /\ new.key = calls[c].key
              /\ new.expired = calls[c].expired /\ new.rest = calls[c].rest
              /\ new.row = messages[m]
            BY <1>1, <3>1, <3>2 DEF CallRecord, AckStep
        <3>4. CallSound(c, new)
            BY <1>1, <2>1, <3>2, <3>3 DEF CallSound
        <3>5. calls' = [calls EXCEPT ![c] = new]
            BY <2>4, <3>1, RecordsOK
        <3> QED
            BY <2>1, <3>3, <3>4, <3>5, OneMoves DEF Holds
    <2> QED
        BY <1>5, <2>2, <2>3, <2>4 DEF AckLoad
<1>6. CASE AckMark(c)
    BY <1>1, <1>2, <1>6, CallEnds DEF AckMark, SaveMessage, At, mediaVars
<1>7. CASE SeenSave(c)
    BY <1>1, <1>2, <1>7, CallEnds DEF SeenSave, SaveMessage, At, mediaVars
<1>8. CASE RemoveUnrefer(c)
    <2>1. At(c, "unrefer")
        BY <1>8 DEF RemoveUnrefer, Unrefer
    <2>2. CASE ~Exists(Attached[m]) /\ op[c].do = "none" /\ Steps(c, "remove") /\ UNCHANGED mediaVars
        BY <2>1, <2>2, CallGoes DEF Steps, At, Plain, mediaVars
    <2>3. CASE DecrementLoad(c, Attached[m]) /\ UNCHANGED inboxVars
        <3>1. /\ calls' = calls /\ op'[c].do = "decrement" /\ op'[c].media = Attached[m]
              /\ \A b \in Call : b # c => op'[b] = op[b]
            BY <1>1, <2>3 DEF DecrementLoad, Load, NewOp, inboxVars
        <3>2. Holds(calls[c], op'[c])
            BY <2>1, <3>1 DEF Holds, At
        <3> QED
            BY <3>1, <3>2, RecordsOK DEF TablesSound, CallsSound, CallsOK
    <2>4. CASE DecrementSave(c) /\ Steps(c, "remove")
        <3>1. op'[c].do = "none" /\ \A b \in Call : b # c => op'[b] = op[b]
            BY <1>1, <2>4 DEF DecrementSave, Save, NoOp, NewOp
        <3> QED
            BY <2>1, <2>4, <3>1, CallGoes DEF Steps, At, Plain
    <2> QED
        BY <1>8, <2>2, <2>3, <2>4, FindCalls DEF RemoveUnrefer, Unrefer
<1>9. CASE RemoveMessage(c)
    <2>1. op[c].do = "none" /\ op' = op /\ calls[c].pc = "remove" /\ m \in Message
        BY <1>1, <1>2, <1>9 DEF RemoveMessage, At, mediaVars, CallSound
    <2>2. PICK new : new = [calls[c] EXCEPT !.pc = "removeRows"]
        OBVIOUS
    <2>3. /\ new \in CallRecord /\ new.pc = "removeRows" /\ new.msg = m /\ new.key = calls[c].key
          /\ new.expired = calls[c].expired /\ new.rest = calls[c].rest
        BY <1>1, <2>2 DEF CallRecord, OtherStep
    <2>4. CallSound(c, new)
        BY <1>1, <2>1, <2>3 DEF CallSound
    <2>5. calls' = Gone({m}, [calls EXCEPT ![c] = new])
        BY <1>9, <2>2 DEF RemoveMessage
    <2> QED
        BY <2>1, <2>3, <2>4, <2>5, GoneKeeps, InboxAssumption DEF Holds
<1>10. CASE RemoveRows(c)
    <2>1. op[c].do = "none" /\ op' = op /\ m \in Message
        BY <1>1, <1>2, <1>10 DEF RemoveRows, At, mediaVars, CallSound
    <2>2. calls' = Gone({m}, [calls EXCEPT ![c] = Idle])
        BY <1>10 DEF RemoveRows
    <2> QED
        BY <2>1, <2>2, IdleSound, GoneKeeps, InboxAssumption DEF Holds
<1> QED
    BY <1>3, <1>4, <1>5, <1>6, <1>7, <1>8, <1>9, <1>10 DEF OtherSteps

LEMMA PruneStepsCalls ==
    ASSUME TablesSound, PruneSteps
    PROVE  CallsOK'
<1> DEFINE cron == calls[Cron]
<1>1. /\ Cron \in Call /\ cron \in CallRecord /\ CallSound(Cron, cron) /\ Holds(cron, op[Cron])
      /\ op \in [Call -> OpRecord]
    BY RecordsOK, InboxAssumption DEF TablesSound, CallsSound, MediaInv, MediaTypeOK, OpRecord
<1>2. CASE PruneFind
    <2> DEFINE rest == {m \in ExpiredMessages : Attached[m] # NoMedia}
    <2>1. PICK new : new = [Idle EXCEPT !.pc = "prune", !.rest = rest, !.expired = ExpiredMessages]
        OBVIOUS
    <2>2. /\ new.pc = "prune" /\ new.msg = NoMessage /\ new.rest = rest /\ new.key = NoKey
          /\ new.expired = ExpiredMessages
        BY <2>1 DEF Idle
    <2>3. new \in CallRecord
        BY <2>1 DEF CallRecord, Idle, OtherStep, ExpiredMessages
    <2>4. CallSound(Cron, new)
        BY <2>2 DEF CallSound
    <2>5. op[Cron].do = "none" /\ op' = op
        BY <1>1, <1>2 DEF PruneFind, Holds, At, mediaVars
    <2>6. calls' = [calls EXCEPT ![Cron] = new]
        BY <1>2, <2>1 DEF PruneFind
    <2> QED
        BY <1>1, <2>3, <2>4, <2>5, <2>6, OneMoves DEF Holds
<1>3. CASE PruneUncount
    <2>1. PICK m \in cron.rest :
              \/ ~Exists(Attached[m]) /\ op[Cron].do = "none" /\ Uncounted(m) /\ UNCHANGED mediaVars
              \/ DecrementLoad(Cron, Attached[m]) /\ UNCHANGED inboxVars
              \/ SaveFind(Cron) /\ UNCHANGED inboxVars
              \/ op[Cron].media = Attached[m] /\ DecrementSave(Cron) /\ Uncounted(m)
        BY <1>3 DEF PruneUncount
    <2>2. CASE DecrementLoad(Cron, Attached[m]) /\ UNCHANGED inboxVars
        <3>1. /\ calls' = calls /\ op'[Cron].do = "decrement" /\ op'[Cron].media = Attached[m]
              /\ \A b \in Call : b # Cron => op'[b] = op[b]
            BY <1>1, <2>2 DEF DecrementLoad, Load, NewOp, inboxVars
        <3>2. Holds(cron, op'[Cron])
            BY <1>3, <2>1, <3>1 DEF Holds, At, PruneUncount
        <3> QED
            BY <3>1, <3>2, RecordsOK DEF TablesSound, CallsSound, CallsOK
    <2>4. CASE SaveFind(Cron) /\ UNCHANGED inboxVars
        BY <1>1, <2>4, FindCalls
    <2>3. CASE Uncounted(m) /\ ~(SaveFind(Cron) /\ UNCHANGED inboxVars)
        <3>1. PICK new : new = [cron EXCEPT !.rest = cron.rest \ {m}]
            OBVIOUS
        <3>2. new \in CallRecord
            BY <1>1, <3>1 DEF CallRecord
        <3>3. /\ new.pc = cron.pc /\ new.msg = cron.msg /\ new.row = cron.row
              /\ new.key = cron.key /\ new.expired = cron.expired
              /\ new.rest = cron.rest \ {m}
            BY <1>1, <3>1 DEF CallRecord
        <3>4. CallSound(Cron, new)
            BY <1>1, <1>3, <3>3 DEF CallSound, PruneUncount, At
        <3>5. calls' = [calls EXCEPT ![Cron] = new]
            BY <2>3, <3>1 DEF Uncounted
        <3>6. op'[Cron].do = "none" /\ \A b \in Call : b # Cron => op'[b] = op[b]
            <4>1. CASE op[Cron].do = "none" /\ UNCHANGED mediaVars
                BY <4>1 DEF mediaVars
            <4>2. CASE DecrementSave(Cron)
                BY <1>1, <4>2 DEF DecrementSave, Save, NoOp, NewOp
            <4>3. CASE DecrementLoad(Cron, Attached[m]) /\ UNCHANGED inboxVars
                <5>1. calls' = calls
                    BY <4>3 DEF inboxVars
                <5>2. new = cron
                    BY <1>1, <3>5, <5>1, RecordsOK
                <5> QED
                    BY <2>1, <3>3, <5>2
            <4> QED
                BY <2>1, <2>3, <4>1, <4>2, <4>3
        <3> QED
            BY <1>1, <3>2, <3>4, <3>5, <3>6, OneMoves DEF Holds
    <2> QED
        BY <2>1, <2>2, <2>3, <2>4
<1>4. CASE PruneDelete
    <2>1. op[Cron].do = "none" /\ op' = op
        BY <1>1, <1>4 DEF PruneDelete, Holds, At, mediaVars
    <2>2. calls' = Gone(cron.expired, [calls EXCEPT ![Cron] = Idle]) /\ cron.expired \subseteq Message
        BY <1>1, <1>4 DEF PruneDelete, CallRecord
    <2> QED
        BY <1>1, <2>1, <2>2, IdleSound, GoneKeeps, InboxAssumption DEF Holds
<1> QED
    BY <1>2, <1>3, <1>4 DEF PruneSteps

LEMMA CallsKept ==
    ASSUME TablesSound, [Next]_vars
    PROVE  CallsOK'
<1>1. /\ CallsSound /\ calls \in [Call -> CallRecord]
      /\ op \in [Call -> OpRecord]
    BY RecordsOK DEF TablesSound, MediaInv, MediaTypeOK, OpRecord
<1>2. CASE UNCHANGED <<calls, op>>
    BY <1>1, <1>2 DEF CallsOK, CallsSound
<1>3. ASSUME NEW c \in Call, NEW m \in Message, NEW d \in Target,
             QueueCount(c, m, d) \/ AckFind(c, m, d)
      PROVE  CallsOK'
    <2>1. CASE QueueCount(c, m, d)
        BY <2>1, CallBegins DEF QueueCount, Plain
    <2>2. CASE Begin(c, m, d, "check", NoMessage, NoKey)
        BY <2>2, CallBegins DEF Plain
    <2>3. ASSUME NEW k \in RowsFor(m, {d, DefaultDevice}),
                 Begin(c, m, deliveries[k].dev, "ack", NoMessage, k)
          PROVE  CallsOK'
        <3>1. k \in RowId /\ k # NoKey /\ deliveries[k].dev \in Target \cup {DefaultDevice}
            BY InboxAssumption DEF RowsFor, Rows
        <3> QED
            BY <2>3, <3>1, CallBegins
    <2> QED
        BY <1>3, <2>1, <2>2, <2>3 DEF AckFind
<1>4. ASSUME NEW c \in Call, NEW m \in Message, SeenLoad(c, m) \/ DeleteFind(c, m)
      PROVE  CallsOK'
    <2>1. messages[m] \in MessageRow
        BY <1>4 DEF SeenLoad, DeleteFind, Stored, TablesSound, InboxTypeOK
    <2>2. CASE SeenLoad(c, m)
        BY <2>1, <2>2, CallBegins DEF SeenLoad, Plain
    <2>3. CASE DeleteFind(c, m)
        BY <2>1, <2>3, CallBegins DEF DeleteFind, Plain
    <2> QED
        BY <1>4, <2>2, <2>3
<1>5. CASE Crash
    <2>1. calls' = [c \in Call |-> Idle] /\ op' = [c \in Call |-> NoOp]
        BY <1>5 DEF Crash
    <2> QED
        BY <2>1, IdleSound DEF CallsOK, CallsSound, Holds, NoOp, NewOp
<1>6. CASE MediaWorks
    BY <1>2, <1>6 DEF MediaWorks, SweepBegins, SweepDeletes, SweepStart, SweepRow, SweepObject,
       SweepPassEnds, DeadlinePasses, inboxVars
<1>7. ASSUME NEW m \in Message, MessageExpires(m)
      PROVE  CallsOK'
    BY <1>2, <1>7 DEF MessageExpires, mediaVars
<1> QED
    BY <1>2, <1>3, <1>4, <1>5, <1>6, <1>7, QueueStepsCalls, OtherStepsCalls, PruneStepsCalls
       DEF Next, InboxNext, vars, inboxVars, mediaVars
-----------------------------------------------------------------------------
(***************************************************************************)
(* The tables.                                                             *)
(***************************************************************************)

\* The steps that touch the delivery table.
LEMMA DeliverySteps ==
    ASSUME [Next]_vars
    PROVE  \/ UNCHANGED deliveries
           \/ \E c \in Call : \/ InsertDelivery(c) /\ (QueueAdd(c) \/ QueueDeliver(c))
                              \/ PushUpdate(c) \/ AckSave(c) \/ RemoveRows(c)
<1>1. ASSUME NEW c \in Call, QueueSteps(c)
      PROVE  \/ UNCHANGED deliveries
             \/ InsertDelivery(c) /\ (QueueAdd(c) \/ QueueDeliver(c))
             \/ PushUpdate(c)
    BY <1>1 DEF QueueSteps, QueueFind, QueueMatch, QueueAdd, QueueRefer, QueueStore, QueueDeliver,
       QueueFails, QueueRollback, QueuePush, PushLoad, PushSave, QueueAnswer, Unrefer, SaveMessage,
       Steps, Ends, inboxVars
<1>2. ASSUME NEW c \in Call, OtherSteps(c)
      PROVE  UNCHANGED deliveries \/ AckSave(c) \/ RemoveRows(c)
    BY <1>2 DEF OtherSteps, AckCheck, AckLoad, AckMark, SeenSave, RemoveUnrefer, RemoveMessage,
       Unrefer, SaveMessage, Steps, Ends, inboxVars
<1>3. ASSUME NEW c \in Call, NEW m \in Message, SeenLoad(c, m) \/ DeleteFind(c, m)
      PROVE  UNCHANGED deliveries
    BY <1>3 DEF SeenLoad, DeleteFind, Begin
<1>4. ASSUME NEW c \in Call, NEW m \in Message, NEW d \in Target,
             QueueCount(c, m, d) \/ AckFind(c, m, d)
      PROVE  UNCHANGED deliveries
    BY <1>4 DEF QueueCount, AckFind, Begin
<1>5. PruneSteps \/ Crash \/ (\E m \in Message : MessageExpires(m)) => UNCHANGED deliveries
    BY DEF PruneSteps, PruneFind, PruneUncount, PruneDelete, Uncounted, MessageExpires, Crash,
       inboxVars
<1>6. MediaWorks \/ UNCHANGED vars => UNCHANGED deliveries
    BY DEF MediaWorks, SweepBegins, SweepDeletes, inboxVars, vars
<1> QED
    BY <1>1, <1>2, <1>3, <1>4, <1>5, <1>6 DEF Next, InboxNext

\* The steps that touch the messages table.
LEMMA MessageSteps ==
    ASSUME [Next]_vars
    PROVE  \/ UNCHANGED messages
           \/ \E c \in Call : \/ QueueStore(c) \/ PushSave(c) \/ AckMark(c) \/ SeenSave(c)
                              \/ RemoveMessage(c)
           \/ PruneDelete
           \/ \E m \in Message : MessageExpires(m)
<1>1. ASSUME NEW c \in Call, QueueSteps(c)
      PROVE  UNCHANGED messages \/ QueueStore(c) \/ PushSave(c)
    BY <1>1 DEF QueueSteps, QueueFind, QueueMatch, QueueAdd, QueueRefer, QueueDeliver, QueueFails,
       QueueRollback, QueuePush, PushUpdate, PushLoad, QueueAnswer, Unrefer, Steps, Ends, inboxVars
<1>2. ASSUME NEW c \in Call, OtherSteps(c)
      PROVE  UNCHANGED messages \/ AckMark(c) \/ SeenSave(c) \/ RemoveMessage(c)
    BY <1>2 DEF OtherSteps, AckSave, AckCheck, AckLoad, RemoveUnrefer, RemoveRows, Unrefer, Steps,
       Ends, inboxVars
<1>3. ASSUME NEW c \in Call, NEW m \in Message, SeenLoad(c, m) \/ DeleteFind(c, m)
      PROVE  UNCHANGED messages
    BY <1>3 DEF SeenLoad, DeleteFind, Begin
<1>4. ASSUME NEW c \in Call, NEW m \in Message, NEW d \in Target,
             QueueCount(c, m, d) \/ AckFind(c, m, d)
      PROVE  UNCHANGED messages
    BY <1>4 DEF QueueCount, AckFind, Begin
<1>5. PruneSteps \/ Crash => UNCHANGED messages \/ PruneDelete
    BY DEF PruneSteps, PruneFind, PruneUncount, Uncounted, Crash, inboxVars
<1>6. MediaWorks \/ UNCHANGED vars => UNCHANGED messages
    BY DEF MediaWorks, SweepBegins, SweepDeletes, inboxVars, vars
<1> QED
    BY <1>1, <1>2, <1>3, <1>4, <1>5, <1>6 DEF Next, InboxNext

LEMMA DeliveriesTyped ==
    ASSUME TablesSound, [Next]_vars
    PROVE  deliveries' \in [RowId -> Delivery \cup {NoRow}]
<1> USE DEF TablesSound, InboxTypeOK
<1>1. CASE UNCHANGED deliveries
    BY <1>1
<1>2. ASSUME NEW c \in Call, InsertDelivery(c), calls[c].pc \in {"add", "deliver"}
      PROVE  deliveries' \in [RowId -> Delivery \cup {NoRow}]
    <2>1. calls[c].msg \in Message /\ calls[c].dev \in Target \cup {DefaultDevice}
        BY <1>2, RecordsOK DEF CallsSound, CallSound, CallRecord
    <2>2. [msg |-> calls[c].msg, dev |-> calls[c].dev, status |-> "PENDING"] \in Delivery
        BY <2>1 DEF Delivery, Status
    <2> QED
        BY <1>2, <2>2 DEF InsertDelivery
<1>3. ASSUME NEW c \in Call, PushUpdate(c)
      PROVE  deliveries' \in [RowId -> Delivery \cup {NoRow}]
    <2>1. ASSUME NEW k \in Rows(calls[c].msg)
          PROVE  [deliveries[k] EXCEPT !.status = "DELIVERED"] \in Delivery
        <3>1. deliveries[k] \in Delivery
            BY DEF Rows
        <3> QED
            BY <3>1 DEF Delivery, Status
    <2> QED
        BY <1>3, <2>1 DEF PushUpdate
<1>4. ASSUME NEW c \in Call, AckSave(c)
      PROVE  deliveries' \in [RowId -> Delivery \cup {NoRow}]
    <2>1. /\ calls[c].msg \in Message /\ calls[c].dev \in Target \cup {DefaultDevice}
          /\ calls[c].key \in RowId
        BY <1>4, RecordsOK DEF AckSave, At, CallsSound, CallSound, CallRecord
    <2>2. [msg |-> calls[c].msg, dev |-> calls[c].dev, status |-> "ACKNOWLEDGED"] \in Delivery
        BY <2>1 DEF Delivery, Status
    <2> QED
        BY <1>4, <2>1, <2>2 DEF AckSave
<1>5. ASSUME NEW c \in Call, RemoveRows(c)
      PROVE  deliveries' \in [RowId -> Delivery \cup {NoRow}]
    BY <1>5 DEF RemoveRows
<1> QED
    BY <1>1, <1>2, <1>3, <1>4, <1>5, DeliverySteps DEF QueueAdd, QueueDeliver, At

LEMMA NewRowTyped == \A m : NewRow(m) \in MessageRow
BY DEF NewRow, MessageRow, Expiry

LEMMA MessagesTyped ==
    ASSUME TablesSound, [Next]_vars
    PROVE  messages' \in [Message -> MessageRow \cup {NoMessage}]
<1> USE DEF TablesSound, InboxTypeOK
<1>1. CASE UNCHANGED messages
    BY <1>1
<1>2. ASSUME NEW m, NEW row \in MessageRow \cup {NoMessage},
             messages' = [messages EXCEPT ![m] = row]
      PROVE  messages' \in [Message -> MessageRow \cup {NoMessage}]
    BY <1>2
<1>3. ASSUME NEW c \in Call, QueueStore(c)
      PROVE  messages' \in [Message -> MessageRow \cup {NoMessage}]
    <2> DEFINE m == calls[c].msg
    <2>1. m \in Message
        BY <1>3 DEF QueueStore, At, CallsSound, CallSound
    <2>2. CASE Stored(m)
        <3>1. messages[m] \in MessageRow /\ NewRow(m).expires_at \in Expiry
            BY <2>1, <2>2 DEF Stored, NewRow, Expiry
        <3>2. [messages[m] EXCEPT !.expires_at = NewRow(m).expires_at] \in MessageRow
            BY <3>1 DEF MessageRow
        <3> QED
            BY <1>2, <1>3, <2>2, <3>2 DEF QueueStore
    <2>3. CASE ~Stored(m)
        BY <1>2, <1>3, <2>3, NewRowTyped DEF QueueStore
    <2> QED
        BY <2>2, <2>3
<1>4. ASSUME NEW c \in Call, PushSave(c) \/ AckMark(c) \/ SeenSave(c)
      PROVE  messages' \in [Message -> MessageRow \cup {NoMessage}]
    <2>1. PICK row \in MessageRow : row = calls[c].row
        BY <1>4 DEF PushSave, AckMark, SeenSave, At, CallsSound, CallSound
    <2>2. /\ [row EXCEPT !.delivered = TRUE] \in MessageRow
          /\ [row EXCEPT !.viewed = TRUE] \in MessageRow
          /\ \A e \in Expiry : [row EXCEPT !.delivered = TRUE, !.expires_at = e] \in MessageRow
        BY <2>1 DEF MessageRow
    <2>3. CASE PushSave(c)
        BY <1>2, <2>1, <2>2, <2>3 DEF PushSave, SaveMessage
    <2>4. CASE AckMark(c)
        <3>1. row.expires_at \in Expiry /\ "later" \in Expiry
            BY <2>1 DEF MessageRow, Expiry
        <3>2. [row EXCEPT !.delivered = TRUE,
                          !.expires_at = IF calls[c].msg \in Ephemeral THEN "later" ELSE @]
                  \in MessageRow
            BY <2>1, <3>1 DEF MessageRow
        <3> QED
            BY <1>2, <2>1, <2>4, <3>2 DEF AckMark, SaveMessage
    <2>5. CASE SeenSave(c)
        BY <1>2, <2>1, <2>2, <2>5 DEF SeenSave, SaveMessage
    <2> QED
        BY <1>4, <2>3, <2>4, <2>5
<1>5. ASSUME NEW c \in Call, RemoveMessage(c)
      PROVE  messages' \in [Message -> MessageRow \cup {NoMessage}]
    BY <1>5 DEF RemoveMessage
<1>6. CASE PruneDelete
    BY <1>6 DEF PruneDelete
<1>7. ASSUME NEW m \in Message, MessageExpires(m)
      PROVE  messages' \in [Message -> MessageRow \cup {NoMessage}]
    <2>1. messages[m] \in MessageRow
        BY <1>7 DEF MessageExpires, Stored
    <2>2. [messages[m] EXCEPT !.expires_at = "past"] \in MessageRow
        BY <2>1 DEF MessageRow, Expiry
    <2> QED
        BY <1>7, <2>2 DEF MessageExpires
<1> QED
    BY <1>1, <1>3, <1>4, <1>5, <1>6, <1>7, MessageSteps

\* The histories: what each step adds to them is a message or a media.
LEMMA HistoriesTyped ==
    ASSUME TablesSound, [Next]_vars
    PROVE  /\ crashes' \in Nat /\ revived' \subseteq Message /\ broken' \subseteq Message
           /\ contended' \subseteq MediaId
<1> DEFINE Typed == /\ crashes' \in Nat /\ revived' \subseteq Message /\ broken' \subseteq Message
                    /\ contended' \subseteq MediaId
<1>1. /\ crashes \in Nat /\ revived \subseteq Message /\ broken \subseteq Message
      /\ contended \subseteq MediaId
    BY DEF TablesSound, InboxTypeOK
<1>2. \A c \in Call : calls[c].pc \notin {"idle", "prune"} => calls[c].msg \in Message
    BY DEF TablesSound, CallsSound, CallSound
<1>3. ASSUME UNCHANGED <<crashes, revived, broken, contended>>
      PROVE  Typed
    BY <1>1, <1>3
<1>4. ASSUME NEW c \in Call, QueueSteps(c)
      PROVE  Typed
    <2>1. CASE QueueFails(c) \/ PushSave(c)
        BY <1>1, <1>2, <2>1 DEF QueueFails, PushSave, SaveMessage, At
    <2> QED
        BY <1>3, <1>4, <2>1 DEF QueueSteps, QueueFind, QueueMatch, QueueAdd, QueueRefer,
           QueueStore, QueueDeliver, QueueRollback, QueuePush, PushUpdate, PushLoad, QueueAnswer,
           Unrefer, Steps, Ends, inboxVars
<1>5. ASSUME NEW c \in Call, OtherSteps(c)
      PROVE  Typed
    <2>1. CASE AckSave(c) \/ AckMark(c) \/ SeenSave(c)
        BY <1>1, <1>2, <2>1 DEF AckSave, AckMark, SeenSave, SaveMessage, At
    <2> QED
        BY <1>3, <1>5, <2>1 DEF OtherSteps, AckCheck, AckLoad, RemoveUnrefer, RemoveMessage,
           RemoveRows, Unrefer, Steps, Ends, inboxVars
<1>6. \A c, m : Contention(c, m) \subseteq MediaId
    BY DEF Contention
<1>7. ASSUME NEW c, NEW m, NEW d, NEW pc, NEW row, NEW k, Begin(c, m, d, pc, row, k)
      PROVE  Typed
    BY <1>1, <1>6, <1>7 DEF Begin
<1>8. ASSUME NEW c \in Call, NEW m \in Message, NEW d \in Target,
             QueueCount(c, m, d) \/ AckFind(c, m, d)
      PROVE  Typed
    BY <1>7, <1>8 DEF QueueCount, AckFind
<1>9. ASSUME NEW c \in Call, NEW m \in Message, SeenLoad(c, m) \/ DeleteFind(c, m)
      PROVE  Typed
    BY <1>7, <1>9 DEF SeenLoad, DeleteFind
<1>10. ASSUME PruneSteps
       PROVE  Typed
    BY <1>1, <1>3, <1>6, <1>10 DEF PruneSteps, PruneFind, PruneUncount, PruneDelete, Uncounted,
       inboxVars
<1>11. ASSUME Crash
       PROVE  Typed
    BY <1>1, <1>11 DEF Crash
<1>12. ASSUME MediaWorks
       PROVE  Typed
    <2>1. \A deleted : SweepRow(deleted) => sweeper.media \in MediaId
        BY DEF SweepRow, TablesSound, MediaInv, SweepSound
    <2>2. Due \subseteq MediaId
        BY DEF Due
    <2> QED
        BY <1>1, <1>3, <1>12, <2>1, <2>2 DEF MediaWorks, SweepBegins, SweepDeletes, inboxVars
<1>13. ASSUME NEW m \in Message, MessageExpires(m)
      PROVE  Typed
    BY <1>3, <1>13 DEF MessageExpires
<1>14. ASSUME UNCHANGED vars
       PROVE  Typed
    BY <1>3, <1>14 DEF vars, inboxVars
<1> HIDE DEF Typed
<1>15. ASSUME InboxNext
       PROVE  Typed
    BY <1>4, <1>5, <1>8, <1>9, <1>10, <1>11, <1>13, <1>15 DEF InboxNext
<1> QED
    BY <1>12, <1>14, <1>15 DEF Next, Typed

LEMMA TablesKept ==
    ASSUME TablesSound, [Next]_vars
    PROVE  TablesSound'
<1>1. InboxTypeOK'
    BY CallsKept, DeliveriesTyped, MessagesTyped, HistoriesTyped DEF InboxTypeOK, CallsOK, CallRecord
<1> QED
    BY <1>1, MediaKept, CallsKept DEF TablesSound, CallsOK
-----------------------------------------------------------------------------
(***************************************************************************)
(* Who moves in a step, and what the others notice of it.                  *)
(***************************************************************************)

Same(old, new) ==
    /\ new.pc = old.pc /\ new.msg = old.msg /\ new.dev = old.dev /\ new.row = old.row
    /\ new.key = old.key /\ new.collided = old.collided
    /\ new.rest = old.rest /\ new.expired = old.expired
    /\ old.gone => new.gone

Begins(b) ==
    \E m \in Message :
        \/ \E d \in Target : QueueCount(b, m, d) \/ AckFind(b, m, d)
        \/ SeenLoad(b, m) \/ DeleteFind(b, m)

Moves(b) ==
    \/ Begins(b) \/ QueueSteps(b) \/ OtherSteps(b)
    \/ b = Cron /\ PruneSteps

LEMMA SameIfGone ==
    ASSUME TablesSound, NEW b \in Call, NEW new, new \in {calls[b], [calls[b] EXCEPT !.gone = TRUE]}
    PROVE  Same(calls[b], new)
<1>1. PICK old \in CallRecord : old = calls[b]
    BY RecordsOK
<1> QED
    BY <1>1 DEF Same, CallRecord

LEMMA Movers ==
    ASSUME TablesSound, [Next]_vars, NEW b \in Call
    PROVE  Same(calls[b], calls'[b]) \/ Moves(b) \/ Crash
<1>1. calls \in [Call -> CallRecord]
    BY RecordsOK
<1>2. ASSUME calls'[b] \in {calls[b], [calls[b] EXCEPT !.gone = TRUE]}
      PROVE  Same(calls[b], calls'[b])
    BY <1>2, SameIfGone
<1>3. CASE UNCHANGED calls
    BY <1>2, <1>3
<1>4. ASSUME NEW c \in Call, Begins(c), b # c
      PROVE  Same(calls[b], calls'[b])
    BY <1>1, <1>2, <1>4 DEF Begins, QueueCount, AckFind, SeenLoad, DeleteFind, Begin
<1>5. ASSUME NEW c \in Call, QueueSteps(c), b # c
      PROVE  Same(calls[b], calls'[b])
    BY <1>1, <1>2, <1>5 DEF QueueSteps, QueueFind, QueueMatch, QueueAdd, QueueRefer, QueueStore,
       QueueDeliver, QueueFails, QueueRollback, QueuePush, PushUpdate, PushLoad, PushSave,
       QueueAnswer, Unrefer, Steps, Ends, Go, End, inboxVars
<1>6. ASSUME NEW c \in Call, OtherSteps(c), b # c
      PROVE  Same(calls[b], calls'[b])
    <2>1. CASE RemoveMessage(c) \/ RemoveRows(c)
        BY <1>1, <1>2, <1>6, <2>1 DEF RemoveMessage, RemoveRows, Gone
    <2> QED
        BY <1>1, <1>2, <1>6, <2>1 DEF OtherSteps, AckSave, AckCheck, AckLoad, AckMark, SeenSave,
           RemoveUnrefer, Unrefer, Steps, Ends, Go, End, inboxVars
<1>7. ASSUME PruneSteps, b # Cron
      PROVE  Same(calls[b], calls'[b])
    <2>1. CASE PruneDelete
        BY <1>1, <1>2, <1>7, <2>1 DEF PruneDelete, Gone
    <2> QED
        BY <1>1, <1>2, <1>7, <2>1 DEF PruneSteps, PruneFind, PruneUncount, Uncounted, inboxVars
<1>8. ASSUME MediaWorks \/ \E m \in Message : MessageExpires(m)
      PROVE  Same(calls[b], calls'[b])
    BY <1>2, <1>8 DEF MediaWorks, SweepBegins, SweepDeletes, MessageExpires, inboxVars
<1>9. ASSUME InboxNext
      PROVE  Same(calls[b], calls'[b]) \/ Moves(b) \/ Crash
    BY <1>4, <1>5, <1>6, <1>7, <1>8, <1>9 DEF InboxNext, Moves, Begins
<1> QED
    BY <1>3, <1>8, <1>9 DEF Next, vars, inboxVars

-----------------------------------------------------------------------------
(***************************************************************************)
(* A delivery that a call has read is the one it writes back.              *)
(***************************************************************************)

\* The uuid k is that of a delivery of m to device d, or of none any more.
Names(k, m, d) == deliveries[k] # NoRow => deliveries[k].msg = m /\ deliveries[k].dev = d

KeySound ==
    \A c \in Call : At(c, "ack") =>
        /\ Names(calls[c].key, calls[c].msg, calls[c].dev)
        /\ \A b \in Call : At(b, "ack") /\ calls[b].key = calls[c].key
                               => calls[b].msg = calls[c].msg /\ calls[b].dev = calls[c].dev

\* A step keeps what a uuid names for a call that holds it.
LEMMA NamesKept ==
    ASSUME TablesSound, KeySound, [Next]_vars, NEW c \in Call, At(c, "ack")
    PROVE  deliveries'[calls[c].key] # NoRow =>
               /\ deliveries'[calls[c].key].msg = calls[c].msg
               /\ deliveries'[calls[c].key].dev = calls[c].dev
<1> DEFINE k == calls[c].key
<1>1. k \in RowId
    BY RecordsOK DEF TablesSound, CallsSound, CallSound, CallRecord, At
<1>2. Names(k, calls[c].msg, calls[c].dev)
    BY DEF KeySound
<1>3. ASSUME NEW b \in Call, InsertDelivery(b)
      PROVE  deliveries'[k] = deliveries[k]
    BY <1>3 DEF InsertDelivery, FreshKey, TablesSound, InboxTypeOK
<1>4. ASSUME NEW b \in Call, PushUpdate(b)
      PROVE  /\ deliveries'[k] # NoRow => deliveries'[k].msg = calls[c].msg
             /\ deliveries'[k] # NoRow => deliveries'[k].dev = calls[c].dev
    <2>1. CASE k \in Rows(calls[b].msg)
        <3>1. PICK old \in Delivery : old = deliveries[k]
            BY <1>1, <2>1 DEF Rows, TablesSound, InboxTypeOK
        <3>2. deliveries'[k] = [old EXCEPT !.status = "DELIVERED"]
            BY <1>1, <1>4, <2>1, <3>1 DEF PushUpdate
        <3>3. old # NoRow
            BY InboxAssumption
        <3> QED
            BY <1>2, <3>1, <3>2, <3>3 DEF Names, Delivery
    <2>2. CASE k \notin Rows(calls[b].msg)
        BY <1>1, <1>2, <1>4, <2>2 DEF PushUpdate, Names
    <2> QED
        BY <2>1, <2>2
<1>5. ASSUME NEW b \in Call, RemoveRows(b)
      PROVE  deliveries'[k] \in {deliveries[k], NoRow}
    BY <1>1, <1>5 DEF RemoveRows
<1>6. ASSUME NEW b \in Call, AckSave(b)
      PROVE  /\ deliveries'[k] # NoRow => deliveries'[k].msg = calls[c].msg
             /\ deliveries'[k] # NoRow => deliveries'[k].dev = calls[c].dev
    <2>1. CASE calls[b].key = k
        <3>1. calls[b].msg = calls[c].msg /\ calls[b].dev = calls[c].dev
            BY <1>6, <2>1 DEF AckSave, KeySound
        <3> QED
            BY <1>1, <1>6, <2>1, <3>1 DEF AckSave, TablesSound, InboxTypeOK
    <2>2. CASE calls[b].key # k
        BY <1>1, <1>2, <1>6, <2>2 DEF AckSave, TablesSound, InboxTypeOK, Names
    <2> QED
        BY <2>1, <2>2
<1> QED
    BY <1>2, <1>3, <1>4, <1>5, <1>6, DeliverySteps DEF Names

LEMMA BeginFacts ==
    ASSUME TablesSound, NEW c \in Call, NEW m, NEW d, NEW pc, NEW row, NEW key,
           Begin(c, m, d, pc, row, key)
    PROVE  /\ At(c, "idle") /\ c # Cron
           /\ calls'[c].pc = pc /\ calls'[c].msg = m /\ calls'[c].dev = d /\ calls'[c].row = row
           /\ calls'[c].key = key /\ ~calls'[c].gone /\ ~calls'[c].collided
           /\ calls'[c].expired = {}
BY RecordsOK DEF Begin, Idle

\* A call comes to hold a uuid only by reading a delivery.
LEMMA AckersBegin ==
    ASSUME TablesSound, [Next]_vars, NEW c \in Call, calls'[c].pc = "ack"
    PROVE  \/ Same(calls[c], calls'[c])
           \/ \E k \in RowId : /\ At(c, "idle") /\ deliveries[k] # NoRow /\ UNCHANGED deliveries
                               /\ calls'[c].key = k /\ calls'[c].msg = deliveries[k].msg
                               /\ calls'[c].dev = deliveries[k].dev
<1>1. calls \in [Call -> CallRecord]
    BY RecordsOK
<1>2. CASE Crash
    BY <1>2 DEF Crash, Idle
<1>3. CASE Begins(c)
    <2>1. PICK m \in Message : \/ \E d \in Target : QueueCount(c, m, d) \/ AckFind(c, m, d)
                               \/ SeenLoad(c, m) \/ DeleteFind(c, m)
        BY <1>3 DEF Begins
    <2>2. PICK d \in Target : \E k \in RowsFor(m, {d, DefaultDevice}) :
              Begin(c, m, deliveries[k].dev, "ack", NoMessage, k)
        <3>1. ASSUME NEW d \in Target, QueueCount(c, m, d)
              PROVE  FALSE
            BY <3>1, BeginFacts DEF QueueCount
        <3>2. ASSUME SeenLoad(c, m) \/ DeleteFind(c, m)
              PROVE  FALSE
            BY <3>2, BeginFacts DEF SeenLoad, DeleteFind
        <3>3. ASSUME NEW d \in Target, Begin(c, m, d, "check", NoMessage, NoKey)
              PROVE  FALSE
            BY <3>3, BeginFacts
        <3> QED
            BY <2>1, <3>1, <3>2, <3>3 DEF AckFind
    <2>3. PICK k \in RowsFor(m, {d, DefaultDevice}) :
              Begin(c, m, deliveries[k].dev, "ack", NoMessage, k)
        BY <2>2
    <2>4. k \in RowId /\ deliveries[k] # NoRow /\ deliveries[k].msg = m
        BY DEF RowsFor, Rows
    <2>5. calls'[c].key = k /\ calls'[c].msg = m /\ calls'[c].dev = deliveries[k].dev
        BY <1>1, <2>3 DEF Begin, Idle
    <2> QED
        BY <2>3, <2>4, <2>5 DEF Begin
<1>4. ~QueueSteps(c)
    BY <1>1 DEF QueueSteps, QueueFind, QueueMatch, QueueAdd, QueueRefer, QueueStore, QueueDeliver,
       QueueFails, QueueRollback, QueuePush, PushUpdate, PushLoad, PushSave, QueueAnswer, Unrefer,
       Steps, Ends, Go, End, Idle, inboxVars, At, CallRecord
<1>5. ~OtherSteps(c)
    <2>1. ~RemoveMessage(c) /\ ~RemoveRows(c)
        BY <1>1 DEF RemoveMessage, RemoveRows, Gone, Idle, CallRecord
    <2> QED
        BY <1>1, <2>1 DEF OtherSteps, AckSave, AckCheck, AckLoad, AckMark, SeenSave, RemoveUnrefer,
           Unrefer, Steps, Ends, Go, End, Idle, inboxVars, At, CallRecord
<1>6. CASE c = Cron
    BY <1>6, CallsKept DEF CallsOK, CallsSound, CallSound
<1> QED
    BY <1>2, <1>3, <1>4, <1>5, <1>6, Movers DEF Moves

LEMMA KeysKept ==
    ASSUME TablesSound, KeySound, [Next]_vars
    PROVE  KeySound'
<1>1. ASSUME NEW c \in Call, calls'[c].pc = "ack"
      PROVE  deliveries'[calls'[c].key] # NoRow =>
                 /\ deliveries'[calls'[c].key].msg = calls'[c].msg
                 /\ deliveries'[calls'[c].key].dev = calls'[c].dev
    <2>1. CASE Same(calls[c], calls'[c])
        BY <1>1, <2>1, NamesKept DEF Same, At
    <2> QED
        BY <1>1, <2>1, AckersBegin
<1>2. ASSUME NEW b \in Call, NEW c \in Call, calls'[b].pc = "ack", calls'[c].pc = "ack",
             calls'[b].key = calls'[c].key
      PROVE  calls'[b].msg = calls'[c].msg /\ calls'[b].dev = calls'[c].dev
    <2>1. CASE Same(calls[b], calls'[b]) /\ Same(calls[c], calls'[c])
        <3>1. calls[b].pc = "ack" /\ calls[c].pc = "ack" /\ calls[b].key = calls[c].key
              /\ calls'[b].msg = calls[b].msg /\ calls'[b].dev = calls[b].dev
              /\ calls'[c].msg = calls[c].msg /\ calls'[c].dev = calls[c].dev
            BY <1>2, <2>1 DEF Same
        <3> QED
            BY <3>1 DEF KeySound, At
    <2>2. ASSUME NEW x \in Call, NEW y \in Call, Same(calls[x], calls'[x]), calls'[x].pc = "ack",
                 calls'[y].pc = "ack", ~Same(calls[y], calls'[y]), calls'[x].key = calls'[y].key
          PROVE  calls'[x].msg = calls'[y].msg /\ calls'[x].dev = calls'[y].dev
        <3>1. PICK k \in RowId : /\ deliveries[k] # NoRow /\ calls'[y].key = k
                                 /\ calls'[y].msg = deliveries[k].msg
                                 /\ calls'[y].dev = deliveries[k].dev
            BY <2>2, AckersBegin
        <3>2. At(x, "ack") /\ calls[x].key = k
              /\ calls'[x].msg = calls[x].msg /\ calls'[x].dev = calls[x].dev
            BY <2>2, <3>1 DEF Same, At
        <3>3. deliveries[k].msg = calls[x].msg /\ deliveries[k].dev = calls[x].dev
            BY <3>1, <3>2 DEF KeySound, Names
        <3> QED
            BY <3>1, <3>2, <3>3
    <2>3. CASE ~Same(calls[b], calls'[b]) /\ ~Same(calls[c], calls'[c])
        BY <1>2, <2>3, AckersBegin
    <2> QED
        BY <1>2, <2>1, <2>2, <2>3
<1> QED
    BY <1>1, <1>2 DEF KeySound, Names, At
-----------------------------------------------------------------------------
(***************************************************************************)
(* A sender that is told "ok" finds its delivery.                          *)
(***************************************************************************)

Accepted(call) ==
    /\ call.pc \in {"push", "pushUpdate", "pushLoad", "pushSave", "answer"}
    /\ ~call.gone /\ ~call.collided
    /\ call.dev = DefaultDevice => ~NullMatches

\* Only the removal of the message takes its deliveries away.
LEMMA DeliveryStays ==
    ASSUME TablesSound, KeySound, [Next]_vars, NEW m, NEW d, NEW k \in RowId,
           deliveries[k] # NoRow, deliveries[k].msg = m, deliveries[k].dev = d,
           \A c \in Call : RemoveRows(c) => calls[c].msg # m
    PROVE  deliveries'[k] # NoRow /\ deliveries'[k].msg = m /\ deliveries'[k].dev = d
<1>1. k \in RowId /\ deliveries[k] \in Delivery
    BY DEF TablesSound, InboxTypeOK
<1>2. ASSUME NEW c \in Call, InsertDelivery(c)
      PROVE  deliveries'[k] = deliveries[k]
    BY <1>1, <1>2 DEF InsertDelivery, FreshKey
<1>3. ASSUME NEW c \in Call, PushUpdate(c)
      PROVE  deliveries'[k] # NoRow /\ deliveries'[k].msg = m /\ deliveries'[k].dev = d
    <2>1. PICK old \in Delivery : old = deliveries[k]
        BY <1>1
    <2>2. [old EXCEPT !.status = "DELIVERED"] \in Delivery
        BY DEF Delivery, Status
    <2>3. deliveries'[k] \in {old, [old EXCEPT !.status = "DELIVERED"]}
        BY <1>1, <1>3, <2>1 DEF PushUpdate
    <2> QED
        BY <1>1, <2>1, <2>2, <2>3, InboxAssumption DEF Delivery
<1>4. ASSUME NEW c \in Call, AckSave(c)
      PROVE  deliveries'[k] # NoRow /\ deliveries'[k].msg = m /\ deliveries'[k].dev = d
    <2>1. CASE calls[c].key = k
        <3>1. calls[c].msg = m /\ calls[c].dev = d
            BY <1>1, <1>4, <2>1 DEF AckSave, KeySound, Names
        <3>2. deliveries'[k] = [msg |-> m, dev |-> d, status |-> "ACKNOWLEDGED"]
            BY <1>1, <1>4, <2>1, <3>1 DEF AckSave, TablesSound, InboxTypeOK
        <3>3. deliveries'[k] \in Delivery
            BY <1>1, <3>2 DEF Delivery, Status
        <3> QED
            BY <3>2, <3>3, InboxAssumption
    <2>2. CASE calls[c].key # k
        BY <1>1, <1>4, <2>2 DEF AckSave, TablesSound, InboxTypeOK
    <2> QED
        BY <2>1, <2>2
<1>5. ASSUME NEW c \in Call, RemoveRows(c)
      PROVE  deliveries'[k] = deliveries[k]
    BY <1>1, <1>5 DEF RemoveRows, Rows
<1> QED
    BY <1>1, <1>2, <1>3, <1>4, <1>5, DeliverySteps

Queued(call) == RowsFor(call.msg, {call.dev}) # {}

AcceptedSound == \A c \in Call : Accepted(calls[c]) => Queued(calls[c])

\* A call reaches its answer by finding its delivery or by adding it.
LEMMA AcceptedNow ==
    ASSUME TablesSound, AcceptedSound, NEW b \in Call, QueueSteps(b), Accepted(calls'[b])
    PROVE  /\ calls'[b].msg = calls[b].msg /\ calls'[b].dev = calls[b].dev
           /\ \/ Queued(calls[b]) /\ (PushUpdate(b) \/ UNCHANGED deliveries)
              \/ InsertDelivery(b) /\ (QueueAdd(b) \/ QueueDeliver(b))
<1>1. PICK old \in CallRecord : old = calls[b]
    BY RecordsOK
<1>2. calls \in [Call -> CallRecord]
    BY RecordsOK
<1>3. ~Accepted(Idle)
    BY DEF Accepted, Idle
<1>4. ASSUME NEW pc, Go(b, pc)
      PROVE  /\ calls'[b].pc = pc /\ calls'[b].msg = old.msg /\ calls'[b].dev = old.dev
             /\ calls'[b].gone <=> old.gone
             /\ calls'[b].collided <=> old.collided
    <2>1. calls'[b] = [old EXCEPT !.pc = pc]
        BY <1>1, <1>2, <1>4 DEF Go
    <2> QED
        BY <2>1 DEF CallRecord
<1>5. CASE QueueFind(b) \/ QueueRefer(b) \/ QueueFails(b) \/ QueueRollback(b) \/ QueueAnswer(b)
    <2>1. \/ calls'[b] = calls[b] /\ (At(b, "refer") \/ At(b, "rollback"))
          \/ calls'[b] = Idle
          \/ calls'[b].pc \in {"match", "refer", "store", "rollback"}
        BY <1>2, <1>4, <1>5 DEF QueueFind, QueueRefer, QueueFails, QueueRollback, QueueAnswer,
           Unrefer, Steps, Ends, End, inboxVars
    <2> QED
        BY <1>3, <2>1 DEF Accepted, At
<1>6. CASE QueueMatch(b)
    <2>1. CASE old.dev = DefaultDevice
        <3>1. NullMatches
            BY <1>1, <1>2, <1>3, <1>6, <2>1 DEF QueueMatch, Ends, End
        <3>2. calls'[b].dev = old.dev
            BY <1>1, <1>4, <1>6, <2>1, <3>1 DEF QueueMatch, Steps
        <3> QED
            BY <2>1, <3>1, <3>2 DEF Accepted
    <2>2. CASE old.dev # DefaultDevice
        <3>1. Steps(b, IF RowsFor(old.msg, {old.dev}) = {} THEN "add" ELSE "answer")
            BY <1>1, <1>6, <2>2 DEF QueueMatch
        <3>2. RowsFor(old.msg, {old.dev}) # {}
            BY <1>4, <3>1 DEF Steps, Accepted
        <3> QED
            BY <1>1, <1>4, <3>1, <3>2 DEF Steps, Queued
    <2> QED
        BY <2>1, <2>2
<1>7. CASE QueueAdd(b)
    BY <1>1, <1>2, <1>3, <1>4, <1>7 DEF QueueAdd, End
<1>8. CASE QueueDeliver(b)
    BY <1>1, <1>4, <1>8 DEF QueueDeliver
<1>9. CASE QueueStore(b)
    <2>1. CASE Go(b, "deliver")
        BY <1>4, <2>1 DEF Accepted
    <2>2. CASE calls' = [calls EXCEPT ![b].pc = "push", ![b].collided = TRUE]
        <3>1. calls'[b] = [old EXCEPT !.pc = "push", !.collided = TRUE]
            BY <1>1, <1>2, <2>2
        <3> QED
            BY <3>1 DEF Accepted, CallRecord
    <2> QED
        BY <1>9, <2>1, <2>2 DEF QueueStore
<1>10. CASE QueuePush(b) \/ PushUpdate(b) \/ PushLoad(b) \/ PushSave(b)
    <2>1. old.pc \in {"push", "pushUpdate", "pushLoad", "pushSave"}
        BY <1>1, <1>10 DEF QueuePush, PushUpdate, PushLoad, PushSave, At
    <2>2. /\ calls'[b].msg = old.msg /\ calls'[b].dev = old.dev
          /\ calls'[b].gone <=> old.gone
          /\ calls'[b].collided <=> old.collided
        <3>1. CASE \E pc : Go(b, pc)
            BY <1>4, <3>1
        <3>2. CASE calls' = [calls EXCEPT ![b].pc = "pushSave", ![b].row = messages[old.msg]]
            <4>1. calls'[b] = [old EXCEPT !.pc = "pushSave", !.row = messages[old.msg]]
                BY <1>1, <1>2, <3>2
            <4> QED
                BY <4>1 DEF CallRecord
        <3>3. CASE calls' = [calls EXCEPT ![b].pc = "answer", ![b].row = NoMessage]
            <4>1. calls'[b] = [old EXCEPT !.pc = "answer", !.row = NoMessage]
                BY <1>1, <1>2, <3>3
            <4> QED
                BY <4>1 DEF CallRecord
        <3> QED
            BY <1>1, <1>10, <3>1, <3>2, <3>3 DEF QueuePush, PushUpdate, PushLoad, PushSave, Steps
    <2>3. Accepted(old)
        BY <2>1, <2>2 DEF Accepted
    <2>4. PushUpdate(b) \/ UNCHANGED deliveries
        BY <1>10 DEF QueuePush, PushLoad, PushSave, Steps, SaveMessage
    <2> QED
        BY <1>1, <2>2, <2>3, <2>4 DEF AcceptedSound
<1> QED
    BY <1>5, <1>6, <1>7, <1>8, <1>9, <1>10 DEF QueueSteps

\* Only a queueing call is on its way to answer "ok".
LEMMA OnlyQueuersAnswer ==
    ASSUME TablesSound, NEW b \in Call, Begins(b) \/ OtherSteps(b) \/ (b = Cron /\ PruneSteps)
    PROVE  ~Accepted(calls'[b])
<1>1. calls \in [Call -> CallRecord]
    BY RecordsOK
<1>2. CASE Begins(b)
    <2>1. ASSUME NEW m, NEW d, NEW row, NEW key, NEW pc \in {"find", "check", "ack", "see", "unrefer", "remove"},
                 Begin(b, m, d, pc, row, key)
          PROVE  ~Accepted(calls'[b])
        BY <2>1, BeginFacts DEF Accepted
    <2> QED
        BY <1>2, <2>1 DEF Begins, QueueCount, AckFind, SeenLoad, DeleteFind
<1>3. CASE OtherSteps(b)
    <2>1. CASE RemoveMessage(b) \/ RemoveRows(b)
        BY <1>1, <2>1 DEF RemoveMessage, RemoveRows, Gone, Accepted, Idle, CallRecord
    <2>2. CASE AckSave(b) \/ AckCheck(b) \/ AckLoad(b)
        BY <1>1, <2>2 DEF AckSave, AckCheck, AckLoad, Steps, Ends, Go, End, Idle, Accepted,
           CallRecord
    <2>3. CASE AckMark(b) \/ SeenSave(b) \/ RemoveUnrefer(b)
        BY <1>1, <2>3 DEF AckMark, SeenSave, RemoveUnrefer, Unrefer, Steps, Ends, Go, End, Idle,
           inboxVars, At, Accepted, CallRecord
    <2> QED
        BY <1>3, <2>1, <2>2, <2>3 DEF OtherSteps
<1>4. CASE b = Cron /\ PruneSteps
    <2>1. CallsOK'
        BY <1>4, PruneStepsCalls
    <2> QED
        BY <1>4, <2>1 DEF CallsOK, CallsSound, CallSound, Accepted
<1> QED
    BY <1>2, <1>3, <1>4

\* Whose deliveries are removed hears of it.
LEMMA RemovedHear ==
    ASSUME TablesSound, NEW c \in Call, RemoveRows(c), NEW b \in Call, calls[b].msg = calls[c].msg
    PROVE  calls'[b] = Idle \/ calls'[b].gone
<1>1. calls \in [Call -> CallRecord]
    BY RecordsOK
<1>2. calls' = Gone({calls[c].msg}, [calls EXCEPT ![c] = Idle])
    BY DEF RemoveRows
<1>3. CASE b = c
    BY <1>1, <1>2, <1>3, InboxAssumption DEF Gone, Idle, CallsSound, CallSound, TablesSound, RemoveRows, At
<1>4. CASE b # c
    <2>1. calls'[b] = [calls[b] EXCEPT !.gone = TRUE]
        BY <1>1, <1>2, <1>4 DEF Gone
    <2> QED
        BY <1>1, <2>1 DEF CallRecord
<1> QED
    BY <1>3, <1>4

LEMMA AcceptedKept ==
    ASSUME TablesSound, KeySound, AcceptedSound, [Next]_vars
    PROVE  AcceptedSound'
<1> SUFFICES ASSUME NEW b \in Call, Accepted(calls'[b])
             PROVE  \E k \in RowId : /\ deliveries'[k] # NoRow /\ deliveries'[k].msg = calls'[b].msg
                                     /\ deliveries'[k].dev = calls'[b].dev
    BY DEF AcceptedSound, Queued, RowsFor, Rows
<1>1. calls \in [Call -> CallRecord] /\ calls[b].msg \in Message \cup {NoMessage}
    BY RecordsOK DEF CallRecord
<1>2. ~Accepted(Idle)
    BY DEF Accepted, Idle
<1>3. \A c \in Call : RemoveRows(c) => calls[c].msg # calls[b].msg
    <2> SUFFICES ASSUME NEW c \in Call, RemoveRows(c), calls[c].msg = calls[b].msg
                 PROVE  FALSE
        OBVIOUS
    <2>1. calls'[b] = Idle \/ calls'[b].gone
        BY RemovedHear
    <2> QED
        BY <1>2, <2>1 DEF Accepted
<1>4. ASSUME Queued(calls[b]), calls'[b].msg = calls[b].msg, calls'[b].dev = calls[b].dev
      PROVE  \E k \in RowId : /\ deliveries'[k] # NoRow /\ deliveries'[k].msg = calls'[b].msg
                              /\ deliveries'[k].dev = calls'[b].dev
    <2>1. PICK k \in RowsFor(calls[b].msg, {calls[b].dev}) : TRUE
        BY <1>4 DEF Queued
    <2>2. PICK m \in {calls[b].msg}, d \in {calls[b].dev} : TRUE
        OBVIOUS
    <2>3. k \in RowId /\ deliveries[k] # NoRow /\ deliveries[k].msg = m /\ deliveries[k].dev = d
        BY <2>1, <2>2 DEF RowsFor, Rows
    <2>4. \A c \in Call : RemoveRows(c) => calls[c].msg # m
        BY <1>3, <2>2
    <2>5. deliveries'[k] # NoRow /\ deliveries'[k].msg = m /\ deliveries'[k].dev = d
        BY <2>3, <2>4, DeliveryStays
    <2> QED
        BY <1>4, <2>3, <2>5
<1>5. CASE Same(calls[b], calls'[b])
    <2>1. Accepted(calls[b])
        BY <1>5 DEF Same, Accepted
    <2> QED
        BY <1>4, <1>5, <2>1 DEF Same, AcceptedSound
<1>6. CASE QueueSteps(b)
    <2>1. CASE InsertDelivery(b) /\ (QueueAdd(b) \/ QueueDeliver(b))
        <3>1. PICK k \in RowId : deliveries' = [deliveries EXCEPT ![k] =
                  [msg |-> calls[b].msg, dev |-> calls[b].dev, status |-> "PENDING"]]
            BY <2>1 DEF InsertDelivery
        <3>2. deliveries'[k] = [msg |-> calls[b].msg, dev |-> calls[b].dev, status |-> "PENDING"]
            BY <3>1 DEF TablesSound, InboxTypeOK
        <3>3. calls[b].msg \in Message /\ calls[b].dev \in Target \cup {DefaultDevice}
            BY <2>1, RecordsOK DEF QueueAdd, QueueDeliver, At, TablesSound, CallsSound, CallSound, CallRecord
        <3>4. deliveries'[k] \in Delivery
            BY <3>2, <3>3 DEF Delivery, Status
        <3> QED
            BY <1>6, <3>2, <3>4, AcceptedNow, InboxAssumption
    <2>2. CASE Queued(calls[b])
        BY <1>4, <1>6, <2>2, AcceptedNow
    <2> QED
        BY <1>6, <2>1, <2>2, AcceptedNow
<1>7. ~Crash
    BY <1>2 DEF Crash
<1> QED
    BY <1>5, <1>6, <1>7, Movers, OnlyQueuersAnswer DEF Moves
-----------------------------------------------------------------------------
(***************************************************************************)
(* The last acknowledgement removes.                                       *)
(***************************************************************************)

\* Every delivery of m that there is, and there is one, is acknowledged.
Settled(m) == Rows(m) # {} /\ \A k \in Rows(m) : Acked(k)

Closes(call, m) ==
    call.msg = m /\ call.pc \in {"check", "load", "unrefer", "remove", "deliver"}

\* The delivery k after a step, as far as acknowledgement is concerned.
RowAcked(row) == row.status = "ACKNOWLEDGED"

\* Deliveries become all acknowledged by an acknowledgement, whose call goes on
\* to check just that.
LEMMA SettledByAck ==
    ASSUME TablesSound, KeySound, [Next]_vars, NEW m \in Message, ~Settled(m), Settled(m)'
    PROVE  \E c \in Call : calls'[c].msg = m /\ calls'[c].pc = "check"
<1>1. calls \in [Call -> CallRecord] /\ deliveries \in [RowId -> Delivery \cup {NoRow}]
    BY RecordsOK DEF TablesSound, InboxTypeOK
<1>2. /\ \E k \in RowId : deliveries'[k] # NoRow /\ deliveries'[k].msg = m
      /\ \A k \in RowId : deliveries'[k] # NoRow /\ deliveries'[k].msg = m => RowAcked(deliveries'[k])
    BY DEF Settled, Rows, Acked, RowAcked
<1>3. ASSUME \A k \in RowId : \/ deliveries'[k] = deliveries[k]
                              \/ /\ deliveries[k] # NoRow => deliveries[k].msg # m
                                 /\ deliveries'[k] # NoRow => deliveries'[k].msg # m
      PROVE  FALSE
    <2>1. \A k \in RowId : deliveries'[k] # NoRow /\ deliveries'[k].msg = m
                               <=> deliveries[k] # NoRow /\ deliveries[k].msg = m
        BY <1>3
    <2>2. \A k \in RowId : deliveries[k] # NoRow /\ deliveries[k].msg = m
                               => RowAcked(deliveries[k])
        BY <1>2, <1>3, <2>1
    <2> QED
        BY <1>2, <2>1, <2>2 DEF Settled, Rows, Acked, RowAcked
<1>4. ASSUME NEW c \in Call, InsertDelivery(c)
      PROVE  FALSE
    <2>1. PICK k \in RowId :
              /\ deliveries[k] = NoRow
              /\ deliveries' = [deliveries EXCEPT ![k] = [msg |-> calls[c].msg, dev |-> calls[c].dev,
                                                          status |-> "PENDING"]]
        BY <1>4 DEF InsertDelivery, FreshKey
    <2>2. PICK new : new = [msg |-> calls[c].msg, dev |-> calls[c].dev, status |-> "PENDING"]
        OBVIOUS
    <2>3. deliveries'[k] = new /\ \A j \in RowId : j # k => deliveries'[j] = deliveries[j]
        BY <1>1, <2>1, <2>2
    <2>4. ~RowAcked(new) /\ new.msg = calls[c].msg
        BY <2>2 DEF RowAcked
    <2>5. new # NoRow => new.msg # m
        BY <1>2, <2>3, <2>4
    <2> QED
        BY <1>3, <2>1, <2>3, <2>5
<1>5. ASSUME NEW c \in Call, PushUpdate(c)
      PROVE  FALSE
    <2>1. \A k \in RowId : deliveries'[k] = IF k \in Rows(calls[c].msg)
                                            THEN [deliveries[k] EXCEPT !.status = "DELIVERED"]
                                            ELSE deliveries[k]
        BY <1>5 DEF PushUpdate
    <2>2. ASSUME NEW k \in RowId, k \in Rows(calls[c].msg)
          PROVE  /\ deliveries'[k] # NoRow /\ deliveries'[k].msg = calls[c].msg
                 /\ ~RowAcked(deliveries'[k])
                 /\ deliveries[k].msg = calls[c].msg
        <3>1. PICK old \in Delivery : old = deliveries[k] /\ old.msg = calls[c].msg
            BY <1>1, <2>2 DEF Rows
        <3>2. [old EXCEPT !.status = "DELIVERED"] \in Delivery
            BY DEF Delivery, Status
        <3>3. deliveries'[k] = [old EXCEPT !.status = "DELIVERED"]
            BY <2>1, <2>2, <3>1
        <3> QED
            BY <3>1, <3>2, <3>3, InboxAssumption DEF Delivery, RowAcked
    <2>3. \A k \in RowId : k \notin Rows(calls[c].msg) => deliveries'[k] = deliveries[k]
        BY <2>1
    <2>4. CASE calls[c].msg = m
        <3>1. \A k \in RowId : k \notin Rows(m) => deliveries[k] = NoRow \/ deliveries[k].msg # m
            BY DEF Rows
        <3> QED
            BY <1>2, <2>2, <2>3, <2>4, <3>1
    <2>5. CASE calls[c].msg # m
        BY <1>3, <2>2, <2>3, <2>5
    <2> QED
        BY <2>4, <2>5
<1>6. ASSUME NEW c \in Call, RemoveRows(c)
      PROVE  FALSE
    <2>1. \A k \in RowId : deliveries'[k] = IF k \in Rows(calls[c].msg) THEN NoRow ELSE deliveries[k]
        BY <1>6 DEF RemoveRows
    <2>2. CASE calls[c].msg = m
        BY <1>2, <2>1, <2>2 DEF Rows
    <2>3. CASE calls[c].msg # m
        BY <1>3, <2>1, <2>3 DEF Rows
    <2> QED
        BY <2>2, <2>3
<1>7. ASSUME NEW c \in Call, AckSave(c)
      PROVE  calls'[c].msg = m /\ calls'[c].pc = "check"
    <2>1. PICK k \in {calls[c].key} : TRUE
        OBVIOUS
    <2>2. PICK new : new = [msg |-> calls[c].msg, dev |-> calls[c].dev, status |-> "ACKNOWLEDGED"]
        OBVIOUS
    <2>3. /\ k \in RowId => deliveries'[k] = new
          /\ \A j \in RowId : j # k => deliveries'[j] = deliveries[j]
        BY <1>1, <1>7, <2>1, <2>2 DEF AckSave
    <2>4. deliveries[k] # NoRow => deliveries[k].msg = calls[c].msg
        BY <1>7, <2>1 DEF AckSave, KeySound, Names
    <2>5. calls[c].msg = m
        BY <1>3, <2>2, <2>3, <2>4
    <2>6. calls'[c] = [calls[c] EXCEPT !.pc = "check", !.key = NoKey]
        BY <1>1, <1>7 DEF AckSave
    <2> QED
        BY <1>1, <2>5, <2>6 DEF CallRecord
<1>8. deliveries' # deliveries
    BY <1>3
<1> QED
    BY <1>4, <1>5, <1>6, <1>7, <1>8, DeliverySteps

\* A message is stored by a call that goes on to add its delivery, or by a stale
\* save.
LEMMA StoredByQueue ==
    ASSUME TablesSound, [Next]_vars, NEW m \in Message, ~Stored(m), Stored(m)', m \notin revived'
    PROVE  \E c \in Call : calls'[c].msg = m /\ calls'[c].pc = "deliver"
<1>1. /\ calls \in [Call -> CallRecord] /\ messages \in [Message -> MessageRow \cup {NoMessage}]
      /\ messages[m] = NoMessage /\ messages'[m] # NoMessage
    BY RecordsOK DEF TablesSound, InboxTypeOK, Stored
<1>2. ASSUME NEW c \in Call, QueueStore(c)
      PROVE  calls'[c].msg = m /\ calls'[c].pc = "deliver"
    <2>1. Go(c, "deliver") /\ calls[c].msg = m
        BY <1>1, <1>2 DEF QueueStore
    <2>2. calls'[c] = [calls[c] EXCEPT !.pc = "deliver"]
        BY <1>1, <2>1 DEF Go
    <2> QED
        BY <1>1, <2>1, <2>2 DEF CallRecord
<1>3. ASSUME NEW c \in Call, PushSave(c) \/ AckMark(c) \/ SeenSave(c)
      PROVE  FALSE
    BY <1>1, <1>3 DEF PushSave, AckMark, SeenSave, SaveMessage, Stored
<1>4. ~PruneDelete /\ \A c \in Call : ~RemoveMessage(c)
    BY <1>1 DEF PruneDelete, RemoveMessage
<1>5. \A n \in Message : ~MessageExpires(n)
    BY <1>1 DEF MessageExpires, Stored
<1> QED
    BY <1>1, <1>2, <1>3, <1>4, <1>5, MessageSteps

\* A call on its way to remove m gets there, or hands over to one that will.
LEMMA CloserStays ==
    ASSUME TablesSound, [Next]_vars, NEW m \in ViewOnce, NEW c \in Call, Closes(calls[c], m),
           m \notin broken', Stored(m), Stored(m)', Settled(m), Settled(m)'
    PROVE  Closes(calls'[c], m)
<1>1. PICK old \in CallRecord : old = calls[c]
    BY RecordsOK
<1>2. /\ calls \in [Call -> CallRecord] /\ deliveries \in [RowId -> Delivery \cup {NoRow}]
      /\ m \in Message
    BY RecordsOK, InboxAssumption DEF TablesSound, InboxTypeOK
<1>3. old.msg = m /\ old.pc \in {"check", "load", "unrefer", "remove", "deliver"}
    BY <1>1 DEF Closes
<1>4. ASSUME NEW pc \in {"load", "unrefer", "remove"}, Go(c, pc)
      PROVE  Closes(calls'[c], m)
    <2>1. calls'[c] = [old EXCEPT !.pc = pc]
        BY <1>1, <1>2, <1>4 DEF Go
    <2> QED
        BY <1>3, <2>1 DEF CallRecord, Closes
<1>5. CASE Same(calls[c], calls'[c])
    BY <1>1, <1>3, <1>5 DEF Same, Closes
<1>6. ~Crash
    <2>1. Crash => m \in broken'
        BY <1>1, <1>2, <1>3 DEF Crash, At
    <2> QED
        BY <2>1
<1>7. ASSUME Begins(c)
      PROVE  FALSE
    BY <1>1, <1>3, <1>7 DEF Begins, QueueCount, AckFind, SeenLoad, DeleteFind, Begin, At
<1>8. ASSUME QueueSteps(c)
      PROVE  FALSE
    <2>1. QueueDeliver(c) \/ (QueueFails(c) /\ At(c, "deliver"))
        BY <1>1, <1>3, <1>8 DEF QueueSteps, QueueFind, QueueMatch, QueueAdd, QueueRefer, QueueStore,
           QueueFails, QueueRollback, QueuePush, PushUpdate, PushLoad, PushSave, QueueAnswer,
           Unrefer, At
    <2>2. ~QueueFails(c)
        BY <1>1, <1>3 DEF QueueFails
    <2>3. PICK k \in RowId : deliveries' = [deliveries EXCEPT ![k] =
                  [msg |-> m, dev |-> old.dev, status |-> "PENDING"]]
        BY <1>1, <1>3, <2>1, <2>2 DEF QueueDeliver, InsertDelivery
    <2>4. deliveries'[k] = [msg |-> m, dev |-> old.dev, status |-> "PENDING"]
        BY <1>2, <2>3
    <2>5. deliveries'[k] \in Delivery
        BY <1>2, <2>4 DEF Delivery, Status, CallRecord
    <2>6. deliveries'[k] # NoRow /\ deliveries'[k].msg = m /\ deliveries'[k].status = "PENDING"
        BY <2>4, <2>5, InboxAssumption
    <2> QED
        BY <2>6 DEF Settled, Rows, Acked
<1>9. CASE OtherSteps(c)
    <2>1. AckCheck(c) \/ AckLoad(c) \/ RemoveUnrefer(c) \/ RemoveMessage(c)
        BY <1>1, <1>3, <1>9 DEF OtherSteps, AckSave, AckMark, SeenSave, RemoveRows, At
    <2>2. CASE AckCheck(c)
        BY <1>1, <1>3, <1>4, <2>2 DEF AckCheck, Settled, Steps
    <2>3. CASE AckLoad(c)
        BY <1>1, <1>3, <1>4, <2>3 DEF AckLoad, Steps
    <2>4. CASE RemoveUnrefer(c)
        <3>1. CASE UNCHANGED inboxVars
            BY <1>1, <1>3, <3>1 DEF inboxVars, Closes
        <3> QED
            BY <1>4, <2>4, <3>1 DEF RemoveUnrefer, Unrefer, Steps
    <2>5. ~RemoveMessage(c)
        BY <1>1, <1>2, <1>3 DEF RemoveMessage, Stored, TablesSound, InboxTypeOK
    <2> QED
        BY <2>1, <2>2, <2>3, <2>4, <2>5
<1>10. c # Cron
    BY <1>1, <1>3 DEF TablesSound, CallsSound, CallSound
<1> QED
    BY <1>5, <1>6, <1>7, <1>8, <1>9, <1>10, Movers DEF Moves

LEMMA HistoriesGrow ==
    ASSUME [Next]_vars
    PROVE  broken \subseteq broken' /\ revived \subseteq revived'
<1> DEFINE Grow == broken \subseteq broken' /\ revived \subseteq revived'
<1>1. ASSUME NEW c \in Call, QueueSteps(c)
      PROVE  Grow
    BY <1>1 DEF QueueSteps, QueueFind, QueueMatch, QueueAdd, QueueRefer, QueueStore, QueueDeliver,
       QueueFails, QueueRollback, QueuePush, PushUpdate, PushLoad, PushSave, QueueAnswer,
       Unrefer, SaveMessage, Steps, Ends, inboxVars
<1>2. ASSUME NEW c \in Call, OtherSteps(c)
      PROVE  Grow
    BY <1>2 DEF OtherSteps, AckSave, AckCheck, AckLoad, AckMark, SeenSave, RemoveUnrefer,
       RemoveMessage, RemoveRows, Unrefer, SaveMessage, Steps, Ends, inboxVars
<1>3. ASSUME NEW c \in Call, NEW m \in Message, SeenLoad(c, m) \/ DeleteFind(c, m)
      PROVE  Grow
    BY <1>3 DEF SeenLoad, DeleteFind, Begin
<1>4. ASSUME NEW c \in Call, NEW m \in Message, NEW d \in Target,
             QueueCount(c, m, d) \/ AckFind(c, m, d)
      PROVE  Grow
    BY <1>4 DEF QueueCount, AckFind, Begin
<1>5. PruneSteps \/ Crash \/ (\E m \in Message : MessageExpires(m)) => Grow
    BY DEF PruneSteps, PruneFind, PruneUncount, PruneDelete, Uncounted, MessageExpires, Crash,
       inboxVars
<1>6. MediaWorks \/ UNCHANGED vars => Grow
    BY DEF MediaWorks, SweepBegins, SweepDeletes, inboxVars, vars
<1> HIDE DEF Grow
<1>7. Grow
    BY <1>1, <1>2, <1>3, <1>4, <1>5, <1>6 DEF Next, InboxNext
<1> QED
    BY <1>7 DEF Grow

LEMMA RemovalKept ==
    ASSUME TablesSound, KeySound, LastAckRemoves, [Next]_vars
    PROVE  LastAckRemoves'
<1> SUFFICES ASSUME NEW m \in ViewOnce, m \notin broken', m \notin revived', Stored(m)', Settled(m)'
             PROVE  \E c \in Call : Closes(calls'[c], m)
    BY DEF LastAckRemoves, Settled, Closes
<1>1. m \in Message /\ m \notin broken /\ m \notin revived
    BY InboxAssumption, HistoriesGrow
<1>2. CASE ~Stored(m)
    BY <1>1, <1>2, StoredByQueue DEF Closes
<1>3. CASE ~Settled(m)
    BY <1>1, <1>3, SettledByAck DEF Closes
<1>4. CASE Stored(m) /\ Settled(m)
    <2>1. PICK c \in Call : Closes(calls[c], m)
        BY <1>1, <1>4 DEF LastAckRemoves, Settled, Closes
    <2> QED
        BY <1>4, <2>1, CloserStays
<1> QED
    BY <1>2, <1>3, <1>4
-----------------------------------------------------------------------------
(***************************************************************************)
(* The cap.  A call that has passed the count and has not inserted yet is  *)
(* entering; the deliveries and the calls entering together stay below the *)
(* cap and the number of calls.  It is so only where no push takes         *)
(* acknowledgements back.                                                  *)
(***************************************************************************)

Entry == {"find", "match", "add", "refer", "store", "deliver"}

Entering(d) == {c \in Call : calls[c].dev = d /\ calls[c].pc \in Entry}

CapSound ==
    /\ \A c \in Call : calls[c].pc # "pushUpdate"
    /\ \A d \in Target :
          /\ IsFiniteSet(Pending(d))
          /\ Cardinality(Pending(d)) + Cardinality(Entering(d))
                 < InboxMax + Cardinality(Call \ {Cron})

LEMMA EnteringCalls ==
    ASSUME TablesSound, IsFiniteSet(Call), NEW d
    PROVE  /\ IsFiniteSet(Entering(d)) /\ Cardinality(Entering(d)) \in Nat
           /\ Cardinality(Call \ {Cron}) \in Nat
           /\ Cardinality(Entering(d)) <= Cardinality(Call \ {Cron})
<1>1. Entering(d) \subseteq Call \ {Cron}
    BY DEF Entering, Entry, TablesSound, CallsSound, CallSound
<1>2. IsFiniteSet(Call \ {Cron})
    BY FS_Subset
<1> QED
    BY <1>1, <1>2, FS_Subset, FS_CardinalityType

\* A call enters by passing the count.
LEMMA EntersByCount ==
    ASSUME TablesSound, [Next]_vars, NEW c \in Call, calls'[c].pc \in Entry
    PROVE  \/ calls[c].pc \in Entry /\ calls[c].dev = calls'[c].dev
           \/ \E m \in Message, d \in Target : QueueCount(c, m, d) /\ calls'[c].dev = d
<1>1. PICK old \in CallRecord : old = calls[c]
    BY RecordsOK
<1>2. calls \in [Call -> CallRecord]
    BY RecordsOK
<1>3. Idle.pc \notin Entry
    BY DEF Idle, Entry
<1>4. ASSUME NEW pc, Go(c, pc)
      PROVE  calls'[c].pc = pc /\ calls'[c].dev = old.dev
    <2>1. calls'[c] = [old EXCEPT !.pc = pc]
        BY <1>1, <1>2, <1>4 DEF Go
    <2> QED
        BY <2>1 DEF CallRecord
<1>5. ASSUME Begins(c)
      PROVE  \E m \in Message, d \in Target : QueueCount(c, m, d) /\ calls'[c].dev = d
    <2>1. ASSUME NEW m, NEW d, NEW row, NEW key, NEW pc \in {"check", "ack", "see", "unrefer", "remove"},
                 Begin(c, m, d, pc, row, key)
          PROVE  FALSE
        BY <2>1, BeginFacts DEF Entry
    <2>2. PICK m \in Message : \/ \E d \in Target : QueueCount(c, m, d) \/ AckFind(c, m, d)
                               \/ SeenLoad(c, m) \/ DeleteFind(c, m)
        BY <1>5 DEF Begins
    <2>3. PICK d \in Target : QueueCount(c, m, d)
        BY <2>1, <2>2 DEF AckFind, SeenLoad, DeleteFind
    <2>4. calls'[c].dev = d
        BY <2>3, BeginFacts DEF QueueCount
    <2> QED
        BY <2>3, <2>4
<1>6. ASSUME QueueSteps(c)
      PROVE  old.pc \in Entry /\ calls'[c].dev = old.dev
    <2>1. CASE QueueFind(c) \/ QueueMatch(c)
        BY <1>1, <1>2, <1>3, <1>4, <2>1 DEF QueueFind, QueueMatch, Steps, Ends, End, At, Entry
    <2>2. CASE QueueAdd(c) \/ QueueDeliver(c) \/ QueueFails(c) \/ QueueAnswer(c) \/ QueueRollback(c)
        BY <1>1, <1>2, <1>3, <1>4, <2>2 DEF QueueAdd, QueueDeliver, QueueFails, QueueAnswer,
           QueueRollback, Unrefer, Ends, End, At, Entry, inboxVars
    <2>3. CASE QueueRefer(c)
        BY <1>1, <1>2, <1>3, <1>4, <2>3 DEF QueueRefer, Steps, Ends, End, At, Entry, inboxVars
    <2>4. CASE QueueStore(c)
        <3>1. CASE Go(c, "deliver")
            BY <1>1, <1>4, <2>4, <3>1 DEF QueueStore, At, Entry
        <3>2. CASE calls' = [calls EXCEPT ![c].pc = "push", ![c].collided = TRUE]
            <4>1. calls'[c] = [old EXCEPT !.pc = "push", !.collided = TRUE]
                BY <1>1, <1>2, <3>2
            <4> QED
                BY <4>1 DEF CallRecord, Entry
        <3> QED
            BY <2>4, <3>1, <3>2 DEF QueueStore
    <2>5. CASE QueuePush(c) \/ PushUpdate(c)
        BY <1>4, <2>5 DEF QueuePush, PushUpdate, Steps, Entry
    <2>6. CASE PushLoad(c)
        <3>1. calls' = [calls EXCEPT ![c].pc = "pushSave", ![c].row = messages[old.msg]]
            BY <1>1, <1>4, <2>6 DEF PushLoad, Entry
        <3>2. calls'[c] = [old EXCEPT !.pc = "pushSave", !.row = messages[old.msg]]
            BY <1>1, <1>2, <3>1
        <3> QED
            BY <3>2 DEF CallRecord, Entry
    <2>7. CASE PushSave(c)
        <3>1. calls'[c] = [old EXCEPT !.pc = "answer", !.row = NoMessage]
            BY <1>1, <1>2, <2>7 DEF PushSave
        <3> QED
            BY <3>1 DEF CallRecord, Entry
    <2> QED
        BY <1>6, <2>1, <2>2, <2>3, <2>4, <2>5, <2>6, <2>7 DEF QueueSteps
<1>7. ~OtherSteps(c)
    <2>1. ~RemoveMessage(c) /\ ~RemoveRows(c)
        BY <1>2 DEF RemoveMessage, RemoveRows, Gone, Idle, CallRecord, Entry
    <2> QED
        BY <1>2, <2>1 DEF OtherSteps, AckSave, AckCheck, AckLoad, AckMark, SeenSave, RemoveUnrefer,
           Unrefer, Steps, Ends, Go, End, Idle, inboxVars, At, CallRecord, Entry
<1>8. CASE c = Cron
    BY <1>8, CallsKept DEF CallsOK, CallsSound, CallSound, Entry
<1>9. ~Crash
    BY <1>3 DEF Crash
<1> QED
    BY <1>1, <1>5, <1>6, <1>7, <1>8, <1>9, Movers DEF Moves, Same

\* A delivery becomes pending only when it is inserted, by a call that has entered
\* and thereby leaves.
LEMMA PendingByInsert ==
    ASSUME TablesSound, [Next]_vars, NEW d, \A c \in Call : calls[c].pc # "pushUpdate"
    PROVE  \/ Pending(d)' \subseteq Pending(d)
           \/ \E c \in Entering(d), k \in RowId :
                 /\ Pending(d)' \subseteq Pending(d) \cup {k}
                 /\ Entering(d)' \subseteq Entering(d) \ {c}
<1>1. calls \in [Call -> CallRecord] /\ deliveries \in [RowId -> Delivery \cup {NoRow}]
    BY RecordsOK DEF TablesSound, InboxTypeOK
<1>2. CASE UNCHANGED deliveries
    BY <1>2 DEF Pending, Acked
<1>3. ASSUME NEW c \in Call, InsertDelivery(c), QueueAdd(c) \/ QueueDeliver(c)
      PROVE  \/ Pending(d)' \subseteq Pending(d)
             \/ \E b \in Entering(d), k \in RowId :
                   /\ Pending(d)' \subseteq Pending(d) \cup {k}
                   /\ Entering(d)' \subseteq Entering(d) \ {b}
    <2>1. PICK k \in RowId : deliveries' = [deliveries EXCEPT ![k] =
              [msg |-> calls[c].msg, dev |-> calls[c].dev, status |-> "PENDING"]]
        BY <1>3 DEF InsertDelivery
    <2>2. /\ deliveries'[k] = [msg |-> calls[c].msg, dev |-> calls[c].dev, status |-> "PENDING"]
          /\ \A j \in RowId : j # k => deliveries'[j] = deliveries[j]
        BY <1>1, <2>1
    <2>3. deliveries'[k].dev = calls[c].dev
        BY <2>2
    <2>4. Pending(d)' \subseteq Pending(d) \cup {k}
        BY <2>2 DEF Pending, Acked
    <2>5. CASE calls[c].dev # d
        <3>1. k \notin Pending(d)'
            BY <2>3, <2>5 DEF Pending
        <3> QED
            BY <2>4, <3>1
    <2>6. CASE calls[c].dev = d
        <3>1. c \in Entering(d)
            BY <1>3, <2>6 DEF Entering, Entry, QueueAdd, QueueDeliver, At
        <3>2. calls'[c].pc \notin Entry /\ \A b \in Call : b # c => calls'[b] = calls[b]
            <4>1. \/ calls'[c] = Idle \/ calls'[c] = [calls[c] EXCEPT !.pc = "answer"]
                  \/ calls'[c] = [calls[c] EXCEPT !.pc = "push"]
                BY <1>1, <1>3 DEF QueueAdd, QueueDeliver, Go, End
            <4>2. \A b \in Call : b # c => calls'[b] = calls[b]
                BY <1>1, <1>3 DEF QueueAdd, QueueDeliver, Go, End
            <4> QED
                BY <1>1, <4>1, <4>2 DEF Idle, Entry, CallRecord
        <3>3. Entering(d)' \subseteq Entering(d) \ {c}
            BY <3>2 DEF Entering
        <3> QED
            BY <2>4, <3>1, <3>3
    <2> QED
        BY <2>5, <2>6
<1>4. ASSUME NEW c \in Call, AckSave(c)
      PROVE  Pending(d)' \subseteq Pending(d)
    <2>1. PICK k \in {calls[c].key} : TRUE
        OBVIOUS
    <2>2. /\ k \in RowId => deliveries'[k].status = "ACKNOWLEDGED"
          /\ \A j \in RowId : j # k => deliveries'[j] = deliveries[j]
        BY <1>1, <1>4, <2>1 DEF AckSave
    <2> QED
        BY <2>2 DEF Pending, Acked
<1>5. ASSUME NEW c \in Call, RemoveRows(c)
      PROVE  Pending(d)' \subseteq Pending(d)
    <2>1. \A k \in RowId : deliveries'[k] \in {NoRow, deliveries[k]}
        BY <1>1, <1>5 DEF RemoveRows
    <2> QED
        BY <2>1 DEF Pending, Acked
<1>6. \A c \in Call : ~PushUpdate(c)
    BY DEF PushUpdate, At
<1> QED
    BY <1>2, <1>3, <1>4, <1>5, <1>6, DeliverySteps

LEMMA NoPushKept ==
    ASSUME TablesSound, [Next]_vars, ~PushEnabled, NEW c \in Call, calls[c].pc # "pushUpdate"
    PROVE  calls'[c].pc # "pushUpdate"
<1>1. calls \in [Call -> CallRecord]
    BY RecordsOK
<1>2. Idle.pc # "pushUpdate"
    BY DEF Idle
<1>3. ASSUME NEW pc, pc # "pushUpdate", Go(c, pc)
      PROVE  calls'[c].pc # "pushUpdate"
    BY <1>1, <1>3 DEF Go, CallRecord
<1>4. CASE Begins(c)
    <2>1. ASSUME NEW m, NEW d, NEW row, NEW key,
                 NEW pc \in {"find", "check", "ack", "see", "unrefer", "remove"},
                 Begin(c, m, d, pc, row, key)
          PROVE  calls'[c].pc # "pushUpdate"
        BY <2>1, BeginFacts
    <2> QED
        BY <1>4, <2>1 DEF Begins, QueueCount, AckFind, SeenLoad, DeleteFind
<1>5. CASE QueueSteps(c)
    <2>1. CASE QueueStore(c) \/ PushLoad(c) \/ PushSave(c)
        BY <1>1, <1>3, <2>1 DEF QueueStore, PushLoad, PushSave, CallRecord
    <2> QED
        BY <1>1, <1>2, <1>3, <1>5, <2>1 DEF QueueSteps, QueueFind, QueueMatch, QueueAdd, QueueRefer,
           QueueDeliver, QueueFails, QueueRollback, QueuePush, PushUpdate, QueueAnswer, Unrefer,
           Steps, Ends, End, inboxVars
<1>6. CASE OtherSteps(c)
    <2>1. CASE RemoveMessage(c) \/ RemoveRows(c)
        BY <1>1, <2>1 DEF RemoveMessage, RemoveRows, Gone, Idle, CallRecord
    <2>2. CASE AckSave(c) \/ AckLoad(c)
        BY <1>1, <1>2, <1>3, <2>2 DEF AckSave, AckLoad, Steps, Ends, End, CallRecord
    <2> QED
        BY <1>1, <1>2, <1>3, <1>6, <2>1, <2>2 DEF OtherSteps, AckCheck, AckMark, SeenSave,
           RemoveUnrefer, Unrefer, Steps, Ends, End, inboxVars
<1>7. CASE c = Cron
    BY <1>7, CallsKept DEF CallsOK, CallsSound, CallSound
<1>8. ~Crash \/ calls'[c].pc # "pushUpdate"
    BY <1>2 DEF Crash
<1> QED
    BY <1>4, <1>5, <1>6, <1>7, <1>8, Movers DEF Moves, Same

\* What a step does to the count of the pending and to that of the entering.
LEMMA CapArithmetic ==
    ASSUME NEW p \in Nat, NEW e \in Nat, NEW q \in Nat, NEW f \in Nat, NEW bound \in Nat,
           p + e < bound, \/ q <= p /\ f <= e
                          \/ q <= p + 1 /\ f <= e - 1
    PROVE  q + f < bound
OBVIOUS

LEMMA CapKept ==
    ASSUME TablesSound, IsFiniteSet(Call), ~PushEnabled, CapSound, [Next]_vars
    PROVE  CapSound'
<1>1. \A c \in Call : calls'[c].pc # "pushUpdate"
    BY NoPushKept DEF CapSound
<1>2. ASSUME NEW d \in Target
      PROVE  /\ IsFiniteSet(Pending(d)')
             /\ Cardinality(Pending(d)') + Cardinality(Entering(d)')
                    < InboxMax + Cardinality(Call \ {Cron})
    <2>1. /\ IsFiniteSet(Pending(d)) /\ Cardinality(Pending(d)) \in Nat
          /\ IsFiniteSet(Entering(d)) /\ Cardinality(Entering(d)) \in Nat
          /\ Cardinality(Call \ {Cron}) \in Nat
          /\ InboxMax + Cardinality(Call \ {Cron}) \in Nat
          /\ Cardinality(Pending(d)) + Cardinality(Entering(d))
                 < InboxMax + Cardinality(Call \ {Cron})
        <3>1. /\ IsFiniteSet(Pending(d))
              /\ Cardinality(Pending(d)) + Cardinality(Entering(d))
                     < InboxMax + Cardinality(Call \ {Cron})
            BY DEF CapSound
        <3>2. /\ IsFiniteSet(Entering(d)) /\ Cardinality(Entering(d)) \in Nat
              /\ Cardinality(Call \ {Cron}) \in Nat
            BY EnteringCalls
        <3>3. Cardinality(Pending(d)) \in Nat
            BY <3>1, FS_CardinalityType
        <3> QED
            BY <3>1, <3>2, <3>3, InboxAssumption
    <2>2. TablesSound'
        BY TablesKept
    <2>3. CASE \E c \in Call, m \in Message : QueueCount(c, m, d)
        <3>1. /\ Pending(d)' = Pending(d) /\ Cardinality(Pending(d)) < InboxMax
            BY <2>3 DEF QueueCount, Begin, Pending, Acked
        <3>2. /\ Entering(d)' \subseteq Call \ {Cron}
            BY <2>2 DEF Entering, Entry, TablesSound, CallsSound, CallSound
        <3>3. /\ Cardinality(Entering(d)') \in Nat
              /\ Cardinality(Entering(d)') <= Cardinality(Call \ {Cron})
            BY <3>2, FS_Subset, FS_CardinalityType
        <3> QED
            BY <2>1, <3>1, <3>3, InboxAssumption
    <2>4. CASE \A c \in Call, m \in Message : ~QueueCount(c, m, d)
        <3>1. Entering(d)' \subseteq Entering(d)
            BY <2>4, EntersByCount DEF Entering
        <3>2. CASE Pending(d)' \subseteq Pending(d)
            <4>1. /\ IsFiniteSet(Pending(d)') /\ Cardinality(Pending(d)') \in Nat
                  /\ Cardinality(Pending(d)') <= Cardinality(Pending(d))
                  /\ Cardinality(Entering(d)') \in Nat
                  /\ Cardinality(Entering(d)') <= Cardinality(Entering(d))
                BY <2>1, <3>1, <3>2, FS_Subset, FS_CardinalityType
            <4> QED
                BY <2>1, <4>1, CapArithmetic
        <3>3. ASSUME NEW c \in Entering(d), NEW k \in RowId,
                     Pending(d)' \subseteq Pending(d) \cup {k},
                     Entering(d)' \subseteq Entering(d) \ {c}
              PROVE  /\ IsFiniteSet(Pending(d)')
                     /\ Cardinality(Pending(d)') + Cardinality(Entering(d)')
                            < InboxMax + Cardinality(Call \ {Cron})
            <4>1. /\ IsFiniteSet(Pending(d) \cup {k}) /\ Cardinality(Pending(d) \cup {k}) \in Nat
                  /\ Cardinality(Pending(d) \cup {k}) <= Cardinality(Pending(d)) + 1
                <5>1. PICK P : P = Pending(d)
                    OBVIOUS
                <5>2. /\ IsFiniteSet(P \cup {k})
                      /\ Cardinality(P \cup {k}) = IF k \in P THEN Cardinality(P)
                                                            ELSE Cardinality(P) + 1
                    BY <2>1, <5>1, FS_AddElement
                <5> QED
                    BY <2>1, <5>1, <5>2
            <4>2. /\ IsFiniteSet(Pending(d)') /\ Cardinality(Pending(d)') \in Nat
                  /\ Cardinality(Pending(d)') <= Cardinality(Pending(d) \cup {k})
                BY <3>3, <4>1, FS_Subset, FS_CardinalityType
            <4>3. /\ IsFiniteSet(Entering(d) \ {c})
                  /\ Cardinality(Entering(d) \ {c}) = Cardinality(Entering(d)) - 1
                BY <2>1, FS_RemoveElement
            <4>4. /\ Cardinality(Entering(d)') \in Nat
                  /\ Cardinality(Entering(d)') <= Cardinality(Entering(d)) - 1
                BY <3>3, <4>3, FS_Subset, FS_CardinalityType
            <4>5. Cardinality(Pending(d)') <= Cardinality(Pending(d)) + 1
                BY <2>1, <4>1, <4>2
            <4> QED
                BY <2>1, <4>2, <4>4, <4>5, CapArithmetic
        <3> QED
            BY <1>1, <3>2, <3>3, PendingByInsert DEF CapSound
    <2> QED
        BY <2>3, <2>4
<1> QED
    BY <1>1, <1>2 DEF CapSound
-----------------------------------------------------------------------------
(***************************************************************************)
(* Theorems.                                                               *)
(***************************************************************************)

InboxInv == TablesSound /\ KeySound /\ AcceptedSound /\ LastAckRemoves

LEMMA InboxStarts == Init => InboxInv
<1> SUFFICES ASSUME Init PROVE InboxInv
    OBVIOUS
<1>1. TablesSound
    BY TablesStart
<1>2. \A c \in Call : calls[c] = Idle
    BY DEF Init, InboxInit
<1>3. KeySound /\ AcceptedSound
    BY <1>2 DEF KeySound, AcceptedSound, Accepted, At, Idle
<1>4. LastAckRemoves
    BY InboxAssumption DEF Init, InboxInit, LastAckRemoves, Stored
<1> QED
    BY <1>1, <1>3, <1>4 DEF InboxInv

LEMMA InboxHolds == Spec => []InboxInv
<1>1. InboxInv /\ [Next]_vars => InboxInv'
    BY TablesKept, KeysKept, AcceptedKept, RemovalKept DEF InboxInv
<1> QED
    BY <1>1, InboxStarts, PTL DEF Spec

\* Without the media worker the inbox does nothing that it does not do beside it:
\* what follows holds for the inbox alone.
THEOREM InboxBesideMedia == InboxSpec => Spec
<1>1. [InboxNext]_vars => [Next]_vars
    BY DEF Next
<1> QED
    BY <1>1, PTL DEF InboxSpec, Spec

\* The tables and the calls in flight keep their shape, under any interleaving of
\* sends, acknowledgements, deletions, expiries, sweeps and restarts.
THEOREM InboxTypeCorrect == Spec => []InboxTypeOK
<1>1. InboxInv => InboxTypeOK
    BY DEF InboxInv, TablesSound
<1> QED
    BY <1>1, InboxHolds, PTL

\* A sender that is told "ok" for a device has a delivery row there until the
\* message is removed.
THEOREM AcceptedHasDelivery == Spec => []AcceptedIsQueued
<1>1. InboxInv => AcceptedIsQueued
    BY DEF InboxInv, AcceptedSound, Accepted, Queued, AcceptedIsQueued
<1> QED
    BY <1>1, InboxHolds, PTL

\* When the last delivery of a VIEW_ONCE message is acknowledged, some call is on
\* its way to remove the message, whichever devices acknowledge at once.
THEOREM LastAckIsRemoval == Spec => []LastAckRemoves
<1>1. InboxInv => LastAckRemoves
    BY DEF InboxInv
<1> QED
    BY <1>1, InboxHolds, PTL

\* The inbox counts media references beside the worker that sweeps media: still no
\* counted media is ever scheduled for deletion.
THEOREM InboxKeepsCounted == Spec => []CountedIsKept
<1>1. InboxInv => CountedIsKept
    BY DEF InboxInv, TablesSound, MediaInv, RowsSound, Sound, Consistent, CountedIsKept
<1> QED
    BY <1>1, InboxHolds, PTL

\* Where no push is configured, overlapping calls pass the cap of an inbox by less
\* than their number.
THEOREM CapIsOvershotByCalls ==
    ASSUME IsFiniteSet(Call), InboxMax > 0, ~PushEnabled
    PROVE  Spec => []CapOvershoot
<1>1. Init => CapSound
    <2> SUFFICES ASSUME Init PROVE CapSound
        OBVIOUS
    <2>1. \A c \in Call : calls[c] = Idle
        BY DEF Init, InboxInit
    <2>2. \A d : Pending(d) = {} /\ Entering(d) = {}
        BY <2>1 DEF Pending, Entering, Entry, Idle, Init, InboxInit
    <2>3. IsFiniteSet(Call \ {Cron}) /\ Cardinality(Call \ {Cron}) \in Nat
        BY FS_Subset, FS_CardinalityType
    <2>4. ASSUME NEW d \in Target
          PROVE  /\ IsFiniteSet(Pending(d))
                 /\ Cardinality(Pending(d)) = 0 /\ Cardinality(Entering(d)) = 0
        BY <2>2, FS_EmptySet
    <2>5. 0 + 0 < InboxMax + Cardinality(Call \ {Cron})
        BY <2>3, InboxAssumption
    <2> QED
        BY <2>1, <2>4, <2>5 DEF CapSound, Idle
<1>2. InboxInv /\ CapSound /\ [Next]_vars => CapSound'
    BY CapKept DEF InboxInv
<1>3. InboxInv /\ CapSound => CapOvershoot
    <2> SUFFICES ASSUME InboxInv, CapSound, NEW d \in Target
                 PROVE  Cardinality(Pending(d)) < InboxMax + Cardinality(Call \ {Cron})
        BY DEF CapOvershoot
    <2>1. /\ IsFiniteSet(Pending(d))
          /\ Cardinality(Pending(d)) + Cardinality(Entering(d))
                 < InboxMax + Cardinality(Call \ {Cron})
        BY DEF CapSound
    <2>2. Cardinality(Entering(d)) \in Nat /\ Cardinality(Call \ {Cron}) \in Nat
        BY EnteringCalls DEF InboxInv
    <2>3. Cardinality(Pending(d)) \in Nat
        BY <2>1, FS_CardinalityType
    <2> QED
        BY <2>1, <2>2, <2>3, InboxAssumption
<1> QED
    BY <1>1, <1>2, <1>3, InboxHolds, PTL DEF Spec
=============================================================================
