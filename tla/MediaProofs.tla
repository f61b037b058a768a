---------------------------- MODULE MediaProofs ----------------------------
(***************************************************************************)
(* Theorems about the media service, for every number of media, of calls   *)
(* and of messages.  A call may save a row it loaded long ago, so what is  *)
(* true of the table must also be true of every loaded row: MediaInv says  *)
(* so, and is inductive.  Where the columns of two saves were mixed, a row *)
(* keeps only what each of its columns promises: an object that was put.   *)
(***************************************************************************)
EXTENDS Media, TLAPS

\* A row with references is referenced, and not scheduled for deletion.
Consistent(row) ==
    row.reference_count > 0 => row.state = "REFERENCED" /\ row.expires_at = "never"

\* A row that x may have, with the object that its state promises.
Sound(x, row) ==
    /\ row \in Row
    /\ x \notin mixed => Consistent(row)
    /\ row.state # "UPLOADING" => bucket[x] # "absent"

RowsSound == \A x \in MediaId : Exists(x) => Sound(x, media[x])

\* What a call may rely on between its load and its save.
Loaded(c) ==
    /\ op[c].do # "none" => op[c].media \in MediaId
    /\ op[c].do \in {"increment", "decrement", "confirm", "confirmed", "reference"} =>
          Sound(op[c].media, op[c].row)
    /\ op[c].do \in {"increment", "decrement", "reference"} => op[c].row.state # "UPLOADING"
    /\ op[c].do = "confirmed" => bucket[op[c].media] # "absent"

LoadsSound == \A c \in Call : Loaded(c)

SweepSound == sweeper.do = "deleteRow" => sweeper.media \in MediaId

OpRecord == [do : OpStep, media : MediaId \cup {NoMedia}, row : Row \cup {NoRow},
             seen : Row \cup {NoRow}, saving : BOOLEAN]

MediaInv == MediaTypeOK /\ RowsSound /\ LoadsSound /\ SweepSound

LEMMA InitInv == MediaInit => MediaInv
BY DEF MediaInit, MediaInv, MediaTypeOK, RowsSound, LoadsSound, SweepSound, Loaded, Exists,
       NoOp, NewOp, OpStep, SweepStep, SweepPass

\* The row a call loads is one of the table.
LEMMA LoadKeeps ==
    ASSUME MediaInv, NEW c \in Call, NEW x \in MediaId,
           NEW do \in {"increment", "decrement", "confirm", "reference"},
           Exists(x), do # "confirm" => media[x].state # "UPLOADING", Load(c, do, x)
    PROVE  MediaInv'
<1> USE DEF MediaInv, Load, NewOp
<1>1. Sound(x, media[x])
    BY DEF RowsSound
<1>2. op' = [op EXCEPT ![c] = NewOp(do, x, media[x])]
    OBVIOUS
<1>3. MediaTypeOK'
    BY <1>1 DEF MediaTypeOK, OpStep, Sound
<1>4. RowsSound' /\ SweepSound'
    BY DEF RowsSound, SweepSound, Exists, Sound
<1>5. LoadsSound'
    <2> SUFFICES ASSUME NEW b \in Call PROVE Loaded(b)'
        BY DEF LoadsSound
    <2>1. CASE b = c
        BY <2>1, <1>1 DEF MediaTypeOK, Loaded, Sound
    <2>2. CASE b # c
        BY <2>2 DEF MediaTypeOK, LoadsSound, Loaded, Sound
    <2> QED BY <2>1, <2>2
<1> QED BY <1>3, <1>4, <1>5

\* The SELECT of a save returns a row of the table, or none.
LEMMA FindFacts ==
    ASSUME MediaInv, NEW c \in Call, SaveFind(c)
    PROVE  /\ op'[c].do = op[c].do /\ op'[c].media = op[c].media /\ op'[c].row = op[c].row
           /\ op'[c].seen = media[op[c].media]
           /\ op[c].do \in {"increment", "decrement", "confirmed", "reference"}
           /\ \A b \in Call : b # c => op'[b] = op[b]
BY DEF MediaInv, MediaTypeOK, SaveFind

LEMMA FindKeeps ==
    ASSUME MediaInv, NEW c \in Call, SaveFind(c)
    PROVE  MediaInv'
<1> USE DEF MediaInv
<1>1. op[c].media \in MediaId
    BY DEF SaveFind, LoadsSound, Loaded
<1>2. PICK new : new = [do |-> op[c].do, media |-> op[c].media, row |-> op[c].row,
                        seen |-> media[op[c].media], saving |-> TRUE]
    OBVIOUS
<1>3. op' = [op EXCEPT ![c] = new] /\ UNCHANGED <<media, bucket, age, sweeper, mixed>>
    BY <1>2 DEF SaveFind
<1>4. MediaTypeOK'
    BY <1>1, <1>2, <1>3 DEF MediaTypeOK
<1>5. LoadsSound'
    <2> SUFFICES ASSUME NEW b \in Call PROVE Loaded(b)'
        BY DEF LoadsSound
    <2>1. CASE b = c
        BY <2>1, <1>2, <1>3 DEF MediaTypeOK, LoadsSound, Loaded, Sound
    <2>2. CASE b # c
        BY <2>2, <1>3 DEF MediaTypeOK, LoadsSound, Loaded, Sound
    <2> QED BY <2>1, <2>2
<1> QED BY <1>3, <1>4, <1>5 DEF RowsSound, SweepSound, Exists, Sound

\* What a save leaves behind is sound if its row and the table's are: column by
\* column, and as a whole when the save updates the row that it has selected.
LEMMA SavedIsSound ==
    ASSUME MediaInv, NEW c \in Call, NEW x \in MediaId, op[c].media = x, NEW row, Sound(x, row),
           NEW new \in Saved(c, row), new # NoRow
    PROVE  /\ new \in Row
           /\ x \notin mixed /\ ~Overtaken(c) => Consistent(new)
           /\ new.state # "UPLOADING" => bucket[x] # "absent"
<1> DEFINE now == media[x]
           seen == op[c].seen
<1>1. row \in Row /\ NoRow \notin Row
    BY MediaAssumption DEF Sound
<1>2. now \in Row \cup {NoRow} /\ seen \in Row \cup {NoRow}
    BY DEF MediaInv, MediaTypeOK
<1>3. now # NoRow => Sound(x, now)
    BY DEF MediaInv, RowsSound, Exists
<1>4. CASE new = row \/ new = now
    BY <1>3, <1>4 DEF Sound
<1>5. CASE seen # NoRow /\ now # NoRow /\ new \in Updated(now, seen, row)
    <2>1. PICK e \in Deadlines(now.expires_at, seen.expires_at, row.expires_at) :
              new = [state |-> Column(now.state, seen.state, row.state),
                     reference_count |-> Column(now.reference_count, seen.reference_count,
                                                row.reference_count),
                     expires_at |-> e]
        BY <1>5 DEF Updated
    <2>2. e \in {now.expires_at, row.expires_at}
        BY <2>1 DEF Deadlines, Column
    <2>3. new \in Row
        BY <1>1, <1>2, <1>5, <2>1, <2>2 DEF Row, Column
    <2>4. new.state # "UPLOADING" => bucket[x] # "absent"
        BY <1>3, <1>5, <2>1 DEF Column, Sound
    <2>5. ASSUME x \notin mixed, ~Overtaken(c)
          PROVE  Consistent(new)
        <3>1. seen = now
            BY <1>5, <2>5 DEF Overtaken
        <3>2. new.state = row.state /\ new.reference_count = row.reference_count
            BY <2>1, <3>1 DEF Column
        <3>3. row.expires_at = "never" => new.expires_at = "never"
            BY <2>1, <3>1 DEF Column, Deadlines
        <3> QED BY <2>5, <3>2, <3>3 DEF Sound, Consistent
    <2> QED BY <2>3, <2>4, <2>5
<1> QED BY <1>4, <1>5 DEF Saved

\* A save of a row that is sound for its id.
LEMMA SaveKeeps ==
    ASSUME MediaInv, NEW c \in Call, NEW row, op[c].do # "none",
           Sound(op[c].media, row), Save(c, row)
    PROVE  MediaInv'
<1> DEFINE x == op[c].media
<1>1. x \in MediaId
    BY DEF MediaInv, LoadsSound, Loaded
<1>2. PICK new \in Saved(c, row) : media' = [media EXCEPT ![x] = new]
    BY DEF Save
<1>3. /\ op' = [op EXCEPT ![c] = NoOp] /\ UNCHANGED <<bucket, age, sweeper>>
      /\ mixed' = IF Overtaken(c) THEN mixed \cup {x} ELSE mixed
    BY DEF Save
<1>4. new # NoRow => /\ new \in Row
                     /\ x \notin mixed' => Consistent(new)
                     /\ new.state # "UPLOADING" => bucket[x] # "absent"
    BY <1>1, <1>2, <1>3, SavedIsSound
<1> HIDE DEF x
<1>5. MediaTypeOK'
    BY <1>1, <1>2, <1>3, <1>4 DEF MediaInv, MediaTypeOK, NoOp, NewOp, OpStep
<1>6. RowsSound'
    <2> SUFFICES ASSUME NEW y \in MediaId, Exists(y)' PROVE Sound(y, media[y])'
        BY DEF RowsSound
    <2>1. CASE y = x
        BY <2>1, <1>1, <1>2, <1>3, <1>4 DEF MediaInv, MediaTypeOK, Sound, Exists
    <2>2. CASE y # x
        BY <2>2, <1>1, <1>2, <1>3 DEF MediaInv, MediaTypeOK, RowsSound, Exists, Sound
    <2> QED BY <2>1, <2>2
<1>7. LoadsSound'
    BY <1>3 DEF MediaInv, MediaTypeOK, LoadsSound, Loaded, NoOp, NewOp, Sound
<1> QED BY <1>3, <1>5, <1>6, <1>7 DEF MediaInv, SweepSound
-----------------------------------------------------------------------------
(***************************************************************************)
(* The five saves write sound rows.                                        *)
(***************************************************************************)

LEMMA ConfirmKeeps ==
    ASSUME MediaInv, NEW c \in Call, ConfirmSave(c)
    PROVE  MediaInv'
<1> DEFINE row == [op[c].row EXCEPT
                      !.state = IF op[c].row.reference_count > 0
                                THEN "REFERENCED" ELSE "UPLOADED"]
<1>1. op[c].do = "confirmed" /\ Save(c, row)
    BY DEF ConfirmSave
<1>2. Sound(op[c].media, op[c].row) /\ bucket[op[c].media] # "absent"
    BY <1>1 DEF MediaInv, LoadsSound, Loaded
<1>3. row \in Row
    BY <1>2 DEF Sound, Row, MediaState
<1>4. row.reference_count = op[c].row.reference_count
      /\ row.expires_at = op[c].row.expires_at
    BY <1>2 DEF Sound, Row
<1>5. row.reference_count > 0 => row.state = "REFERENCED"
    BY <1>2 DEF Sound, Row
<1>6. Sound(op[c].media, row)
    BY <1>2, <1>3, <1>4, <1>5 DEF Sound, Consistent
<1> HIDE DEF row
<1> QED BY <1>1, <1>6, SaveKeeps

LEMMA ReferenceKeeps ==
    ASSUME MediaInv, NEW c \in Call, ReferenceSave(c)
    PROVE  MediaInv'
<1> DEFINE row == [op[c].row EXCEPT !.state = "REFERENCED"]
<1>1. op[c].do = "reference" /\ Save(c, row)
    BY DEF ReferenceSave
<1>2. Sound(op[c].media, op[c].row) /\ op[c].row.state # "UPLOADING"
    BY <1>1 DEF MediaInv, LoadsSound, Loaded
<1>3. Sound(op[c].media, row)
    BY <1>2 DEF Sound, Consistent, Row, MediaState
<1> HIDE DEF row
<1> QED BY <1>1, <1>3, SaveKeeps

LEMMA IncrementKeeps ==
    ASSUME MediaInv, NEW c \in Call, IncrementSave(c)
    PROVE  MediaInv'
<1> DEFINE row == [state |-> "REFERENCED",
                   reference_count |-> op[c].row.reference_count + 1,
                   expires_at |-> "never"]
<1>1. op[c].do = "increment" /\ Save(c, row)
    BY DEF IncrementSave
<1>2. Sound(op[c].media, op[c].row) /\ op[c].row.state # "UPLOADING"
    BY <1>1 DEF MediaInv, LoadsSound, Loaded
<1>3. Sound(op[c].media, row)
    BY <1>2 DEF Sound, Consistent, Row, MediaState, Expiry
<1> HIDE DEF row
<1> QED BY <1>1, <1>3, SaveKeeps

LEMMA DecrementKeeps ==
    ASSUME MediaInv, NEW c \in Call, DecrementSave(c)
    PROVE  MediaInv'
<1> DEFINE old == op[c].row
           row == Decremented(old)
<1>1. op[c].do = "decrement" /\ Save(c, row)
    BY DEF DecrementSave
<1>2. Sound(op[c].media, old) /\ old.state # "UPLOADING"
    BY <1>1 DEF MediaInv, LoadsSound, Loaded
<1>3. ASSUME old.reference_count <= 1
      PROVE  Sound(op[c].media, row)
    <2>1. row = [state |-> "ORPHANED", reference_count |-> 0, expires_at |-> "later"]
        BY <1>3 DEF Decremented
    <2> HIDE DEF row
    <2> QED BY <2>1, <1>2 DEF Sound, Consistent, Row, MediaState, Expiry
<1>4. ASSUME ~(old.reference_count <= 1)
      PROVE  Sound(op[c].media, row)
    <2>1. row = [old EXCEPT !.reference_count = old.reference_count - 1]
        BY <1>4 DEF Decremented
    <2>2. old \in Row /\ old.reference_count \in Nat /\ old.reference_count - 1 \in Nat
        BY <1>2, <1>4 DEF Sound, Row
    <2>3. row \in Row /\ row.state = old.state /\ row.expires_at = old.expires_at
        <3> HIDE DEF row
        <3> QED BY <2>1, <2>2 DEF Row
    <2>4. op[c].media \notin mixed => old.state = "REFERENCED" /\ old.expires_at = "never"
        BY <1>2, <1>4, <2>2 DEF Sound, Consistent
    <2> HIDE DEF row
    <2> QED BY <2>3, <2>4, <1>2 DEF Sound, Consistent
<1>5. Sound(op[c].media, row)
    BY <1>3, <1>4
<1> HIDE DEF row
<1> QED BY <1>1, <1>5, SaveKeeps
-----------------------------------------------------------------------------
(***************************************************************************)
(* Every other step.                                                       *)
(***************************************************************************)

\* A change of the bucket that takes no object back to "absent", beside a call
\* or sweeper that moves on.
LEMMA BucketKeeps ==
    ASSUME MediaInv, NEW b \in [MediaId -> {"absent", "present", "deleted"}],
           \A y \in MediaId : bucket[y] # "absent" => b[y] # "absent",
           bucket' = b, UNCHANGED <<media, op, mixed>>
    PROVE  RowsSound' /\ LoadsSound'
BY DEF MediaInv, MediaTypeOK, RowsSound, LoadsSound, Loaded, Exists, Sound

LEMMA ObjectGoneFacts ==
    ASSUME MediaInv, NEW x, NEW b \in {bucket, ObjectGone(x)}
    PROVE  /\ b \in [MediaId -> {"absent", "present", "deleted"}]
           /\ \A y \in MediaId : bucket[y] # "absent" => b[y] # "absent"
BY DEF MediaInv, MediaTypeOK, ObjectGone

LEMMA CallStepsKeep ==
    ASSUME MediaInv, NEW c \in Call, CallSteps(c)
    PROVE  MediaInv'
<1>1. CASE ConfirmHead(c)
    <2> USE DEF ConfirmHead, MediaInv
    <2>1. op[c].do = "confirm" /\ op[c].media \in MediaId /\ Sound(op[c].media, op[c].row)
        BY <1>1 DEF LoadsSound, Loaded
    <2>2. MediaTypeOK'
        <3>1. PICK old \in OpRecord : old = op[c]
            BY DEF MediaTypeOK, OpRecord
        <3>2. PICK new \in OpRecord : op' = [op EXCEPT ![c] = new]
            <4>1. [old EXCEPT !.do = "confirmed"] \in OpRecord /\ NoOp \in OpRecord
                BY DEF OpRecord, OpStep, NoOp, NewOp
            <4> QED BY <1>1, <3>1, <4>1
        <3> QED BY <1>1, <3>2 DEF MediaTypeOK, OpRecord
    <2>3. LoadsSound'
        <3> SUFFICES ASSUME NEW b \in Call PROVE Loaded(b)'
            BY DEF LoadsSound
        <3>1. CASE b = c
            BY <1>1, <2>1, <3>1 DEF MediaTypeOK, Loaded, NoOp, NewOp, Sound
        <3>2. CASE b # c
            BY <1>1, <3>2 DEF MediaTypeOK, LoadsSound, Loaded, Sound
        <3> QED BY <3>1, <3>2
    <2> QED BY <1>1, <2>2, <2>3 DEF RowsSound, SweepSound, Exists, Sound
<1>2. CASE ConfirmSave(c)
    BY <1>2, ConfirmKeeps
<1>3. CASE ReferenceSave(c)
    BY <1>3, ReferenceKeeps
<1>4. CASE DeleteObject(c)
    <2> USE DEF DeleteObject
    <2>1. bucket' \in {bucket, ObjectGone(op[c].media)} /\ UNCHANGED <<media, mixed>>
        BY <1>4
    <2>2. \A y \in MediaId : bucket[y] # "absent" => bucket'[y] # "absent"
        BY <2>1, ObjectGoneFacts
    <2>3. MediaTypeOK'
        BY <1>4, <2>1, ObjectGoneFacts DEF MediaInv, MediaTypeOK, OpStep
    <2>4. RowsSound' /\ LoadsSound'
        BY <1>4, <2>2 DEF MediaInv, MediaTypeOK, RowsSound, LoadsSound, Loaded, Exists, Sound
    <2> QED BY <1>4, <2>3, <2>4 DEF MediaInv, SweepSound
<1>5. CASE DeleteRow(c)
    BY <1>5 DEF DeleteRow, MediaInv, MediaTypeOK, OpStep, NoOp, NewOp, RowsSound, LoadsSound, Loaded,
                SweepSound, Exists, Sound
<1>6. ASSUME NEW x \in MediaId, ConfirmLoad(c, x)
      PROVE  MediaInv'
    BY <1>6, LoadKeeps DEF ConfirmLoad
<1>7. ASSUME NEW x \in MediaId, ReferenceLoad(c, x)
      PROVE  MediaInv'
    BY <1>7, LoadKeeps DEF ReferenceLoad
<1>8. ASSUME NEW x \in MediaId, Viewed(c, x)
      PROVE  MediaInv'
    BY <1>8 DEF Viewed, NewOp, MediaInv, MediaTypeOK, OpStep, RowsSound, LoadsSound, Loaded,
                SweepSound, Exists, Sound
<1>9. CASE SaveFind(c)
    BY <1>9, FindKeeps
<1> QED BY <1>1, <1>2, <1>3, <1>4, <1>5, <1>6, <1>7, <1>8, <1>9 DEF CallSteps

LEMMA CountStepsKeep ==
    ASSUME MediaInv, NEW c \in Call, CountSteps(c)
    PROVE  MediaInv'
<1>1. ASSUME NEW x \in MediaId, IncrementLoad(c, x)
      PROVE  MediaInv'
    BY <1>1, LoadKeeps DEF IncrementLoad, CannotIncrement
<1>2. ASSUME NEW x \in MediaId, media[x].state # "UPLOADING", DecrementLoad(c, x)
      PROVE  MediaInv'
    BY <1>2, LoadKeeps DEF DecrementLoad
<1> QED BY <1>1, <1>2, IncrementKeeps, DecrementKeeps DEF CountSteps

LEMMA SweepStepsKeep ==
    ASSUME MediaInv, SweepSteps
    PROVE  MediaInv'
<1>1. CASE SweepStart
    BY <1>1 DEF SweepStart, MediaInv, MediaTypeOK, SweepStep, SweepPass, RowsSound, LoadsSound,
                Loaded, SweepSound, Exists, Sound, Due
<1>2. CASE SweepObject
    <2>1. PICK x \in sweeper.rest :
              /\ bucket' \in {bucket, ObjectGone(x)}
              /\ sweeper' = [sweeper EXCEPT !.do = "deleteRow", !.rest = @ \ {x}, !.media = x]
              /\ UNCHANGED <<media, age, op, mixed>>
        BY <1>2 DEF SweepObject
    <2>2. x \in MediaId
        BY DEF MediaInv, MediaTypeOK
    <2>3. /\ bucket' \in [MediaId -> {"absent", "present", "deleted"}]
          /\ \A y \in MediaId : bucket[y] # "absent" => bucket'[y] # "absent"
        BY <2>1, ObjectGoneFacts
    <2>4. MediaTypeOK' /\ SweepSound'
        BY <2>1, <2>2, <2>3 DEF MediaInv, MediaTypeOK, SweepStep, SweepSound
    <2>5. RowsSound' /\ LoadsSound'
        BY <2>1, <2>3, BucketKeeps
    <2> QED BY <2>4, <2>5 DEF MediaInv
<1>3. ASSUME NEW deleted \in BOOLEAN, SweepRow(deleted)
      PROVE  MediaInv'
    BY <1>3 DEF SweepRow, MediaInv, MediaTypeOK, SweepStep, RowsSound, LoadsSound, Loaded,
                SweepSound, Exists, Sound
<1>4. CASE SweepPassEnds
    BY <1>4 DEF SweepPassEnds, MediaInv, MediaTypeOK, SweepStep, SweepPass, RowsSound, LoadsSound,
                Loaded, SweepSound, Exists, Sound, Abandoned
<1> QED BY <1>1, <1>2, <1>3, <1>4 DEF SweepSteps

LEMMA ClientStepsKeep ==
    ASSUME MediaInv, NEW x \in MediaId,
           CreateUpload(x) \/ PutObject(x) \/ DeadlinePasses(x) \/ UrlsExpire(x)
    PROVE  MediaInv'
<1>1. CASE CreateUpload(x)
    <2>1. [state |-> "UPLOADING", reference_count |-> 0, expires_at |-> "later"] \in Row
        BY DEF Row, MediaState, Expiry
    <2> QED BY <1>1, <2>1 DEF CreateUpload, MediaInv, MediaTypeOK, RowsSound, LoadsSound, Loaded,
                             SweepSound, Exists, Sound, Consistent
<1>2. CASE PutObject(x)
    <2>1. /\ bucket' \in [MediaId -> {"absent", "present", "deleted"}]
          /\ \A y \in MediaId : bucket[y] # "absent" => bucket'[y] # "absent"
        BY <1>2 DEF PutObject, MediaInv, MediaTypeOK
    <2>2. RowsSound' /\ LoadsSound'
        BY <1>2, <2>1, BucketKeeps DEF PutObject
    <2> QED BY <1>2, <2>1, <2>2 DEF PutObject, MediaInv, MediaTypeOK, SweepSound
<1>3. CASE DeadlinePasses(x)
    <2> DEFINE row == [media[x] EXCEPT !.expires_at = "past"]
    <2>1. Sound(x, media[x]) /\ media[x].expires_at = "later"
        BY <1>3 DEF DeadlinePasses, MediaInv, RowsSound
    <2>2. row \in Row /\ row.state = media[x].state
          /\ row.reference_count = media[x].reference_count
        BY <2>1 DEF Sound, Row, Expiry
    <2>3. x \notin mixed => ~(media[x].reference_count > 0)
        BY <2>1 DEF Sound, Consistent
    <2>4. Sound(x, row)
        BY <2>1, <2>2, <2>3 DEF Sound, Consistent
    <2>5. media' = [media EXCEPT ![x] = row] /\ UNCHANGED <<bucket, age, op, sweeper, mixed>>
        BY <1>3 DEF DeadlinePasses
    <2> HIDE DEF row
    <2> QED BY <2>2, <2>4, <2>5 DEF MediaInv, MediaTypeOK, RowsSound, LoadsSound, Loaded,
                                   SweepSound, Exists, Sound
<1>4. CASE UrlsExpire(x)
    BY <1>4 DEF UrlsExpire, MediaInv, MediaTypeOK, RowsSound, LoadsSound, Loaded, SweepSound,
                Exists, Sound
<1> QED BY <1>1, <1>2, <1>3, <1>4

LEMMA NextInv == MediaInv /\ [MediaNext]_mediaVars => MediaInv'
<1> SUFFICES ASSUME MediaInv, [MediaNext]_mediaVars
             PROVE  MediaInv'
    OBVIOUS
<1>1. CASE UNCHANGED mediaVars
    BY <1>1 DEF mediaVars, MediaInv, MediaTypeOK, RowsSound, LoadsSound, Loaded, SweepSound,
                Exists, Sound
<1>2. ASSUME NEW c \in Call, CallSteps(c) \/ CountSteps(c)
      PROVE  MediaInv'
    BY <1>2, CallStepsKeep, CountStepsKeep
<1>3. CASE ClientAndTimeSteps
    BY <1>3, ClientStepsKeep DEF ClientAndTimeSteps
<1> QED BY <1>1, <1>2, <1>3, SweepStepsKeep DEF MediaNext

LEMMA InvHolds == MediaSpec => []MediaInv
<1>1. MediaInit => MediaInv
    BY InitInv
<1>2. MediaInv /\ [MediaNext]_mediaVars => MediaInv'
    BY NextInv
<1> QED BY <1>1, <1>2, PTL DEF MediaSpec
-----------------------------------------------------------------------------
\* The tables and the calls keep their shape: in particular no reference count
\* becomes negative, whatever counts are overwritten by stale rows.
THEOREM MediaTypeCorrect == MediaSpec => []MediaTypeOK
<1>1. MediaInv => MediaTypeOK
    BY DEF MediaInv
<1> QED BY <1>1, InvHolds, PTL

\* No overlap of confirmations, references, increments and decrements leaves a
\* counted media scheduled for deletion, as long as each save updates the row it
\* has selected.
THEOREM CountedIsNeverScheduled == MediaSpec => []CountedIsKept
<1>1. MediaInv => CountedIsKept
    BY DEF MediaInv, RowsSound, Sound, Consistent, CountedIsKept
<1> QED BY <1>1, InvHolds, PTL

\* No overlap, and no mixture of saves, makes a media look uploaded that the
\* client never put.
THEOREM UploadedWasPut == MediaSpec => []UploadedIsReal
<1>1. MediaInv => UploadedIsReal
    BY DEF MediaInv, RowsSound, Sound, UploadedIsReal
<1> QED BY <1>1, InvHolds, PTL
=============================================================================
