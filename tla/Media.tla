------------------------------- MODULE Media -------------------------------
(***************************************************************************)
(* The media service of the relay (apps/backend/src/media): the metadata   *)
(* rows with their reference counts, the bucket the clients upload to, and *)
(* the hourly cleanup.  The relay interleaves its calls at every await, so *)
(* a call that loads a row, changes it and saves it is three steps: the    *)
(* load, and the two statements of the ORM's save().  The first SELECTs    *)
(* the row again; the second UPDATEs the columns in which the changed row  *)
(* differs from what was selected, or INSERTs a row that was not found.  A *)
(* save takes back what others have written since the load, brings back a  *)
(* row deleted since, and mixes its columns with those of a save that it   *)
(* overlaps.                                                               *)
(*                                                                         *)
(* Expiry times are abstracted to what the code asks of them: whether a    *)
(* deadline is set and whether it has passed.                              *)
(***************************************************************************)
EXTENDS Naturals, FiniteSets

CONSTANTS
    MediaId,   \* uuids of media_metadata rows
    Call,      \* the relay's concurrent calls
    MaxCount,  \* bound: messages that carry one media
    NoRow,     \* no row with that id
    NoMedia

VARIABLES
    media,     \* the media_metadata table
    bucket,    \* the object of each id: not put yet, there, or deleted
    age,       \* the presigned URLs of an id: not issued, valid, or expired
    op,        \* where each call stands, with the row it has loaded
    sweeper,   \* the cleanup worker, with the ids it still has to delete
    mixed      \* history: media of which a save changed a row it had not selected

mediaVars == <<media, bucket, age, op, sweeper, mixed>>

MediaState == {"UPLOADING", "UPLOADED", "REFERENCED", "ORPHANED"}

Expiry == {"never", "later", "past"}

Row == [state : MediaState, reference_count : Nat, expires_at : Expiry]

ASSUME MediaAssumption ==
    /\ MaxCount \in Nat
    /\ NoRow \notin Row
    /\ NoMedia \notin MediaId

OpStep == {"none", "increment", "decrement", "confirm", "confirmed", "reference",
           "delete", "deleteRow"}

SweepStep == {"idle", "next", "deleteRow"}

SweepPass == {"expired", "abandoned"}

MediaTypeOK ==
    /\ media \in [MediaId -> Row \cup {NoRow}]
    /\ bucket \in [MediaId -> {"absent", "present", "deleted"}]
    /\ age \in [MediaId -> {"unused", "recent", "old"}]
    /\ op \in [Call -> [do : OpStep, media : MediaId \cup {NoMedia},
                        row : Row \cup {NoRow}, seen : Row \cup {NoRow},
                        saving : BOOLEAN]]
    /\ sweeper \in [do : SweepStep, pass : SweepPass, rest : SUBSET MediaId,
                    media : MediaId \cup {NoMedia}]
    /\ mixed \subseteq MediaId

NewOp(do, x, row) ==
    [do |-> do, media |-> x, row |-> row, seen |-> NoRow, saving |-> FALSE]

NoOp == NewOp("none", NoMedia, NoRow)

MediaInit ==
    /\ media = [x \in MediaId |-> NoRow]
    /\ bucket = [x \in MediaId |-> "absent"]
    /\ age = [x \in MediaId |-> "unused"]
    /\ op = [c \in Call |-> NoOp]
    /\ sweeper = [do |-> "idle", pass |-> "expired", rest |-> {}, media |-> NoMedia]
    /\ mixed = {}

Exists(x) == media[x] # NoRow

\* A row that findOne and find return as of this step.
Load(c, do, x) ==
    /\ op[c].do = "none"
    /\ op' = [op EXCEPT ![c] = NewOp(do, x, media[x])]
    /\ UNCHANGED <<media, bucket, age, sweeper, mixed>>

\* The SELECT of a save.
SaveFind(c) ==
    /\ op[c].do \in {"increment", "decrement", "confirmed", "reference"}
    /\ ~op[c].saving
    /\ op' = [op EXCEPT ![c] = [do |-> op[c].do, media |-> op[c].media, row |-> op[c].row,
                              seen |-> media[op[c].media], saving |-> TRUE]]
    /\ UNCHANGED <<media, bucket, age, sweeper, mixed>>

\* A column is left alone when the row to save agrees with the selected one.
Column(now, seen, new) == IF new = seen THEN now ELSE new

\* Two deadlines may be the same date or not.
Deadlines(now, seen, new) ==
    IF "never" \in {seen, new} THEN {Column(now, seen, new)} ELSE {now, new}

Updated(now, seen, row) ==
    {[state |-> Column(now.state, seen.state, row.state),
      reference_count |-> Column(now.reference_count, seen.reference_count,
                                 row.reference_count),
      expires_at |-> e] : e \in Deadlines(now.expires_at, seen.expires_at, row.expires_at)}

\* The insert of a row that another save has brought back is refused.
Refused(c) == op[c].seen = NoRow /\ Exists(op[c].media)

\* The row has been written since it was selected.
Overtaken(c) ==
    LET now == media[op[c].media]
    IN  NoRow \notin {op[c].seen, now} /\ op[c].seen # now

\* What a save of row leaves behind; the update of a deleted row has no effect.
Saved(c, row) ==
    LET now == media[op[c].media]
    IN  IF op[c].seen = NoRow THEN {IF now = NoRow THEN row ELSE now}
        ELSE IF now = NoRow THEN {NoRow}
        ELSE Updated(now, op[c].seen, row)

Save(c, row) ==
    LET x == op[c].media
    IN  /\ op[c].saving
        /\ \E new \in Saved(c, row) : media' = [media EXCEPT ![x] = new]
        /\ mixed' = IF Overtaken(c) THEN mixed \cup {x} ELSE mixed
        /\ op' = [op EXCEPT ![c] = NoOp]
        /\ UNCHANGED <<bucket, age, sweeper>>
-----------------------------------------------------------------------------
(***************************************************************************)
(* Upload: the URL, the client's PUT, confirmation, reference.             *)
(***************************************************************************)

\* generateUploadUrl: a row under a fresh uuid, due in 48 hours.
CreateUpload(x) ==
    /\ age[x] = "unused"
    /\ age' = [age EXCEPT ![x] = "recent"]
    /\ media' = [media EXCEPT ![x] = [state |-> "UPLOADING", reference_count |-> 0,
                                      expires_at |-> "later"]]
    /\ UNCHANGED <<bucket, op, sweeper, mixed>>

\* The client puts the object under its presigned URL while that is valid.
PutObject(x) ==
    /\ age[x] = "recent"
    /\ bucket' = [bucket EXCEPT ![x] = "present"]
    /\ UNCHANGED <<media, age, op, sweeper, mixed>>

ConfirmLoad(c, x) == Exists(x) /\ Load(c, "confirm", x)

\* HeadObject: the call goes on only when the object is found.
ConfirmHead(c) ==
    /\ op[c].do = "confirm"
    /\ \/ /\ bucket[op[c].media] = "present"
          /\ op' = [op EXCEPT ![c].do = "confirmed"]
       \/ op' = [op EXCEPT ![c] = NoOp]
    /\ UNCHANGED <<media, bucket, age, sweeper, mixed>>

\* A slip: the state forgets that messages already refer to the media.
ConfirmAsUploaded(c) ==
    /\ op[c].do = "confirmed"
    /\ Save(c, [op[c].row EXCEPT !.state = "UPLOADED"])

ConfirmSave(c) ==
    /\ op[c].do = "confirmed"
    /\ Save(c, [op[c].row EXCEPT
                   !.state = IF op[c].row.reference_count > 0
                             THEN "REFERENCED" ELSE "UPLOADED"])

ReferenceLoad(c, x) ==
    /\ Exists(x)
    /\ media[x].state = "UPLOADED"
    /\ Load(c, "reference", x)

ReferenceSave(c) ==
    /\ op[c].do = "reference"
    /\ Save(c, [op[c].row EXCEPT !.state = "REFERENCED"])
-----------------------------------------------------------------------------
(***************************************************************************)
(* Reference counts, driven by the messages that carry the media.          *)
(***************************************************************************)

\* A slip: an unconfirmed upload is accepted.
CannotFind(x) == ~Exists(x)

\* incrementReferenceCount throws for these.
CannotIncrement(x) == ~(Exists(x) /\ media[x].state # "UPLOADING")

IncrementLoad(c, x) == ~CannotIncrement(x) /\ Load(c, "increment", x)

\* A slip: the deadline of an upload outlives its first reference.
IncrementKeepsDeadline(c) ==
    /\ op[c].do = "increment"
    /\ Save(c, [op[c].row EXCEPT !.state = "REFERENCED", !.reference_count = @ + 1])

IncrementSave(c) ==
    /\ op[c].do = "increment"
    /\ Save(c, [state |-> "REFERENCED",
                reference_count |-> op[c].row.reference_count + 1,
                expires_at |-> "never"])

DecrementLoad(c, x) == Exists(x) /\ Load(c, "decrement", x)

\* A slip: without the Math.max, and so without the state at zero.
DecrementedBelowZero(row) ==
    IF row.reference_count = 1
    THEN [state |-> "ORPHANED", reference_count |-> 0, expires_at |-> "later"]
    ELSE [row EXCEPT !.reference_count = @ - 1]

Decremented(row) ==
    IF row.reference_count <= 1
    THEN [state |-> "ORPHANED", reference_count |-> 0, expires_at |-> "later"]
    ELSE [row EXCEPT !.reference_count = @ - 1]

DecrementSave(c) ==
    /\ op[c].do = "decrement"
    /\ Save(c, Decremented(op[c].row))
-----------------------------------------------------------------------------
(***************************************************************************)
(* Deletion: media.viewed, and the cleanup worker.  A failure to delete    *)
(* the object is logged and the row is deleted all the same; a failure to  *)
(* delete the row is logged and the row stays.                             *)
(***************************************************************************)

ObjectGone(x) == [bucket EXCEPT ![x] = IF @ = "present" THEN "deleted" ELSE @]

Viewed(c, x) ==
    /\ op[c].do = "none"
    /\ op' = [op EXCEPT ![c] = NewOp("delete", x, NoRow)]
    /\ UNCHANGED <<media, bucket, age, sweeper, mixed>>

DeleteObject(c) ==
    /\ op[c].do = "delete"
    /\ bucket' \in {bucket, ObjectGone(op[c].media)}
    /\ op' = [op EXCEPT ![c].do = "deleteRow"]
    /\ UNCHANGED <<media, age, sweeper, mixed>>

DeleteRow(c) ==
    /\ op[c].do = "deleteRow"
    /\ media' \in {media, [media EXCEPT ![op[c].media] = NoRow]}
    /\ op' = [op EXCEPT ![c] = NoOp]
    /\ UNCHANGED <<bucket, age, sweeper, mixed>>

Due == {x \in MediaId : Exists(x) /\ media[x].expires_at = "past"}

Abandoned == {x \in MediaId : Exists(x) /\ media[x].state = "UPLOADING" /\ age[x] = "old"}

\* The hourly run takes a snapshot of the due rows,
SweepStart ==
    /\ sweeper.do = "idle"
    /\ sweeper' = [do |-> "next", pass |-> "expired", rest |-> Due, media |-> NoMedia]
    /\ UNCHANGED <<media, bucket, age, op, mixed>>

\* A slip: a sweep that has deleted the objects forgets the rows.
SweepObjectOnly ==
    /\ sweeper.do = "next"
    /\ \E x \in sweeper.rest :
          /\ bucket' \in {bucket, ObjectGone(x)}
          /\ sweeper' = [sweeper EXCEPT !.rest = @ \ {x}]
    /\ UNCHANGED <<media, age, op, mixed>>

\* deletes them one after the other,
SweepObject ==
    /\ sweeper.do = "next"
    /\ \E x \in sweeper.rest :
          /\ bucket' \in {bucket, ObjectGone(x)}
          /\ sweeper' = [sweeper EXCEPT !.do = "deleteRow", !.rest = @ \ {x}, !.media = x]
    /\ UNCHANGED <<media, age, op, mixed>>

SweepRow(deleted) ==
    /\ sweeper.do = "deleteRow"
    /\ media' = IF deleted THEN [media EXCEPT ![sweeper.media] = NoRow] ELSE media
    /\ sweeper' = [sweeper EXCEPT !.do = "next", !.media = NoMedia]
    /\ UNCHANGED <<bucket, age, op, mixed>>

\* and then does the same for uploads abandoned for two hours.
SweepPassEnds ==
    /\ sweeper.do = "next"
    /\ sweeper.rest = {}
    /\ sweeper' = IF sweeper.pass = "expired"
                  THEN [sweeper EXCEPT !.pass = "abandoned", !.rest = Abandoned]
                  ELSE [sweeper EXCEPT !.do = "idle"]
    /\ UNCHANGED <<media, bucket, age, op, mixed>>

-----------------------------------------------------------------------------
(***************************************************************************)
(* Time.                                                                   *)
(***************************************************************************)

DeadlinePasses(x) ==
    /\ Exists(x)
    /\ media[x].expires_at = "later"
    /\ media' = [media EXCEPT ![x].expires_at = "past"]
    /\ UNCHANGED <<bucket, age, op, sweeper, mixed>>

\* The URLs are valid for one hour and an unconfirmed upload counts as abandoned
\* after two; the hour between them is left out.
UrlsExpire(x) ==
    /\ age[x] = "recent"
    /\ age' = [age EXCEPT ![x] = "old"]
    /\ UNCHANGED <<media, bucket, op, sweeper, mixed>>
-----------------------------------------------------------------------------
\* The endpoints, the worker and the clock.
CallSteps(c) ==
    \/ ConfirmHead(c) \/ SaveFind(c) \/ ConfirmSave(c) \/ ReferenceSave(c)
    \/ DeleteObject(c) \/ DeleteRow(c)
    \/ \E x \in MediaId : ConfirmLoad(c, x) \/ ReferenceLoad(c, x) \/ Viewed(c, x)

SweepSteps ==
    \/ SweepStart
    \/ SweepObject
    \/ \E deleted \in BOOLEAN : SweepRow(deleted)
    \/ SweepPassEnds

ClientAndTimeSteps ==
    \E x \in MediaId : CreateUpload(x) \/ PutObject(x) \/ DeadlinePasses(x) \/ UrlsExpire(x)

\* Messages count the media they carry; only a message whose increment has
\* succeeded is ever uncounted, so never one of an unconfirmed upload.
CountSteps(c) ==
    \/ \E x \in MediaId :
          \/ Exists(x) /\ media[x].reference_count < MaxCount /\ IncrementLoad(c, x)
          \/ Exists(x) /\ media[x].state # "UPLOADING" /\ DecrementLoad(c, x)
    \/ IncrementSave(c)
    \/ DecrementSave(c)

MediaNext ==
    \/ \E c \in Call : CallSteps(c) \/ CountSteps(c)
    \/ SweepSteps
    \/ ClientAndTimeSteps

\* The worker runs every hour and its deletions do not fail forever.
SweepFairness ==
    /\ WF_mediaVars(SweepStart)
    /\ WF_mediaVars(SweepObject)
    /\ WF_mediaVars(\E deleted \in BOOLEAN : SweepRow(deleted))
    /\ SF_mediaVars(SweepRow(TRUE))
    /\ WF_mediaVars(SweepPassEnds)

MediaSpec == MediaInit /\ [][MediaNext]_mediaVars /\ SweepFairness
-----------------------------------------------------------------------------
(***************************************************************************)
(* Properties.                                                             *)
(***************************************************************************)

\* A media that messages refer to is never scheduled for deletion, although
\* confirmations, increments and decrements take back what others have written
\* (confirmUpload, incrementReferenceCount, decrementReferenceCount).  It is so
\* while each save updates the row it has selected: an increment and a decrement
\* that both select before either updates can leave their columns mixed, an
\* ORPHANED row with a deadline and a count above zero.
CountedIsKept ==
    \A x \in MediaId \ mixed :
        Exists(x) /\ media[x].reference_count > 0 =>
            /\ media[x].state = "REFERENCED"
            /\ media[x].expires_at = "never"

\* No interleaving, mixed saves included, makes a media look uploaded whose
\* object the client never put: a message that refers to it would show a hole
\* (P1 Media Integrity of confirmUpload).
UploadedIsReal ==
    \A x \in MediaId :
        Exists(x) /\ media[x].state # "UPLOADING" => bucket[x] # "absent"

\* Media that is due, and uploads that were abandoned, do not stay: the worker
\* deletes the row unless a call makes it wanted again.
DueIsSwept ==
    \A x \in MediaId :
        /\ x \in Due ~> x \notin Due
        /\ x \in Abandoned ~> x \notin Abandoned
=============================================================================
