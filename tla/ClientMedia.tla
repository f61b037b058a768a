----------------------------- MODULE ClientMedia -----------------------------
(***************************************************************************)
(* The files of one medium on a phone: media_manager.dart downloads its    *)
(* original and its thumbnail, makes a thumbnail where there is none,      *)
(* keeps what the phone itself has sent, and removes it all when the ghost *)
(* message it belongs to is flushed.                                       *)
(*                                                                         *)
(* What a call does between two awaits is a step.  A put or a delete of    *)
(* the Hive index is seen at once; files change while they are awaited.    *)
(* Decryption does not await, so DECRYPTING is never seen by another call. *)
(* Assertions are off, as in a release build.  clearCache has no caller.   *)
(***************************************************************************)
EXTENDS Naturals

CONSTANTS
    MaxGets,     \* bound: calls of getMedia
    MaxCrashes,  \* bound: ends of the app
    MaxAttempts  \* maxAttempts of a download

VARIABLES
    state,       \* _states and _thumbStates
    index,       \* parts in the Hive box media_cache_index
    disk,        \* parts whose file is there
    pipe,        \* _activeDownloads, and where each stands
    gets,        \* calls of getMedia so far
    saver,       \* the thumbnail queue and the cacheSentMedia of this medium
    removal,     \* where deleteMedia stands
    crashes,     \* ends of the app so far
    unseen,      \* history: parts that deleteMedia could not know of, or did not get to
    stuck        \* history: parts whose file could not be copied or deleted

clientMediaVars == <<state, index, disk, pipe, gets, saver, removal, crashes, unseen, stuck>>

ASSUME ClientMediaAssumption == 
    /\ {MaxGets, MaxCrashes, MaxAttempts} \subseteq Nat
    /\ MaxAttempts >= 2

Part == {"original", "thumb"}

MediaStates == {"none", "DOWNLOADING", "VERIFYING", "READY", "FAILED"}

\* A hash mismatch leaves its mark on the attempts that follow.
NoPipe == [pc |-> "idle", tries |-> 0, mismatch |-> FALSE]

ClientMediaTypeOK ==
    /\ state \in [Part -> MediaStates]
    /\ index \subseteq Part /\ disk \subseteq Part
    /\ pipe \in [Part -> [pc : {"idle", "lookup", "fetch", "wait", "write", "index", "ready"},
                          tries : 0 .. MaxAttempts, mismatch : BOOLEAN]]
    /\ gets \in 0 .. MaxGets /\ crashes \in 0 .. MaxCrashes
    /\ saver \in [{"queue", "send"} ->
                     {"idle", "check", "copy", "put", "sent", "write", "index", "ready", "failed"}]
    /\ removal \in [step : {"no", "file", "index", "done"}, part : Part]
    /\ unseen \subseteq Part /\ stuck \subseteq Part

\* The phone is about to send the medium, or has received it.
ClientMediaInit ==
    /\ state = [k \in Part |-> "none"]
    /\ index = {} /\ disk = {}
    /\ pipe = [k \in Part |-> NoPipe]
    /\ gets = 0 /\ crashes = 0
    /\ saver \in {[queue |-> "idle", send |-> pc] : pc \in {"idle", "copy"}}
    /\ removal = [step |-> "no", part |-> "original"]
    /\ unseen = {} /\ stuck = {}

Shows(k, s) == state' = [state EXCEPT ![k] = s]

Pipes(k, pc) == pipe' = [pipe EXCEPT ![k].pc = pc]
-----------------------------------------------------------------------------
(***************************************************************************)
(* getMedia and _downloadAndProcess                                        *)
(***************************************************************************)

\* The id of the medium is in the message: on the phone that sends it, not before
\* cacheSentMedia has returned.
Known == saver.send = "idle"

\* One pipeline for a part at a time; a flushed message is not shown any more.
GetMedia(k) ==
    /\ pipe[k].pc = "idle" /\ Known /\ removal.step = "no"
    /\ gets < MaxGets /\ gets' = gets + 1
    /\ Pipes(k, "lookup")
    /\ UNCHANGED <<state, index, disk, saver, removal, crashes, unseen, stuck>>

StartsAttempt(k) ==
    /\ pipe' = [pipe EXCEPT ![k].pc = "fetch", ![k].tries = @ + 1]
    /\ Shows(k, "DOWNLOADING")

\* A slip: the caller is told, and the state left as it is.
FailsSilently(k) == pipe' = [pipe EXCEPT ![k] = NoPipe] /\ UNCHANGED state

Fails(k) == pipe' = [pipe EXCEPT ![k] = NoPipe] /\ Shows(k, "FAILED")

\* The index is read, and the file looked for.
GetLookup(k) ==
    /\ pipe[k].pc = "lookup"
    /\ IF k \in index \cap disk
       THEN pipe' = [pipe EXCEPT ![k] = NoPipe] /\ Shows(k, "READY")
       ELSE StartsAttempt(k)
    /\ UNCHANGED <<index, disk, gets, saver, removal, crashes, unseen, stuck>>

\* A failure of the network, the relay, the storage or the disk is retried after a
\* while; after a mismatch there is one more attempt in all.
Recovers(k) ==
    IF pipe[k].mismatch \/ pipe[k].tries >= MaxAttempts THEN Fails(k)
    ELSE Pipes(k, "wait") /\ UNCHANGED state

\* The two requests, and what is made of the answer without another await.
GetFetch(k) ==
    /\ pipe[k].pc = "fetch"
    /\ \/ Pipes(k, "write") /\ Shows(k, "VERIFYING")
       \/ Fails(k)                                      \* 404, or it does not decrypt
       \/ Recovers(k)
       \/ /\ k = "original"                             \* the hash does not match
          /\ IF pipe[k].tries >= 2 THEN Fails(k)
             ELSE /\ pipe' = [pipe EXCEPT ![k].tries = @ + 1, ![k].mismatch = TRUE]
                  /\ UNCHANGED state
    /\ UNCHANGED <<index, disk, gets, saver, removal, crashes, unseen, stuck>>

GetRetry(k) ==
    /\ pipe[k].pc = "wait"
    /\ StartsAttempt(k)
    /\ UNCHANGED <<index, disk, gets, saver, removal, crashes, unseen, stuck>>

\* The temporary file and its renaming.
GetWrite(k) ==
    /\ pipe[k].pc = "write"
    /\ \/ disk' = disk \cup {k} /\ Pipes(k, "index") /\ UNCHANGED state
       \/ UNCHANGED disk /\ Recovers(k)
    /\ UNCHANGED <<index, gets, saver, removal, crashes, unseen, stuck>>

GetIndex(k) ==
    /\ pipe[k].pc = "index"
    /\ index' = index \cup {k}
    /\ Pipes(k, "ready")
    /\ UNCHANGED <<state, disk, gets, saver, removal, crashes, unseen, stuck>>

\* An image or a video goes to the thumbnail queue.
GetReady(k) ==
    /\ pipe[k].pc = "ready"
    /\ Shows(k, "READY")
    /\ pipe' = [pipe EXCEPT ![k] = NoPipe]
    /\ \/ UNCHANGED saver
       \/ k = "original" /\ saver' = [saver EXCEPT !.queue = "check"]
    /\ UNCHANGED <<index, disk, gets, removal, crashes, unseen, stuck>>
-----------------------------------------------------------------------------
(***************************************************************************)
(* ThumbnailQueue, cacheSentMedia, and saveThumbnailDirectly for both      *)
(***************************************************************************)

Saves(w, pc) == saver' = [saver EXCEPT ![w] = pc]

\* isThumbnailCached, then the making of one, which may fail.
QueueCheck ==
    /\ saver.queue = "check"
    /\ \/ Saves("queue", "idle")
       \/ "thumb" \notin index \cap disk /\ Saves("queue", "write")
    /\ UNCHANGED <<state, index, disk, pipe, gets, removal, crashes, unseen, stuck>>

\* The copy of the original, whose failure is ignored.
SendCopy ==
    /\ saver.send = "copy"
    /\ \/ disk' = disk \cup {"original"} /\ UNCHANGED stuck
       \/ stuck' = stuck \cup {"original"} /\ UNCHANGED disk
    /\ Saves("send", "put")
    /\ UNCHANGED <<state, index, pipe, gets, removal, crashes, unseen>>

SendPut ==
    /\ saver.send = "put"
    /\ index' = index \cup {"original"}
    /\ Saves("send", "sent")
    /\ UNCHANGED <<state, disk, pipe, gets, removal, crashes, unseen, stuck>>

\* With a thumbnail or without.
SendReady ==
    /\ saver.send = "sent"
    /\ Shows("original", "READY")
    /\ \E pc \in {"write", "idle"} : Saves("send", pc)
    /\ UNCHANGED <<index, disk, pipe, gets, removal, crashes, unseen, stuck>>

\* A failure is ignored by the queue; the upload that is sent starts again as
\* another medium.
SaveWrite(w) ==
    /\ saver[w] = "write"
    /\ \/ disk' = disk \cup {"thumb"} /\ Saves(w, "index")
       \/ UNCHANGED disk /\ Saves(w, IF w = "queue" THEN "idle" ELSE "failed")
    /\ UNCHANGED <<state, index, pipe, gets, removal, crashes, unseen, stuck>>

SaveIndex(w) ==
    /\ saver[w] = "index"
    /\ index' = index \cup {"thumb"}
    /\ Saves(w, "ready")
    /\ UNCHANGED <<state, disk, pipe, gets, removal, crashes, unseen, stuck>>

SaveReady(w) ==
    /\ saver[w] = "ready"
    /\ Shows("thumb", "READY")
    /\ Saves(w, "idle")
    /\ UNCHANGED <<index, disk, pipe, gets, removal, crashes, unseen, stuck>>
-----------------------------------------------------------------------------
(***************************************************************************)
(* deleteMedia, and the end of the app                                     *)
(***************************************************************************)

\* The parts that somebody is writing.
InWriting ==
    {k \in Part : pipe[k].pc # "idle"}
    \cup {k \in {"thumb"} : pipe["original"].pc # "idle" \/ saver.queue # "idle"}

RemoveStart ==
    /\ removal.step = "no" /\ Known
    /\ removal' = [removal EXCEPT !.step = "file"]
    /\ unseen' = InWriting \cup (disk \ index)
    /\ UNCHANGED <<state, index, disk, pipe, gets, saver, crashes, stuck>>

\* The next part; after the last the states are forgotten.
Removed(k) ==
    IF k = "original" THEN removal' = [step |-> "file", part |-> "thumb"] /\ UNCHANGED state
    ELSE removal' = [removal EXCEPT !.step = "done"] /\ state' = [x \in Part |-> "none"]

\* The file of a part that is in the index; that it cannot be deleted is ignored.
RemoveFile(k) ==
    /\ removal = [step |-> "file", part |-> k]
    /\ \/ k \notin index /\ Removed(k) /\ UNCHANGED <<disk, stuck>>
       \/ /\ k \in index
          /\ removal' = [removal EXCEPT !.step = "index"]
          /\ \/ disk' = disk \ {k} /\ UNCHANGED stuck
             \/ stuck' = stuck \cup {k} /\ UNCHANGED disk
          /\ UNCHANGED state
    /\ UNCHANGED <<index, pipe, gets, saver, crashes, unseen>>

RemoveIndex(k) ==
    /\ removal = [step |-> "index", part |-> k]
    /\ index' = index \ {k}
    /\ Removed(k)
    /\ UNCHANGED <<disk, pipe, gets, saver, crashes, unseen, stuck>>

\* Files and index stay; a removal or an upload is not taken up again.
AppEnds ==
    /\ crashes < MaxCrashes /\ crashes' = crashes + 1
    /\ state' = [k \in Part |-> "none"]
    /\ pipe' = [k \in Part |-> NoPipe]
    /\ saver' = [queue |-> "idle", send |-> IF Known THEN "idle" ELSE "failed"]
    /\ IF removal.step \in {"no", "done"} THEN UNCHANGED <<removal, unseen>>
       ELSE removal' = [removal EXCEPT !.step = "done"] /\ unseen' = Part
    /\ UNCHANGED <<index, disk, gets, stuck>>

ClientMediaNext ==
    \/ \E k \in Part :
          \/ GetMedia(k) \/ GetLookup(k) \/ GetFetch(k) \/ GetRetry(k)
          \/ GetWrite(k) \/ GetIndex(k) \/ GetReady(k)
          \/ RemoveFile(k) \/ RemoveIndex(k)
    \/ QueueCheck \/ SendCopy \/ SendPut \/ SendReady
    \/ \E w \in {"queue", "send"} : SaveWrite(w) \/ SaveIndex(w) \/ SaveReady(w)
    \/ RemoveStart \/ AppEnds

ClientMediaSpec == ClientMediaInit /\ [][ClientMediaNext]_clientMediaVars
-----------------------------------------------------------------------------
\* What is shown as READY is on disk and in the index.
ReadyIsThere ==
    removal.step \in {"no", "done"} =>
        \A k \in Part \ (unseen \cup stuck) : state[k] = "READY" => k \in index \cap disk

\* Nothing is shown as on its way that nobody is fetching.
SettledWhenIdle ==
    \A k \in Part : pipe[k].pc = "idle" => state[k] \notin {"DOWNLOADING", "VERIFYING"}

\* Of a flushed medium nothing is left.
RemovedIsGone ==
    removal.step = "done" =>
        \A k \in Part \ (unseen \cup stuck) : k \notin index \cup disk /\ state[k] = "none"

\* Downloads, retries, the thumbnail queue, what the phone sends itself, the end of
\* the app and the flush of the message interleave: a part shown as READY is there,
\* one nobody fetches is not shown as on its way, and a flush leaves nothing, except
\* of the parts that were being written, or on disk but not in the index, when it
\* began, and of files that could not be copied or deleted.
CacheSound == ReadyIsThere /\ SettledWhenIdle /\ RemovedIsGone
=============================================================================
