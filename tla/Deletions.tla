------------------------------ MODULE Deletions ------------------------------
(***************************************************************************)
(* Ghost messages are flushed on the phone, and the relay is told to       *)
(* delete them (chat_repository.dart): once all are gone their ids go into *)
(* a Hive box, then into a message.delete nobody waits for, and            *)
(* syncPendingDeletions sends the box again and clears it once the relay   *)
(* has answered.                                                           *)
(*                                                                         *)
(* What the phone does between two awaits is a step, and each of a flush   *)
(* may throw: nothing catches it, so the ids in hand are forgotten.  A box *)
(* is its keys in memory and its file: a put writes both, clear() empties  *)
(* the file first and the keys after an await.  What the relay does inside *)
(* deleteMessages is Inbox.tla: here it handles a request, or fails and    *)
(* says "success" all the same.                                            *)
(***************************************************************************)
EXTENDS FiniteSets

CONSTANTS
    Ghost,       \* ghost messages of the phone
    Flush        \* flushGhostMessages and flushAllGhosts in progress

VARIABLES
    ghosts,      \* those not flushed yet
    flush,       \* the messages each flush has still to delete, and the ids that it
                 \* has still to put and to send
    box,         \* the Hive box of pending deletions, as the app sees it
    onDisk,      \* its file
    sync,        \* where syncPendingDeletions stands
    online,      \* connected to the relay
    telling,     \* message.delete requests under way and their answers
    deleted,     \* ids that the relay has handled
    swallowed,   \* history: ids in a request that failed at the relay
    aborted,     \* history: ids that a flush had in hand when it threw or the app ended
    behind       \* history: ids put into the box while a sync waited or cleared it

deletionVars ==
    <<ghosts, flush, box, onDisk, sync, online, telling, deleted, swallowed, aborted, behind>>

Request == [ids : SUBSET Ghost, awaited : BOOLEAN, at : {"sent", "answered"}]

FlushRecord == [todo : SUBSET Ghost, put : SUBSET Ghost, ids : SUBSET Ghost]

NoFlush == [todo |-> {}, put |-> {}, ids |-> {}]

DeletionsTypeOK ==
    /\ ghosts \subseteq Ghost /\ box \subseteq Ghost /\ onDisk \subseteq Ghost
    /\ flush \in [Flush -> FlushRecord]
    /\ sync \in {"idle", "wait", "clear"}
    /\ online \in BOOLEAN
    /\ telling \subseteq Request
    /\ \A q, r \in telling : q.awaited /\ r.awaited => q = r
    /\ (\E q \in telling : q.awaited) => sync = "wait"
    /\ UNION {deleted, swallowed, aborted, behind} \subseteq Ghost

DeletionsInit ==
    /\ ghosts = Ghost
    /\ flush = [f \in Flush |-> NoFlush]
    /\ box = {} /\ onDisk = {} /\ sync = "idle" /\ online \in BOOLEAN /\ telling = {}
    /\ deleted = {} /\ swallowed = {} /\ aborted = {} /\ behind = {}

\* syncPendingDeletions up to its await: one at a time, and only with a connection;
\* the box is read as it is now.
SyncNow(sending, connected) ==
    IF sync = "idle" /\ box # {} /\ connected
    THEN /\ sync' = "wait"
         /\ telling' = telling \cup sending
                         \cup {[ids |-> box, awaited |-> TRUE, at |-> "sent"]}
    ELSE /\ telling' = telling \cup sending
         /\ UNCHANGED sync

\* flushGhostMessages takes a snapshot of a conversation,
FlushStart(f, ids) ==
    /\ flush[f] = NoFlush
    /\ ids # {} /\ ids \subseteq ghosts
    /\ flush' = [flush EXCEPT ![f] = [todo |-> ids, put |-> {}, ids |-> {}]]
    /\ UNCHANGED <<ghosts, box, onDisk, sync, online, telling, deleted, swallowed, aborted, behind>>

\* and deletes its messages on the phone one after the other.
FlushDelete(f, id) ==
    /\ id \in flush[f].todo /\ id \in ghosts
    /\ ghosts' = ghosts \ {id}
    /\ flush' = [flush EXCEPT ![f] = [todo |-> flush[f].todo \ {id},
                                     put |-> flush[f].put \cup {id},
                                     ids |-> flush[f].ids \cup {id}]]
    /\ UNCHANGED <<box, onDisk, sync, online, telling, deleted, swallowed, aborted, behind>>

\* flushAllGhosts deletes all there are at once.
FlushAll(f) ==
    /\ flush[f] = NoFlush
    /\ ghosts # {} /\ ghosts' = {}
    /\ flush' = [flush EXCEPT ![f] = [todo |-> {}, put |-> ghosts, ids |-> ghosts]]
    /\ UNCHANGED <<box, onDisk, sync, online, telling, deleted, swallowed, aborted, behind>>

\* A step that throws: a storage error, or a message that another flush has deleted.
FlushThrows(f) ==
    /\ flush[f].todo \cup flush[f].put # {}
    /\ flush' = [flush EXCEPT ![f] = NoFlush]
    /\ aborted' = aborted \cup flush[f].put
    /\ UNCHANGED <<ghosts, box, onDisk, sync, online, telling, deleted, swallowed, behind>>

\* The ids are put one by one, or all at once by flushAllGhosts.
FlushPut(f, ids) ==
    /\ flush[f].todo = {}
    /\ ids # {} /\ ids \subseteq flush[f].put
    /\ flush' = [flush EXCEPT ![f] = [todo |-> {}, put |-> flush[f].put \ ids,
                                     ids |-> flush[f].ids]]
    /\ box' = box \cup ids /\ onDisk' = onDisk \cup ids
    /\ behind' = IF sync = "idle" THEN behind ELSE behind \cup ids
    /\ UNCHANGED <<ghosts, sync, online, telling, deleted, swallowed, aborted>>

\* The message.delete, which is kept for the next connection when there is none; then
\* the sync.
FlushSend(f) ==
    /\ flush[f].todo = {} /\ flush[f].put = {} /\ flush[f].ids # {}
    /\ flush' = [flush EXCEPT ![f] = NoFlush]
    /\ SyncNow({[ids |-> flush[f].ids, awaited |-> FALSE, at |-> "sent"]}, online)
    /\ UNCHANGED <<ghosts, box, onDisk, online, deleted, swallowed, aborted, behind>>

\* The sync of a start or of a new connection.
Connects ==
    /\ ~online /\ online' = TRUE
    /\ SyncNow({}, TRUE)
    /\ UNCHANGED <<ghosts, flush, box, onDisk, deleted, swallowed, aborted, behind>>

Disconnects ==
    /\ online /\ online' = FALSE
    /\ UNCHANGED <<ghosts, flush, box, onDisk, sync, telling, deleted, swallowed, aborted, behind>>

\* A request or its answer is lost with the connection.
DeleteLost(q) ==
    /\ q \in telling /\ telling' = telling \ {q}
    /\ UNCHANGED <<ghosts, flush, box, onDisk, sync, online, deleted, swallowed, aborted, behind>>

\* handleMessageDelete answers "success" whatever deleteMessages met with.
RelayDeletes(q) ==
    /\ online /\ q \in telling /\ q.at = "sent"
    /\ telling' = (telling \ {q}) \cup IF q.awaited THEN {[q EXCEPT !.at = "answered"]} ELSE {}
    /\ \E done \in SUBSET q.ids : /\ deleted' = deleted \cup done
                                /\ swallowed' = swallowed \cup (q.ids \ done)
    /\ UNCHANGED <<ghosts, flush, box, onDisk, sync, online, aborted, behind>>

\* The whole box is to be cleared, whatever has been put into it since it was read:
\* the file at once, unless that fails,
SyncAnswered(q) ==
    /\ q \in telling /\ q.at = "answered"
    /\ sync = "wait"
    /\ \/ sync' = "clear" /\ onDisk' = {}
       \/ sync' = "idle" /\ onDisk' = onDisk
    /\ telling' = telling \ {q}
    /\ UNCHANGED <<ghosts, flush, box, online, deleted, swallowed, aborted, behind>>

\* and then the keys, those put meanwhile included.
SyncCleared ==
    /\ sync = "clear" /\ sync' = "idle"
    /\ box' = {}
    /\ UNCHANGED <<ghosts, flush, onDisk, online, telling, deleted, swallowed, aborted, behind>>

\* A slip: the answer to it is still waited for.
Unforgotten == telling

\* Nobody waits any more for the answer that comes later.
Forgotten == {[q EXCEPT !.awaited = FALSE] : q \in {r \in telling : r.at = "sent"}}

\* A slip: what was sent is taken to have arrived.
SyncGivesUp ==
    /\ sync = "wait" /\ sync' = "clear"
    /\ telling' = Forgotten
    /\ onDisk' = {}
    /\ UNCHANGED <<ghosts, flush, box, online, deleted, swallowed, aborted, behind>>

\* After ten seconds the box is left for the next sync.
SyncTimesOut ==
    /\ sync = "wait" /\ sync' = "idle"
    /\ telling' = Forgotten
    /\ UNCHANGED <<ghosts, flush, box, onDisk, online, deleted, swallowed, aborted, behind>>

\* The end of the app: the next one finds the box as its file has it.
PhoneStops ==
    /\ aborted' = aborted \cup UNION {flush[f].put : f \in Flush}
    /\ flush' = [f \in Flush |-> NoFlush]
    /\ sync' = "idle" /\ online' = FALSE
    /\ telling' = Forgotten
    /\ box' = onDisk
    /\ UNCHANGED <<ghosts, onDisk, deleted, swallowed, behind>>

DeletionsNext ==
    \/ \E f \in Flush :
          \/ \E ids \in SUBSET Ghost : FlushStart(f, ids)
          \/ \E id \in Ghost : FlushDelete(f, id)
          \/ FlushAll(f)
          \/ \E ids \in {flush[f].put} \cup {{id} : id \in Ghost} : FlushPut(f, ids)
          \/ FlushThrows(f) \/ FlushSend(f)
    \/ Connects \/ Disconnects \/ PhoneStops
    \/ \E q \in telling : DeleteLost(q) \/ RelayDeletes(q) \/ SyncAnswered(q)
    \/ SyncCleared \/ SyncTimesOut

DeletionsSpec == DeletionsInit /\ [][DeletionsNext]_deletionVars
-----------------------------------------------------------------------------
\* Through lost requests and answers, timeouts, syncs that overlap flushes and ends
\* of the app, the id of a message that a flush has deleted stays in the box until
\* the relay has handled a request that names it.  It is lost in three ways, each of
\* which leaves a message that the relay keeps: its flush is cut short before the
\* put, by the end of the app or by a step that throws, as it does for a message that
\* an overlapping flush deleted first; it is put while a sync waits or clears, and is
\* cleared with the others; or the request that names it fails at the relay, which
\* answers "success" all the same.
KeptUntilDeleted ==
    \A id \in Ghost \ (ghosts \cup UNION {flush[f].put : f \in Flush}) :
        id \in UNION {box, deleted, swallowed, behind, aborted}
=============================================================================
