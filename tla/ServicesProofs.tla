--------------------------- MODULE ServicesProofs ---------------------------
(***************************************************************************)
(* Theorems about the smaller services, for any number of callers, nonces, *)
(* posts, members, devices, uploads and ghosts.  A step of Services is a   *)
(* step of one service and leaves the others alone, so an invariant that   *)
(* each service's own steps keep holds of all of them.                     *)
(***************************************************************************)
EXTENDS Services, FiniteSetTheorems, WellFoundedInduction, TLAPS

LEMMA OneAtATime ==
    ASSUME [ServicesNext]_ServicesVars
    PROVE  /\ [GatewayNext]_gatewayVars /\ [GroupsNext]_groupVars /\ [RoomsNext]_roomVars
           /\ [LoginNext]_loginVars /\ [DeletionsNext]_deletionVars
           /\ [UploadQuotaNext]_quotaVars /\ [ClientMediaNext]_clientMediaVars
<1>1. CASE UNCHANGED ServicesVars
    BY <1>1 DEF ServicesVars
<1>2. CASE ServicesNext
    BY <1>2 DEF ServicesNext, Works
<1> QED
    BY <1>1, <1>2
-----------------------------------------------------------------------------
(***************************************************************************)
(* Login                                                                   *)
(***************************************************************************)

\* Every nonce that was issued and is void no longer is the address's.
LoginInv ==
    /\ LoginTypeOK
    /\ issued \subseteq void \cup {challenge}
    /\ spent \subseteq void \cap issued /\ challenge \notin spent
    /\ \A c \in Attempt : attempt[c].pc # "idle" => attempt[c].nonce \in issued
    /\ \A c \in late : attempt[c].pc = "refused"
    /\ \A c \in Attempt : attempt[c].pc = "refused" /\ c \notin forged => attempt[c].nonce \in void

LEMMA LoginStarts == LoginInit => LoginInv
<1> QED
    BY LoginAssumption DEF LoginInit, LoginInv, LoginTypeOK, AttemptStep

LEMMA LoginKept == ASSUME LoginInv, [LoginNext]_loginVars PROVE LoginInv'
<1> USE DEF LoginInv, LoginTypeOK
<1>1. ASSUME NEW n \in Nonce, GenerateNonce(n) PROVE LoginInv'
    BY <1>1, LoginAssumption DEF GenerateNonce, Voided
<1>2. CASE NonceExpires
    BY <1>2, LoginAssumption DEF NonceExpires, Voided
<1>3. ASSUME NEW c \in Attempt, NEW n \in Nonce, NEW genuine \in BOOLEAN, LoginRead(c, n, genuine)
      PROVE  LoginInv'
    <2>1. /\ n \in issued /\ attempt[c].pc = "idle"
          /\ attempt'[c].nonce = n /\ attempt'[c].pc \in {"clear", "refused"}
          /\ attempt'[c].pc = "clear" => n = challenge
          /\ attempt'[c].pc = "refused" => n # challenge \/ ~genuine
          /\ attempt' \in [Attempt -> [pc : AttemptStep, nonce : Nonce \cup {NoNonce}]]
          /\ \A d \in Attempt \ {c} : attempt'[d] = attempt[d]
        BY <1>3 DEF LoginRead, AttemptStep
    <2>2. /\ UNCHANGED <<challenge, issued, user, spent, void>>
          /\ late' = late \cup {x \in {c} : n \in spent}
          /\ forged' = forged \cup {x \in {c} : ~genuine}
        BY <1>3 DEF LoginRead
    <2>3. \A d \in late' : attempt'[d].pc = "refused"
        BY <2>1, <2>2
    <2>4. ASSUME NEW d \in Attempt, attempt'[d].pc = "refused", d \notin forged'
          PROVE  attempt'[d].nonce \in void'
        BY <2>1, <2>2, <2>4
    <2> QED
        BY <2>1, <2>2, <2>3, <2>4
<1>4. ASSUME NEW c \in Attempt, NEW pc \in AttemptStep \ {"idle", "refused"}, Proceeds(c, pc),
             attempt[c].pc \notin {"idle", "refused"}
      PROVE  /\ attempt' \in [Attempt -> [pc : AttemptStep, nonce : Nonce \cup {NoNonce}]]
             /\ \A d \in Attempt : attempt'[d].nonce = attempt[d].nonce
             /\ \A d \in Attempt : attempt'[d].pc = "refused" <=> attempt[d].pc = "refused"
             /\ \A d \in Attempt : attempt'[d].pc = "idle" <=> attempt[d].pc = "idle"
    BY <1>4 DEF Proceeds
<1>5. ASSUME NEW c \in Attempt, LoginClear(c) PROVE LoginInv'
    <2>1. Proceeds(c, "find") /\ "find" \in AttemptStep /\ attempt[c].pc = "clear"
        BY <1>5 DEF LoginClear, AttemptStep
    <2>2. /\ attempt' \in [Attempt -> [pc : AttemptStep, nonce : Nonce \cup {NoNonce}]]
          /\ \A d \in Attempt : attempt'[d].nonce = attempt[d].nonce
          /\ \A d \in Attempt : attempt'[d].pc = "refused" <=> attempt[d].pc = "refused"
          /\ \A d \in Attempt : attempt'[d].pc = "idle" <=> attempt[d].pc = "idle"
        BY <1>4, <2>1
    <2>3. attempt[c].nonce \in issued
        BY <2>1
    <2> QED
        BY <1>5, <2>2, <2>3, LoginAssumption DEF LoginClear, Voided
<1>6. ASSUME NEW c \in Attempt, LoginFind(c) \/ LoginSave(c) PROVE LoginInv'
    <2>1. PICK pc \in {"insert", "update", "in", "failed"} :
              Proceeds(c, pc) /\ attempt[c].pc \notin {"idle", "refused"}
        BY <1>6 DEF LoginFind, LoginSave
    <2>2. /\ attempt' \in [Attempt -> [pc : AttemptStep, nonce : Nonce \cup {NoNonce}]]
          /\ \A d \in Attempt : attempt'[d].nonce = attempt[d].nonce
          /\ \A d \in Attempt : attempt'[d].pc = "refused" <=> attempt[d].pc = "refused"
          /\ \A d \in Attempt : attempt'[d].pc = "idle" <=> attempt[d].pc = "idle"
        BY <1>4, <2>1 DEF AttemptStep
    <2>3. UNCHANGED <<challenge, issued, spent, late, forged, void>> /\ user' \in BOOLEAN
        BY <1>6 DEF LoginFind, LoginSave
    <2> QED
        BY <2>2, <2>3
<1>7. CASE UNCHANGED loginVars
    BY <1>7 DEF loginVars
<1> QED
    BY <1>1, <1>2, <1>3, <1>5, <1>6, <1>7 DEF LoginNext

\* However the logins of an address overlap, and whatever nonces are issued
\* meanwhile: a nonce lets in only the logins that read it before the first of them
\* cleared it, and a signed one is refused only when it was removed.
THEOREM NonceSpentOnce == ServicesSpec => []SpentOnce
<1>1. ServicesInit => LoginInv
    BY LoginStarts DEF ServicesInit
<1>2. LoginInv /\ [ServicesNext]_ServicesVars => LoginInv'
    BY OneAtATime, LoginKept
<1>3. LoginInv => SpentOnce
    BY DEF LoginInv, SpentOnce, Proved
<1> QED
    BY <1>1, <1>2, <1>3, PTL DEF ServicesSpec
-----------------------------------------------------------------------------
(***************************************************************************)
(* Rooms                                                                   *)
(***************************************************************************)

Given(p) == \E v \in Visitor : <<v, p>> \in history

Gone == discarded \cup dropped

\* A post is listed, given or gone from its LPUSH on and never two of these, and it
\* is given once.
RoomsInv ==
    /\ RoomsTypeOK
    /\ \A p \in Post, v, w \in Visitor : <<v, p>> \in history /\ <<w, p>> \in history => v = w
    /\ \A p \in Listed : ~Given(p) /\ p \notin Gone
    /\ \A p \in Post : Given(p) => p \notin Gone
    /\ \A p \in Post : post[p] \in {"unsent", "push"} => p \notin Listed /\ ~Given(p) /\ p \notin Gone
    /\ \A p \in Post : post[p] \in {"trim", "expire", "ok"} => p \in Listed \/ Given(p) \/ p \in Gone
    /\ list # <<>> /\ ~listTtl /\ ~cut => \E p \in Post : post[p] \in {"trim", "expire"}

LEMMA RoomsStart == RoomsInit => RoomsInv
<1> SUFFICES ASSUME RoomsInit PROVE RoomsInv
    OBVIOUS
<1>1. <<>> \in Seq(Post) /\ Listed = {}
    BY DEF RoomsInit, Listed
<1>2. RoomsTypeOK
    BY <1>1 DEF RoomsInit, RoomsTypeOK, PostStep
<1> QED
    BY <1>1, <1>2 DEF RoomsInit, RoomsInv, Given, Gone

LEMMA NothingListed == list' = <<>> => Listed' = {}
<1> QED
    BY DEF Listed

\* LPUSH and LTRIM, as sets.
LEMMA PushedIsListed ==
    ASSUME list \in Seq(Post), NEW p \in Post, list' = <<p>> \o list
    PROVE  list' \in Seq(Post) /\ list' # <<>> /\ Listed' = Listed \cup {p}
<1>1. /\ list' \in Seq(Post) /\ Len(list') = Len(list) + 1 /\ list'[1] = p /\ Len(list) \in Nat
      /\ \A i \in 1 .. Len(list) : list'[i + 1] = list[i]
    OBVIOUS
<1>2. \A i \in 1 .. Len(list') : i = 1 \/ (i - 1 \in 1 .. Len(list) /\ list'[i] = list[i - 1])
    <2> SUFFICES ASSUME NEW i \in 1 .. Len(list'), i # 1
                 PROVE  i - 1 \in 1 .. Len(list) /\ list'[i] = list[i - 1]
        OBVIOUS
    <2>1. i - 1 \in 1 .. Len(list) /\ (i - 1) + 1 = i
        BY <1>1
    <2> QED
        BY <1>1, <2>1
<1>3. Listed' \subseteq Listed \cup {p}
    BY <1>1, <1>2 DEF Listed
<1>4. p \in Listed'
    <2>1. 1 \in 1 .. Len(list')
        BY <1>1
    <2> QED
        BY <1>1, <2>1 DEF Listed
<1>5. Listed \subseteq Listed'
    <2> SUFFICES ASSUME NEW i \in 1 .. Len(list) PROVE list[i] \in Listed'
        BY DEF Listed
    <2>1. i + 1 \in 1 .. Len(list')
        BY <1>1
    <2> QED
        BY <1>1, <2>1 DEF Listed
<1> QED
    BY <1>1, <1>3, <1>4, <1>5

LEMMA TrimmedIsListed ==
    ASSUME list \in Seq(Post),
           list' = IF Len(list) > ListMax THEN SubSeq(list, 1, ListMax) ELSE list
    PROVE  list' \in Seq(Post) /\ Listed' \subseteq Listed /\ (list' # <<>> => list # <<>>)
<1>1. CASE Len(list) > ListMax
    <2>1. /\ list' \in Seq(Post) /\ Len(list') = ListMax /\ Len(list) \in Nat
          /\ \A i \in 1 .. ListMax : list'[i] = list[i]
        BY <1>1, RoomsAssumption
    <2>2. \A i \in 1 .. ListMax : i \in 1 .. Len(list)
        BY <1>1, <2>1, RoomsAssumption
    <2> QED
        BY <1>1, <2>1, <2>2, RoomsAssumption DEF Listed
<1>2. CASE ~(Len(list) > ListMax)
    BY <1>2 DEF Listed
<1> QED
    BY <1>1, <1>2

LEMMA RoomsKept == ASSUME RoomsInv, [RoomsNext]_roomVars PROVE RoomsInv'
<1>1. RoomsTypeOK /\ list \in Seq(Post) /\ post \in [Post -> PostStep]
    BY DEF RoomsInv, RoomsTypeOK
<1>2. ASSUME UNCHANGED <<list, post, history, discarded, dropped, cut>>,
             listTtl' \in BOOLEAN, listTtl => listTtl', RoomsTypeOK'
      PROVE  RoomsInv'
    BY <1>2 DEF RoomsInv, Listed, Given, Gone
<1>3. CASE CreateRoom \/ RoomExpires \/ \E v \in Visitor : JoinRead(v)
    <2>1. RoomsTypeOK'
        BY <1>1, <1>3 DEF CreateRoom, RoomExpires, JoinRead, RoomsTypeOK
    <2> QED
        BY <1>2, <1>3, <2>1 DEF CreateRoom, RoomExpires, JoinRead, RoomsTypeOK
<1>4. ASSUME NEW v \in Visitor, JoinConsume(v) PROVE RoomsInv'
    <2>1. /\ history' = history \cup {<<v, p>> : p \in Others(v)}
          /\ discarded' = discarded \cup (Listed \ Others(v))
          /\ list' = <<>> /\ listTtl' = FALSE
          /\ UNCHANGED <<room, post, dropped, cut>>
        BY <1>4 DEF JoinConsume
    <2>2. Listed' = {} /\ Others(v) \subseteq Listed /\ Listed \subseteq Post
        BY <1>1, <2>1, NothingListed DEF Others, Listed
    <2>3. RoomsTypeOK'
        <3>1. join' \in [Visitor -> {"idle", "consume"}]
            BY <1>1, <1>4 DEF JoinConsume, RoomsTypeOK
        <3>2. history' \subseteq Visitor \X Post /\ discarded' \subseteq Post
            BY <1>1, <2>1, <2>2 DEF RoomsTypeOK
        <3>3. list' \in Seq(Post)
            BY <2>1
        <3> QED
            BY <1>1, <2>1, <3>1, <3>2, <3>3 DEF RoomsTypeOK
    <2>4. \A p \in Post, w \in Visitor :
              <<w, p>> \in history' <=> <<w, p>> \in history \/ (w = v /\ p \in Others(v))
        BY <2>1
    <2>5. \A p \in Post : Given(p)' <=> Given(p) \/ p \in Others(v)
        BY <2>4 DEF Given
    <2>6. \A p \in Post, w, x \in Visitor :
              <<w, p>> \in history' /\ <<x, p>> \in history' => w = x
        BY <2>2, <2>4 DEF RoomsInv, Given
    <2>7. \A p \in Post : Given(p)' => p \notin Gone'
        BY <2>1, <2>2, <2>5 DEF RoomsInv, Gone
    <2>8. \A p \in Post : /\ post'[p] \in {"unsent", "push"} => ~Given(p)' /\ p \notin Gone'
                          /\ post'[p] \in {"trim", "expire", "ok"} => Given(p)' \/ p \in Gone'
        BY <2>1, <2>2, <2>5 DEF RoomsInv, Gone
    <2> QED
        BY <2>1, <2>2, <2>3, <2>6, <2>7, <2>8 DEF RoomsInv
<1>5. ASSUME NEW p \in Post, SendLive(p) PROVE RoomsInv'
    <2>1. /\ UNCHANGED <<room, list, listTtl, join, history, discarded, dropped, cut>>
          /\ post' = [post EXCEPT ![p] = "push"] /\ post[p] = "unsent"
        BY <1>5 DEF SendLive
    <2>2. RoomsTypeOK'
        BY <1>1, <2>1 DEF RoomsTypeOK, PostStep
    <2> QED
        BY <1>1, <2>1, <2>2 DEF RoomsInv, Listed, Given, Gone
<1>6. ASSUME NEW p \in Post, AddPush(p) PROVE RoomsInv'
    <2>1. /\ UNCHANGED <<room, listTtl, join, history, discarded, dropped, cut>>
          /\ post' = [post EXCEPT ![p] = "trim"] /\ post[p] = "push" /\ list' = <<p>> \o list
        BY <1>6 DEF AddPush
    <2>2. list' \in Seq(Post) /\ Listed' = Listed \cup {p}
        BY <1>1, <2>1, PushedIsListed
    <2>3. RoomsTypeOK'
        BY <1>1, <2>1, <2>2 DEF RoomsTypeOK, PostStep
    <2> QED
        BY <1>1, <2>1, <2>2, <2>3 DEF RoomsInv, Given, Gone
<1>7. ASSUME NEW p \in Post, AddTrim(p) PROVE RoomsInv'
    <2>1. /\ UNCHANGED <<room, listTtl, join, history, discarded, cut>>
          /\ post' = [post EXCEPT ![p] = "expire"] /\ post[p] = "trim"
          /\ dropped' = dropped \cup (Listed \ Listed')
        BY <1>7 DEF AddTrim, Listed
    <2>2. list' \in Seq(Post) /\ Listed' \subseteq Listed /\ (list' # <<>> => list # <<>>)
        BY <1>1, <1>7, TrimmedIsListed DEF AddTrim
    <2>3. Listed \subseteq Post
        BY <1>1 DEF Listed
    <2>4. RoomsTypeOK'
        BY <1>1, <2>1, <2>2, <2>3 DEF RoomsTypeOK, PostStep
    <2> QED
        BY <1>1, <2>1, <2>2, <2>3, <2>4 DEF RoomsInv, Given, Gone
<1>8. ASSUME NEW p \in Post, AddExpire(p) PROVE RoomsInv'
    <2>1. /\ UNCHANGED <<room, list, join, history, discarded, dropped, cut>>
          /\ post' = [post EXCEPT ![p] = "ok"] /\ post[p] = "expire"
          /\ listTtl' = (listTtl \/ list # <<>>)
        BY <1>8 DEF AddExpire
    <2>2. RoomsTypeOK'
        BY <1>1, <2>1 DEF RoomsTypeOK, PostStep
    <2> QED
        BY <1>1, <2>1, <2>2 DEF RoomsInv, Listed, Given, Gone
<1>9. ASSUME NEW p \in Post, AddFails(p) PROVE RoomsInv'
    <2>1. /\ UNCHANGED <<room, list, listTtl, join, history, discarded, dropped>>
          /\ post' = [post EXCEPT ![p] = "error"] /\ post[p] \in {"push", "trim", "expire"}
          /\ cut' = (cut \/ post[p] # "push")
        BY <1>9 DEF AddFails
    <2>2. RoomsTypeOK'
        BY <1>1, <2>1 DEF RoomsTypeOK, PostStep
    <2> QED
        BY <1>1, <2>1, <2>2 DEF RoomsInv, Listed, Given, Gone
<1>10. CASE ListExpires
    <2>1. /\ dropped' = dropped \cup Listed /\ list' = <<>> /\ listTtl' = FALSE
          /\ UNCHANGED <<room, join, post, history, discarded, cut>>
        BY <1>10 DEF ListExpires
    <2>2. Listed' = {} /\ Listed \subseteq Post
        BY <1>1, <2>1, NothingListed DEF Listed
    <2>3. RoomsTypeOK'
        <3>1. list' \in Seq(Post)
            BY <2>1
        <3> QED
            BY <1>1, <2>1, <2>2, <3>1 DEF RoomsTypeOK
    <2> QED
        BY <1>1, <2>1, <2>2, <2>3 DEF RoomsInv, Given, Gone
<1>11. CASE UNCHANGED roomVars
    <2>1. RoomsTypeOK' /\ Listed' = Listed /\ Gone' = Gone /\ \A p : Given(p)' <=> Given(p)
        BY <1>1, <1>11 DEF roomVars, RoomsTypeOK, Listed, Given, Gone
    <2> QED
        BY <1>11, <2>1 DEF roomVars, RoomsInv
<1> QED
    BY <1>3, <1>4, <1>5, <1>6, <1>7, <1>8, <1>9, <1>10, <1>11 DEF RoomsNext

LEMMA OneIsGiven ==
    ASSUME RoomsInv, NEW p \in Post
    PROVE  Cardinality(GivenTo(p)) <= 1
<1>1. CASE GivenTo(p) = {}
    BY <1>1, FS_EmptySet
<1>2. ASSUME NEW v \in GivenTo(p) PROVE Cardinality(GivenTo(p)) <= 1
    <2>1. GivenTo(p) = {v}
        BY <1>2 DEF GivenTo, RoomsInv
    <2> QED
        BY SMTT(30), <2>1, FS_Singleton
<1> QED
    BY <1>1, <1>2

\* However joins, posts, expiries and failures interleave, a post that was accepted
\* is in one place, and given to one member at most.
THEOREM PostInOnePlace == ServicesSpec => []InOnePlace
<1>1. ServicesInit => RoomsInv
    BY RoomsStart DEF ServicesInit
<1>2. RoomsInv /\ [ServicesNext]_ServicesVars => RoomsInv'
    BY OneAtATime, RoomsKept
<1>3. RoomsInv => InOnePlace
    <2> SUFFICES ASSUME RoomsInv PROVE InOnePlace
        OBVIOUS
    <2>1. \A p \in Post : Given(p) <=> GivenTo(p) # {}
        BY DEF Given, GivenTo
    <2>2. \A p \in Post : Cardinality(GivenTo(p)) <= 1
        BY OneIsGiven
    <2>3. Listed \subseteq Post
        BY DEF RoomsInv, RoomsTypeOK, Listed
    <2> QED
        BY <2>1, <2>2, <2>3 DEF RoomsInv, InOnePlace, Gone
<1> QED
    BY <1>1, <1>2, <1>3, PTL DEF ServicesSpec
-----------------------------------------------------------------------------
(***************************************************************************)
(* Deletions                                                               *)
(***************************************************************************)

\* What a sync waits for names the whole box but what came behind it, what the relay
\* has answered it has handled, or swallowed, and what is not in the file, or is about
\* to be cleared, has been answered for or came behind.
DeletionsInv ==
    /\ DeletionsTypeOK
    /\ \A q \in telling : q.at = "answered" =>
           q.awaited /\ q.ids \subseteq deleted \cup swallowed
    /\ \A q \in telling : q.awaited => box \subseteq q.ids \cup behind
    /\ sync = "clear" => box \subseteq deleted \cup swallowed \cup behind
    /\ box \subseteq onDisk \cup deleted \cup swallowed \cup behind
    /\ KeptUntilDeleted

LEMMA DeletionsStart == DeletionsInit => DeletionsInv
<1> QED
    BY DEF DeletionsInit, DeletionsInv, DeletionsTypeOK, NoFlush, FlushRecord, KeptUntilDeleted

\* A sync asks for the whole box, when no other is waited for.
LEMMA SyncAsksForAll ==
    ASSUME DeletionsInv, NEW sending \in SUBSET Request, NEW c,
           \A q \in sending : ~q.awaited /\ q.at = "sent", SyncNow(sending, c),
           UNCHANGED <<box, deleted, swallowed, behind>>
    PROVE  /\ sync' \in {"idle", "wait", "clear"} /\ telling' \subseteq Request
           /\ sync' = "clear" => sync = "clear"
           /\ \A q, r \in telling' : q.awaited /\ r.awaited => q = r
           /\ (\E q \in telling' : q.awaited) => sync' = "wait"
           /\ \A q \in telling' : q.at = "answered" =>
                  q.awaited /\ q.ids \subseteq deleted' \cup swallowed'
           /\ \A q \in telling' : q.awaited => box' \subseteq q.ids \cup behind'
<1>1. /\ telling \subseteq Request /\ box \subseteq Ghost
      /\ sync \in {"idle", "wait", "clear"}
      /\ \A q, r \in telling : q.awaited /\ r.awaited => q = r
      /\ (\E q \in telling : q.awaited) => sync = "wait"
    BY DEF DeletionsInv, DeletionsTypeOK
<1>2. CASE sync = "idle" /\ box # {} /\ c
    <2>1. PICK new : new = [ids |-> box, awaited |-> TRUE, at |-> "sent"]
        OBVIOUS
    <2>2. new \in Request /\ new.ids = box /\ new.awaited /\ new.at = "sent"
        BY <1>1, <2>1 DEF Request
    <2>3. sync' = "wait" /\ telling' = telling \cup sending \cup {new}
        BY <1>2, <2>1 DEF SyncNow
    <2> QED
        BY <1>1, <1>2, <2>2, <2>3 DEF DeletionsInv
<1>3. CASE ~(sync = "idle" /\ box # {} /\ c)
    <2>1. sync' = sync /\ telling' = telling \cup sending
        BY <1>3 DEF SyncNow
    <2> QED
        BY <1>1, <2>1 DEF DeletionsInv
<1> QED
    BY <1>2, <1>3

LEMMA ForgottenIsNotAwaited ==
    ASSUME DeletionsInv
    PROVE  \A q \in Forgotten : q \in Request /\ ~q.awaited /\ q.at = "sent"
<1> SUFFICES ASSUME NEW q \in Forgotten PROVE q \in Request /\ ~q.awaited /\ q.at = "sent"
    OBVIOUS
<1>1. PICK r \in telling : r.at = "sent" /\ q = [r EXCEPT !.awaited = FALSE]
    BY DEF Forgotten
<1>2. r \in Request
    BY DEF DeletionsInv, DeletionsTypeOK
<1> QED
    BY <1>1, <1>2 DEF Request

LEMMA DeletionsKept == ASSUME DeletionsInv, [DeletionsNext]_deletionVars PROVE DeletionsInv'
<1>1. DeletionsTypeOK /\ KeptUntilDeleted
    BY DEF DeletionsInv
<1> USE DEF DeletionsTypeOK
<1>2. ASSUME NEW f \in Flush, NEW new \in FlushRecord, flush' = [flush EXCEPT ![f] = new],
             UNCHANGED <<box, onDisk, sync, online, telling, deleted, swallowed, behind>>,
             ghosts' \subseteq Ghost, aborted' \subseteq Ghost, KeptUntilDeleted'
      PROVE  DeletionsInv'
    <2>1. flush' \in [Flush -> FlushRecord]
        BY <1>1, <1>2
    <2> QED
        BY <1>1, <1>2, <2>1 DEF DeletionsInv
<1>3. ASSUME NEW f \in Flush, NEW new, flush' = [flush EXCEPT ![f] = new]
      PROVE  flush'[f].put = new.put /\ \A g \in Flush \ {f} : flush'[g] = flush[g]
    BY <1>1, <1>3
<1>4. ASSUME NEW f \in Flush, NEW ids \in SUBSET Ghost, FlushStart(f, ids) PROVE DeletionsInv'
    <2>1. PICK new : new = [todo |-> ids, put |-> {}, ids |-> {}]
        OBVIOUS
    <2>2. new \in FlushRecord /\ new.put = {} /\ flush[f].put = {}
        BY <1>4, <2>1 DEF FlushStart, NoFlush, FlushRecord
    <2>3. /\ flush' = [flush EXCEPT ![f] = new] /\ UNCHANGED <<ghosts, aborted>>
          /\ UNCHANGED <<box, onDisk, sync, online, telling, deleted, swallowed, behind>>
        BY <1>4, <2>1 DEF FlushStart
    <2>4. KeptUntilDeleted'
        BY <1>1, <1>3, <2>2, <2>3 DEF KeptUntilDeleted
    <2> QED
        BY <1>1, <1>2, <2>2, <2>3, <2>4
<1>5. ASSUME NEW f \in Flush, NEW id \in Ghost, FlushDelete(f, id) PROVE DeletionsInv'
    <2>1. PICK new : new = [todo |-> flush[f].todo \ {id}, put |-> flush[f].put \cup {id},
                            ids |-> flush[f].ids \cup {id}]
        OBVIOUS
    <2>2. new \in FlushRecord /\ new.put = flush[f].put \cup {id}
        BY <1>1, <2>1 DEF FlushRecord
    <2>3. /\ flush' = [flush EXCEPT ![f] = new] /\ ghosts' = ghosts \ {id} /\ UNCHANGED aborted
          /\ UNCHANGED <<box, onDisk, sync, online, telling, deleted, swallowed, behind>>
        BY <1>5, <2>1 DEF FlushDelete
    <2>4. KeptUntilDeleted'
        BY <1>1, <1>3, <2>2, <2>3 DEF KeptUntilDeleted
    <2> QED
        BY <1>1, <1>2, <2>2, <2>3, <2>4
<1>6. ASSUME NEW f \in Flush, FlushAll(f) PROVE DeletionsInv'
    <2>1. PICK new : new = [todo |-> {}, put |-> ghosts, ids |-> ghosts]
        OBVIOUS
    <2>2. new \in FlushRecord /\ new.put = ghosts /\ flush[f].put = {}
        BY <1>1, <1>6, <2>1 DEF FlushAll, NoFlush, FlushRecord
    <2>3. /\ flush' = [flush EXCEPT ![f] = new] /\ ghosts' = {} /\ UNCHANGED aborted
          /\ UNCHANGED <<box, onDisk, sync, online, telling, deleted, swallowed, behind>>
        BY <1>6, <2>1 DEF FlushAll
    <2>4. KeptUntilDeleted'
        BY <1>1, <1>3, <2>2, <2>3 DEF KeptUntilDeleted
    <2> QED
        BY <1>1, <1>2, <2>2, <2>3, <2>4
<1>7. NoFlush \in FlushRecord /\ NoFlush.put = {}
    BY DEF NoFlush, FlushRecord
<1>8. ASSUME NEW f \in Flush, FlushThrows(f) PROVE DeletionsInv'
    <2>1. /\ flush' = [flush EXCEPT ![f] = NoFlush] /\ UNCHANGED ghosts
          /\ aborted' = aborted \cup flush[f].put
          /\ UNCHANGED <<box, onDisk, sync, online, telling, deleted, swallowed, behind>>
        BY <1>8 DEF FlushThrows
    <2>2. KeptUntilDeleted'
        BY <1>1, <1>3, <1>7, <2>1 DEF KeptUntilDeleted
    <2>3. flush[f].put \subseteq Ghost
        BY <1>1 DEF FlushRecord
    <2> QED
        BY <1>1, <1>2, <1>7, <2>1, <2>2, <2>3
<1>9. ASSUME NEW f \in Flush, NEW ids, FlushPut(f, ids) PROVE DeletionsInv'
    <2>1. PICK new : new = [todo |-> {}, put |-> flush[f].put \ ids, ids |-> flush[f].ids]
        OBVIOUS
    <2>2. /\ new \in FlushRecord /\ new.put = flush[f].put \ ids
          /\ flush[f].put \subseteq Ghost
        BY <1>1, <2>1 DEF FlushRecord
    <2>3. /\ flush' = [flush EXCEPT ![f] = new] /\ ids \subseteq flush[f].put
          /\ box' = box \cup ids /\ onDisk' = onDisk \cup ids
          /\ behind' = IF sync = "idle" THEN behind ELSE behind \cup ids
          /\ UNCHANGED <<ghosts, sync, online, telling, deleted, swallowed, aborted>>
        BY <1>9, <2>1 DEF FlushPut
    <2>4. KeptUntilDeleted'
        BY <1>1, <1>3, <2>2, <2>3 DEF KeptUntilDeleted
    <2>5. \A q \in telling' : q.awaited => box' \subseteq q.ids \cup behind'
        BY <1>1, <2>3 DEF DeletionsInv
    <2>6. flush' \in [Flush -> FlushRecord]
        BY <1>1, <2>2, <2>3
    <2>7. /\ sync' = "clear" => box' \subseteq deleted' \cup swallowed' \cup behind'
          /\ box' \subseteq onDisk' \cup deleted' \cup swallowed' \cup behind'
        BY <2>3 DEF DeletionsInv
    <2> QED
        BY <1>1, <2>2, <2>3, <2>4, <2>5, <2>6, <2>7 DEF DeletionsInv
<1>10. ASSUME NEW f \in Flush, FlushSend(f) PROVE DeletionsInv'
    <2>1. /\ flush' = [flush EXCEPT ![f] = NoFlush] /\ flush[f].put = {}
          /\ SyncNow({[ids |-> flush[f].ids, awaited |-> FALSE, at |-> "sent"]}, online)
          /\ UNCHANGED <<ghosts, box, onDisk, online, deleted, swallowed, aborted, behind>>
        BY <1>10 DEF FlushSend
    <2>2. PICK new : new = [ids |-> flush[f].ids, awaited |-> FALSE, at |-> "sent"]
        OBVIOUS
    <2>3. new \in Request /\ ~new.awaited /\ new.at = "sent"
        BY <1>1, <2>2 DEF Request, FlushRecord
    <2>4. /\ sync' \in {"idle", "wait", "clear"} /\ telling' \subseteq Request
          /\ sync' = "clear" => sync = "clear"
          /\ \A q, r \in telling' : q.awaited /\ r.awaited => q = r
          /\ (\E q \in telling' : q.awaited) => sync' = "wait"
          /\ \A q \in telling' : q.at = "answered" =>
                 q.awaited /\ q.ids \subseteq deleted' \cup swallowed'
          /\ \A q \in telling' : q.awaited => box' \subseteq q.ids \cup behind'
        <3>1. {new} \in SUBSET Request /\ SyncNow({new}, online)
            BY <2>1, <2>2, <2>3
        <3>2. \A q \in {new} : ~q.awaited /\ q.at = "sent"
            BY <2>3
        <3> QED
            BY <2>1, <3>1, <3>2, SyncAsksForAll
    <2>5. flush' \in [Flush -> FlushRecord]
        BY <1>1, <1>7, <2>1
    <2>6. KeptUntilDeleted'
        BY <1>1, <1>3, <1>7, <2>1 DEF KeptUntilDeleted
    <2> QED
        BY <1>1, <2>1, <2>4, <2>5, <2>6 DEF DeletionsInv
<1>11. CASE Connects
    <2>1. /\ SyncNow({}, TRUE) /\ online' = TRUE
          /\ UNCHANGED <<ghosts, flush, box, onDisk, deleted, swallowed, aborted, behind>>
        BY <1>11 DEF Connects
    <2>2. /\ sync' \in {"idle", "wait", "clear"} /\ telling' \subseteq Request
          /\ sync' = "clear" => sync = "clear"
          /\ \A q, r \in telling' : q.awaited /\ r.awaited => q = r
          /\ (\E q \in telling' : q.awaited) => sync' = "wait"
          /\ \A q \in telling' : q.at = "answered" =>
                 q.awaited /\ q.ids \subseteq deleted' \cup swallowed'
          /\ \A q \in telling' : q.awaited => box' \subseteq q.ids \cup behind'
        BY <2>1, SyncAsksForAll
    <2>3. KeptUntilDeleted'
        BY <1>1, <2>1 DEF KeptUntilDeleted
    <2> QED
        BY <1>1, <2>1, <2>2, <2>3 DEF DeletionsInv
<1>12. CASE Disconnects
    <2>1. /\ UNCHANGED <<ghosts, flush, box, onDisk, sync, telling, deleted, swallowed, aborted,
                        behind>>
          /\ online' = FALSE
        BY <1>12 DEF Disconnects
    <2>2. KeptUntilDeleted'
        BY <1>1, <2>1 DEF KeptUntilDeleted
    <2> QED
        BY <1>1, <2>1, <2>2 DEF DeletionsInv
<1>13. ASSUME NEW q \in telling, DeleteLost(q) PROVE DeletionsInv'
    <2>1. /\ UNCHANGED <<ghosts, flush, box, onDisk, sync, online, deleted, swallowed, aborted,
                        behind>>
          /\ telling' = telling \ {q}
        BY <1>13 DEF DeleteLost
    <2>2. KeptUntilDeleted'
        BY <1>1, <2>1 DEF KeptUntilDeleted
    <2> QED
        BY <1>1, <2>1, <2>2 DEF DeletionsInv
<1>14. ASSUME NEW q \in telling, RelayDeletes(q) PROVE DeletionsInv'
    <2>1. PICK done \in SUBSET q.ids : /\ deleted' = deleted \cup done
                                       /\ swallowed' = swallowed \cup (q.ids \ done)
        BY <1>14 DEF RelayDeletes
    <2>2. /\ UNCHANGED <<ghosts, flush, box, onDisk, sync, online, aborted, behind>>
          /\ telling' = (telling \ {q})
                            \cup IF q.awaited THEN {[q EXCEPT !.at = "answered"]} ELSE {}
        BY <1>14 DEF RelayDeletes
    <2>3. q \in Request /\ q.ids \subseteq Ghost
        BY <1>1 DEF Request
    <2>4. KeptUntilDeleted'
        BY <1>1, <2>1, <2>2 DEF KeptUntilDeleted
    <2>7. /\ sync' = "clear" => box' \subseteq deleted' \cup swallowed' \cup behind'
          /\ box' \subseteq onDisk' \cup deleted' \cup swallowed' \cup behind'
        BY <2>1, <2>2 DEF DeletionsInv
    <2>5. CASE ~q.awaited
        <3>1. telling' \subseteq telling
            BY <2>2, <2>5
        <3> QED
            BY <1>1, <2>1, <2>2, <2>3, <2>4, <2>7, <3>1 DEF DeletionsInv
    <2>6. CASE q.awaited
        <3>1. PICK new : new = [q EXCEPT !.at = "answered"]
            OBVIOUS
        <3>2. new \in Request /\ new.ids = q.ids /\ new.awaited /\ new.at = "answered"
            BY <2>3, <2>6, <3>1 DEF Request
        <3>3. telling' = (telling \ {q}) \cup {new}
            BY <2>2, <2>6, <3>1
        <3>4. \A r \in telling \ {q} : ~r.awaited
            BY <1>1, <2>6
        <3>5. q.ids \subseteq deleted' \cup swallowed'
            BY <2>1
        <3> QED
            BY <1>1, <2>1, <2>2, <2>3, <2>4, <2>6, <2>7, <3>2, <3>3, <3>4, <3>5 DEF DeletionsInv
    <2> QED
        BY <2>5, <2>6
<1>15. ASSUME NEW q \in telling, SyncAnswered(q) PROVE DeletionsInv'
    <2>1. /\ UNCHANGED <<ghosts, flush, box, online, deleted, swallowed, aborted, behind>>
          /\ telling' = telling \ {q} /\ sync' \in {"clear", "idle"} /\ q.at = "answered"
          /\ onDisk' = {} \/ onDisk' = onDisk
        BY <1>15 DEF SyncAnswered
    <2>2. q.awaited /\ box \subseteq deleted \cup swallowed \cup behind
        BY <2>1 DEF DeletionsInv
    <2>3. KeptUntilDeleted'
        BY <1>1, <2>1 DEF KeptUntilDeleted
    <2>4. \A r \in telling' : ~r.awaited
        BY <1>1, <2>1, <2>2
    <2> QED
        BY <1>1, <2>1, <2>2, <2>3, <2>4 DEF DeletionsInv
<1>16. CASE SyncCleared
    <2>1. /\ UNCHANGED <<ghosts, flush, onDisk, online, telling, deleted, swallowed, aborted,
                        behind>>
          /\ box' = {} /\ sync = "clear" /\ sync' = "idle"
        BY <1>16 DEF SyncCleared
    <2>2. KeptUntilDeleted'
        BY <1>1, <2>1 DEF KeptUntilDeleted, DeletionsInv
    <2> QED
        BY <1>1, <2>1, <2>2 DEF DeletionsInv
<1>17. ASSUME NEW q \in telling', telling' = Forgotten
       PROVE  q \in Request /\ ~q.awaited /\ q.at = "sent"
    BY <1>17, ForgottenIsNotAwaited
<1>18. CASE SyncTimesOut
    <2>1. /\ UNCHANGED <<ghosts, flush, box, onDisk, online, deleted, swallowed, aborted, behind>>
          /\ telling' = Forgotten /\ sync' = "idle"
        BY <1>18 DEF SyncTimesOut
    <2>2. \A q \in telling' : q \in Request /\ ~q.awaited /\ q.at = "sent"
        BY <2>1, <1>17
    <2>3. KeptUntilDeleted'
        BY <1>1, <2>1 DEF KeptUntilDeleted
    <2> QED
        BY <1>1, <2>1, <2>2, <2>3 DEF DeletionsInv
<1>19. CASE PhoneStops
    <2>1. /\ UNCHANGED <<ghosts, onDisk, deleted, swallowed, behind>> /\ box' = onDisk
          /\ telling' = Forgotten /\ sync' = "idle" /\ online' = FALSE
          /\ flush' = [f \in Flush |-> NoFlush]
          /\ aborted' = aborted \cup UNION {flush[f].put : f \in Flush}
        BY <1>19 DEF PhoneStops
    <2>2. \A q \in telling' : q \in Request /\ ~q.awaited /\ q.at = "sent"
        BY <2>1, <1>17
    <2>3. KeptUntilDeleted'
        BY <1>1, <2>1 DEF KeptUntilDeleted, DeletionsInv
    <2>4. flush' \in [Flush -> FlushRecord]
        BY <1>7, <2>1
    <2>5. aborted' \subseteq Ghost
        BY <1>1, <2>1 DEF FlushRecord
    <2>6. box' \subseteq Ghost /\ onDisk' \subseteq Ghost /\ box' \subseteq onDisk'
        BY <1>1, <2>1
    <2>7. telling' \subseteq Request /\ (\A q \in telling' : ~q.awaited /\ q.at # "answered")
        BY <2>2
    <2>8. DeletionsTypeOK'
        BY <1>1, <2>1, <2>4, <2>5, <2>6, <2>7, ZenonT(40)
    <2> QED
        BY <2>1, <2>3, <2>6, <2>7, <2>8, ZenonT(40) DEF DeletionsInv
<1>20. CASE UNCHANGED deletionVars
    <2>1. KeptUntilDeleted'
        BY <1>1, <1>20 DEF KeptUntilDeleted, deletionVars
    <2> QED
        BY <1>1, <1>20, <2>1 DEF deletionVars, DeletionsInv
<1> QED
    BY <1>4, <1>5, <1>6, <1>8, <1>9, <1>10, <1>11, <1>12, <1>13, <1>14, <1>15, <1>16, <1>18, <1>19,
       <1>20 DEF DeletionsNext

\* Whatever requests and answers are lost, however flushes and syncs overlap, and
\* whenever the app ends.
THEOREM DeletionsAreKept == ServicesSpec => []KeptUntilDeleted
<1>1. ServicesInit => DeletionsInv
    BY DeletionsStart DEF ServicesInit
<1>2. DeletionsInv /\ [ServicesNext]_ServicesVars => DeletionsInv'
    BY OneAtATime, DeletionsKept
<1>3. DeletionsInv => KeptUntilDeleted
    BY DEF DeletionsInv
<1> QED
    BY <1>1, <1>2, <1>3, PTL DEF ServicesSpec
-----------------------------------------------------------------------------
(***************************************************************************)
(* Groups                                                                  *)
(***************************************************************************)

\* The member that the fan-out is at: what it has not, it gets.
CopiesGoOn(x) ==
    fan[x].pc = "copies" =>
        /\ fan[x].left # {}
        /\ fan[x].member \notin forgotten =>
               \A d \in early[x].gadgets[fan[x].member] :
                   <<x, fan[x].member, d>> \in copies \/ d \in fan[x].left

DealtWith(x, p) ==
    \/ <<x, p>> \in missed \/ Reached(x, p) \/ p \in fan[x].rest
    \/ fan[x].pc = "copies" /\ p = fan[x].member

FanSound(x) ==
    /\ fan[x].pc \notin {"unsent", "error"} => \A p \in early[x].members : DealtWith(x, p)
    /\ fan[x].pc = "ok" => fan[x].rest = {}
    /\ CopiesGoOn(x)
    /\ fan[x].pc = "copies" => fan[x].member \in Member
    /\ fan[x].pc # "unsent" =>
           \A p \in Member \ forgotten : early[x].gadgets[p] \subseteq gadgets[p]

GroupsInv == GroupsTypeOK /\ \A x \in Text : FanSound(x)

LEMMA GroupsStart == GroupsInit => GroupsInv
<1> SUFFICES ASSUME GroupsInit PROVE GroupsInv
    OBVIOUS
<1>1. GroupsTypeOK
    BY DEF GroupsInit, GroupsTypeOK, FanStep
<1> QED
    BY <1>1 DEF GroupsInit, GroupsInv, FanSound, CopiesGoOn

\* A step that leaves the fan-outs alone, whatever devices come or are forgotten.
LEMMA OthersRegister ==
    ASSUME GroupsInv, GroupsTypeOK', UNCHANGED <<fan, copies, early, missed>>,
           forgotten \subseteq forgotten',
           \A p \in Member \ forgotten' : gadgets[p] \subseteq gadgets'[p]
    PROVE  GroupsInv'
<1> SUFFICES ASSUME NEW x \in Text PROVE FanSound(x)'
    BY DEF GroupsInv
<1>1. FanSound(x)
    BY DEF GroupsInv
<1>2. \A p : Reached(x, p) => Reached(x, p)'
    BY DEF Reached
<1>3. \A p : DealtWith(x, p) => DealtWith(x, p)'
    BY <1>2 DEF DealtWith
<1> QED
    BY <1>1, <1>3 DEF FanSound, CopiesGoOn

\* A step of one fan-out leaves the others alone.
LEMMA OtherFans ==
    ASSUME GroupsInv, NEW x \in Text, NEW y \in Text \ {x},
           UNCHANGED <<gadgets, forgotten>>, early'[y] = early[y], fan'[y] = fan[y],
           copies \subseteq copies', missed \subseteq missed'
    PROVE  FanSound(y)'
<1>1. FanSound(y)
    BY DEF GroupsInv
<1>2. \A p : Reached(y, p) => Reached(y, p)'
    BY DEF Reached
<1>3. \A p : DealtWith(y, p) => DealtWith(y, p)'
    BY <1>2 DEF DealtWith
<1> QED
    BY <1>1, <1>3 DEF FanSound, CopiesGoOn

LEMMA FanKept ==
    ASSUME GroupsInv, NEW x \in Text,
           FanRead(x) \/ FanMember(x) \/ FanCopy(x) \/ FanFails(x) \/ FanEnds(x)
    PROVE  GroupsInv'
<1>1. /\ GroupsTypeOK /\ FanSound(x)
      /\ fan \in [Text -> [pc : FanStep, rest : SUBSET Member, member : Member \cup {Nobody},
                           left : SUBSET (Gadget \cup {NoGadget})]]
      /\ early \in [Text -> [members : SUBSET Member, gadgets : [Member -> SUBSET Gadget]]]
    BY DEF GroupsInv, GroupsTypeOK
<1>2. ASSUME GroupsTypeOK', FanSound(x)', UNCHANGED <<gadgets, forgotten>>,
             \A y \in Text \ {x} : early'[y] = early[y] /\ fan'[y] = fan[y],
             copies \subseteq copies', missed \subseteq missed'
      PROVE  GroupsInv'
    BY <1>2, OtherFans DEF GroupsInv
<1>3. CASE FanRead(x)
    <2>1. /\ UNCHANGED <<roster, rosterTtl, gadgets, joins, copies, forgotten, missed>>
          /\ fan[x].pc = "unsent" /\ roster \subseteq Member
          /\ fan' = [fan EXCEPT ![x] = [@ EXCEPT
                  !.pc = IF Sender[x] \in roster THEN "members" ELSE "error",
                  !.rest = IF Sender[x] \in roster THEN roster \ {Sender[x]} ELSE {}]]
          /\ early' = [early EXCEPT ![x] = [members |-> roster \ {Sender[x]},
                                            gadgets |-> gadgets]]
        BY <1>1, <1>3 DEF FanRead, GroupsTypeOK
    <2>2. /\ fan'[x].pc \in {"members", "error"}
          /\ fan'[x].pc = "members" => fan'[x].rest = roster \ {Sender[x]}
          /\ early'[x].members = roster \ {Sender[x]} /\ early'[x].gadgets = gadgets
          /\ \A y \in Text \ {x} : early'[y] = early[y] /\ fan'[y] = fan[y]
        BY <1>1, <2>1
    <2>3. GroupsTypeOK'
        <3>1. /\ fan' \in [Text -> [pc : FanStep, rest : SUBSET Member,
                                    member : Member \cup {Nobody},
                                    left : SUBSET (Gadget \cup {NoGadget})]]
            <4>1. PICK new : new = [fan[x] EXCEPT
                                 !.pc = IF Sender[x] \in roster THEN "members" ELSE "error",
                                 !.rest = IF Sender[x] \in roster THEN roster \ {Sender[x]}
                                          ELSE {}]
                OBVIOUS
            <4>2. fan' = [fan EXCEPT ![x] = new]
                BY <2>1, <4>1
            <4>3. PICK pc \in FanStep, rest \in SUBSET Member :
                      new = [fan[x] EXCEPT !.pc = pc, !.rest = rest]
                BY <2>1, <4>1 DEF FanStep
            <4>4. new \in [pc : FanStep, rest : SUBSET Member, member : Member \cup {Nobody},
                           left : SUBSET (Gadget \cup {NoGadget})]
                BY <1>1, <4>3
            <4> QED
                BY <1>1, <4>2, <4>4
        <3>2. early' \in [Text -> [members : SUBSET Member, gadgets : [Member -> SUBSET Gadget]]]
            BY <1>1, <2>1 DEF GroupsTypeOK
        <3> QED
            BY <1>1, <2>1, <3>1, <3>2 DEF GroupsTypeOK
    <2>4. FanSound(x)'
        BY <2>1, <2>2 DEF FanSound, CopiesGoOn, DealtWith
    <2> QED
        BY <1>2, <2>1, <2>2, <2>3, <2>4
<1>4. CASE FanMember(x)
    <2>1. PICK p \in fan[x].rest :
              fan' = [fan EXCEPT ![x] = [pc |-> "copies", rest |-> @.rest \ {p}, member |-> p,
                                         left |-> IF gadgets[p] = {} THEN {NoGadget}
                                                  ELSE gadgets[p]]]
        BY <1>4 DEF FanMember
    <2>2. /\ UNCHANGED <<roster, rosterTtl, gadgets, joins, copies, early, forgotten, missed>>
          /\ fan[x].pc = "members" /\ p \in Member
        BY <1>1, <1>4, <2>1 DEF FanMember
    <2>3. /\ fan'[x].pc = "copies" /\ fan'[x].rest = fan[x].rest \ {p} /\ fan'[x].member = p
          /\ fan'[x].left = IF gadgets[p] = {} THEN {NoGadget} ELSE gadgets[p]
          /\ \A y \in Text \ {x} : fan'[y] = fan[y]
        BY <1>1, <2>1
    <2>4. GroupsTypeOK'
        <3>1. gadgets[p] \subseteq Gadget
            BY <1>1, <2>2 DEF GroupsTypeOK
        <3>2. [pc |-> "copies", rest |-> fan[x].rest \ {p}, member |-> p,
               left |-> IF gadgets[p] = {} THEN {NoGadget} ELSE gadgets[p]]
                  \in [pc : FanStep, rest : SUBSET Member, member : Member \cup {Nobody},
                       left : SUBSET (Gadget \cup {NoGadget})]
            BY <1>1, <2>2, <3>1 DEF FanStep
        <3>3. PICK new : new = [pc |-> "copies", rest |-> fan[x].rest \ {p}, member |-> p,
                                left |-> IF gadgets[p] = {} THEN {NoGadget} ELSE gadgets[p]]
            OBVIOUS
        <3>4. fan' = [fan EXCEPT ![x] = new]
            BY <2>1, <3>3
        <3>5. fan' \in [Text -> [pc : FanStep, rest : SUBSET Member,
                                 member : Member \cup {Nobody},
                                 left : SUBSET (Gadget \cup {NoGadget})]]
            BY <1>1, <3>2, <3>3, <3>4
        <3> QED
            BY <1>1, <2>2, <3>5 DEF GroupsTypeOK
    <2>5. \A q \in early[x].members : DealtWith(x, q)'
        <3>1. \A q : Reached(x, q) => Reached(x, q)'
            BY <2>2 DEF Reached
        <3>2. \A q \in early[x].members : DealtWith(x, q)
            BY <1>1, <2>2 DEF FanSound
        <3> QED
            BY <2>2, <2>3, <3>1, <3>2 DEF DealtWith
    <2>6. CopiesGoOn(x)'
        BY <1>1, <2>2, <2>3 DEF CopiesGoOn, FanSound
    <2>7. FanSound(x)'
        BY <1>1, <2>2, <2>3, <2>5, <2>6 DEF FanSound
    <2> QED
        BY <1>2, <2>2, <2>3, <2>4, <2>7
<1>5. CASE FanCopy(x)
    <2>1. PICK d \in fan[x].left :
              /\ copies' = copies \cup {<<x, fan[x].member, d>>}
              /\ fan' = [fan EXCEPT ![x].left = @ \ {d},
                                    ![x].pc = IF fan[x].left = {d} THEN "members" ELSE @]
        BY <1>5 DEF FanCopy
    <2>2. /\ UNCHANGED <<roster, rosterTtl, gadgets, joins, early, forgotten, missed>>
          /\ fan[x].pc = "copies" /\ fan[x].member \in Member
          /\ d \in Gadget \cup {NoGadget}
        BY <1>1, <1>5, <2>1 DEF FanCopy, FanSound
    <2>3. /\ fan'[x].rest = fan[x].rest /\ fan'[x].member = fan[x].member
          /\ fan'[x].left = fan[x].left \ {d}
          /\ fan'[x].pc = IF fan[x].left = {d} THEN "members" ELSE "copies"
          /\ \A y \in Text \ {x} : fan'[y] = fan[y]
        BY <1>1, <2>1, <2>2
    <2>4. GroupsTypeOK'
        <3>1. fan' \in [Text -> [pc : FanStep, rest : SUBSET Member,
                                 member : Member \cup {Nobody},
                                 left : SUBSET (Gadget \cup {NoGadget})]]
            <4>1. fan' = [fan EXCEPT ![x] = fan'[x]]
                BY <1>1, <2>1
            <4>2. fan'[x] = [[fan[x] EXCEPT !.left = @ \ {d}] EXCEPT
                                !.pc = IF fan[x].left = {d} THEN "members" ELSE @]
                BY <1>1, <2>1
            <4>3. PICK pc \in FanStep, left \in SUBSET (Gadget \cup {NoGadget}) :
                      fan'[x] = [fan[x] EXCEPT !.left = left, !.pc = pc]
                <5>1. fan[x].pc \in FanStep /\ fan[x].left \ {d} \in SUBSET (Gadget \cup {NoGadget})
                    BY <1>1
                <5>2. CASE fan[x].left = {d}
                    <6>1. fan'[x] = [fan[x] EXCEPT !.left = fan[x].left \ {d}, !.pc = "members"]
                        BY <1>1, <4>2, <5>2
                    <6> QED
                        BY <5>1, <6>1 DEF FanStep
                <5>3. CASE fan[x].left # {d}
                    <6>1. fan'[x] = [fan[x] EXCEPT !.left = fan[x].left \ {d}, !.pc = fan[x].pc]
                        BY <1>1, <4>2, <5>3
                    <6> QED
                        BY <5>1, <6>1
                <5> QED
                    BY <5>2, <5>3
            <4>4. fan[x] \in [pc : FanStep, rest : SUBSET Member, member : Member \cup {Nobody},
                              left : SUBSET (Gadget \cup {NoGadget})]
                BY <1>1
            <4>5. fan'[x] \in [pc : FanStep, rest : SUBSET Member, member : Member \cup {Nobody},
                               left : SUBSET (Gadget \cup {NoGadget})]
                BY <4>3, <4>4
            <4> QED
                BY <1>1, <4>1, <4>5
        <3>2. <<x, fan[x].member, d>> \in Text \X Member \X (Gadget \cup {NoGadget})
            BY <2>2
        <3>3. copies' \subseteq Text \X Member \X (Gadget \cup {NoGadget})
            BY <1>1, <2>1, <3>2 DEF GroupsTypeOK
        <3> QED
            BY <1>1, <2>2, <3>1, <3>3 DEF GroupsTypeOK
    <2>5. CopiesGoOn(x)'
        BY <1>1, <2>1, <2>2, <2>3 DEF CopiesGoOn, FanSound
    <2>6. \A q \in early[x].members : DealtWith(x, q)'
        <3>1. \A q : Reached(x, q) => Reached(x, q)'
            BY <2>1, <2>2 DEF Reached
        <3>2. \A q \in early[x].members : DealtWith(x, q)
            BY <1>1, <2>2 DEF FanSound
        <3>3. ASSUME fan[x].left = {d} PROVE Reached(x, fan[x].member)'
            BY <1>1, <2>1, <2>2, <2>3, <3>3 DEF FanSound, CopiesGoOn, Reached
        <3>4. ASSUME NEW q \in early[x].members, q = fan[x].member PROVE DealtWith(x, q)'
            BY <2>3, <3>3, <3>4 DEF DealtWith, Reached
        <3>5. ASSUME NEW q \in early[x].members, q # fan[x].member PROVE DealtWith(x, q)'
            BY <2>2, <2>3, <3>1, <3>2, <3>5 DEF DealtWith
        <3> QED
            BY <3>4, <3>5
    <2>7. FanSound(x)'
        BY <1>1, <2>2, <2>3, <2>5, <2>6 DEF FanSound
    <2> QED
        BY <1>2, <2>1, <2>2, <2>3, <2>4, <2>7
<1>6. CASE FanFails(x)
    <2>1. /\ UNCHANGED <<roster, rosterTtl, gadgets, joins, copies, early, forgotten>>
          /\ fan[x].pc = "copies" /\ fan[x].member \in Member
          /\ missed' = missed \cup {<<x, fan[x].member>>}
          /\ fan' = [fan EXCEPT ![x].pc = "members", ![x].left = {}]
        BY <1>1, <1>6 DEF FanFails, FanSound
    <2>2. /\ fan'[x].rest = fan[x].rest /\ fan'[x].pc = "members"
          /\ \A y \in Text \ {x} : fan'[y] = fan[y]
        BY <1>1, <2>1
    <2>3. GroupsTypeOK'
        <3>1. fan' \in [Text -> [pc : FanStep, rest : SUBSET Member,
                                 member : Member \cup {Nobody},
                                 left : SUBSET (Gadget \cup {NoGadget})]]
            <4>1. "members" \in FanStep /\ {} \in SUBSET (Gadget \cup {NoGadget})
                BY DEF FanStep
            <4>2. fan[x] \in [pc : FanStep, rest : SUBSET Member, member : Member \cup {Nobody},
                              left : SUBSET (Gadget \cup {NoGadget})]
                BY <1>1
            <4>3. PICK new : new = [fan[x] EXCEPT !.pc = "members", !.left = {}]
                OBVIOUS
            <4>4. fan' = [fan EXCEPT ![x] = new]
                BY <2>1, <4>3
            <4>5. new \in [pc : FanStep, rest : SUBSET Member, member : Member \cup {Nobody},
                           left : SUBSET (Gadget \cup {NoGadget})]
                BY <4>1, <4>2, <4>3
            <4> QED
                BY <1>1, <4>4, <4>5
        <3> QED
            BY <1>1, <2>1, <3>1 DEF GroupsTypeOK
    <2>4. \A q \in early[x].members : DealtWith(x, q)'
        <3>1. \A q : Reached(x, q) => Reached(x, q)'
            BY <2>1 DEF Reached
        <3>2. \A q \in early[x].members : DealtWith(x, q)
            BY <1>1, <2>1 DEF FanSound
        <3> QED
            BY <2>1, <2>2, <3>1, <3>2 DEF DealtWith
    <2>5. FanSound(x)'
        BY <1>1, <2>1, <2>2, <2>4 DEF FanSound, CopiesGoOn
    <2> QED
        BY <1>2, <2>1, <2>2, <2>3, <2>5
<1>7. CASE FanEnds(x)
    <2>1. /\ UNCHANGED <<roster, rosterTtl, gadgets, joins, copies, early, forgotten, missed>>
          /\ fan[x].pc = "members" /\ fan[x].rest = {}
          /\ fan' = [fan EXCEPT ![x].pc = "ok"]
        BY <1>7 DEF FanEnds
    <2>2. /\ fan'[x].rest = fan[x].rest /\ fan'[x].pc = "ok"
          /\ \A y \in Text \ {x} : fan'[y] = fan[y]
        BY <1>1, <2>1
    <2>3. GroupsTypeOK'
        <3>1. fan' \in [Text -> [pc : FanStep, rest : SUBSET Member,
                                 member : Member \cup {Nobody},
                                 left : SUBSET (Gadget \cup {NoGadget})]]
            <4>1. fan' = [fan EXCEPT ![x] = fan'[x]] /\ fan'[x] = [fan[x] EXCEPT !.pc = "ok"]
                BY <1>1, <2>1
            <4>2. fan'[x] \in [pc : FanStep, rest : SUBSET Member, member : Member \cup {Nobody},
                               left : SUBSET (Gadget \cup {NoGadget})]
                <5>1. fan[x] \in [pc : FanStep, rest : SUBSET Member, member : Member \cup {Nobody},
                                  left : SUBSET (Gadget \cup {NoGadget})]
                    BY <1>1
                <5>2. "ok" \in FanStep
                    BY DEF FanStep
                <5> QED
                    BY <4>1, <5>1, <5>2
            <4> QED
                BY <1>1, <4>1, <4>2
        <3> QED
            BY <1>1, <2>1, <3>1 DEF GroupsTypeOK
    <2>4. \A q \in early[x].members : DealtWith(x, q)'
        <3>1. \A q : Reached(x, q) => Reached(x, q)'
            BY <2>1 DEF Reached
        <3>2. \A q \in early[x].members : DealtWith(x, q)
            BY <1>1, <2>1 DEF FanSound
        <3> QED
            BY <2>1, <2>2, <3>1, <3>2 DEF DealtWith
    <2>5. FanSound(x)'
        BY <1>1, <2>1, <2>2, <2>4 DEF FanSound, CopiesGoOn
    <2> QED
        BY <1>2, <2>1, <2>2, <2>3, <2>5
<1> QED
    BY <1>3, <1>4, <1>5, <1>6, <1>7

LEMMA GroupsKept == ASSUME GroupsInv, [GroupsNext]_groupVars PROVE GroupsInv'
<1>1. GroupsTypeOK
    BY DEF GroupsInv
<1>2. ASSUME NEW members \in SUBSET Member, CreateGroup(members) PROVE GroupsInv'
    <2>1. GroupsTypeOK'
        BY <1>1, <1>2, GroupsAssumption DEF CreateGroup, GroupsTypeOK
    <2> QED
        BY <1>2, <2>1, OthersRegister DEF CreateGroup
<1>3. CASE SetLifetime \/ GroupExpires
    <2>1. GroupsTypeOK'
        BY <1>1, <1>3 DEF SetLifetime, GroupExpires, GroupsTypeOK
    <2> QED
        BY <1>3, <2>1, OthersRegister DEF SetLifetime, GroupExpires
<1>4. ASSUME NEW p \in Member, NEW d \in Gadget, AddGadget(p, d) PROVE GroupsInv'
    <2>1. GroupsTypeOK'
        BY <1>1, <1>4 DEF AddGadget, GroupsTypeOK
    <2>2. \A q \in Member : gadgets[q] \subseteq gadgets'[q]
        BY <1>1, <1>4 DEF AddGadget, GroupsTypeOK
    <2> QED
        BY <1>4, <2>1, <2>2, OthersRegister DEF AddGadget
<1>5. ASSUME NEW p \in Member, GadgetsExpire(p) PROVE GroupsInv'
    <2>1. GroupsTypeOK'
        BY <1>1, <1>5 DEF GadgetsExpire, GroupsTypeOK
    <2>2. \A q \in Member \ forgotten' : gadgets'[q] = gadgets[q]
        BY <1>1, <1>5 DEF GadgetsExpire, GroupsTypeOK
    <2> QED
        BY <1>5, <2>1, <2>2, OthersRegister DEF GadgetsExpire
<1>6. ASSUME NEW x \in Text,
             FanRead(x) \/ FanMember(x) \/ FanCopy(x) \/ FanFails(x) \/ FanEnds(x)
      PROVE  GroupsInv'
    BY <1>6, FanKept
<1>7. CASE UNCHANGED groupVars
    <2>1. GroupsTypeOK'
        BY <1>1, <1>7 DEF groupVars, GroupsTypeOK
    <2> QED
        BY <1>7, <2>1, OthersRegister DEF groupVars
<1> QED
    BY <1>2, <1>3, <1>4, <1>5, <1>6, <1>7 DEF GroupsNext

\* Whatever joins, expires or fails while a message fans out.
THEOREM MissedHaveFailed == ServicesSpec => []OnlyFailedMissed
<1>1. ServicesInit => GroupsInv
    BY GroupsStart DEF ServicesInit
<1>2. GroupsInv /\ [ServicesNext]_ServicesVars => GroupsInv'
    BY OneAtATime, GroupsKept
<1>3. GroupsInv => OnlyFailedMissed
    BY DEF GroupsInv, FanSound, DealtWith, OnlyFailedMissed
<1> QED
    BY <1>1, <1>2, <1>3, PTL DEF ServicesSpec
-----------------------------------------------------------------------------
(***************************************************************************)
(* Gateway: routing                                                        *)
(***************************************************************************)

\* The calls between the read of the counters and the count.
Calling == {s \in Socket : Is(s, "count")}

LEMMA CallingIsFinite == IsFiniteSet(Calling) /\ Counting = Cardinality(Calling) /\ Counting \in Nat
<1>1. Calling \subseteq Socket /\ IsFiniteSet(Socket)
    BY GatewayAssumption DEF Calling
<1>2. IsFiniteSet(Calling)
    BY <1>1, FS_Subset
<1>3. Counting = Cardinality(Calling)
    BY DEF Counting, Calling
<1> QED
    BY <1>2, <1>3, FS_CardinalityType

\* A call knows its message, and from the look at the directory on its relay.
CallOK(s) ==
    /\ handler[s].pc # "idle" =>
           handler[s].msg \in Direct /\ told[handler[s].msg] # "unsent"
    /\ handler[s].pc \in {"queue", "link", "await"} =>
           /\ handler[s].relay \in Relay
           /\ To(handler[s].msg) \notin moved => handler[s].relay = Route(handler[s].msg)
    /\ handler[s].pc = "queue" => handler[s].relay = Here

ForwardOK(q) ==
    /\ told[q.msg] # "unsent"
    /\ To(q.msg) \notin moved => q.relay = Route(q.msg)
    /\ q.at = "ok" => EntryAt(q.relay, q.msg) \in inbox
    /\ q.live => /\ handler[q.by].pc = "await" /\ handler[q.by].msg = q.msg
                  /\ handler[q.by].relay = q.relay

EntryOK(e) ==
    /\ told[e.msg] # "unsent"
    /\ To(e.msg) \notin moved => e = EntryAt(Route(e.msg), e.msg)

ToldOK(m) == told[m] = "ok" /\ To(m) \notin moved => EntryAt(Route(m), m) \in inbox

RoutingInv ==
    /\ GatewayTypeOK
    /\ \A s \in Socket : CallOK(s)
    /\ \A q \in wire : ForwardOK(q)
    /\ \A q, r \in wire : q.live /\ r.live /\ q.by = r.by => q = r
    /\ \A e \in inbox : EntryOK(e)
    /\ \A m \in Direct : ToldOK(m)

Handlers == [Socket -> [pc : Step, msg : Direct \cup {None}, relay : Relay \cup {None}]]

Answered == [Direct -> {"unsent", "waiting", "ok", "error"}]

LEMMA RoutingStarts == GatewayInit => RoutingInv
<1> SUFFICES ASSUME GatewayInit PROVE RoutingInv
    OBVIOUS
<1>1. /\ handler \in Handlers /\ told \in Answered
      /\ joining \in [Person -> [pc : {"idle", "relay"}, relay : Relay \cup {None},
                                 dev : Device \cup {None}]]
      /\ \A s \in Socket : handler[s].pc = "idle"
      /\ \A m \in Direct : told[m] = "unsent"
    BY DEF GatewayInit, Free, Step, Handlers, Answered
<1>2. GatewayTypeOK
    BY <1>1 DEF GatewayInit, GatewayTypeOK, Handlers, Answered
<1> QED
    BY <1>1, <1>2 DEF GatewayInit, RoutingInv, CallOK, ToldOK

LEMMA RouteIsRelay ==
    ASSUME GatewayTypeOK, NEW m \in Direct
    PROVE  Route(m) \in Relay /\ EntryAt(Here, m) \in Entry
           /\ \A r \in Relay : EntryAt(r, m) \in Entry
<1>1. m[2] \in Person /\ m[3] \in Device \cup {NoDevice} /\ Here \in Relay
    BY GatewayAssumption
<1>2. Lookup(m) \in Relay \cup {None}
    BY <1>1 DEF Lookup, To, GatewayTypeOK
<1> QED
    BY <1>1, <1>2 DEF Route, EntryAt, Entry, To

\* What was said about a message that was sent stays said while its recipient's
\* entry stays.
Frame ==
    /\ inbox \subseteq inbox' /\ moved \subseteq moved'
    /\ \A m \in Direct : told[m] # "unsent" =>
           told'[m] # "unsent" /\ (To(m) \notin moved' => Route(m)' = Route(m))

LEMMA CallStays ==
    ASSUME RoutingInv, Frame, NEW s \in Socket, handler'[s] = handler[s]
    PROVE  CallOK(s)'
<1>1. CallOK(s)
    BY DEF RoutingInv
<1> QED
    BY <1>1 DEF CallOK, Frame, To, Route, Lookup

LEMMA EntryStays ==
    ASSUME RoutingInv, Frame, NEW e \in inbox
    PROVE  EntryOK(e)'
<1>1. EntryOK(e) /\ e.msg \in Direct
    BY DEF RoutingInv, GatewayTypeOK, Entry
<1> QED
    BY <1>1 DEF EntryOK, Frame, To, Route, Lookup, EntryAt

LEMMA ForwardStays ==
    ASSUME RoutingInv, Frame, NEW q \in wire, q.live => handler'[q.by] = handler[q.by]
    PROVE  ForwardOK(q)'
<1>1. ForwardOK(q) /\ q.msg \in Direct
    BY DEF RoutingInv, GatewayTypeOK, Delivery
<1> QED
    BY <1>1 DEF ForwardOK, Frame, To, Route, Lookup, EntryAt

LEMMA AnswerStays ==
    ASSUME RoutingInv, Frame, NEW m \in Direct, told'[m] = "ok" => told[m] = "ok"
    PROVE  ToldOK(m)'
<1>1. ToldOK(m)
    BY DEF RoutingInv
<1> QED
    BY <1>1 DEF ToldOK, Frame, To, Route, Lookup, EntryAt

LEMMA DirectoryFrames ==
    ASSUME RoutingInv, DirectoryStep
    PROVE  Frame /\ GatewayTypeOK' /\ UNCHANGED <<sendVars, linkVars, inbox>>
<1>1. GatewayTypeOK /\ UNCHANGED <<sendVars, linkVars, inbox>>
    BY DEF RoutingInv, DirectoryStep
<1>2. PICK p \in Person :
          \/ \E d \in Device, r \in Relay : RegisterHome(p, d, r)
          \/ RegisterRelay(p) \/ EntryExpires(p)
    BY DEF DirectoryStep
<1>3. /\ home' \in [Person -> Relay \cup {None}]
      /\ deviceRelay' \in [Person \X Device -> Relay \cup {None}]
      /\ \A x \in Person \ {p} : home'[x] = home[x]
      /\ \A x \in Person \ {p}, d \in Device : deviceRelay'[<<x, d>>] = deviceRelay[<<x, d>>]
    <2> DEFINE Changes ==
            /\ home' \in [Person -> Relay \cup {None}]
            /\ deviceRelay' \in [Person \X Device -> Relay \cup {None}]
            /\ \A x \in Person \ {p} : home'[x] = home[x]
            /\ \A x \in Person \ {p}, d \in Device :
                   deviceRelay'[<<x, d>>] = deviceRelay[<<x, d>>]
    <2>1. /\ home \in [Person -> Relay \cup {None}]
          /\ deviceRelay \in [Person \X Device -> Relay \cup {None}]
        BY <1>1 DEF GatewayTypeOK
    <2>2. ASSUME NEW r \in Relay \cup {None}, home' = [home EXCEPT ![p] = r],
                 UNCHANGED deviceRelay
          PROVE  Changes
        BY <2>1, <2>2
    <2>3. ASSUME NEW d, NEW r \in Relay \cup {None},
                 deviceRelay' = [deviceRelay EXCEPT ![<<p, d>>] = r], UNCHANGED home
          PROVE  Changes
        BY <2>1, <2>3
    <2>4. ASSUME NEW d \in Device, NEW r \in Relay, RegisterHome(p, d, r) PROVE Changes
        BY <2>2, <2>4 DEF RegisterHome
    <2>5. CASE RegisterRelay(p)
        <3>1. joining[p].relay \in Relay \cup {None}
            BY <1>1 DEF GatewayTypeOK
        <3> QED
            BY <2>1, <2>3, <2>5, <3>1 DEF RegisterRelay
    <2>6. CASE EntryExpires(p)
        BY <2>2, <2>3, <2>6 DEF EntryExpires
    <2> QED
        BY <1>2, <2>4, <2>5, <2>6
<1>4. joining' \in [Person -> [pc : {"idle", "relay"}, relay : Relay \cup {None},
                               dev : Device \cup {None}]]
    BY SMTT(30), <1>1, <1>2 DEF GatewayTypeOK, RegisterHome, RegisterRelay, EntryExpires
<1>5. moved' = MovedBy(p) /\ moves' \in Nat
    BY <1>1, <1>2 DEF GatewayTypeOK, RegisterHome, RegisterRelay, EntryExpires, Moves
<1>6. moved' \subseteq Person /\ moved \subseteq moved'
    BY <1>1, <1>5 DEF GatewayTypeOK, MovedBy
<1>7. GatewayTypeOK'
    BY <1>1, <1>3, <1>4, <1>5, <1>6 DEF GatewayTypeOK, sendVars, linkVars
<1>8. ASSUME NEW m \in Direct, told[m] # "unsent", To(m) \notin moved'
      PROVE  Route(m)' = Route(m)
    <2>1. To(m) # p
        BY <1>5, <1>8 DEF MovedBy
    <2>2. m[2] \in Person \ {p} /\ m[3] \in Device \cup {NoDevice}
        BY <2>1, GatewayAssumption DEF To
    <2> QED
        BY <1>3, <2>2 DEF Route, Lookup, To
<1> QED
    BY <1>1, <1>6, <1>7, <1>8 DEF Frame, sendVars

LEMMA DirectoryKeeps == ASSUME RoutingInv, DirectoryStep PROVE RoutingInv'
<1>1. Frame /\ GatewayTypeOK' /\ UNCHANGED <<sendVars, linkVars, inbox>>
    BY DirectoryFrames
<1>2. \A s \in Socket : CallOK(s)'
    BY <1>1, CallStays DEF sendVars
<1>3. \A q \in wire' : ForwardOK(q)'
    BY <1>1, ForwardStays DEF sendVars, linkVars
<1>4. \A e \in inbox' : EntryOK(e)'
    BY <1>1, EntryStays
<1>5. \A m \in Direct : ToldOK(m)'
    BY <1>1, AnswerStays DEF sendVars
<1> QED
    BY <1>1, <1>2, <1>3, <1>4, <1>5 DEF RoutingInv, linkVars

\* The steps that leave the directory alone.
LEMMA SendingFrames ==
    ASSUME UNCHANGED directoryVars, inbox \subseteq inbox',
           \A m \in Direct : told[m] # "unsent" => told'[m] # "unsent"
    PROVE  Frame /\ \A m : Route(m)' = Route(m)
<1>1. \A m : Route(m)' = Route(m)
    BY DEF directoryVars, Route, Lookup, To
<1> QED
    BY <1>1 DEF Frame, directoryVars

LEMMA SendReadKeeps ==
    ASSUME RoutingInv, UNCHANGED directoryVars, NEW s \in Socket, NEW m \in Direct, SendRead(s, m)
    PROVE  RoutingInv'
<1>1. /\ GatewayTypeOK /\ handler \in Handlers /\ told \in Answered
      /\ handler[s].pc = "idle" /\ UNCHANGED <<hour, day, inbox, linkVars>>
    BY DEF RoutingInv, GatewayTypeOK, Handlers, Answered, SendRead, Is
<1>2. /\ told' \in Answered /\ told'[m] \in {"error", "waiting"}
      /\ \A x \in Direct \ {m} : told'[x] = told[x]
    BY <1>1 DEF SendRead, Answered
<1>3. Frame
    BY <1>1, <1>2, SendingFrames
<1>4. /\ handler' \in Handlers /\ peak' \in Nat
      /\ \A x \in Socket \ {s} : handler'[x] = handler[x]
      /\ handler'[s] = handler[s] \/ (handler'[s].pc = "count" /\ handler'[s].msg = m)
    <2>1. CASE UNCHANGED <<handler, peak>>
        BY <1>1, <2>1 DEF GatewayTypeOK
    <2>2. CASE /\ handler' = [handler EXCEPT ![s] = [Free EXCEPT !.pc = "count", !.msg = m]]
               /\ peak' = IF Counting < peak THEN peak ELSE Counting + 1
        <3>1. PICK new : new = [Free EXCEPT !.pc = "count", !.msg = m]
            OBVIOUS
        <3>2. /\ new \in [pc : Step, msg : Direct \cup {None}, relay : Relay \cup {None}]
              /\ new.pc = "count" /\ new.msg = m
            BY <3>1 DEF Free, Step
        <3>3. Counting \in Nat
            BY CallingIsFinite
        <3>4. handler' = [handler EXCEPT ![s] = new]
            BY <2>2, <3>1
        <3>5. peak' \in Nat
            BY <1>1, <2>2, <3>3 DEF GatewayTypeOK
        <3> QED
            BY <1>1, <3>2, <3>4, <3>5 DEF Handlers
    <2> QED
        BY <2>1, <2>2 DEF SendRead
<1>5. GatewayTypeOK'
    <2>1. \A x \in Socket : handler'[x].pc # "idle" => handler'[x].msg # None
        BY <1>1, <1>4, GatewayAssumption DEF GatewayTypeOK
    <2>2. sends' \in Nat
        BY <1>1 DEF GatewayTypeOK, SendRead
    <2> QED
        BY <1>1, <1>2, <1>4, <2>1, <2>2
           DEF GatewayTypeOK, directoryVars, linkVars, Handlers, Answered
<1>6. \A x \in Socket : CallOK(x)'
    <2>1. CASE handler'[s] = handler[s]
        BY <1>3, <1>4, <2>1, CallStays
    <2>2. CASE handler'[s].pc = "count" /\ handler'[s].msg = m
        <3>1. CallOK(s)'
            BY <1>2, <2>2 DEF CallOK
        <3> QED
            BY <1>3, <1>4, <3>1, CallStays
    <2> QED
        BY <1>4, <2>1, <2>2
<1>7. \A q \in wire : q.live => q.by # s /\ q.by \in Socket
    BY <1>1 DEF RoutingInv, ForwardOK, GatewayTypeOK, Delivery
<1>8. \A q \in wire' : ForwardOK(q)'
    BY <1>1, <1>3, <1>4, <1>7, ForwardStays DEF linkVars
<1>9. \A e \in inbox' : EntryOK(e)'
    BY <1>1, <1>3, EntryStays
<1>10. \A x \in Direct : ToldOK(x)'
    BY <1>2, <1>3, AnswerStays
<1> QED
    BY <1>1, <1>5, <1>6, <1>8, <1>9, <1>10 DEF RoutingInv, linkVars

\* A call goes on, before or after the time that it waits for another relay.
LEMMA CallGoesOn ==
    ASSUME RoutingInv, UNCHANGED directoryVars,
           UNCHANGED <<sends, told, inbox, wire, strict, linked, drops>>,
           hour' \in Nat, day' \in Nat, peak' \in Nat, lost' \subseteq Socket,
           handler' \in Handlers,
           \A s \in Socket : handler'[s] = handler[s]
                             \/ (handler[s].pc # "await" /\ CallOK(s)')
    PROVE  RoutingInv'
<1>1. GatewayTypeOK
    BY DEF RoutingInv
<1>2. Frame
    BY SendingFrames
<1>3. \A s \in Socket : CallOK(s)'
    BY <1>2, CallStays
<1>4. GatewayTypeOK'
    <2>1. \A s \in Socket : handler'[s].pc # "idle" => handler'[s].msg # None
        BY <1>3, GatewayAssumption DEF CallOK
    <2> QED
        BY <1>1, <2>1 DEF GatewayTypeOK, directoryVars, Handlers
<1>5. \A q \in wire : q.live => handler'[q.by] = handler[q.by]
    BY <1>1 DEF RoutingInv, ForwardOK, GatewayTypeOK, Delivery
<1>6. \A q \in wire' : ForwardOK(q)'
    BY <1>2, <1>5, ForwardStays
<1>7. \A e \in inbox' : EntryOK(e)'
    BY <1>2, EntryStays
<1>8. \A m \in Direct : ToldOK(m)'
    BY <1>2, AnswerStays
<1> QED
    BY <1>3, <1>4, <1>6, <1>7, <1>8 DEF RoutingInv

\* A call ends with an answer, which is "ok" only if the relay it went to has the
\* message.
LEMMA CallEnds ==
    ASSUME RoutingInv, UNCHANGED directoryVars,
           UNCHANGED <<hour, day, peak, sends, strict, linked, drops, lost>>,
           NEW s \in Socket, NEW answer \in {"ok", "error"}, Answers(s, answer),
           handler[s].pc \in {"queue", "link", "await"},
           wire' \subseteq wire, \A q \in wire' : q.live => q.by # s,
           inbox \subseteq inbox',
           inbox' \subseteq inbox \cup {EntryAt(handler[s].relay, handler[s].msg)},
           answer = "ok" => EntryAt(handler[s].relay, handler[s].msg) \in inbox'
    PROVE  RoutingInv'
<1>1. /\ GatewayTypeOK /\ handler \in Handlers /\ told \in Answered /\ CallOK(s)
      /\ handler[s].relay \in Relay /\ handler[s].msg \in Direct
      /\ told[handler[s].msg] # "unsent"
    BY DEF RoutingInv, GatewayTypeOK, CallOK, Handlers, Answered
<1>2. /\ told' \in Answered /\ told'[handler[s].msg] = answer
      /\ \A m \in Direct \ {handler[s].msg} : told'[m] = told[m]
    BY <1>1 DEF Answers, Answered
<1>3. /\ handler' \in Handlers /\ handler'[s].pc = "idle"
      /\ \A x \in Socket \ {s} : handler'[x] = handler[x]
    BY <1>1 DEF Answers, Handlers, Free, Step
<1>4. Frame /\ \A m : Route(m)' = Route(m)
    BY <1>2, SendingFrames
<1>5. GatewayTypeOK'
    <2>1. \A x \in Socket : handler'[x].pc # "idle" => handler'[x].msg # None
        BY <1>1, <1>3 DEF GatewayTypeOK
    <2>2. inbox' \subseteq Entry
        BY <1>1, RouteIsRelay DEF GatewayTypeOK
    <2> QED
        BY <1>1, <1>2, <1>3, <2>1, <2>2 DEF GatewayTypeOK, directoryVars, Handlers, Answered
<1>6. \A x \in Socket : CallOK(x)'
    BY <1>3, <1>4, CallStays DEF CallOK
<1>7. \A q \in wire' : ForwardOK(q)'
    <2>1. \A q \in wire' : q.by \in Socket
        BY <1>1 DEF GatewayTypeOK, Delivery
    <2> QED
        BY <1>3, <1>4, <2>1, ForwardStays
<1>8. moved' = moved
    BY DEF directoryVars
<1>9. \A e \in inbox' : EntryOK(e)'
    <2>1. ASSUME NEW e, e = EntryAt(handler[s].relay, handler[s].msg) PROVE EntryOK(e)'
        <3>1. e.msg = handler[s].msg
            BY <2>1 DEF EntryAt
        <3>2. told'[e.msg] # "unsent"
            BY <1>2, <3>1
        <3>3. To(e.msg) \notin moved => e = EntryAt(Route(e.msg), e.msg)
            BY <1>1, <2>1, <3>1 DEF CallOK
        <3> QED
            BY <1>4, <1>8, <3>2, <3>3 DEF EntryOK, EntryAt, To
    <2> QED
        BY <1>4, <2>1, EntryStays
<1>10. \A m \in Direct : ToldOK(m)'
    <2>1. ASSUME NEW m \in Direct, m = handler[s].msg, answer = "ok" PROVE ToldOK(m)'
        <3>1. To(m) \notin moved => EntryAt(Route(m), m) \in inbox'
            BY <1>1, <2>1 DEF CallOK
        <3>2. told'[m] = "ok" /\ To(m) \notin moved' => EntryAt(Route(m), m)' \in inbox'
            BY <1>4, <1>8, <3>1 DEF EntryAt, To
        <3> QED
            BY <3>2 DEF ToldOK, To
    <2>2. ASSUME NEW m \in Direct, m # handler[s].msg \/ answer # "ok" PROVE ToldOK(m)'
        BY <1>2, <1>4, <2>2, AnswerStays
    <2> QED
        BY <2>1, <2>2
<1> QED
    BY <1>5, <1>6, <1>7, <1>9, <1>10 DEF RoutingInv

LEMMA ForwardKeeps ==
    ASSUME RoutingInv, UNCHANGED directoryVars, NEW s \in Socket, Forward(s)
    PROVE  RoutingInv'
<1>1. /\ GatewayTypeOK /\ handler \in Handlers /\ CallOK(s) /\ handler[s].pc = "link"
      /\ handler[s].relay \in Relay /\ handler[s].msg \in Direct
      /\ told[handler[s].msg] # "unsent"
      /\ UNCHANGED <<hour, day, peak, sends, inbox>>
    BY DEF RoutingInv, GatewayTypeOK, CallOK, Handlers, Forward, Is
<1>2. \A q \in wire : q.live => q.by # s
    BY <1>1 DEF RoutingInv, ForwardOK
<1>3. ASSUME Goes(s, "await"), UNCHANGED told
      PROVE  /\ handler' \in Handlers /\ CallOK(s)' /\ handler'[s].pc = "await"
             /\ handler'[s].msg = handler[s].msg /\ handler'[s].relay = handler[s].relay
             /\ \A x \in Socket \ {s} : handler'[x] = handler[x]
    <2>1. /\ handler' \in Handlers /\ handler'[s].pc = "await"
          /\ handler'[s].msg = handler[s].msg /\ handler'[s].relay = handler[s].relay
          /\ \A x \in Socket \ {s} : handler'[x] = handler[x]
        BY <1>1, <1>3 DEF Goes, Handlers, Step
    <2>2. \A m : Route(m)' = Route(m)
        BY DEF directoryVars, Route, Lookup, To
    <2>3. moved' = moved
        BY DEF directoryVars
    <2>4. CallOK(s)'
        BY <1>1, <1>3, <2>1, <2>2, <2>3 DEF CallOK, To
    <2> QED
        BY <2>1, <2>4
<1>4. CASE /\ handler[s].relay \in strict /\ lost' = lost \cup {s} /\ Goes(s, "await")
           /\ UNCHANGED <<told, strict, linked, wire, drops>>
    <2>1. /\ hour' \in Nat /\ day' \in Nat /\ peak' \in Nat /\ lost' \subseteq Socket
        BY <1>1, <1>4 DEF GatewayTypeOK
    <2> QED
        BY <1>1, <1>3, <1>4, <2>1, CallGoesOn
<1>5. CASE Answers(s, "error") /\ UNCHANGED linkVars
    BY <1>1, <1>2, <1>5, CallEnds DEF linkVars
<1>6. CASE /\ handler[s].relay \notin strict /\ linked' = linked \cup {handler[s].relay}
           /\ wire' = wire \cup {[by |-> s, msg |-> handler[s].msg, relay |-> handler[s].relay,
                                  at |-> "sent", live |-> TRUE]}
           /\ Goes(s, "await") /\ UNCHANGED <<told, strict, drops, lost>>
    <2>1. PICK new : new = [by |-> s, msg |-> handler[s].msg, relay |-> handler[s].relay,
                            at |-> "sent", live |-> TRUE]
        OBVIOUS
    <2>2. /\ new \in Delivery /\ new.by = s /\ new.msg = handler[s].msg
          /\ new.relay = handler[s].relay /\ new.at = "sent" /\ new.live
        BY <1>1, <2>1 DEF Delivery
    <2>3. wire' = wire \cup {new}
        BY <1>6, <2>1
    <2>4. Frame /\ \A m : Route(m)' = Route(m)
        BY <1>1, <1>6, SendingFrames
    <2>5. GatewayTypeOK'
        <3>1. \A x \in Socket : handler'[x].pc # "idle" => handler'[x].msg # None
            BY <1>1, <1>3, <1>6 DEF GatewayTypeOK
        <3> QED
            BY <1>1, <1>3, <1>6, <2>2, <2>3, <3>1 DEF GatewayTypeOK, directoryVars, Handlers
    <2>6. \A x \in Socket : CallOK(x)'
        BY <1>3, <1>6, <2>4, CallStays
    <2>7. ForwardOK(new)'
        <3>1. To(new.msg) \notin moved => new.relay = Route(new.msg)
            BY <1>1, <2>2 DEF CallOK
        <3>2. moved' = moved
            BY DEF directoryVars
        <3> QED
            BY <1>1, <1>3, <1>6, <2>2, <2>4, <3>1, <3>2 DEF ForwardOK, To
    <2>8. \A q \in wire : q.live => handler'[q.by] = handler[q.by]
        BY <1>1, <1>2, <1>3, <1>6 DEF GatewayTypeOK, Delivery
    <2>9. \A q \in wire' : ForwardOK(q)'
        BY <2>3, <2>4, <2>7, <2>8, ForwardStays
    <2>10. \A q, r \in wire' : q.live /\ r.live /\ q.by = r.by => q = r
        BY <1>2, <2>2, <2>3 DEF RoutingInv
    <2>11. \A e \in inbox' : EntryOK(e)'
        BY <1>1, <2>4, EntryStays
    <2>12. \A m \in Direct : ToldOK(m)'
        BY <1>6, <2>4, AnswerStays
    <2> QED
        BY <2>5, <2>6, <2>9, <2>10, <2>11, <2>12 DEF RoutingInv
<1> QED
    BY <1>4, <1>5, <1>6 DEF Forward

LEMMA DeliverKeeps ==
    ASSUME RoutingInv, UNCHANGED directoryVars, NEW q \in wire, FederationDeliver(q)
    PROVE  RoutingInv'
<1>1. /\ GatewayTypeOK /\ ForwardOK(q) /\ q \in Delivery
      /\ q.relay \in Relay /\ q.msg \in Direct
    BY DEF RoutingInv, GatewayTypeOK, Delivery
<1>2. PICK answer \in {"ok", "error"} :
          /\ inbox' = IF answer = "ok" THEN inbox \cup {EntryAt(q.relay, q.msg)} ELSE inbox
          /\ wire' = (wire \ {q}) \cup IF q.live THEN {[q EXCEPT !.at = answer]} ELSE {}
    BY DEF FederationDeliver
<1>3. UNCHANGED <<sendVars, strict, linked, drops, lost>>
    BY DEF FederationDeliver
<1>4. Frame /\ (\A m : Route(m)' = Route(m)) /\ moved' = moved
    BY <1>2, <1>3, SendingFrames DEF sendVars, directoryVars
<1>5. PICK new : new = [q EXCEPT !.at = answer]
    OBVIOUS
<1>6. /\ new \in Delivery /\ new.by = q.by /\ new.msg = q.msg /\ new.relay = q.relay
      /\ new.at = answer /\ new.live = q.live
    BY <1>1, <1>5 DEF Delivery
<1>7. wire' \subseteq (wire \ {q}) \cup {new}
    BY <1>2, <1>5
<1>8. GatewayTypeOK'
    <2>1. inbox' \subseteq Entry
        BY <1>1, <1>2, RouteIsRelay DEF GatewayTypeOK
    <2>2. wire' \subseteq Delivery
        BY <1>1, <1>6, <1>7 DEF GatewayTypeOK
    <2> QED
        BY <1>1, <1>3, <2>1, <2>2 DEF GatewayTypeOK, directoryVars, sendVars
<1>9. \A s \in Socket : CallOK(s)'
    BY <1>3, <1>4, CallStays DEF sendVars
<1>10. ForwardOK(new)'
    <2>1. new.at = "ok" => EntryAt(new.relay, new.msg) \in inbox'
        BY <1>2, <1>6
    <2> QED
        BY <1>1, <1>3, <1>4, <1>6, <2>1 DEF ForwardOK, sendVars, To, EntryAt
<1>11. \A r \in wire' : ForwardOK(r)'
    BY <1>3, <1>4, <1>7, <1>10, ForwardStays DEF sendVars
<1>12. \A r, t \in wire' : r.live /\ t.live /\ r.by = t.by => r = t
    BY <1>6, <1>7 DEF RoutingInv
<1>13. \A e \in inbox' : EntryOK(e)'
    <2>1. ASSUME NEW e, e = EntryAt(q.relay, q.msg) PROVE EntryOK(e)'
        BY <1>1, <1>3, <1>4, <2>1 DEF EntryOK, ForwardOK, EntryAt, sendVars, To
    <2> QED
        BY <1>2, <1>4, <2>1, EntryStays
<1>14. \A m \in Direct : ToldOK(m)'
    BY <1>3, <1>4, AnswerStays DEF sendVars
<1> QED
    BY <1>8, <1>9, <1>11, <1>12, <1>13, <1>14 DEF RoutingInv

LEMMA DropKeeps ==
    ASSUME RoutingInv, UNCHANGED directoryVars, NEW r \in Relay, LinkDrops(r)
    PROVE  RoutingInv'
<1>1. GatewayTypeOK /\ wire \subseteq Delivery
    BY DEF RoutingInv, GatewayTypeOK
<1>2. /\ linked' = linked \ {r} /\ drops' = drops + 1
      /\ UNCHANGED <<sendVars, strict, inbox>>
    BY DEF LinkDrops
<1>3. lost' \subseteq Socket
    BY <1>1 DEF LinkDrops, GatewayTypeOK, Delivery
<1>4. \A q \in wire' :
          q \in wire
          \/ \E o \in wire : /\ q = [o EXCEPT !.live = FALSE]
                             /\ q \in Delivery /\ q.msg = o.msg /\ q.relay = o.relay /\ q.at = o.at
                             /\ ~q.live
    <2>1. PICK arriving \in SUBSET {q \in wire : q.relay = r /\ q.at = "sent"} :
              wire' = (wire \ {q \in wire : q.relay = r})
                          \cup {[q EXCEPT !.live = FALSE] : q \in arriving}
        BY DEF LinkDrops
    <2>2. ASSUME NEW o \in arriving, NEW q, q = [o EXCEPT !.live = FALSE]
          PROVE  /\ o \in wire /\ q \in Delivery /\ q.msg = o.msg /\ q.relay = o.relay
                 /\ q.at = o.at /\ ~q.live
        BY <1>1, <2>2 DEF Delivery
    <2> QED
        BY <2>1, <2>2
<1>5. Frame /\ (\A m : Route(m)' = Route(m)) /\ moved' = moved
    BY <1>2, SendingFrames DEF sendVars, directoryVars
<1>6. GatewayTypeOK'
    BY <1>1, <1>2, <1>3, <1>4 DEF GatewayTypeOK, directoryVars, sendVars
<1>7. \A s \in Socket : CallOK(s)'
    BY <1>2, <1>5, CallStays DEF sendVars
<1>8. \A q \in wire' : ForwardOK(q)'
    <2>1. ASSUME NEW q \in wire', NEW o \in wire, q.msg = o.msg, q.relay = o.relay, q.at = o.at, ~q.live
          PROVE  ForwardOK(q)'
        <3>1. ForwardOK(o)
            BY DEF RoutingInv
        <3> QED
            BY <1>2, <1>5, <2>1, <3>1 DEF ForwardOK, sendVars, To, EntryAt
    <2>2. ASSUME NEW q \in wire PROVE ForwardOK(q)'
        BY <1>2, <1>5, ForwardStays DEF sendVars
    <2> QED
        BY <1>4, <2>1, <2>2
<1>9. \A q, o \in wire' : q.live /\ o.live /\ q.by = o.by => q = o
    BY <1>4 DEF RoutingInv
<1>10. \A e \in inbox' : EntryOK(e)'
    BY <1>2, <1>5, EntryStays
<1>11. \A m \in Direct : ToldOK(m)'
    BY <1>2, <1>5, AnswerStays DEF sendVars
<1> QED
    BY <1>6, <1>7, <1>8, <1>9, <1>10, <1>11 DEF RoutingInv

LEMMA RoutingKept == ASSUME RoutingInv, [GatewayNext]_gatewayVars PROVE RoutingInv'
<1>1. GatewayTypeOK /\ handler \in Handlers
    BY DEF RoutingInv, GatewayTypeOK, Handlers
<1>2. CASE DirectoryStep
    BY <1>2, DirectoryKeeps
<1>3. CASE SendNext /\ UNCHANGED directoryVars
    <2> USE <1>3
    <2>1. ASSUME NEW s \in Socket, NEW m \in Direct, SendRead(s, m) PROVE RoutingInv'
        BY <2>1, SendReadKeeps
    <2>2. ASSUME NEW s \in Socket, SendCount(s) PROVE RoutingInv'
        <3>1. /\ handler' \in Handlers /\ handler'[s].pc = "route"
              /\ handler'[s].msg = handler[s].msg /\ handler[s].pc = "count"
              /\ \A x \in Socket \ {s} : handler'[x] = handler[x]
            BY <1>1, <2>2 DEF SendCount, Goes, Is, Handlers, Step
        <3>2. CallOK(s)'
            BY <2>2, <3>1 DEF RoutingInv, CallOK, SendCount
        <3>3. /\ hour' \in Nat /\ day' \in Nat /\ peak' \in Nat /\ lost' \subseteq Socket
              /\ UNCHANGED <<sends, told, inbox, wire, strict, linked, drops>>
            BY <1>1, <2>2 DEF SendCount, linkVars, GatewayTypeOK
        <3> QED
            BY <3>1, <3>2, <3>3, CallGoesOn
    <2>3. CASE HourPasses \/ DayPasses
        <3>1. /\ hour' \in Nat /\ day' \in Nat /\ peak' \in Nat /\ lost' \subseteq Socket
              /\ UNCHANGED <<handler, sends, told, inbox, wire, strict, linked, drops>>
            BY <1>1, <2>3 DEF HourPasses, DayPasses, linkVars, GatewayTypeOK
        <3> QED
            BY <1>1, <3>1, CallGoesOn
    <2>4. ASSUME NEW s \in Socket, SendRoute(s) PROVE RoutingInv'
        <3>1. /\ CallOK(s) /\ handler[s].pc = "route" /\ handler[s].msg \in Direct
              /\ told[handler[s].msg] # "unsent"
            BY <2>4 DEF RoutingInv, CallOK, SendRoute, Is
        <3>2. PICK r : r = Route(handler[s].msg)
            OBVIOUS
        <3>3. r \in Relay
            BY <1>1, <3>1, <3>2, RouteIsRelay
        <3>4. handler' = [handler EXCEPT ![s].pc = IF r = Here THEN "queue" ELSE "link",
                                         ![s].relay = r]
            BY <2>4, <3>2 DEF SendRoute
        <3>5. handler'[s] = [[handler[s] EXCEPT !.pc = IF r = Here THEN "queue" ELSE "link"]
                                EXCEPT !.relay = r]
              /\ handler' = [handler EXCEPT ![s] = handler'[s]]
              /\ \A x \in Socket \ {s} : handler'[x] = handler[x]
            BY <1>1, <3>4 DEF Handlers
        <3>6. handler[s] \in [pc : Step, msg : Direct \cup {None}, relay : Relay \cup {None}]
            BY <1>1 DEF Handlers
        <3>7. /\ handler'[s] \in [pc : Step, msg : Direct \cup {None}, relay : Relay \cup {None}]
              /\ handler'[s].pc \in {"queue", "link"} /\ (handler'[s].pc = "queue" => r = Here)
              /\ handler'[s].msg = handler[s].msg /\ handler'[s].relay = r
            BY <3>3, <3>5, <3>6 DEF Step
        <3>8. handler' \in Handlers
            BY <1>1, <3>5, <3>7 DEF Handlers
        <3>9. (\A m : Route(m)' = Route(m)) /\ UNCHANGED told
            BY <2>4 DEF directoryVars, Route, Lookup, To, SendRoute
        <3>10. CallOK(s)'
            BY <3>1, <3>2, <3>3, <3>7, <3>9 DEF CallOK
        <3>11. /\ hour' \in Nat /\ day' \in Nat /\ peak' \in Nat /\ lost' \subseteq Socket
               /\ UNCHANGED <<sends, told, inbox, wire, strict, linked, drops>>
            BY <1>1, <2>4 DEF SendRoute, linkVars, GatewayTypeOK
        <3> QED
            BY <3>1, <3>5, <3>8, <3>10, <3>11, CallGoesOn
    <2>5. ASSUME NEW s \in Socket, SendStore(s) PROVE RoutingInv'
        <3>1. /\ handler[s].pc = "queue" /\ handler[s].relay = Here
              /\ UNCHANGED <<hour, day, peak, sends, linkVars>>
            BY <2>5 DEF RoutingInv, CallOK, SendStore, Is
        <3>2. \A q \in wire : q.live => q.by # s
            BY <3>1 DEF RoutingInv, ForwardOK
        <3>3. CASE /\ inbox' = inbox \cup {EntryAt(Here, handler[s].msg)}
                   /\ Answers(s, "ok")
            BY <3>1, <3>2, <3>3, CallEnds DEF linkVars
        <3>4. CASE Answers(s, "error") /\ UNCHANGED inbox
            BY <3>1, <3>2, <3>4, CallEnds DEF linkVars
        <3> QED
            BY <2>5, <3>3, <3>4 DEF SendStore
    <2>6. ASSUME NEW s \in Socket, Forward(s) PROVE RoutingInv'
        BY <2>6, ForwardKeeps
    <2>7. ASSUME NEW s \in Socket, ForwardAnswer(s) PROVE RoutingInv'
        <3>1. PICK q \in wire : /\ q.by = s /\ q.live /\ q.at # "sent"
                                /\ wire' = wire \ {q} /\ Answers(s, q.at)
            BY <2>7 DEF ForwardAnswer
        <3>2. /\ handler[s].pc = "await" /\ q.at \in {"ok", "error"}
              /\ UNCHANGED <<hour, day, peak, sends, strict, linked, drops, lost, inbox>>
            BY <1>1, <2>7, <3>1 DEF ForwardAnswer, Is, GatewayTypeOK, Delivery
        <3>3. \A o \in wire' : o.live => o.by # s
            BY <3>1 DEF RoutingInv
        <3>4. q.at = "ok" => EntryAt(handler[s].relay, handler[s].msg) \in inbox
            BY <3>1 DEF RoutingInv, ForwardOK
        <3> QED
            BY <3>1, <3>2, <3>3, <3>4, CallEnds
    <2>8. ASSUME NEW q \in wire, FederationDeliver(q) PROVE RoutingInv'
        BY <2>8, DeliverKeeps
    <2>9. ASSUME NEW r \in Relay, LinkDrops(r) PROVE RoutingInv'
        BY <2>9, DropKeeps
    <2> QED
        BY <2>1, <2>2, <2>3, <2>4, <2>5, <2>6, <2>7, <2>8, <2>9 DEF SendNext, SendSteps
<1>4. CASE UNCHANGED gatewayVars
    <2>1. UNCHANGED directoryVars /\ UNCHANGED <<sendVars, linkVars, inbox>>
        BY <1>4 DEF gatewayVars
    <2>2. /\ hour' \in Nat /\ day' \in Nat /\ peak' \in Nat /\ lost' \subseteq Socket
          /\ UNCHANGED <<handler, sends, told, inbox, wire, strict, linked, drops>>
        BY <1>1, <2>1 DEF sendVars, linkVars, GatewayTypeOK
    <2> QED
        BY <1>1, <2>1, <2>2, CallGoesOn
<1> QED
    BY <1>2, <1>3, <1>4 DEF GatewayNext

\* Whatever is refused, sent again, forwarded or lost, a message is stored where its
\* recipient fetches, and nowhere else.
THEOREM RoutedToHome == ServicesSpec => []RoutedHome
<1>1. ServicesInit => RoutingInv
    BY RoutingStarts DEF ServicesInit
<1>2. RoutingInv /\ [ServicesNext]_ServicesVars => RoutingInv'
    BY OneAtATime, RoutingKept
<1>3. RoutingInv => RoutedHome
    BY DEF RoutingInv, EntryOK, ToldOK, RoutedHome
<1> QED
    BY <1>1, <1>2, <1>3, PTL DEF ServicesSpec
-----------------------------------------------------------------------------
(***************************************************************************)
(* Gateway: the rate limit                                                 *)
(***************************************************************************)

RateInv == Counting <= peak /\ RateBound

CallStep(s) == SendSteps(s) \/ \E m \in Direct : SendRead(s, m)

LEMMA CallingAfter ==
    ASSUME GatewayTypeOK, NEW s \in Socket, NEW h, handler' = [handler EXCEPT ![s] = h]
    PROVE  /\ h.pc = "count" => Calling' = Calling \cup {s}
           /\ h.pc # "count" => Calling' = Calling \ {s}
<1>1. \A x \in Socket : handler'[x] = IF x = s THEN h ELSE handler[x]
    BY DEF GatewayTypeOK
<1> QED
    BY <1>1 DEF Calling, Is

\* What a step does to the calls between the read and the count, and to the counters.
Admitted(s) ==
    /\ Counting' = Counting + 1 /\ ~RateLimited
    /\ peak' = IF Counting < peak THEN peak ELSE Counting + 1
    /\ UNCHANGED <<hour, day>>

Counted(s) == Counting' = Counting - 1 /\ Counting > 0 /\ hour' = hour + 1 /\ day' = day + 1
              /\ UNCHANGED peak

Elsewhere == Counting' = Counting /\ UNCHANGED peak /\ (hour' = hour \/ hour' = 0)
             /\ (day' = day \/ day' = 0)

LEMMA OthersElsewhere ==
    ASSUME GatewayTypeOK, NEW s \in Socket, NEW h, handler' = [handler EXCEPT ![s] = h],
           h.pc # "count", ~Is(s, "count"), UNCHANGED <<hour, day, peak>>
    PROVE  Elsewhere
<1>1. Calling' = Calling
    BY CallingAfter DEF Calling
<1> QED
    BY <1>1 DEF Counting, Calling, Elsewhere

LEMMA CallCounts ==
    ASSUME GatewayTypeOK, NEW s \in Socket, CallStep(s)
    PROVE  Admitted(s) \/ Counted(s) \/ Elsewhere
<1>1. IsFiniteSet(Calling) /\ Counting = Cardinality(Calling) /\ Counting \in Nat
    BY CallingIsFinite
<1>2. Counting' = Cardinality(Calling')
    BY DEF Counting, Calling
<1>3. ASSUME NEW pc PROVE Goes(s, pc) <=> handler' = [handler EXCEPT ![s] = [@ EXCEPT !.pc = pc]]
    BY DEF Goes, GatewayTypeOK
<1>4. handler[s] \in [pc : Step, msg : Direct \cup {None}, relay : Relay \cup {None}]
    BY DEF GatewayTypeOK
<1>5. CASE \E m \in Direct : SendRead(s, m)
    <2>1. PICK m \in Direct : SendRead(s, m)
        BY <1>5
    <2>2. CASE UNCHANGED <<handler, peak>>
        BY <2>1, <2>2 DEF SendRead, Elsewhere, Counting, Is
    <2>3. CASE /\ ~RateLimited
               /\ handler' = [handler EXCEPT ![s] = [Free EXCEPT !.pc = "count", !.msg = m]]
               /\ peak' = IF Counting < peak THEN peak ELSE Counting + 1
        <3>1. [Free EXCEPT !.pc = "count", !.msg = m].pc = "count"
            BY DEF Free
        <3>2. Calling' = Calling \cup {s} /\ s \notin Calling
            <4>1. Calling' = Calling \cup {s}
                BY <2>3, <3>1, CallingAfter
            <4> QED
                BY <2>1, <4>1 DEF SendRead, Calling, Is
        <3>3. Counting' = Counting + 1
            BY <1>1, <1>2, <3>2, FS_AddElement
        <3> QED
            BY <2>1, <2>3, <3>3 DEF SendRead, Admitted
    <2> QED
        BY <2>1, <2>2, <2>3 DEF SendRead
<1>6. CASE SendCount(s)
    <2>1. /\ handler' = [handler EXCEPT ![s] = [@ EXCEPT !.pc = "route"]]
          /\ [handler[s] EXCEPT !.pc = "route"].pc = "route" /\ s \in Calling
        BY <1>3, <1>4, <1>6 DEF SendCount, Goes, Calling, Is
    <2>2. Calling' = Calling \ {s}
        BY <2>1, CallingAfter
    <2>3. Counting' = Counting - 1
        BY <1>1, <1>2, <2>1, <2>2, FS_RemoveElement
    <2>4. Counting > 0
        BY <1>1, <2>1, FS_EmptySet
    <2> QED
        BY <1>6, <2>3, <2>4 DEF SendCount, Counted
<1>7. CASE SendRoute(s)
    <2>1. PICK pc \in {"queue", "link"} :
              handler' = [handler EXCEPT ![s] = [@ EXCEPT !.pc = pc,
                                                          !.relay = Route(handler[s].msg)]]
        BY <1>7 DEF SendRoute
    <2>2. [handler[s] EXCEPT !.pc = pc, !.relay = Route(handler[s].msg)].pc = pc
        BY <1>4
    <2> QED
        BY <1>7, <2>1, <2>2, OthersElsewhere DEF SendRoute, Is
<1>8. ASSUME NEW answer, Answers(s, answer), ~Is(s, "count"), UNCHANGED <<hour, day, peak>>
      PROVE  Elsewhere
    <2>1. Free.pc # "count"
        BY DEF Free
    <2>2. handler' = [handler EXCEPT ![s] = Free]
        BY <1>8 DEF Answers
    <2> QED
        BY <1>8, <2>1, <2>2, OthersElsewhere
<1>9. CASE SendStore(s)
    BY <1>8, <1>9 DEF SendStore, Is
<1>10. CASE Forward(s)
    <2>1. CASE Goes(s, "await")
        <3>1. [handler[s] EXCEPT !.pc = "await"].pc = "await"
            BY <1>4
        <3> QED
            BY <1>3, <1>10, <2>1, <3>1, OthersElsewhere DEF Forward, Is
    <2> QED
        BY <1>8, <1>10, <2>1 DEF Forward, Is
<1>11. CASE ForwardAnswer(s)
    BY <1>8, <1>11 DEF ForwardAnswer, Is
<1> QED
    BY <1>5, <1>6, <1>7, <1>9, <1>10, <1>11 DEF CallStep, SendSteps

LEMMA LowerStaysBelow ==
    ASSUME NEW n \in Nat, NEW m \in Nat, NEW c \in Nat, NEW limit \in Nat, NEW most \in Nat,
           m = n \/ m = 0, n + c < limit + most
    PROVE  m + c < limit + most
OBVIOUS

LEMMA RateKept ==
    ASSUME GatewayTypeOK, RateInv, [GatewayNext]_gatewayVars
    PROVE  RateInv'
<1>1. /\ Counting \in Nat /\ hour \in Nat /\ day \in Nat /\ peak \in Nat
      /\ HourLimit \in Nat /\ DayLimit \in Nat
    BY CallingIsFinite, GatewayAssumption DEF GatewayTypeOK
<1>2. (\E s \in Socket : Admitted(s) \/ Counted(s)) \/ Elsewhere
    <2>1. CASE UNCHANGED sendVars
        BY <2>1 DEF sendVars, Elsewhere, Counting, Is
    <2>2. CASE UNCHANGED <<handler, peak>> /\ (HourPasses \/ DayPasses)
        BY <2>2 DEF HourPasses, DayPasses, Elsewhere, Counting, Is
    <2>3. ASSUME NEW s \in Socket, CallStep(s)
          PROVE  Admitted(s) \/ Counted(s) \/ Elsewhere
        BY <2>3, CallCounts
    <2> QED
        BY <2>1, <2>2, <2>3 DEF GatewayNext, DirectoryStep, SendNext, HourPasses, DayPasses,
           FederationDeliver, LinkDrops, CallStep, gatewayVars
<1>3. ASSUME NEW s \in Socket, Admitted(s)
      PROVE  RateInv'
    <2>1. hour < HourLimit /\ day < DayLimit
        BY <1>1, <1>3 DEF Admitted, RateLimited
    <2>2. Counting' <= peak'
        BY <1>1, <1>3 DEF Admitted
    <2> QED
        BY <1>1, <1>3, <2>1, <2>2 DEF Admitted, RateInv, RateBound
<1>4. ASSUME NEW s \in Socket, Counted(s)
      PROVE  RateInv'
    BY <1>1, <1>4 DEF Counted, RateInv, RateBound
<1>5. CASE Elsewhere
    <2>1. Counting' = Counting /\ peak' = peak
        BY <1>5 DEF Elsewhere
    <2>2. Counting' <= peak'
        BY <2>1 DEF RateInv
    <2>3. CASE hour + day + Counting > 0
        <3>1. hour + Counting < HourLimit + peak /\ day + Counting < DayLimit + peak
            BY <2>3 DEF RateInv, RateBound
        <3>2. hour' \in Nat /\ day' \in Nat
            BY <1>1, <1>5 DEF Elsewhere
        <3>3. hour' + Counting < HourLimit + peak /\ day' + Counting < DayLimit + peak
            BY <1>1, <1>5, <3>1, <3>2, LowerStaysBelow DEF Elsewhere
        <3> QED
            BY <2>1, <2>2, <3>3 DEF RateInv, RateBound
    <2>4. CASE hour = 0 /\ day = 0 /\ Counting = 0
        BY <1>5, <2>1, <2>2, <2>4 DEF Elsewhere, RateInv, RateBound
    <2> QED
        BY <1>1, <2>3, <2>4
<1> QED
    BY <1>2, <1>3, <1>4, <1>5

\* Calls that pass the limit together pass it by less than the number of them that were
\* ever between the read of the counters and the count at once.
THEOREM RateStaysBounded == ServicesSpec => []RateBound
<1>1. ServicesInit => RoutingInv /\ RateInv
    <2>1. ServicesInit => RoutingInv
        BY RoutingStarts DEF ServicesInit
    <2>2. ASSUME GatewayInit PROVE Counting = 0
        <3>1. Calling = {}
            BY <2>2 DEF GatewayInit, Calling, Is, Free
        <3> QED
            BY <3>1, CallingIsFinite, FS_EmptySet
    <2> QED
        <3>1. ASSUME GatewayInit PROVE RateInv
            <4>1. hour = 0 /\ day = 0 /\ peak = 0
                BY <3>1 DEF GatewayInit
            <4> QED
                BY <2>2, <3>1, <4>1 DEF RateInv, RateBound
        <3> QED
            BY <2>1, <3>1 DEF ServicesInit
<1>2. (RoutingInv /\ RateInv) /\ [ServicesNext]_ServicesVars => (RoutingInv /\ RateInv)'
    BY OneAtATime, RoutingKept, RateKept DEF RoutingInv
<1>3. RateInv => RateBound
    BY DEF RateInv
<1> QED
    BY <1>1, <1>2, <1>3, PTL DEF ServicesSpec
-----------------------------------------------------------------------------
(***************************************************************************)
(* The sum of sizes, which the quota of bytes is about.  Facts about a     *)
(* finite set of uploads follow by descent: a set of natural numbers has a *)
(* least one, and the least size of a set for which a fact fails, would    *)
(* have one below it.                                                      *)
(***************************************************************************)

LEMMA LeastExists ==
    ASSUME NEW B \in SUBSET Nat, B # {}
    PROVE  \E n \in B : \A m \in B : n <= m
<1>1. PICK n \in B : \A m \in B : ~ (<<m, n>> \in OpToRel(<, Nat))
    BY WFMin, NatLessThanWellFounded
<1>2. ASSUME NEW m \in B PROVE n <= m
    <2>1. m \in Nat /\ n \in Nat
        OBVIOUS
    <2>2. ~ (m < n)
        BY <2>1, <1>1 DEF OpToRel
    <2> QED
        BY <2>1, <2>2
<1> QED
    BY <1>2

Sizes(S) == MapThenSumSet(LAMBDA u : Size[u], S)

Chosen(s) == CHOOSE x \in s : TRUE

\* The function that sums up the subsets of S, one element after another; and one that
\* does so up to a number of elements.
SumsUp(S, f) ==
    f = [s \in SUBSET S |-> IF s = {} THEN 0 ELSE Size[Chosen(s)] + f[s \ {Chosen(s)}]]

SumsUpTo(S, n, f) ==
    f = [s \in SUBSET S |-> IF s = {} \/ Cardinality(s) > n THEN 0
                            ELSE Size[Chosen(s)] + f[s \ {Chosen(s)}]]

LEMMA SubsetsAreFinite ==
    ASSUME NEW s \in SUBSET Upload
    PROVE  IsFiniteSet(s) /\ Cardinality(s) \in Nat /\ (Cardinality(s) = 0 <=> s = {})
<1>1. IsFiniteSet(s)
    BY QuotaAssumption, FS_Subset
<1> QED
    BY <1>1, FS_CardinalityType, FS_EmptySet

LEMMA ChosenIsOut ==
    ASSUME NEW s \in SUBSET Upload, s # {}
    PROVE  /\ Chosen(s) \in s /\ s \ {Chosen(s)} \in SUBSET Upload
           /\ Cardinality(s \ {Chosen(s)}) = Cardinality(s) - 1
<1>1. Chosen(s) \in s
    BY DEF Chosen
<1>2. IsFiniteSet(s)
    BY SubsetsAreFinite
<1> QED
    BY <1>1, <1>2, FS_RemoveElement

LEMMA SummingGoesOn ==
    ASSUME NEW S \in SUBSET Upload, NEW n \in Nat, NEW g, SumsUpTo(S, n, g)
    PROVE  \E f : SumsUpTo(S, n + 1, f)
<1> DEFINE f == [s \in SUBSET S |-> IF s = {} \/ Cardinality(s) > n + 1 THEN 0
                                    ELSE Size[Chosen(s)] + g[s \ {Chosen(s)}]]
<1>1. ASSUME NEW s \in SUBSET S, s # {}, Cardinality(s) <= n + 1
      PROVE  f[s \ {Chosen(s)}] = g[s \ {Chosen(s)}]
    <2>1. PICK t \in SUBSET S : t = s \ {Chosen(s)}
        OBVIOUS
    <2>2. Cardinality(s) \in Nat /\ Cardinality(t) = Cardinality(s) - 1
        BY <1>1, <2>1, SubsetsAreFinite, ChosenIsOut
    <2>3. ~ (Cardinality(t) > n) /\ ~ (Cardinality(t) > n + 1)
        BY <1>1, <2>2
    <2>4. g[t] = IF t = {} THEN 0 ELSE Size[Chosen(t)] + g[t \ {Chosen(t)}]
        BY <2>3 DEF SumsUpTo
    <2>5. f[t] = IF t = {} THEN 0 ELSE Size[Chosen(t)] + g[t \ {Chosen(t)}]
        BY <2>3
    <2> QED
        BY <2>1, <2>4, <2>5
<1>2. ASSUME NEW s \in SUBSET S
      PROVE  f[s] = IF s = {} \/ Cardinality(s) > n + 1 THEN 0
                    ELSE Size[Chosen(s)] + f[s \ {Chosen(s)}]
    <2>1. CASE s = {} \/ Cardinality(s) > n + 1
        BY <2>1
    <2>2. CASE ~ (s = {} \/ Cardinality(s) > n + 1)
        <3>1. s # {} /\ Cardinality(s) <= n + 1
            BY <2>2, SubsetsAreFinite
        <3>2. f[s \ {Chosen(s)}] = g[s \ {Chosen(s)}]
            <4> HIDE DEF f
            <4> QED
                BY <1>1, <3>1
        <3>3. f[s] = Size[Chosen(s)] + g[s \ {Chosen(s)}]
            BY <2>2
        <3> QED
            BY <2>2, <3>2, <3>3
    <2> QED
        BY <2>1, <2>2
<1>3. f = [s \in SUBSET S |-> f[s]]
    OBVIOUS
<1> HIDE DEF f
<1>4. SumsUpTo(S, n + 1, f)
    BY <1>2, <1>3 DEF SumsUpTo
<1> QED
    BY <1>4

LEMMA SummingEnds == ASSUME NEW S \in SUBSET Upload, NEW n \in Nat PROVE \E f : SumsUpTo(S, n, f)
<1> DEFINE Bad == {m \in Nat : ~ \E f : SumsUpTo(S, m, f)}
<1>1. 0 \notin Bad
    <2>1. PICK f : f = [s \in SUBSET S |-> 0]
        OBVIOUS
    <2>2. \A s \in SUBSET S : s = {} \/ Cardinality(s) > 0
        BY SubsetsAreFinite
    <2>3. SumsUpTo(S, 0, f)
        BY <2>1, <2>2 DEF SumsUpTo
    <2> QED
        BY <2>3
<1>2. ASSUME Bad # {} PROVE FALSE
    <2>1. PICK m \in Bad : \A k \in Bad : m <= k
        BY <1>2, LeastExists
    <2>2. m \in Nat /\ m # 0
        BY <1>1
    <2>3. m - 1 \in Nat /\ m - 1 \notin Bad /\ (m - 1) + 1 = m
        BY <2>1, <2>2
    <2>4. PICK g : SumsUpTo(S, m - 1, g)
        BY <2>3
    <2>5. \E f : SumsUpTo(S, (m - 1) + 1, f)
        BY <2>3, <2>4, SummingGoesOn
    <2> QED
        BY <2>3, <2>5
<1> QED
    BY <1>2

LEMMA SumExists == ASSUME NEW S \in SUBSET Upload PROVE \E f : SumsUp(S, f)
<1>1. IsFiniteSet(S) /\ Cardinality(S) \in Nat
    BY SubsetsAreFinite
<1>2. PICK f : SumsUpTo(S, Cardinality(S), f)
    BY <1>1, SummingEnds
<1>3. ASSUME NEW s \in SUBSET S PROVE ~ (Cardinality(s) > Cardinality(S))
    <2>1. Cardinality(s) <= Cardinality(S)
        BY <1>1, FS_Subset
    <2> QED
        BY <1>1, <2>1, SubsetsAreFinite
<1>4. SumsUp(S, f)
    BY <1>2, <1>3 DEF SumsUp, SumsUpTo
<1> QED
    BY <1>4

\* On the subsets of both, two such functions agree.
LEMMA SumsAgree ==
    ASSUME NEW S \in SUBSET Upload, NEW f, SumsUp(S, f),
           NEW T \in SUBSET S, NEW g, SumsUp(T, g)
    PROVE  \A s \in SUBSET T : f[s] = g[s]
<1> DEFINE Bad == {n \in Nat : \E s \in SUBSET T : Cardinality(s) = n /\ f[s] # g[s]}
<1>1. ASSUME Bad # {} PROVE FALSE
    <2>1. PICK n \in Bad : \A m \in Bad : n <= m
        BY <1>1, LeastExists
    <2>2. PICK s \in SUBSET T : Cardinality(s) = n /\ f[s] # g[s]
        OBVIOUS
    <2>3. s # {}
        BY <2>2 DEF SumsUp
    <2>4. PICK t \in SUBSET T : t = s \ {Chosen(s)}
        OBVIOUS
    <2>5. n \in Nat /\ Cardinality(t) = n - 1 /\ Cardinality(t) \in Nat
        BY <2>2, <2>3, <2>4, ChosenIsOut, SubsetsAreFinite
    <2>6. Cardinality(t) \notin Bad
        BY <2>1, <2>5
    <2>7. f[t] = g[t]
        BY <2>5, <2>6
    <2>8. f[s] = Size[Chosen(s)] + f[t] /\ g[s] = Size[Chosen(s)] + g[t]
        BY <2>3, <2>4 DEF SumsUp
    <2> QED
        BY <2>2, <2>7, <2>8
<1>2. ASSUME NEW s \in SUBSET T, f[s] # g[s] PROVE FALSE
    BY <1>1, <1>2, SubsetsAreFinite
<1> QED
    BY <1>2

LEMMA SizesUnfold ==
    /\ Sizes({}) = 0
    /\ \A s \in SUBSET Upload : s # {} => Sizes(s) = Size[Chosen(s)] + Sizes(s \ {Chosen(s)})
<1>1. PICK f : SumsUp(Upload, f)
    BY SumExists
<1>2. ASSUME NEW S \in SUBSET Upload PROVE Sizes(S) = f[S]
    <2>1. Sizes(S) = (CHOOSE g : SumsUp(S, g))[S]
        BY DEF Sizes, MapThenSumSet, MapThenFoldSet, SumsUp, Chosen
    <2>2. PICK g : g = CHOOSE h : SumsUp(S, h)
        OBVIOUS
    <2>3. SumsUp(S, g)
        BY <2>2, SumExists
    <2> QED
        BY <1>1, <2>1, <2>2, <2>3, SumsAgree
<1>3. ASSUME NEW s \in SUBSET Upload, s # {}
      PROVE  Sizes(s) = Size[Chosen(s)] + Sizes(s \ {Chosen(s)})
    BY <1>1, <1>2, <1>3 DEF SumsUp
<1>4. f[{}] = 0
    BY <1>1 DEF SumsUp
<1> QED
    BY <1>2, <1>3, <1>4

LEMMA SizesAreNumbers == \A s \in SUBSET Upload : Sizes(s) \in Nat
<1> DEFINE Bad == {n \in Nat : \E s \in SUBSET Upload : Cardinality(s) = n /\ Sizes(s) \notin Nat}
<1>1. ASSUME Bad # {} PROVE FALSE
    <2>1. PICK n \in Bad : \A m \in Bad : n <= m
        BY <1>1, LeastExists
    <2>2. PICK s \in SUBSET Upload : Cardinality(s) = n /\ Sizes(s) \notin Nat
        OBVIOUS
    <2>3. s # {}
        BY <2>2, SizesUnfold
    <2>4. PICK t \in SUBSET Upload : t = s \ {Chosen(s)}
        OBVIOUS
    <2>5. n \in Nat /\ Cardinality(t) = n - 1 /\ Cardinality(t) \in Nat /\ Chosen(s) \in Upload
        BY <2>2, <2>3, <2>4, ChosenIsOut, SubsetsAreFinite
    <2>6. Cardinality(t) \notin Bad
        BY <2>1, <2>5
    <2>7. Sizes(t) \in Nat
        BY <2>5, <2>6
    <2>8. Sizes(s) = Size[Chosen(s)] + Sizes(t)
        BY <2>3, <2>4, SizesUnfold
    <2> QED
        BY <2>2, <2>5, <2>7, <2>8, QuotaAssumption
<1>2. ASSUME NEW s \in SUBSET Upload, Sizes(s) \notin Nat PROVE FALSE
    BY <1>1, <1>2, SubsetsAreFinite
<1> QED
    BY <1>2

\* Whichever element is taken first: the sum grows by the size of what is added.
LEMMA SizesAdd ==
    \A s \in SUBSET Upload, u \in Upload : u \notin s => Sizes(s \cup {u}) = Sizes(s) + Size[u]
<1> DEFINE Differs(s, u) == u \notin s /\ Sizes(s \cup {u}) # Sizes(s) + Size[u]
           Bad == {n \in Nat : \E s \in SUBSET Upload, u \in Upload :
                                   Cardinality(s) = n /\ Differs(s, u)}
<1>1. ASSUME Bad # {} PROVE FALSE
    <2>1. PICK n \in Bad : \A m \in Bad : n <= m
        BY <1>1, LeastExists
    <2>2. PICK s \in SUBSET Upload, u \in Upload : Cardinality(s) = n /\ Differs(s, u)
        OBVIOUS
    <2>3. PICK t \in SUBSET Upload : t = s \cup {u}
        OBVIOUS
    <2>4. PICK x \in t : x = Chosen(t)
        BY <2>3, ChosenIsOut
    <2>5. Sizes(t) = Size[x] + Sizes(t \ {x})
        BY <2>3, <2>4, SizesUnfold
    <2>6. \A v \in Upload : Size[v] \in Nat
        BY QuotaAssumption
    <2>7. CASE x = u
        <3>1. t \ {x} = s
            BY <2>2, <2>3, <2>7
        <3> QED
            BY <2>2, <2>3, <2>5, <2>6, <2>7, <3>1, SizesAreNumbers
    <2>8. CASE x # u
        <3>1. x \in s /\ x \in Upload
            BY <2>3, <2>8
        <3>2. PICK r \in SUBSET Upload : r = s \ {x}
            OBVIOUS
        <3>3. n \in Nat /\ Cardinality(r) \in Nat /\ Cardinality(r) = n - 1
            BY <2>2, <3>1, <3>2, SubsetsAreFinite, FS_RemoveElement
        <3>4. Cardinality(r) \notin Bad
            <4> HIDE DEF Bad
            <4> QED
                BY <2>1, <3>3
        <3>5. ~Differs(r, u) /\ ~Differs(r, x)
            BY <3>1, <3>3, <3>4
        <3>6. Sizes(r \cup {u}) = Sizes(r) + Size[u] /\ Sizes(r \cup {x}) = Sizes(r) + Size[x]
            BY <2>2, <3>2, <3>5
        <3>7. r \cup {x} = s /\ r \cup {u} = t \ {x}
            BY <2>2, <2>3, <2>8, <3>1, <3>2
        <3>8. /\ Sizes(s) = Sizes(r) + Size[x] /\ Sizes(t) = Size[x] + (Sizes(r) + Size[u])
              /\ Sizes(r) \in Nat /\ Size[x] \in Nat /\ Size[u] \in Nat
            BY <2>5, <2>6, <3>1, <3>6, <3>7, SizesAreNumbers
        <3> QED
            BY <2>2, <2>3, <3>8
    <2> QED
        BY <2>7, <2>8
<1>2. ASSUME NEW s \in SUBSET Upload, NEW u \in Upload, Differs(s, u) PROVE FALSE
    BY <1>1, <1>2, SubsetsAreFinite
<1> QED
    BY <1>2

LEMMA TimesGrows ==
    ASSUME NEW m \in Nat, NEW n \in Nat, NEW k \in Nat, m <= n
    PROVE  m * k <= n * k
<1>1. PICK d \in Nat : n = m + d
    <2>1. n - m \in Nat /\ n = m + (n - m)
        OBVIOUS
    <2> QED
        BY <2>1
<1>2. (m + d) * k = m * k + d * k
    OBVIOUS
<1>3. d * k \in Nat /\ m * k \in Nat
    OBVIOUS
<1> QED
    BY <1>1, <1>2, <1>3

\* Each upload adds the largest size at most.
LEMMA SizesBounded == \A s \in SUBSET Upload : Sizes(s) <= Cardinality(s) * MaxSize
<1> DEFINE Bad == {n \in Nat : \E s \in SUBSET Upload :
                       Cardinality(s) = n /\ ~ (Sizes(s) <= n * MaxSize)}
<1>1. ASSUME Bad # {} PROVE FALSE
    <2>1. PICK n \in Bad : \A m \in Bad : n <= m
        BY <1>1, LeastExists
    <2>2. PICK s \in SUBSET Upload : Cardinality(s) = n /\ ~ (Sizes(s) <= n * MaxSize)
        OBVIOUS
    <2>3. n \in Nat /\ MaxSize \in Nat
        BY QuotaAssumption
    <2>4. s # {}
        <3>1. Sizes({}) = 0 /\ 0 * MaxSize = 0
            BY <2>3, SizesUnfold
        <3>2. Cardinality({}) = 0
            BY FS_EmptySet
        <3> QED
            BY <2>2, <3>1, <3>2
    <2>5. PICK t \in SUBSET Upload : t = s \ {Chosen(s)}
        OBVIOUS
    <2>6. Cardinality(t) = n - 1 /\ n - 1 \in Nat /\ Chosen(s) \in Upload
        BY <2>2, <2>4, <2>5, ChosenIsOut, SubsetsAreFinite
    <2>7. n - 1 \notin Bad
        <3> HIDE DEF Bad
        <3> QED
            BY <2>1, <2>3, <2>6
    <2>8. Sizes(t) <= (n - 1) * MaxSize
        BY <2>6, <2>7
    <2>9. Sizes(s) = Size[Chosen(s)] + Sizes(t) /\ Sizes(t) \in Nat /\ Size[Chosen(s)] \in 0 .. MaxSize
        BY <2>4, <2>5, <2>6, SizesUnfold, SizesAreNumbers, QuotaAssumption
    <2>10. (n - 1) * MaxSize + MaxSize = n * MaxSize /\ (n - 1) * MaxSize \in Nat
        BY <2>3, <2>6
    <2> QED
        BY <2>2, <2>3, <2>8, <2>9, <2>10
<1>2. ASSUME NEW s \in SUBSET Upload, ~ (Sizes(s) <= Cardinality(s) * MaxSize) PROVE FALSE
    <2>1. Cardinality(s) \in Bad
        BY <1>2, SubsetsAreFinite
    <2> QED
        BY <1>1, <2>1
<1> QED
    BY <1>2
-----------------------------------------------------------------------------
(***************************************************************************)
(* The quotas of uploads                                                   *)
(***************************************************************************)

Waiting == Cardinality(Uncounted)

Promised == Sizes(Uncounted)

Allowance == BytesLimit + (together - 1) * MaxSize

\* QuotaBound with its sum by name; and history has not missed a call.
QuotaKept ==
    uploads + bytes + Waiting > 0 =>
        uploads + Waiting < CountLimit + together /\ bytes + Promised <= Allowance

QuotaInv == UploadQuotaTypeOK /\ Waiting <= together /\ QuotaKept

LEMMA QuotaNumbers ==
    ASSUME UploadQuotaTypeOK
    PROVE  /\ uploads \in Nat /\ bytes \in Nat /\ together \in Nat /\ Allowance \in Int
           /\ Uncounted \in SUBSET Upload /\ Waiting \in Nat /\ Promised \in Nat
           /\ MaxSize \in Nat /\ CountLimit \in Nat /\ BytesLimit \in Nat
           /\ \A u \in Upload : Size[u] \in Nat
<1>1. Uncounted \in SUBSET Upload
    BY DEF Uncounted
<1>2. MaxSize \in Nat /\ CountLimit \in Nat /\ BytesLimit \in Nat /\ together \in Nat
    BY QuotaAssumption DEF UploadQuotaTypeOK
<1>3. (together - 1) * MaxSize \in Int
    BY <1>2
<1> QED
    BY <1>1, <1>2, <1>3, SubsetsAreFinite, SizesAreNumbers, QuotaAssumption
       DEF UploadQuotaTypeOK, Waiting, Promised, Allowance

\* A call comes between the check and the count, or leaves.
LEMMA OneMoreWaits ==
    ASSUME UploadQuotaTypeOK, NEW u \in Upload, u \notin Uncounted,
           Uncounted' = Uncounted \cup {u}
    PROVE  Waiting' = Waiting + 1 /\ Promised' = Promised + Size[u]
<1>1. PICK S \in SUBSET Upload : S = Uncounted
    BY QuotaNumbers
<1>2. Cardinality(S \cup {u}) = Cardinality(S) + 1
    BY <1>1, SubsetsAreFinite, FS_AddElement
<1>3. Sizes(S \cup {u}) = Sizes(S) + Size[u]
    BY <1>1, SizesAdd
<1>4. Waiting' = Cardinality(Uncounted') /\ Promised' = Sizes(Uncounted')
    BY DEF Waiting, Promised
<1> QED
    BY <1>1, <1>2, <1>3, <1>4 DEF Waiting, Promised

LEMMA OneLessWaits ==
    ASSUME UploadQuotaTypeOK, NEW u \in Uncounted, Uncounted' = Uncounted \ {u}
    PROVE  Waiting = Waiting' + 1 /\ Promised = Promised' + Size[u]
           /\ Waiting' \in Nat /\ Promised' \in Nat
<1>1. PICK S \in SUBSET Upload : S = Uncounted \ {u}
    BY QuotaNumbers
<1>2. u \in Upload /\ u \notin S /\ S \cup {u} = Uncounted
    BY <1>1, QuotaNumbers
<1>3. Cardinality(S \cup {u}) = Cardinality(S) + 1 /\ Cardinality(S) \in Nat
    BY <1>2, SubsetsAreFinite, FS_AddElement
<1>4. Sizes(S \cup {u}) = Sizes(S) + Size[u] /\ Sizes(S) \in Nat
    BY <1>2, SizesAdd, SizesAreNumbers
<1>5. Waiting' = Cardinality(Uncounted') /\ Promised' = Sizes(Uncounted')
    BY DEF Waiting, Promised
<1> QED
    BY <1>1, <1>2, <1>3, <1>4, <1>5 DEF Waiting, Promised

LEMMA UploadCheckKeeps == ASSUME QuotaInv, NEW u \in Upload, UploadCheck(u) PROVE QuotaInv'
<1>1. UploadQuotaTypeOK /\ Waiting <= together /\ QuotaKept
    BY DEF QuotaInv
<1>2. upload \in [Upload -> UploadStep] /\ upload[u] = "new" /\ UNCHANGED <<uploads, bytes>>
    BY <1>1 DEF UploadQuotaTypeOK, UploadCheck
<1>3. u \notin Uncounted
    BY <1>2 DEF Uncounted
<1>4. CASE ~WithinQuota(u)
    <2>1. upload' = [upload EXCEPT ![u] = "error"] /\ together' = together
        BY <1>4 DEF UploadCheck
    <2>2. Uncounted' = Uncounted
        BY <1>2, <2>1 DEF Uncounted
    <2>3. UploadQuotaTypeOK'
        BY <1>1, <1>2, <2>1 DEF UploadQuotaTypeOK, UploadStep
    <2> QED
        BY <1>1, <1>2, <2>1, <2>2, <2>3 DEF QuotaInv, QuotaKept, Waiting, Promised, Allowance
<1>5. CASE WithinQuota(u)
    <2>1. /\ upload' = [upload EXCEPT ![u] = "save"]
          /\ together' = IF Waiting < together THEN together ELSE Waiting + 1
        BY <1>5 DEF UploadCheck, Waiting
    <2>2. uploads < CountLimit /\ bytes + Size[u] <= BytesLimit
        BY <1>5 DEF WithinQuota
    <2>3. Uncounted' = Uncounted \cup {u}
        BY <1>2, <2>1 DEF Uncounted
    <2>4. Waiting' = Waiting + 1 /\ Promised' = Promised + Size[u]
        BY <1>1, <1>3, <2>3, OneMoreWaits
    <2>5. together' \in Nat /\ Waiting <= together' - 1 /\ together' - 1 \in Nat
        BY <1>1, <2>1, QuotaNumbers
    <2>6. UploadQuotaTypeOK'
        BY <1>1, <1>2, <2>1, <2>5 DEF UploadQuotaTypeOK, UploadStep
    <2>7. Promised <= Waiting * MaxSize
        BY <1>1, QuotaNumbers, SizesBounded DEF Promised, Waiting
    <2>8. Waiting * MaxSize <= (together' - 1) * MaxSize
        BY <1>1, <2>5, QuotaNumbers, TimesGrows
    <2>9. Waiting * MaxSize \in Nat /\ (together' - 1) * MaxSize \in Nat
        BY <1>1, <2>5, QuotaNumbers
    <2>10. bytes + (Promised + Size[u]) <= BytesLimit + (together' - 1) * MaxSize
        BY <1>1, <2>2, <2>7, <2>8, <2>9, QuotaNumbers
    <2>11. uploads + (Waiting + 1) < CountLimit + together' /\ Waiting + 1 <= together'
        BY <1>1, <2>2, <2>5, QuotaNumbers
    <2>12. Allowance' = BytesLimit + (together' - 1) * MaxSize
        BY DEF Allowance
    <2> QED
        BY <1>2, <2>4, <2>6, <2>10, <2>11, <2>12 DEF QuotaInv, QuotaKept
<1> QED
    BY <1>4, <1>5

LEMMA QuotaStepsKeep == ASSUME QuotaInv, [UploadQuotaNext]_quotaVars PROVE QuotaInv'
<1>1. UploadQuotaTypeOK /\ Waiting <= together /\ QuotaKept
    BY DEF QuotaInv
<1>2. upload \in [Upload -> UploadStep]
    BY <1>1 DEF UploadQuotaTypeOK
<1>3. ASSUME NEW u \in Uncounted, Uncounted' = Uncounted \ {u}, UNCHANGED together,
             UploadQuotaTypeOK',
             \/ uploads' = uploads /\ bytes' = bytes
             \/ uploads' = uploads + 1 /\ bytes' = bytes + Size[u]
      PROVE  QuotaInv'
    <2>1. Waiting = Waiting' + 1 /\ Promised = Promised' + Size[u]
          /\ Waiting' \in Nat /\ Promised' \in Nat
        BY <1>1, <1>3, OneLessWaits
    <2>2. Allowance' = Allowance /\ u \in Upload
        BY <1>3 DEF Allowance, Uncounted
    <2>3. uploads + Waiting < CountLimit + together /\ bytes + Promised <= Allowance
        BY <1>1, <2>1, QuotaNumbers DEF QuotaKept
    <2>4. Waiting' <= together'
        BY <1>1, <1>3, <2>1, QuotaNumbers
    <2>5. uploads' + Waiting' < CountLimit + together'
        BY <1>1, <1>3, <2>1, <2>3, QuotaNumbers
    <2>6. bytes' + Promised' <= Allowance'
        BY <1>1, <1>3, <2>1, <2>2, <2>3, QuotaNumbers
    <2> QED
        BY <1>3, <2>4, <2>5, <2>6 DEF QuotaInv, QuotaKept
<1>4. ASSUME NEW u \in Upload, UploadSave(u)
      PROVE  QuotaInv'
    <2>1. upload[u] = "save" /\ UNCHANGED <<uploads, bytes, together>>
        BY <1>4 DEF UploadSave
    <2>2. CASE upload' = [upload EXCEPT ![u] = "count"]
        <3>1. Uncounted' = Uncounted
            BY <1>2, <2>1, <2>2 DEF Uncounted
        <3>2. UploadQuotaTypeOK'
            BY <1>1, <2>1, <2>2 DEF UploadQuotaTypeOK, UploadStep
        <3> QED
            BY <1>1, <2>1, <3>1, <3>2 DEF QuotaInv, QuotaKept, Waiting, Promised, Allowance
    <2>3. CASE upload' = [upload EXCEPT ![u] = "error"]
        <3>1. u \in Uncounted /\ Uncounted' = Uncounted \ {u}
            BY <1>2, <2>1, <2>3 DEF Uncounted
        <3>2. UploadQuotaTypeOK'
            BY <1>1, <2>1, <2>3 DEF UploadQuotaTypeOK, UploadStep
        <3> QED
            BY <1>3, <2>1, <3>1, <3>2
    <2> QED
        BY <1>4, <2>2, <2>3 DEF UploadSave
<1>5. ASSUME NEW u \in Upload, UploadCount(u)
      PROVE  QuotaInv'
    <2>1. /\ upload[u] = "count" /\ upload' = [upload EXCEPT ![u] = "done"]
          /\ uploads' = uploads + 1 /\ bytes' = bytes + Size[u] /\ together' = together
        BY <1>5 DEF UploadCount
    <2>2. u \in Uncounted /\ Uncounted' = Uncounted \ {u}
        BY <1>2, <2>1 DEF Uncounted
    <2>3. UploadQuotaTypeOK'
        BY <1>1, <2>1, QuotaNumbers DEF UploadQuotaTypeOK, UploadStep
    <2> QED
        BY <1>3, <2>1, <2>2, <2>3
<1>6. CASE QuotaExpires
    <2>1. UNCHANGED <<upload, together>>
        BY <1>6 DEF QuotaExpires
    <2>2. (uploads' = uploads \/ uploads' = 0) /\ (bytes' = bytes \/ bytes' = 0)
        BY <1>6 DEF QuotaExpires
    <2>3. Waiting' = Waiting /\ Promised' = Promised /\ Allowance' = Allowance
        BY <2>1 DEF Waiting, Promised, Allowance, Uncounted
    <2>4. uploads' \in Nat /\ bytes' \in Nat /\ uploads' <= uploads /\ bytes' <= bytes
        BY <1>1, <2>2, QuotaNumbers
    <2>5. UploadQuotaTypeOK'
        BY <1>1, <2>1, <2>4 DEF UploadQuotaTypeOK
    <2>6. QuotaKept'
        BY <1>1, <2>1, <2>3, <2>4, QuotaNumbers DEF QuotaKept
    <2> QED
        BY <1>1, <2>1, <2>3, <2>5, <2>6 DEF QuotaInv
<1>7. CASE UNCHANGED quotaVars
    BY <1>1, <1>7 DEF quotaVars, QuotaInv, QuotaKept, UploadQuotaTypeOK, Waiting, Promised, Allowance,
       Uncounted
<1> QED
    BY <1>4, <1>5, <1>6, <1>7, UploadCheckKeeps DEF UploadQuotaNext

LEMMA QuotaStarts == UploadQuotaInit => QuotaInv
<1> SUFFICES ASSUME UploadQuotaInit PROVE QuotaInv
    OBVIOUS
<1>1. UploadQuotaTypeOK /\ uploads = 0 /\ bytes = 0 /\ together = 0 /\ Uncounted = {}
    BY DEF UploadQuotaInit, UploadQuotaTypeOK, UploadStep, Uncounted
<1>2. Waiting = 0
    BY <1>1, FS_EmptySet DEF Waiting
<1> QED
    BY <1>1, <1>2 DEF QuotaInv, QuotaKept

LEMMA QuotaInvIsEnough == QuotaInv => QuotaBound
BY DEF QuotaInv, QuotaKept, QuotaBound, Waiting, Promised, Allowance, Sizes

\* Whatever else runs, messages and uploads pass their limits only together, and by
\* less than the calls that ever were between the look at a limit and the count.
THEOREM LimitsAreKept == ServicesSpec => []LimitsHold
<1>1. ServicesInit => QuotaInv
    BY QuotaStarts DEF ServicesInit
<1>2. QuotaInv /\ [ServicesNext]_ServicesVars => QuotaInv'
    BY OneAtATime, QuotaStepsKeep
<1>3. QuotaInv /\ RateBound => LimitsHold
    BY QuotaInvIsEnough DEF LimitsHold
<1> QED
    BY RateStaysBounded, <1>1, <1>2, <1>3, PTL DEF ServicesSpec
-----------------------------------------------------------------------------
(***************************************************************************)
(* The files of a medium on the phone                                      *)
(***************************************************************************)

PipeSteps == {"idle", "lookup", "fetch", "wait", "write", "index", "ready"}

PipeRecord == [pc : PipeSteps, tries : 0 .. MaxAttempts, mismatch : BOOLEAN]

SaverSteps == {"idle", "check", "copy", "put", "sent", "write", "index", "ready", "failed"}

\* A pipeline has made no attempt before its first, and waits only for one that is left.
PipesSound ==
    \A k \in Part : /\ pipe[k].pc \in {"idle", "lookup"} => pipe[k].tries = 0
                    /\ pipe[k].pc = "wait" => pipe[k].tries < MaxAttempts

\* Before a flush index and disk only grow, so what a call has written is there when
\* it writes the next, and is there still when it shows the part as READY.
WrittenStays ==
    removal.step = "no" =>
        /\ unseen = {} /\ removal.part = "original"
        /\ \A k \in Part : /\ pipe[k].pc = "index" => k \in disk
                           /\ pipe[k].pc = "ready" => k \in disk \cap index
                           /\ state[k] = "READY" /\ k \notin stuck => k \in disk \cap index
        /\ \A w \in {"queue", "send"} :
               /\ saver[w] = "index" => "thumb" \in disk
               /\ saver[w] = "ready" => "thumb" \in disk \cap index
        /\ saver["send"] \in {"put", "sent"} => "original" \in disk \cup stuck
        /\ saver["send"] = "sent" => "original" \in index

\* Nobody writes the part, or will.
LeftAlone(k) ==
    /\ pipe[k].pc = "idle"
    /\ k = "thumb" => pipe["original"].pc = "idle" /\ saver["queue"] = "idle"

\* The flush is through with the part.
Passed(k) == removal.step = "done" \/ (removal.part = "thumb" /\ k = "original")

\* A part that nobody wrote when the flush began, nobody writes any more; its file is
\* deleted before its place in the index, and its state is forgotten last.
FlushSound ==
    removal.step # "no" =>
        /\ saver["send"] = "idle"
        /\ \A k \in Part \ unseen : LeftAlone(k)
        /\ \A k \in Part \ (unseen \cup stuck) :
               /\ k \in disk => k \in index
               /\ removal = [step |-> "index", part |-> k] => k \notin disk
               /\ Passed(k) => k \notin disk \cup index
               /\ removal.step = "done" => state[k] = "none"

CacheInv == ClientMediaTypeOK /\ PipesSound /\ WrittenStays /\ FlushSound /\ SettledWhenIdle

LEMMA CacheStarts == ClientMediaInit => CacheInv
<1> SUFFICES ASSUME ClientMediaInit PROVE CacheInv
    OBVIOUS
<1>1. PICK pc \in {"idle", "copy"} : saver = [queue |-> "idle", send |-> pc]
    BY DEF ClientMediaInit
<1>2. saver \in [{"queue", "send"} -> SaverSteps]
    BY <1>1 DEF SaverSteps
<1>3. saver["send"] \in {"idle", "copy"} /\ saver["queue"] = "idle"
    BY <1>1
<1>4. pipe \in [Part -> PipeRecord] /\ \A k \in Part : pipe[k] = NoPipe
    BY ClientMediaAssumption DEF ClientMediaInit, NoPipe, PipeRecord, PipeSteps
<1>5. ClientMediaTypeOK
    BY <1>2, <1>4, ClientMediaAssumption
       DEF ClientMediaInit, ClientMediaTypeOK, MediaStates, PipeRecord, PipeSteps, SaverSteps, Part
<1>6. PipesSound /\ SettledWhenIdle
    BY <1>4 DEF PipesSound, SettledWhenIdle, NoPipe, ClientMediaInit
<1>7. WrittenStays /\ FlushSound
    BY <1>3, <1>4 DEF WrittenStays, FlushSound, NoPipe, ClientMediaInit
<1> QED
    BY <1>5, <1>6, <1>7 DEF CacheInv

\* What the proofs below take from the types.
CacheShape ==
    /\ pipe \in [Part -> PipeRecord] /\ state \in [Part -> MediaStates]
    /\ saver \in [{"queue", "send"} -> SaverSteps]
    /\ index \subseteq Part /\ disk \subseteq Part /\ unseen \subseteq Part /\ stuck \subseteq Part
    /\ removal \in [step : {"no", "file", "index", "done"}, part : Part]

LEMMA ShapeOfTypes ==
    ClientMediaTypeOK <=> CacheShape /\ gets \in 0 .. MaxGets /\ crashes \in 0 .. MaxCrashes
BY DEF ClientMediaTypeOK, CacheShape, PipeRecord, PipeSteps, SaverSteps

\* A pipeline at work goes on with a record of its own.
PipeGoes(k, new) ==
    /\ new \in PipeRecord
    /\ new.pc \in {"idle", "lookup"} => new.tries = 0
    /\ new.pc = "wait" => new.tries < MaxAttempts
    /\ pipe' = [pipe EXCEPT ![k] = new]

\* A part of which the pipeline is at work is not one that a flush left alone.
LEMMA PipelineKeeps ==
    ASSUME CacheInv, NEW k \in Part, NEW new, PipeGoes(k, new),
           pipe[k].pc = "idle" => removal.step = "no",
           NEW s \in MediaStates, state' = [state EXCEPT ![k] = s],
           new.pc = "idle" => s \notin {"DOWNLOADING", "VERIFYING"},
           removal.step = "no" =>
               /\ new.pc = "index" => k \in disk'
               /\ new.pc = "ready" => k \in disk' \cap index'
               /\ s = "READY" /\ k \notin stuck => k \in disk' \cap index',
           disk' = disk \/ disk' = disk \cup {k}, index' = index \/ index' = index \cup {k},
           saver' = saver \/ (k = "original" /\ pipe[k].pc # "idle"
                                 /\ saver' = [saver EXCEPT !["queue"] = "check"]),
           UNCHANGED <<removal, crashes, unseen, stuck>>, gets' \in 0 .. MaxGets
    PROVE  CacheInv'
<1>1. CacheShape /\ crashes \in 0 .. MaxCrashes
    BY ShapeOfTypes DEF CacheInv
<1>2. /\ pipe' \in [Part -> PipeRecord] /\ pipe'[k] = new
      /\ \A x \in Part \ {k} : pipe'[x] = pipe[x]
      /\ state' \in [Part -> MediaStates] /\ state'[k] = s
      /\ \A x \in Part \ {k} : state'[x] = state[x]
    BY <1>1 DEF CacheShape, PipeGoes
<1>3. /\ saver' \in [{"queue", "send"} -> SaverSteps] /\ saver'["send"] = saver["send"]
      /\ \/ saver'["queue"] = saver["queue"]
         \/ saver'["queue"] = "check" /\ k = "original" /\ pipe[k].pc # "idle"
    BY <1>1 DEF CacheShape, SaverSteps
<1>4. CacheShape'
    BY <1>1, <1>2, <1>3 DEF CacheShape
<1>5. ClientMediaTypeOK'
    BY <1>1, <1>4 DEF ClientMediaTypeOK, CacheShape, PipeRecord, PipeSteps, SaverSteps
<1>6. PipesSound' /\ SettledWhenIdle'
    BY <1>2 DEF CacheInv, PipesSound, SettledWhenIdle, PipeGoes
<1>7. WrittenStays'
    BY <1>1, <1>2, <1>3 DEF CacheInv, WrittenStays, CacheShape
<1>8. FlushSound'
    <2> SUFFICES ASSUME removal.step # "no" PROVE FlushSound'
        BY DEF FlushSound
    <2>1. pipe[k].pc # "idle" /\ saver["send"] = "idle" /\ k \in unseen
        BY DEF CacheInv, FlushSound, LeftAlone
    <2>2. k = "original" => "thumb" \in unseen
        BY <2>1 DEF CacheInv, FlushSound, LeftAlone, Part
    <2>3. ASSUME NEW x \in Part \ unseen
          PROVE  LeftAlone(x)'
        BY <1>2, <1>3, <2>1, <2>2, <2>3 DEF CacheInv, FlushSound, LeftAlone, Part
    <2>4. ASSUME NEW x \in Part \ (unseen \cup stuck)
          PROVE  /\ x \in disk' <=> x \in disk
                 /\ x \in index' <=> x \in index
                 /\ state'[x] = state[x]
        BY <1>2, <2>1
    <2> QED
        BY <1>3, <2>1, <2>3, <2>4 DEF CacheInv, FlushSound, Passed
<1> QED
    BY <1>5, <1>6, <1>7, <1>8 DEF CacheInv

\* getMedia, _downloadAndProcess: what each of their steps makes of its record.
LEMMA PipelineStepsKeep ==
    ASSUME CacheInv, NEW k \in Part,
           GetMedia(k) \/ GetLookup(k) \/ GetFetch(k) \/ GetRetry(k)
               \/ GetWrite(k) \/ GetIndex(k) \/ GetReady(k)
    PROVE  CacheInv'
<1>1. /\ CacheShape /\ crashes \in 0 .. MaxCrashes /\ gets \in 0 .. MaxGets
      /\ MaxAttempts \in Nat /\ MaxAttempts >= 2 /\ MaxGets \in Nat
      /\ pipe[k] \in PipeRecord
    BY ShapeOfTypes, ClientMediaAssumption DEF CacheInv, CacheShape
<1>2. state = [state EXCEPT ![k] = state[k]] /\ state[k] \in MediaStates
    BY <1>1 DEF CacheShape
<1>3. ASSUME NEW pc \in PipeSteps, Pipes(k, pc), pc # "lookup", pc # "idle",
             pc = "wait" => pipe[k].tries < MaxAttempts
      PROVE  \E new : PipeGoes(k, new) /\ new.pc = pc
    <2>1. PICK new : new = [pipe[k] EXCEPT !.pc = pc]
        OBVIOUS
    <2>2. new \in PipeRecord /\ new.pc = pc /\ new.tries = pipe[k].tries
        BY <1>1, <2>1 DEF PipeRecord
    <2>3. pipe' = [pipe EXCEPT ![k] = new]
        BY <1>3, <2>1 DEF Pipes
    <2> QED
        BY <1>3, <2>2, <2>3 DEF PipeGoes
<1>4. NoPipe \in PipeRecord /\ NoPipe.pc = "idle" /\ NoPipe.tries = 0
    BY <1>1 DEF NoPipe, PipeRecord, PipeSteps
<1>5. ASSUME pipe' = [pipe EXCEPT ![k] = NoPipe]
      PROVE  PipeGoes(k, NoPipe)
    BY <1>4, <1>5 DEF PipeGoes
<1>6. ASSUME StartsAttempt(k), pipe[k].tries < MaxAttempts
      PROVE  \E new : PipeGoes(k, new) /\ new.pc = "fetch"
    <2>1. PICK new : new = [pipe[k] EXCEPT !.pc = "fetch", !.tries = @ + 1]
        OBVIOUS
    <2>2. new \in PipeRecord /\ new.pc = "fetch"
        <3>1. PICK t \in 0 .. MaxAttempts : t = pipe[k].tries + 1
            BY <1>1, <1>6 DEF PipeRecord
        <3>2. new = [pipe[k] EXCEPT !.pc = "fetch", !.tries = t]
            BY <2>1, <3>1
        <3> QED
            BY <1>1, <3>2 DEF PipeRecord, PipeSteps
    <2>3. pipe' = [pipe EXCEPT ![k] = new]
        BY <1>6, <2>1 DEF StartsAttempt
    <2> QED
        BY <2>2, <2>3 DEF PipeGoes
<1>7. ASSUME pipe[k].pc # "idle", Fails(k), UNCHANGED <<index, disk, gets, saver, removal, crashes, unseen, stuck>>
      PROVE  CacheInv'
    BY <1>1, <1>4, <1>5, <1>7, PipelineKeeps DEF Fails, Shows, MediaStates
<1>8. ASSUME pipe[k].pc # "idle", Recovers(k), UNCHANGED <<index, disk, gets, saver, removal, crashes, unseen, stuck>>
      PROVE  CacheInv'
    <2>1. CASE Fails(k)
        BY <1>7, <1>8, <2>1
    <2>2. CASE ~Fails(k)
        <3>1. Pipes(k, "wait") /\ UNCHANGED state /\ pipe[k].tries < MaxAttempts
            BY <1>1, <1>8, <2>2 DEF Recovers, PipeRecord
        <3>2. PICK new : PipeGoes(k, new) /\ new.pc = "wait"
            BY <1>3, <3>1 DEF PipeSteps
        <3> QED
            BY <1>1, <1>2, <1>8, <3>1, <3>2, PipelineKeeps
               DEF CacheInv, WrittenStays
    <2> QED
        BY <2>1, <2>2
<1>9. CASE GetMedia(k)
    <2>1. /\ pipe[k].pc = "idle" /\ removal.step = "no" /\ gets' \in 0 .. MaxGets
          /\ Pipes(k, "lookup")
          /\ UNCHANGED <<state, index, disk, saver, removal, crashes, unseen, stuck>>
        BY <1>1, <1>9 DEF GetMedia
    <2>2. PICK new : new = [pipe[k] EXCEPT !.pc = "lookup"]
        OBVIOUS
    <2>3. new \in PipeRecord /\ new.pc = "lookup" /\ new.tries = 0
        BY <1>1, <2>1, <2>2 DEF PipeRecord, PipeSteps, CacheInv, PipesSound
    <2>4. PipeGoes(k, new)
        BY <2>1, <2>2, <2>3 DEF PipeGoes, Pipes
    <2> QED
        BY <1>1, <1>2, <2>1, <2>3, <2>4, PipelineKeeps DEF CacheInv, WrittenStays
<1>10. CASE GetLookup(k)
    <2>1. pipe[k].pc = "lookup" /\ pipe[k].tries = 0
        BY <1>10 DEF GetLookup, CacheInv, PipesSound
    <2>2. CASE k \in index \cap disk
        BY <1>1, <1>4, <1>5, <1>10, <2>1, <2>2, PipelineKeeps DEF GetLookup, Shows, MediaStates
    <2>3. CASE k \notin index \cap disk
        <3>1. StartsAttempt(k)
            BY <1>10, <2>3 DEF GetLookup
        <3>2. PICK new : PipeGoes(k, new) /\ new.pc = "fetch"
            BY <1>1, <1>6, <2>1, <3>1
        <3>3. state' = [state EXCEPT ![k] = "DOWNLOADING"]
            BY <3>1 DEF StartsAttempt, Shows
        <3> QED
            BY <1>1, <1>10, <2>1, <3>2, <3>3, PipelineKeeps DEF GetLookup, MediaStates
    <2> QED
        BY <2>2, <2>3
<1>11. CASE GetRetry(k)
    <2>1. pipe[k].pc = "wait" /\ pipe[k].tries < MaxAttempts /\ StartsAttempt(k)
        BY <1>11 DEF GetRetry, CacheInv, PipesSound
    <2>2. PICK new : PipeGoes(k, new) /\ new.pc = "fetch"
        BY <1>6, <2>1
    <2>3. state' = [state EXCEPT ![k] = "DOWNLOADING"]
        BY <2>1 DEF StartsAttempt, Shows
    <2> QED
        BY <1>1, <1>11, <2>1, <2>2, <2>3, PipelineKeeps DEF GetRetry, MediaStates
<1>12. CASE GetFetch(k)
    <2>1. pipe[k].pc = "fetch" /\ UNCHANGED <<index, disk, gets, saver, removal, crashes, unseen, stuck>>
        BY <1>12 DEF GetFetch
    <2>2. CASE Fails(k) \/ Recovers(k)
        BY <1>7, <1>8, <2>1, <2>2
    <2>3. CASE Pipes(k, "write") /\ Shows(k, "VERIFYING")
        <3>1. PICK new : PipeGoes(k, new) /\ new.pc = "write"
            BY <1>3, <2>3 DEF PipeSteps
        <3> QED
            BY <1>1, <2>1, <2>3, <3>1, PipelineKeeps DEF Shows, MediaStates
    <2>4. CASE /\ pipe[k].tries < 2 /\ UNCHANGED state
               /\ pipe' = [pipe EXCEPT ![k].tries = @ + 1, ![k].mismatch = TRUE]
        <3>1. PICK new : new = [pipe[k] EXCEPT !.tries = @ + 1, !.mismatch = TRUE]
            OBVIOUS
        <3>2. new \in PipeRecord /\ new.pc = "fetch"
            <4>1. PICK t \in 0 .. MaxAttempts : t = pipe[k].tries + 1
                BY <1>1, <2>4 DEF PipeRecord
            <4>2. new = [pipe[k] EXCEPT !.tries = t, !.mismatch = TRUE]
                BY <3>1, <4>1
            <4> QED
                BY <1>1, <2>1, <4>2 DEF PipeRecord
        <3>3. PipeGoes(k, new)
            BY <2>4, <3>1, <3>2 DEF PipeGoes
        <3> QED
            BY <1>1, <1>2, <2>1, <2>4, <3>2, <3>3, PipelineKeeps DEF CacheInv, WrittenStays
    <2> QED
        BY <1>1, <1>12, <2>2, <2>3, <2>4 DEF GetFetch, PipeRecord
<1>13. CASE GetWrite(k)
    <2>1. pipe[k].pc = "write" /\ UNCHANGED <<index, gets, saver, removal, crashes, unseen, stuck>>
        BY <1>13 DEF GetWrite
    <2>2. CASE disk' = disk \cup {k} /\ Pipes(k, "index") /\ UNCHANGED state
        <3>1. PICK new : PipeGoes(k, new) /\ new.pc = "index"
            BY <1>3, <2>2 DEF PipeSteps
        <3> QED
            BY <1>1, <1>2, <2>1, <2>2, <3>1, PipelineKeeps DEF CacheInv, WrittenStays
    <2>3. CASE UNCHANGED disk /\ Recovers(k)
        BY <1>8, <2>1, <2>3
    <2> QED
        BY <1>13, <2>2, <2>3 DEF GetWrite
<1>14. CASE GetIndex(k)
    <2>1. /\ pipe[k].pc = "index" /\ index' = index \cup {k} /\ Pipes(k, "ready")
          /\ UNCHANGED <<state, disk, gets, saver, removal, crashes, unseen, stuck>>
        BY <1>14 DEF GetIndex
    <2>2. PICK new : PipeGoes(k, new) /\ new.pc = "ready"
        BY <1>3, <2>1 DEF PipeSteps
    <2> QED
        BY <1>1, <1>2, <2>1, <2>2, PipelineKeeps DEF CacheInv, WrittenStays
<1>15. CASE GetReady(k)
    <2>1. /\ pipe[k].pc = "ready" /\ state' = [state EXCEPT ![k] = "READY"]
          /\ pipe' = [pipe EXCEPT ![k] = NoPipe]
          /\ saver' = saver \/ (k = "original" /\ saver' = [saver EXCEPT !["queue"] = "check"])
          /\ UNCHANGED <<index, disk, gets, removal, crashes, unseen, stuck>>
        BY <1>15 DEF GetReady, Shows
    <2>2. removal.step = "no" => k \in disk \cap index
        BY <2>1 DEF CacheInv, WrittenStays
    <2> QED
        BY <1>1, <1>4, <1>5, <2>1, <2>2, PipelineKeeps DEF MediaStates
<1> QED
    BY <1>9, <1>10, <1>11, <1>12, <1>13, <1>14, <1>15

\* The thumbnail queue, or the sending of a file, goes on with a part; when a flush
\* has begun it is the queue, and the thumbnail was in writing.
LEMMA SaverKeeps ==
    ASSUME CacheInv, NEW w \in {"queue", "send"}, NEW pc \in SaverSteps, saver[w] # "idle",
           saver' = [saver EXCEPT ![w] = pc],
           NEW k \in Part, w = "queue" => k = "thumb",
           NEW s \in {"READY", state[k]}, state' = [state EXCEPT ![k] = s],
           disk' = disk \/ disk' = disk \cup {k}, index' = index \/ index' = index \cup {k},
           stuck' = stuck \/ stuck' = stuck \cup {k},
           removal.step = "no" =>
               /\ pc = "index" => "thumb" \in disk'
               /\ pc = "ready" => "thumb" \in disk' \cap index'
               /\ s = "READY" /\ k \notin stuck' => k \in disk' \cap index'
               /\ pc \in {"put", "sent"} => "original" \in disk' \cup stuck'
               /\ pc = "sent" => "original" \in index',
           UNCHANGED <<pipe, gets, removal, crashes, unseen>>
    PROVE  CacheInv'
<1>1. CacheShape /\ crashes \in 0 .. MaxCrashes /\ gets \in 0 .. MaxGets
    BY ShapeOfTypes DEF CacheInv
<1>2. state[k] \in MediaStates /\ "READY" \in MediaStates
    BY <1>1 DEF CacheShape, MediaStates
<1>3. /\ state' \in [Part -> MediaStates] /\ state'[k] = s
      /\ \A x \in Part \ {k} : state'[x] = state[x]
    BY <1>1, <1>2 DEF CacheShape
<1>4. /\ saver' \in [{"queue", "send"} -> SaverSteps] /\ saver'[w] = pc
      /\ \A x \in {"queue", "send"} \ {w} : saver'[x] = saver[x]
    BY <1>1 DEF CacheShape
<1>5. CacheShape'
    BY <1>1, <1>3, <1>4 DEF CacheShape
<1>6. ClientMediaTypeOK'
    BY <1>1, <1>5 DEF ClientMediaTypeOK, CacheShape, PipeRecord, PipeSteps, SaverSteps
<1>7. PipesSound' /\ SettledWhenIdle'
    BY <1>3 DEF CacheInv, PipesSound, SettledWhenIdle
<1>8. WrittenStays'
    BY <1>1, <1>3, <1>4 DEF CacheInv, WrittenStays, CacheShape
<1>9. FlushSound'
    <2> SUFFICES ASSUME removal.step # "no" PROVE FlushSound'
        BY DEF FlushSound
    <2>1. saver["send"] = "idle" /\ w = "queue" /\ k = "thumb" /\ k \in unseen
        BY DEF CacheInv, FlushSound, LeftAlone
    <2>2. saver'["send"] = "idle"
        BY <1>4, <2>1
    <2>3. ASSUME NEW x \in Part \ unseen
          PROVE  LeftAlone(x)'
        BY <2>1, <2>3 DEF CacheInv, FlushSound, LeftAlone
    <2>4. ASSUME NEW x \in Part \ (unseen \cup stuck)
          PROVE  /\ x \in disk' <=> x \in disk
                 /\ x \in index' <=> x \in index
                 /\ state'[x] = state[x]
        BY <1>3, <2>1
    <2> QED
        BY <2>1, <2>2, <2>3, <2>4 DEF CacheInv, FlushSound, Passed
<1> QED
    BY <1>6, <1>7, <1>8, <1>9 DEF CacheInv

\* ThumbnailQueue, cacheSentMedia and saveThumbnailDirectly.
LEMMA SaversKeep ==
    ASSUME CacheInv,
           QueueCheck \/ SendCopy \/ SendPut \/ SendReady
               \/ \E w \in {"queue", "send"} : SaveWrite(w) \/ SaveIndex(w) \/ SaveReady(w)
    PROVE  CacheInv'
<1> USE DEF Saves
<1>1. CacheShape
    BY ShapeOfTypes DEF CacheInv
<1>2. \A k \in Part : state = [state EXCEPT ![k] = state[k]]
    BY <1>1 DEF CacheShape
<1>3. removal.step = "no" => \A k \in Part \ stuck : state[k] = "READY" => k \in disk \cap index
    BY DEF CacheInv, WrittenStays
<1>4. "thumb" \in Part /\ "original" \in Part
    BY DEF Part
<1>5. CASE QueueCheck
    <2>1. PICK pc \in {"idle", "write"} : saver' = [saver EXCEPT !["queue"] = pc]
        BY <1>5 DEF QueueCheck
    <2>2. saver["queue"] # "idle"
          /\ UNCHANGED <<state, index, disk, pipe, gets, removal, crashes, unseen, stuck>>
        BY <1>5 DEF QueueCheck
    <2> QED
        BY <1>2, <1>3, <1>4, <2>1, <2>2, SaverKeeps DEF SaverSteps
<1>6. CASE SendCopy
    <2>1. /\ saver["send"] = "copy" /\ saver' = [saver EXCEPT !["send"] = "put"]
          /\ \/ disk' = disk \cup {"original"} /\ stuck' = stuck
             \/ stuck' = stuck \cup {"original"} /\ disk' = disk
          /\ UNCHANGED <<state, index, pipe, gets, removal, crashes, unseen>>
        BY <1>6 DEF SendCopy
    <2> QED
        BY <1>2, <1>3, <1>4, <2>1, SaverKeeps DEF SaverSteps
<1>7. CASE SendPut
    <2>1. /\ saver["send"] = "put" /\ saver' = [saver EXCEPT !["send"] = "sent"]
          /\ index' = index \cup {"original"}
          /\ UNCHANGED <<state, disk, pipe, gets, removal, crashes, unseen, stuck>>
        BY <1>7 DEF SendPut
    <2>2. removal.step = "no" => "original" \in disk \cup stuck
        BY <2>1 DEF CacheInv, WrittenStays
    <2> QED
        BY <1>2, <1>3, <1>4, <2>1, <2>2, SaverKeeps DEF SaverSteps
<1>8. CASE SendReady
    <2>1. PICK pc \in {"write", "idle"} : saver' = [saver EXCEPT !["send"] = pc]
        BY <1>8 DEF SendReady
    <2>2. /\ saver["send"] = "sent" /\ state' = [state EXCEPT !["original"] = "READY"]
          /\ UNCHANGED <<index, disk, pipe, gets, removal, crashes, unseen, stuck>>
        BY <1>8 DEF SendReady, Shows
    <2>3. removal.step = "no" => "original" \in disk \cup stuck /\ "original" \in index
        BY <2>2 DEF CacheInv, WrittenStays
    <2> QED
        BY <1>4, <2>1, <2>2, <2>3, SaverKeeps DEF SaverSteps
<1>9. ASSUME NEW w \in {"queue", "send"}, SaveWrite(w)
      PROVE  CacheInv'
    <2>1. PICK pc \in {"index", "idle", "failed"} :
              /\ saver' = [saver EXCEPT ![w] = pc]
              /\ (disk' = disk /\ pc # "index") \/ disk' = disk \cup {"thumb"}
        BY <1>9 DEF SaveWrite
    <2>2. saver[w] = "write" /\ UNCHANGED <<state, index, pipe, gets, removal, crashes, unseen, stuck>>
        BY <1>9 DEF SaveWrite
    <2>3. disk' = disk \/ disk' = disk \cup {"thumb"}
        BY <2>1
    <2>4. pc = "index" => "thumb" \in disk'
        BY <2>1
    <2> QED
        BY <1>2, <1>3, <1>4, <2>1, <2>2, <2>3, <2>4, SaverKeeps DEF SaverSteps
<1>10. ASSUME NEW w \in {"queue", "send"}, SaveIndex(w)
      PROVE  CacheInv'
    <2>1. /\ saver[w] = "index" /\ saver' = [saver EXCEPT ![w] = "ready"]
          /\ index' = index \cup {"thumb"}
          /\ UNCHANGED <<state, disk, pipe, gets, removal, crashes, unseen, stuck>>
        BY <1>10 DEF SaveIndex
    <2>2. removal.step = "no" => "thumb" \in disk
        BY <2>1 DEF CacheInv, WrittenStays
    <2> QED
        BY <1>2, <1>3, <1>4, <2>1, <2>2, SaverKeeps DEF SaverSteps
<1>11. ASSUME NEW w \in {"queue", "send"}, SaveReady(w)
      PROVE  CacheInv'
    <2>1. /\ saver[w] = "ready" /\ saver' = [saver EXCEPT ![w] = "idle"]
          /\ state' = [state EXCEPT !["thumb"] = "READY"]
          /\ UNCHANGED <<index, disk, pipe, gets, removal, crashes, unseen, stuck>>
        BY <1>11 DEF SaveReady, Shows
    <2>2. removal.step = "no" => "thumb" \in disk \cap index
        BY <2>1 DEF CacheInv, WrittenStays
    <2> QED
        BY <1>4, <2>1, <2>2, SaverKeeps DEF SaverSteps
<1> QED
    BY <1>5, <1>6, <1>7, <1>8, <1>9, <1>10, <1>11

\* deleteMedia begins: who writes and what the index does not name is left out.
LEMMA RemoveStartKeeps == ASSUME CacheInv, RemoveStart PROVE CacheInv'
<1>1. CacheShape /\ crashes \in 0 .. MaxCrashes /\ gets \in 0 .. MaxGets
    BY ShapeOfTypes DEF CacheInv
<1>2. /\ removal.step = "no" /\ removal.part = "original" /\ saver["send"] = "idle"
      /\ removal' = [removal EXCEPT !.step = "file"]
      /\ unseen' = InWriting \cup (disk \ index)
      /\ UNCHANGED <<state, index, disk, pipe, gets, saver, crashes, stuck>>
    BY DEF RemoveStart, Known, CacheInv, WrittenStays
<1>3. /\ removal' \in [step : {"no", "file", "index", "done"}, part : Part]
      /\ removal'.step = "file" /\ removal'.part = "original"
    BY <1>1, <1>2 DEF CacheShape
<1>4. InWriting \subseteq Part
    BY DEF InWriting, Part
<1>5. ClientMediaTypeOK'
    BY <1>1, <1>2, <1>3, <1>4 DEF ClientMediaTypeOK, CacheShape, PipeRecord, PipeSteps, SaverSteps
<1>6. PipesSound' /\ SettledWhenIdle' /\ WrittenStays'
    BY <1>2, <1>3 DEF CacheInv, PipesSound, SettledWhenIdle, WrittenStays
<1>7. ASSUME NEW k \in Part \ unseen'
      PROVE  LeftAlone(k)' /\ (k \in disk => k \in index)
    <2>1. k \notin InWriting /\ (k \in disk => k \in index)
        BY <1>2
    <2>2. LeftAlone(k)
        BY <2>1 DEF InWriting, LeftAlone
    <2> QED
        BY <1>2, <2>1, <2>2 DEF LeftAlone
<1>8. FlushSound'
    <2>1. ASSUME NEW k \in Part
          PROVE  ~Passed(k)' /\ removal'.step # "index" /\ removal'.step # "done"
        BY <1>3 DEF Passed
    <2>2. \A k \in Part : removal' # [step |-> "index", part |-> k]
        BY <1>3
    <2> QED
        BY <1>2, <1>7, <2>1, <2>2 DEF FlushSound
<1> QED
    BY <1>5, <1>6, <1>8 DEF CacheInv

\* deleteMedia goes on: the file of a part, its place in the index, then the next part,
\* and after the last the states.
LEMMA RemovalKeeps ==
    ASSUME CacheInv, NEW k \in Part, RemoveFile(k) \/ RemoveIndex(k)
    PROVE  CacheInv'
<1>1. CacheShape /\ crashes \in 0 .. MaxCrashes /\ gets \in 0 .. MaxGets
    BY ShapeOfTypes DEF CacheInv
<1>2. /\ removal.step \in {"file", "index"} /\ removal.part = k
      /\ UNCHANGED <<pipe, gets, saver, crashes, unseen>>
      /\ RemoveFile(k) => removal.step = "file"
      /\ RemoveIndex(k) => removal.step = "index"
    BY DEF RemoveFile, RemoveIndex
<1>3. disk' \subseteq disk /\ index' \subseteq index /\ stuck \subseteq stuck' /\ stuck' \subseteq Part
    BY <1>1 DEF RemoveFile, RemoveIndex, CacheShape
<1>4. \A x \in Part \ {k} : (x \in disk' <=> x \in disk) /\ (x \in index' <=> x \in index)
    BY DEF RemoveFile, RemoveIndex
<1>5. (removal'.step = "index" /\ removal'.part = k /\ state' = state /\ RemoveFile(k)) \/ Removed(k)
    BY <1>1, <1>2 DEF RemoveFile, RemoveIndex, CacheShape
<1>6. ASSUME Removed(k)
      PROVE  \/ k = "original" /\ removal' = [step |-> "file", part |-> "thumb"] /\ state' = state
             \/ /\ k = "thumb" /\ removal'.step = "done" /\ removal'.part = "thumb"
                /\ state' = [x \in Part |-> "none"]
    BY <1>1, <1>2, <1>6 DEF Removed, Part, CacheShape
<1>7. /\ removal'.step # "no"
      /\ removal' \in [step : {"no", "file", "index", "done"}, part : Part]
    <2>1. CASE Removed(k)
        BY <1>1, <1>2, <2>1 DEF Removed, Part, CacheShape
    <2>2. CASE RemoveFile(k) /\ removal' = [removal EXCEPT !.step = "index"]
        BY <1>1, <1>2, <2>2 DEF CacheShape
    <2> QED
        BY <2>1, <2>2 DEF RemoveFile, RemoveIndex
<1>8. (state' = state \/ state' = [x \in Part |-> "none"]) /\ state' \in [Part -> MediaStates]
    BY <1>1, <1>5, <1>6 DEF CacheShape, MediaStates
<1>9. ClientMediaTypeOK'
    <2>1. CacheShape'
        BY <1>1, <1>2, <1>3, <1>7, <1>8 DEF CacheShape
    <2> QED
        BY <1>1, <1>2, <2>1 DEF ClientMediaTypeOK, CacheShape, PipeRecord, PipeSteps, SaverSteps
<1>10. PipesSound' /\ SettledWhenIdle' /\ WrittenStays'
    BY <1>2, <1>7, <1>8 DEF CacheInv, PipesSound, SettledWhenIdle, WrittenStays
<1>11. saver'["send"] = "idle" /\ \A x \in Part \ unseen' : LeftAlone(x)'
    BY <1>2 DEF CacheInv, FlushSound, LeftAlone
<1>12. ASSUME NEW x \in Part \ (unseen' \cup stuck')
       PROVE  /\ x \in disk' => x \in index'
              /\ removal' = [step |-> "index", part |-> x] => x \notin disk'
              /\ Passed(x)' => x \notin disk' \cup index'
              /\ removal'.step = "done" => state'[x] = "none"
    <2>1. x \in Part \ (unseen \cup stuck)
        BY <1>2, <1>3
    <2>2. /\ x \in disk => x \in index
          /\ removal = [step |-> "index", part |-> x] => x \notin disk
          /\ Passed(x) => x \notin disk \cup index
        BY <1>2, <2>1 DEF CacheInv, FlushSound
    <2>3. removal'.step = "done" => state'[x] = "none"
        BY <1>5, <1>6
    <2>4. CASE x # k
        <3>1. /\ x \in disk' <=> x \in disk
              /\ x \in index' <=> x \in index
            BY <1>4, <2>4
        <3>2. removal' # [step |-> "index", part |-> x]
            BY <1>5, <1>6, <2>4
        <3>3. Passed(x)' => Passed(x)
            <4>1. k = "original" => x = "thumb"
                BY <2>1, <2>4 DEF Part
            <4>2. k = "thumb" => x = "original"
                BY <2>1, <2>4 DEF Part
            <4> QED
                BY <1>2, <1>5, <1>6, <4>1, <4>2 DEF Passed, Part
        <3> QED
            BY <2>2, <2>3, <3>1, <3>2, <3>3
    <2>5. CASE x = k /\ RemoveIndex(k)
        <3>1. removal = [step |-> "index", part |-> k] /\ disk' = disk /\ k \notin index'
            BY <2>5 DEF RemoveIndex
        <3>2. k \notin disk
            BY <2>2, <2>5, <3>1
        <3> QED
            BY <2>3, <2>5, <3>1, <3>2
    <2>6. CASE x = k /\ RemoveFile(k)
        <3>1. k \notin disk'
            BY <1>3, <2>1, <2>2, <2>6 DEF RemoveFile
        <3>2. Passed(k)' => k \notin index'
            <4>1. CASE k \in index
                <5>1. removal' = [removal EXCEPT !.step = "index"]
                    BY <2>6, <4>1 DEF RemoveFile
                <5>2. removal'.step = "index" /\ removal'.part = k
                    BY <1>1, <1>2, <5>1 DEF CacheShape
                <5> QED
                    BY <5>2 DEF Passed
            <4>2. CASE k \notin index
                BY <1>3, <4>2
            <4> QED
                BY <4>1, <4>2
        <3> QED
            BY <2>3, <2>6, <3>1, <3>2
    <2> QED
        BY <2>4, <2>5, <2>6
<1>13. FlushSound'
    BY <1>11, <1>12 DEF FlushSound
<1> QED
    BY <1>9, <1>10, <1>13 DEF CacheInv

\* The end of the app.
LEMMA AppEndsKeeps == ASSUME CacheInv, AppEnds PROVE CacheInv'
<1>1. CacheShape /\ crashes \in 0 .. MaxCrashes /\ gets \in 0 .. MaxGets
    BY ShapeOfTypes DEF CacheInv
<1>2. /\ state' = [k \in Part |-> "none"] /\ pipe' = [k \in Part |-> NoPipe]
      /\ UNCHANGED <<index, disk, gets, stuck>>
    BY DEF AppEnds
<1>3. PICK pc \in {"idle", "failed"} :
          /\ saver' = [queue |-> "idle", send |-> pc]
          /\ saver["send"] = "idle" => pc = "idle"
    BY DEF AppEnds, Known
<1>4. /\ saver' \in [{"queue", "send"} -> SaverSteps]
      /\ saver'["queue"] = "idle" /\ saver'["send"] = pc
    BY <1>3 DEF SaverSteps
<1>5. crashes' \in 0 .. MaxCrashes
    BY <1>1, ClientMediaAssumption DEF AppEnds
<1>6. NoPipe \in PipeRecord /\ NoPipe.pc = "idle" /\ NoPipe.tries = 0
    BY ClientMediaAssumption DEF NoPipe, PipeRecord, PipeSteps
<1>7. \/ removal.step \in {"no", "done"} /\ UNCHANGED <<removal, unseen>>
      \/ removal.step \notin {"no", "done"} /\ removal'.step = "done" /\ unseen' = Part
    BY <1>1 DEF AppEnds, CacheShape
<1>8. removal' \in [step : {"no", "file", "index", "done"}, part : Part] /\ unseen' \subseteq Part
    BY <1>1 DEF AppEnds, CacheShape
<1>9. ClientMediaTypeOK'
    <2>1. CacheShape'
        BY <1>1, <1>2, <1>4, <1>6, <1>8 DEF CacheShape, MediaStates
    <2> QED
        BY <1>1, <1>2, <1>5, <2>1 DEF ClientMediaTypeOK, CacheShape, PipeRecord, PipeSteps, SaverSteps
<1>10. \A k \in Part : pipe'[k] = NoPipe /\ state'[k] = "none"
    BY <1>2
<1>11. PipesSound' /\ SettledWhenIdle'
    BY <1>6, <1>10 DEF PipesSound, SettledWhenIdle
<1>12. WrittenStays'
    <2> SUFFICES ASSUME removal'.step = "no" PROVE WrittenStays'
        BY DEF WrittenStays
    <2>1. removal.step = "no" /\ removal' = removal /\ unseen' = unseen
        BY <1>7
    <2> QED
        BY <1>3, <1>4, <1>6, <1>10, <2>1 DEF CacheInv, WrittenStays
<1>13. FlushSound'
    <2> SUFFICES ASSUME removal'.step # "no" PROVE FlushSound'
        BY DEF FlushSound
    <2>1. removal.step # "no"
        BY <1>7
    <2>2. saver'["send"] = "idle" /\ \A k \in Part : LeftAlone(k)'
        BY <1>3, <1>4, <1>6, <1>10, <2>1 DEF CacheInv, FlushSound, LeftAlone, Part
    <2>3. CASE unseen' = Part
        BY <2>2, <2>3 DEF FlushSound
    <2>4. CASE UNCHANGED <<removal, unseen>>
        BY <1>2, <1>10, <2>1, <2>2, <2>4 DEF CacheInv, FlushSound, Passed
    <2> QED
        BY <1>7, <2>3, <2>4
<1> QED
    BY <1>9, <1>11, <1>12, <1>13 DEF CacheInv

LEMMA CacheKept == ASSUME CacheInv, [ClientMediaNext]_clientMediaVars PROVE CacheInv'
<1>1. CASE ClientMediaNext
    BY <1>1, PipelineStepsKeep, SaversKeep, RemoveStartKeeps, RemovalKeeps, AppEndsKeeps
       DEF ClientMediaNext
<1>2. CASE UNCHANGED clientMediaVars
    BY <1>2 DEF clientMediaVars, CacheInv, ClientMediaTypeOK, PipesSound, WrittenStays, FlushSound,
       LeftAlone, Passed, SettledWhenIdle
<1> QED
    BY <1>1, <1>2

LEMMA CacheInvIsEnough == CacheInv => CacheSound
<1> SUFFICES ASSUME CacheInv PROVE CacheSound
    OBVIOUS
<1>1. ReadyIsThere
    BY DEF CacheInv, WrittenStays, FlushSound, ReadyIsThere
<1>2. RemovedIsGone
    BY DEF CacheInv, FlushSound, Passed, RemovedIsGone
<1> QED
    BY <1>1, <1>2 DEF CacheInv, CacheSound

\* However downloads, the thumbnail queue, sent files, ends of the app and a flush
\* interleave: what is shown as READY is on disk and in the index, nothing is shown as
\* on its way that nobody fetches, and a flush leaves nothing but what was in writing.
THEOREM CacheIsSound == ServicesSpec => []CacheSound
<1>1. ServicesInit => CacheInv
    BY CacheStarts DEF ServicesInit
<1>2. CacheInv /\ [ServicesNext]_ServicesVars => CacheInv'
    BY OneAtATime, CacheKept
<1> QED
    BY <1>1, <1>2, CacheInvIsEnough, PTL DEF ServicesSpec
-----------------------------------------------------------------------------
(***************************************************************************)
(* The types of all services.                                              *)
(***************************************************************************)

\* The invariants of the services together; several of them need more than types to
\* keep the types: a download its attempts, a flush of deletions its requests.
ServicesInv ==
    RoutingInv /\ GroupsInv /\ RoomsInv /\ LoginInv /\ QuotaInv /\ CacheInv /\ DeletionsInv

\* Every variable of every service keeps its shape, and every bounded counter its
\* bound: the attempts of a download, the calls in flight, the one awaited request.
THEOREM ServicesTypeCorrect == ServicesSpec => []ServicesTypeOK
<1>1. ServicesInit => ServicesInv
    BY RoutingStarts, GroupsStart, RoomsStart, LoginStarts, QuotaStarts, CacheStarts, DeletionsStart
       DEF ServicesInit, ServicesInv
<1>2. ServicesInv /\ [ServicesNext]_ServicesVars => ServicesInv'
    BY OneAtATime, RoutingKept, GroupsKept, RoomsKept, LoginKept, QuotaStepsKeep, CacheKept,
       DeletionsKept DEF ServicesInv
<1>3. ServicesInv => ServicesTypeOK
    BY DEF ServicesInv, ServicesTypeOK, RoutingInv, GroupsInv, RoomsInv, LoginInv, QuotaInv,
       CacheInv, DeletionsInv
<1> QED
    BY <1>1, <1>2, <1>3, PTL DEF ServicesSpec
=============================================================================
