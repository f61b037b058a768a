---------------------------- MODULE PaymentProofs ----------------------------
(***************************************************************************)
(* Theorems about the relay's payment endpoints and the payer's flow, for  *)
(* any requests, submissions, overlapping calls, colliding contract ids   *)
(* and restarts.  The flow only makes the relay take steps of its own, so  *)
(* what holds of the service holds of the composition.                     *)
(***************************************************************************)
EXTENDS PaymentFlow, VerifierContractProofs

\* A payments row is there from the insert on, which is the last step of its
\* submission; a request carries no hash but one that was reported for it; and what
\* the submission that last saved a request wrote is still there, or the request has
\* been approved since, unless two saves were mixed.
RowsSound ==
    /\ \A s \in Submission : payments[s] # "none" <=> submits[s].pc = "done"
    /\ \A s \in Submission :
           IF submits[s].pc = "idle" THEN submits[s].tx = NoTx
           ELSE submits[s].request \in Request /\ submits[s].tx \in TxHash
    /\ \A r \in Request : requests[r].tx \in TxHash =>
           \E t \in Submission : submits[t].request = r /\ submits[t].tx = requests[r].tx
    /\ \A r \in Request, s \in Submission : savedBy[r] = s =>
           /\ submits[s].request = r /\ submits[s].pc \in {"saved", "done", "dead"}
           /\ \/ r \in mixed
              \/ requests[r].tx = submits[s].tx
              \/ requests[r].status = "APPROVED"

\* What a verifyPaymentProof call knows at each of its awaits.
VerifySound(v) ==
    LET call == verifies[v]
    IN  /\ call.pc = "idle" <=> call.payment = NoSubmission
        /\ call.pc # "idle" => payments[call.payment] # "none"
        /\ call.pc \in {"idle", "proving", "invoking"} => call.via = "none"
        /\ call.via \in {"chain", "lost"} => Settled(numericId[call.payment])
        /\ call.verified =>
               call.pc \in {"settling", "lookup", "approving", "saving", "done", "dead"}
        /\ \/ call.pc \in {"lookup", "approving", "saving"}
           \/ call.pc = "done" /\ call.verified
           => payments[call.payment] = "SETTLED"
        /\ call.pc \in {"approving", "saving"} =>
               /\ call.request \in Request
               /\ \E t \in Submission : /\ submits[t].request = call.request
                                        /\ submits[t].tx = submits[call.payment].tx

\* A call that read its request as APPROVED, since when no submission has saved it,
\* finds it APPROVED.
ReadSound(v) ==
    LET call == verifies[v]
    IN  /\ call.pc = "saving"
        /\ savedBy[call.request] = call.payment
        /\ call.seen.status = "APPROVED"
        => requests[call.request].status = "APPROVED"

ServiceInv ==
    /\ ServiceTypeOK
    /\ RowsSound
    /\ \A v \in Verifier : VerifySound(v) /\ ReadSound(v)
    /\ OneProofPerSettlement /\ ApprovedIsSettled /\ NoLostApproval

\* What a run of the payer's flow knows.
FlowSound ==
    /\ \A h \in TxHash : client[h] # "idle" => paysFor[h] \in Request
    /\ \A h \in TxHash : client[h] = "idle" => paysFor[h] = NoRequest
    /\ \A h \in TxHash : client[h] \in {"submitting", "verifying"} =>
           posted[h] \in Submission /\ submits[posted[h]].tx = h
    /\ \A h \in TxHash : client[h] = "verifying" =>
           awaits[h] \in Verifier /\ verifies[awaits[h]].payment = posted[h]

\* The shape of the two kinds of call.
CallRecord == [pc : VerifyStep, payment : Submission \cup {NoSubmission},
               request : Request \cup {NoRequest}, seen : Row, via : Ground, verified : BOOLEAN]

SubmitRecord == [pc : SubmitStep, request : Request \cup {NoRequest},
                 tx : TxHash \cup {NoTx}, seen : Row]

LEMMA NoRowIsRow == NoRow \in Row /\ NoRow.status = "none" /\ NoRow.tx = NoTx
BY DEF NoRow, Row, RequestStatus

LEMMA ServiceStarts == ServiceInit /\ LedgerInit => ServiceInv
<1> SUFFICES ASSUME ServiceInit, LedgerInit PROVE ServiceInv
    OBVIOUS
<1>1. ContractTypeOK
    BY DEF LedgerInit, NothingStored, ContractTypeOK
<1>2. ServiceTypeOK
    BY <1>1, NoRowIsRow DEF ServiceInit, ServiceTypeOK, SubmitStep, PaymentStatus, VerifyStep, Ground
<1>3. RowsSound
    BY NoRowIsRow, ServiceAssumption DEF ServiceInit, RowsSound
<1>4. \A v \in Verifier : VerifySound(v) /\ ReadSound(v)
    BY DEF ServiceInit, VerifySound, ReadSound
<1>5. OneProofPerSettlement /\ ApprovedIsSettled /\ NoLostApproval
    BY NoRowIsRow DEF ServiceInit, OneProofPerSettlement, ApprovedIsSettled, NoLostApproval
<1> QED
    BY <1>2, <1>3, <1>4, <1>5 DEF ServiceInv

\* A call past its first step is one for a payment that exists.
LEMMA CallHasPayment ==
    ASSUME ServiceInv, NEW v \in Verifier, verifies[v].pc # "idle"
    PROVE  verifies[v].payment \in Submission /\ numericId[verifies[v].payment] \in ChainId
<1>1. /\ verifies[v].payment \in Submission \cup {NoSubmission}
      /\ verifies[v].payment # NoSubmission
    BY DEF ServiceInv, ServiceTypeOK, VerifySound
<1> QED
    BY <1>1 DEF ServiceInv, ServiceTypeOK

\* Every step of the service is a transaction of the contract or leaves it alone.
LEMMA ServiceCallsContract ==
    ASSUME ServiceInv, [ServiceNext]_allServiceVars
    PROVE  [ContractNext]_contractVars
<1>1. ASSUME NEW v \in Verifier, InvokeSettles(v)
      PROVE  ContractNext
    <2>1. PICK p \in ProofHash : VerifyAndSettle(numericId[verifies[v].payment], p)
        BY <1>1 DEF InvokeSettles
    <2>2. numericId[verifies[v].payment] \in ChainId
        BY <1>1, CallHasPayment DEF InvokeSettles
    <2> QED
        BY <2>1, <2>2 DEF ContractNext, Proof
<1>2. WalletCalls => ContractNext
    BY DEF WalletCalls, ContractNext, Proof
<1>3. CASE UNCHANGED allServiceVars
    BY <1>3 DEF allServiceVars
<1>4. ASSUME NEW v \in Verifier, VerifyContinues(v)
      PROVE  [ContractNext]_contractVars
    BY <1>1, <1>4 DEF VerifyContinues, VerifyProve, InvokeSkipped, InvokeFails, VerifyFinishes,
       SaveProofRecord, SettlePayment, FindRequest, ReadRequest, ApproveRequest, histories
<1> QED
    BY <1>2, <1>3, <1>4 DEF ServiceNext, CreateRequest, SubmitFindRequest, SubmitSaveRequest,
       SubmitContinues,
       SubmitInsertPayment, VerifyFindPayment, DeployContract, Crash

LEMMA ContractKeeps ==
    ASSUME ContractTypeOK, [ContractNext]_contractVars
    PROVE  ContractTypeOK' /\ \A id \in ChainId : Settled(id) => Settled(id)'
<1>1. ContractTypeOK'
    BY NextTypeOK
<1>2. ASSUME NEW id \in ChainId, Settled(id)
      PROVE  Settled(id)'
    <2>1. ASSUME NEW x \in ChainId, NEW p \in Proof, VerifyAndSettle(x, p)
          PROVE  Settled(id)'
        <3>1. x # id /\ records'[id] = records[id]
            BY <1>2, <2>1 DEF VerifyAndSettle, Settled, ContractTypeOK
        <3> QED
            BY <1>2, <3>1 DEF Settled, Authorized
    <2>2. ASSUME NEW s \in Address, NEW x \in ChainId, NEW t \in Terms, AuthorizePayment(s, x, t)
          PROVE  Settled(id)'
        <3>1. x # id /\ records'[id] = records[id]
            BY <1>2, <2>2 DEF AuthorizePayment, Settled, ContractTypeOK
        <3> QED
            BY <1>2, <3>1 DEF Settled, Authorized
    <2>3. CASE UNCHANGED records
        BY <1>2, <2>3 DEF Settled, Authorized
    <2> QED
        BY <2>1, <2>2, <2>3 DEF ContractNext, Initialize, contractVars
<1> QED
    BY <1>1, <1>2
-----------------------------------------------------------------------------
(***************************************************************************)
(* One step of a verifyPaymentProof call that leaves the tables alone.     *)
(***************************************************************************)

Busy(v) == verifies[v].pc \in {"lookup", "approving", "saving", "dead"}

LEMMA OthersSound ==
    ASSUME ServiceInv, NEW v \in Verifier, verifies'[v] = verifies[v],
           UNCHANGED numericId,
           \A s \in Submission : submits[s].pc # "idle" =>
               submits'[s].request = submits[s].request /\ submits'[s].tx = submits[s].tx,
           verifies[v].pc # "idle" =>
               /\ payments[verifies[v].payment] # "none" => payments'[verifies[v].payment] # "none"
               /\ payments[verifies[v].payment] = "SETTLED" =>
                      payments'[verifies[v].payment] = "SETTLED",
           \A id \in ChainId : Settled(id) => Settled(id)'
    PROVE  VerifySound(v)'
<1>1. VerifySound(v)
    BY DEF ServiceInv
<1>2. verifies[v].pc # "idle" =>
          /\ numericId[verifies[v].payment] \in ChainId /\ verifies[v].payment \in Submission
          /\ submits[verifies[v].payment].pc # "idle"
    BY <1>1, CallHasPayment DEF VerifySound, ServiceInv, RowsSound
<1>3. verifies[v].via \in {"chain", "lost"} =>
          verifies[v].pc # "idle" /\ Settled(numericId[verifies[v].payment])'
    BY <1>1, <1>2 DEF VerifySound
<1>4. ASSUME verifies[v].pc \in {"approving", "saving"}
      PROVE  \E t \in Submission : /\ submits'[t].request = verifies[v].request
                                   /\ submits'[t].tx = submits'[verifies[v].payment].tx
    <2>1. PICK t \in Submission : /\ submits[t].request = verifies[v].request
                                 /\ submits[t].tx = submits[verifies[v].payment].tx
        BY <1>1, <1>4 DEF VerifySound
    <2>2. submits[verifies[v].payment].tx \in TxHash
        BY <1>2, <1>4 DEF ServiceInv, RowsSound
    <2>3. submits[t].pc # "idle"
        BY <2>1, <2>2, ServiceAssumption DEF ServiceInv, RowsSound
    <2> QED
        BY <1>2, <1>4, <2>1, <2>3
<1> QED
    BY <1>1, <1>2, <1>3, <1>4 DEF VerifySound

LEMMA MoveKeeps ==
    ASSUME ServiceInv, NEW v \in Verifier, NEW new \in CallRecord,
           verifies' = [verifies EXCEPT ![v] = new],
           UNCHANGED <<requests, submits, payments, numericId, contractKnown, histories>>,
           [ContractNext]_contractVars,
           verifies[v].pc = "idle" \/ new.payment = verifies[v].payment,
           VerifySound(v)', ReadSound(v)',
           new.via = "chain" => verifies[v].via = "chain" \/ ~Settled(numericId[new.payment]),
           Busy(v) /\ ~Busy(v)' =>
               \A r \in Request :
                   /\ savedBy[r] = verifies[v].payment /\ r \notin mixed
                   /\ OwnHash(verifies[v].payment)
                   => requests[r].status = "APPROVED"
    PROVE  ServiceInv'
<1>0. UNCHANGED <<savedBy, mixed>>
    BY DEF histories
<1>1. /\ verifies \in [Verifier -> CallRecord] /\ verifies'[v] = new
      /\ \A w \in Verifier \ {v} : verifies'[w] = verifies[w]
      /\ verifies' \in [Verifier -> CallRecord]
    BY DEF ServiceInv, ServiceTypeOK, CallRecord
<1>2. ContractTypeOK' /\ \A id \in ChainId : Settled(id) => Settled(id)'
    BY ContractKeeps DEF ServiceInv, ServiceTypeOK
<1>3. ServiceTypeOK'
    BY <1>0, <1>1, <1>2 DEF ServiceInv, ServiceTypeOK, CallRecord
<1>4. ASSUME NEW w \in Verifier PROVE VerifySound(w)' /\ ReadSound(w)'
    <2>1. CASE w = v
        BY <2>1
    <2>2. CASE w # v
        <3>1. VerifySound(w)'
            BY <1>1, <1>2, <2>2, OthersSound
        <3>2. ReadSound(w)'
            BY <1>0, <1>1, <2>2 DEF ServiceInv, ReadSound
        <3> QED
            BY <3>1, <3>2
    <2> QED
        BY <2>1, <2>2
<1>5. OneProofPerSettlement'
    <2> SUFFICES ASSUME NEW w \in Verifier, NEW u \in Verifier, w # u,
                        verifies'[w].via = "chain", verifies'[u].via = "chain",
                        numericId[verifies'[w].payment] = numericId[verifies'[u].payment]
                 PROVE  FALSE
        BY DEF OneProofPerSettlement
    <2>1. ASSUME NEW x \in Verifier \ {v}, verifies[x].via = "chain", new.via = "chain",
                 numericId[verifies[x].payment] = numericId[new.payment]
          PROVE  FALSE
        <3>1. VerifySound(x)
            BY DEF ServiceInv
        <3>2. Settled(numericId[verifies[x].payment])
            BY <2>1, <3>1 DEF VerifySound
        <3>3. verifies[v].via = "chain" /\ verifies[v].pc # "idle"
            <4>1. VerifySound(v)
                BY DEF ServiceInv
            <4> QED
                BY <2>1, <3>2, <4>1 DEF VerifySound
        <3> QED
            BY <2>1, <3>3 DEF ServiceInv, OneProofPerSettlement
    <2>2. CASE w = v
        BY <1>1, <2>1, <2>2
    <2>3. CASE u = v
        BY <1>1, <2>1, <2>3
    <2>4. CASE w # v /\ u # v
        BY <1>1, <2>4 DEF ServiceInv, OneProofPerSettlement
    <2> QED
        BY <2>2, <2>3, <2>4
<1>6. NoLostApproval'
    <2> SUFFICES ASSUME NEW r \in Request, NEW s \in Submission, savedBy[r] = s, r \notin mixed,
                        OwnHash(s), payments[s] = "SETTLED",
                        \A w \in Verifier : verifies'[w].payment = s => ~Busy(w)'
                 PROVE  requests[r].status = "APPROVED"
        BY <1>0 DEF NoLostApproval, Busy, OwnHash
    <2>1. CASE \A w \in Verifier : verifies[w].payment = s => ~Busy(w)
        BY <2>1 DEF ServiceInv, NoLostApproval, Busy
    <2>2. CASE \E w \in Verifier : verifies[w].payment = s /\ Busy(w)
        <3>1. PICK w \in Verifier : verifies[w].payment = s /\ Busy(w)
            BY <2>2
        <3>2. w = v
            BY <1>1, <3>1 DEF Busy
        <3>3. verifies[v].payment = s /\ new.payment = s
            BY <3>1, <3>2 DEF Busy
        <3> QED
            BY <1>1, <3>1, <3>2, <3>3
    <2> QED
        BY <2>1, <2>2
<1>7. RowsSound' /\ ApprovedIsSettled'
    BY <1>0 DEF ServiceInv, RowsSound, ApprovedIsSettled
<1> QED
    BY <1>3, <1>4, <1>5, <1>6, <1>7 DEF ServiceInv

\* The steps of a call up to the verdict, and the look for the request.
LEMMA CallStepsKeep ==
    ASSUME ServiceInv, [ContractNext]_contractVars, NEW v \in Verifier,
           \/ VerifyProve(v) \/ InvokeSkipped(v) \/ InvokeSettles(v) \/ InvokeFails(v)
           \/ SaveProofRecord(v) \/ FindRequest(v) \/ ReadRequest(v)
           \/ \E s \in Submission : VerifyFindPayment(v, s)
    PROVE  ServiceInv'
<1> DEFINE old == verifies[v]
<1>1. /\ old \in CallRecord /\ VerifySound(v) /\ ContractTypeOK /\ RowsSound
      /\ verifies \in [Verifier -> CallRecord]
    BY DEF ServiceInv, ServiceTypeOK, CallRecord
<1>a. verifies'[v].pc # "saving" => ReadSound(v)'
    BY DEF ReadSound
<1>2. \A id \in ChainId : Settled(id) => Settled(id)'
    BY ContractKeeps DEF ServiceInv, ServiceTypeOK
<1>3. old.pc # "idle" => old.payment \in Submission /\ numericId[old.payment] \in ChainId
    BY CallHasPayment
<1>4. UNCHANGED <<requests, submits, payments, numericId, contractKnown, histories>>
    BY DEF VerifyProve, InvokeSkipped, InvokeSettles, InvokeFails, SaveProofRecord, FindRequest,
       ReadRequest, VerifyFindPayment
<1>5. CASE \E s \in Submission : VerifyFindPayment(v, s)
    <2>1. PICK s \in Submission : VerifyFindPayment(v, s)
        BY <1>5
    <2>2. PICK new : new = [old EXCEPT !.pc = "proving", !.payment = s]
        OBVIOUS
    <2>3. /\ new \in CallRecord /\ new.pc = "proving" /\ new.payment = s /\ new.via = old.via
          /\ new.verified = old.verified
        BY <1>1, <2>2 DEF CallRecord, VerifyStep
    <2>4. /\ verifies' = [verifies EXCEPT ![v] = new] /\ verifies'[v] = new
          /\ old.pc = "idle" /\ payments[s] # "none"
        BY <1>1, <2>1, <2>2 DEF VerifyFindPayment
    <2>5. s # NoSubmission /\ old.via = "none" /\ ~old.verified
        BY <1>1, <2>4, ServiceAssumption DEF VerifySound, CallRecord
    <2>6. VerifySound(v)'
        BY <1>4, <2>3, <2>4, <2>5 DEF VerifySound
    <2>7. ~Busy(v)
        BY <2>4 DEF Busy
    <2> QED
        BY <1>4, <2>3, <2>4, <2>5, <2>6, <2>7, <1>a, MoveKeeps
<1>6. CASE VerifyProve(v)
    <2>1. PICK pc \in {"invoking", "recording"} : verifies' = [verifies EXCEPT ![v].pc = pc]
        BY <1>6 DEF VerifyProve
    <2>2. PICK new : new = [old EXCEPT !.pc = pc]
        OBVIOUS
    <2>3. /\ new \in CallRecord /\ new.pc = pc /\ new.payment = old.payment /\ new.via = old.via
          /\ new.verified = old.verified /\ old.pc = "proving"
        BY <1>1, <1>6, <2>2 DEF CallRecord, VerifyStep, VerifyProve
    <2>4. verifies' = [verifies EXCEPT ![v] = new] /\ verifies'[v] = new
        BY <1>1, <2>1, <2>2
    <2>5. VerifySound(v)'
        BY <1>1, <1>4, <2>3, <2>4 DEF VerifySound, CallRecord
    <2>6. ~Busy(v) /\ new.via = "none"
        BY <1>1, <2>3 DEF Busy, VerifySound
    <2> QED
        BY <1>4, <2>3, <2>4, <2>5, <2>6, <1>a, MoveKeeps
<1>7. CASE InvokeSkipped(v) \/ InvokeSettles(v) \/ InvokeFails(v)
    <2>1. PICK ground \in Ground :
              /\ verifies' = [verifies EXCEPT ![v].pc = "recording", ![v].via = ground]
              /\ ground \in {"chain", "lost"} =>
                     \E p \in ProofHash : VerifyAndSettle(numericId[old.payment], p)
        <3>1. CASE InvokeSettles(v)
            BY <3>1 DEF InvokeSettles, FailedInvocation, Ground
        <3>2. CASE InvokeSkipped(v) \/ InvokeFails(v)
            BY <3>2 DEF InvokeSkipped, InvokeFails, FailedInvocation, Ground
        <3> QED
            BY <1>7, <3>1, <3>2
    <2>2. PICK new : new = [old EXCEPT !.pc = "recording", !.via = ground]
        OBVIOUS
    <2>3. /\ new \in CallRecord /\ new.pc = "recording" /\ new.payment = old.payment /\ new.via = ground
          /\ new.verified = old.verified /\ old.pc = "invoking"
        BY <1>1, <1>7, <2>2 DEF CallRecord, VerifyStep, InvokeSkipped, InvokeSettles, InvokeFails
    <2>4. verifies' = [verifies EXCEPT ![v] = new] /\ verifies'[v] = new
        BY <1>1, <2>1, <2>2
    <2>5. PICK id \in ChainId : id = numericId[old.payment]
        BY <1>3, <2>3
    <2>8. ground \in {"chain", "lost"} => ~Settled(id) /\ Settled(id)'
        <3>1. SUFFICES ASSUME ground \in {"chain", "lost"},
                              NEW p \in ProofHash, VerifyAndSettle(id, p)
                       PROVE  ~Settled(id) /\ Settled(id)'
            BY <2>1, <2>5
        <3>2. /\ records[id] \in PaymentRecord /\ ~records[id].settled
              /\ records' = [records EXCEPT ![id].settled = TRUE]
            BY <1>1, <3>1 DEF VerifyAndSettle, Authorized, ContractTypeOK
        <3>3. records'[id] = [terms |-> records[id].terms, settled |-> TRUE]
            BY <1>1, <3>2 DEF PaymentRecord, ContractTypeOK
        <3>4. records'[id] # NoRecord
            BY <3>2, <3>3, RecordIsNotNoRecord DEF PaymentRecord
        <3> QED
            BY <3>2, <3>3, <3>4 DEF Settled, Authorized
    <2>6. VerifySound(v)'
        BY <1>1, <1>3, <1>4, <2>3, <2>4, <2>5, <2>8 DEF VerifySound, CallRecord
    <2>7. ~Busy(v)
        BY <2>3 DEF Busy
    <2> QED
        BY <1>4, <2>3, <2>4, <2>5, <2>6, <2>7, <2>8, <1>a, MoveKeeps
<1>8. CASE SaveProofRecord(v)
    <2>1. PICK pc \in {"settling", "done"}, final \in BOOLEAN :
              /\ pc = "settling" <=> final
              /\ verifies' = [verifies EXCEPT ![v].pc = pc, ![v].verified = final]
        <3>1. CASE old.via \in Accepted
            <4>1. (old.via \in Accepted) = TRUE
                BY <3>1
            <4>2. verifies' = [verifies EXCEPT ![v].pc = "settling", ![v].verified = TRUE]
                BY <1>8, <4>1 DEF SaveProofRecord
            <4> QED
                BY <4>2
        <3>2. CASE old.via \notin Accepted
            <4>1. (old.via \in Accepted) = FALSE
                BY <3>2
            <4>2. verifies' = [verifies EXCEPT ![v].pc = "done", ![v].verified = FALSE]
                BY <1>8, <4>1 DEF SaveProofRecord
            <4> QED
                BY <4>2
        <3> QED
            BY <3>1, <3>2
    <2>2. PICK new : new = [old EXCEPT !.pc = pc, !.verified = final]
        OBVIOUS
    <2>3. /\ new \in CallRecord /\ new.pc = pc /\ new.payment = old.payment /\ new.via = old.via
          /\ new.verified = final /\ old.pc = "recording"
        BY <1>1, <1>8, <2>2 DEF CallRecord, VerifyStep, SaveProofRecord
    <2>4. verifies' = [verifies EXCEPT ![v] = new] /\ verifies'[v] = new
        BY <1>1, <2>1, <2>2
    <2>5. \A id \in ChainId : old.via \in {"chain", "lost"} /\ id = numericId[old.payment] => Settled(id)'
        BY <1>1, <1>2, <2>3 DEF VerifySound
    <2>6. VerifySound(v)'
        BY <1>1, <1>3, <1>4, <2>1, <2>3, <2>4, <2>5 DEF VerifySound
    <2>7. ~Busy(v)
        BY <2>3 DEF Busy
    <2> QED
        BY <1>4, <2>3, <2>4, <2>6, <2>7, <1>a, MoveKeeps
<1>9. CASE FindRequest(v)
    <2> DEFINE h == submits[old.payment].tx
    <2>1. PICK pc \in {"done", "approving"}, r \in Request \cup {NoRequest} :
              /\ verifies' = [verifies EXCEPT ![v].pc = pc, ![v].request = r]
              /\ pc = "approving" => r \in Request /\ requests[r].tx = h
              /\ pc = "done" => \A x \in Request : requests[x].tx # h
        <3>1. CASE \E r \in Request :
                      /\ requests[r].tx = h
                      /\ verifies' = [verifies EXCEPT ![v].pc = "approving", ![v].request = r]
            BY <3>1
        <3>2. CASE /\ {r \in Request : requests[r].tx = h} = {}
                   /\ verifies' = [verifies EXCEPT ![v].pc = "done"]
            <4>1. old.request \in Request \cup {NoRequest}
                BY <1>1 DEF CallRecord
            <4>2. [old EXCEPT !.pc = "done"] = [old EXCEPT !.pc = "done", !.request = old.request]
                BY <1>1 DEF CallRecord
            <4>3. verifies' = [verifies EXCEPT ![v].pc = "done", ![v].request = old.request]
                BY <1>1, <3>2, <4>2
            <4> QED
                BY <3>2, <4>1, <4>3
        <3> QED
            BY <1>9, <3>1, <3>2 DEF FindRequest
    <2>2. PICK new : new = [old EXCEPT !.pc = pc, !.request = r]
        OBVIOUS
    <2>3. /\ new \in CallRecord /\ new.pc = pc /\ new.payment = old.payment /\ new.via = old.via
          /\ new.verified = old.verified /\ new.request = r /\ old.pc = "lookup"
        BY <1>1, <1>9, <2>2 DEF CallRecord, VerifyStep, FindRequest
    <2>4. verifies' = [verifies EXCEPT ![v] = new] /\ verifies'[v] = new
        BY <1>1, <2>1, <2>2
    <2>5. \A id \in ChainId :
              old.via \in {"chain", "lost"} /\ id = numericId[old.payment] => Settled(id)'
        BY <1>1, <1>2, <2>3 DEF VerifySound
    <2>6. submits[old.payment].pc = "done" /\ h \in TxHash /\ submits[old.payment].request \in Request
        BY <1>1, <1>3, <2>3 DEF RowsSound, VerifySound
    <2>7. pc = "approving" =>
              /\ r \in Request
              /\ \E t \in Submission : submits[t].request = r /\ submits[t].tx = h
        BY <1>1, <2>1, <2>6 DEF RowsSound
    <2>8. VerifySound(v)'
        BY <1>1, <1>3, <1>4, <2>3, <2>4, <2>5, <2>7 DEF VerifySound
    <2>9. ASSUME ~Busy(v)', NEW x \in Request, savedBy[x] = old.payment, x \notin mixed
          PROVE  requests[x].status = "APPROVED"
        <3>1. requests[x].tx # h
            BY <2>1, <2>3, <2>4, <2>9 DEF Busy
        <3> QED
            BY <1>1, <1>3, <2>3, <2>9, <3>1 DEF RowsSound
    <2> QED
        BY <1>4, <1>a, <2>3, <2>4, <2>8, <2>9, MoveKeeps
<1>10. CASE ReadRequest(v)
    <2>1. /\ verifies' = [verifies EXCEPT ![v].pc = "saving", ![v].seen = requests[old.request]]
          /\ old.pc = "approving"
        BY <1>10 DEF ReadRequest
    <2>2. PICK new : new = [old EXCEPT !.pc = "saving", !.seen = requests[old.request]]
        OBVIOUS
    <2>3. requests[old.request] \in Row /\ old.request \in Request
        BY <1>1, <2>1 DEF VerifySound, ServiceInv, ServiceTypeOK
    <2>4. /\ new \in CallRecord /\ new.pc = "saving" /\ new.payment = old.payment
          /\ new.via = old.via /\ new.verified = old.verified /\ new.request = old.request
          /\ new.seen = requests[old.request]
        BY <1>1, <2>2, <2>3 DEF CallRecord, VerifyStep
    <2>5. verifies' = [verifies EXCEPT ![v] = new] /\ verifies'[v] = new
        BY <1>1, <2>1, <2>2
    <2>6. \A id \in ChainId :
              old.via \in {"chain", "lost"} /\ id = numericId[old.payment] => Settled(id)'
        BY <1>1, <1>2, <2>1 DEF VerifySound
    <2>7. VerifySound(v)'
        BY <1>1, <1>3, <1>4, <2>1, <2>4, <2>5, <2>6 DEF VerifySound
    <2>8. ReadSound(v)'
        BY <1>4, <2>4, <2>5 DEF ReadSound
    <2>9. Busy(v)'
        BY <2>4, <2>5 DEF Busy
    <2> QED
        BY <1>4, <2>4, <2>5, <2>7, <2>8, <2>9, MoveKeeps
<1> QED
    BY <1>5, <1>6, <1>7, <1>8, <1>9, <1>10
-----------------------------------------------------------------------------
(***************************************************************************)
(* The steps that write the tables.                                        *)
(***************************************************************************)

\* The contract and the verdicts of verifyPaymentProof stay, and so does what they
\* rely on.
LEMMA CallsStay ==
    ASSUME ServiceInv, UNCHANGED <<verifies, numericId, contractKnown, contractVars>>,
           \A s \in Submission : submits[s].pc # "idle" =>
               submits'[s].request = submits[s].request /\ submits'[s].tx = submits[s].tx,
           \A s \in Submission : payments[s] # "none" =>
               /\ payments'[s] # "none"
               /\ payments[s] = "SETTLED" => payments'[s] = "SETTLED"
    PROVE  /\ ContractTypeOK' /\ \A v \in Verifier : VerifySound(v)'
           /\ OneProofPerSettlement'
<1>1. ContractTypeOK' /\ \A id \in ChainId : Settled(id) => Settled(id)'
    BY ContractKeeps DEF ServiceInv, ServiceTypeOK
<1>2. ASSUME NEW v \in Verifier PROVE VerifySound(v)'
    <2>1. VerifySound(v)
        BY DEF ServiceInv
    <2>2. verifies[v].pc # "idle" =>
              verifies[v].payment \in Submission /\ payments[verifies[v].payment] # "none"
        BY <2>1, CallHasPayment DEF VerifySound
    <2> QED
        BY <1>1, <2>2, OthersSound
<1>3. OneProofPerSettlement'
    BY DEF ServiceInv, OneProofPerSettlement
<1> QED
    BY <1>1, <1>2, <1>3

LEMMA CreateKeeps == ASSUME ServiceInv, NEW r \in Request, CreateRequest(r) PROVE ServiceInv'
<1>1. /\ requests \in [Request -> Row] /\ requests[r].status = "none"
      /\ UNCHANGED <<submits, payments, verifies, numericId, contractKnown, savedBy, mixed,
                     contractVars>>
    BY DEF CreateRequest, ServiceInv, ServiceTypeOK, histories
<1>2. PICK new : new = [requests[r] EXCEPT !.status = "PENDING"]
    OBVIOUS
<1>3. new \in Row /\ new.status = "PENDING" /\ new.tx = requests[r].tx
    BY <1>1, <1>2 DEF Row, RequestStatus
<1>4. /\ requests' = [requests EXCEPT ![r] = new] /\ requests'[r] = new
      /\ \A x \in Request \ {r} : requests'[x] = requests[x]
    BY <1>1, <1>2 DEF CreateRequest
<1>5. \A x \in Request : /\ requests'[x].tx = requests[x].tx
                         /\ requests'[x].status = "APPROVED" <=> requests[x].status = "APPROVED"
    BY <1>1, <1>3, <1>4
<1>6. ContractTypeOK' /\ OneProofPerSettlement' /\ \A v \in Verifier : VerifySound(v)'
    BY <1>1, CallsStay
<1>7. ServiceTypeOK'
    BY <1>1, <1>3, <1>4, <1>6 DEF ServiceInv, ServiceTypeOK
<1>8. RowsSound'
    BY <1>1, <1>5 DEF ServiceInv, RowsSound
<1>9. ASSUME NEW v \in Verifier PROVE ReadSound(v)'
    <2>1. verifies[v].pc = "saving" => verifies[v].request \in Request
        BY DEF ServiceInv, VerifySound
    <2> QED
        BY <1>1, <1>5, <2>1 DEF ServiceInv, ReadSound
<1>10. ApprovedIsSettled'
    BY <1>1, <1>5 DEF ServiceInv, ApprovedIsSettled
<1>11. NoLostApproval'
    BY <1>1, <1>5 DEF ServiceInv, NoLostApproval, OwnHash
<1> QED
    BY <1>6, <1>7, <1>8, <1>9, <1>10, <1>11 DEF ServiceInv

\* What the UPDATE of a save leaves in the row.
LEMMA UpdateLeaves ==
    ASSUME ServiceTypeOK, NEW r \in Request, NEW seen \in Row, NEW row \in Row,
           UpdateRequest(r, seen, row)
    PROVE  /\ requests' \in [Request -> Row] /\ mixed' \in SUBSET Request
           /\ \A x \in Request : x \in mixed => x \in mixed'
           /\ \A x \in Request \ {r} : requests'[x] = requests[x]
           /\ requests'[r].status \in {requests[r].status, row.status}
           /\ requests'[r].tx \in {requests[r].tx, row.tx}
           /\ row.status # seen.status => requests'[r].status = row.status
           /\ row = seen => requests'[r] = requests[r]
           /\ r \notin mixed' => row = seen \/ requests'[r] = row
<1> DEFINE new == [status |-> IF row.status = seen.status THEN requests[r].status ELSE row.status,
                   tx |-> IF row.tx = seen.tx THEN requests[r].tx ELSE row.tx]
<1>1. requests \in [Request -> Row] /\ mixed \in SUBSET Request
    BY DEF ServiceTypeOK
<1>2. new \in Row
    BY <1>1 DEF Row
<1>3. requests' = [requests EXCEPT ![r] = new]
    BY <1>1 DEF UpdateRequest
<1>4. requests'[r] = new /\ \A x \in Request \ {r} : requests'[x] = requests[x]
    BY <1>1, <1>3
<1>5. row = seen => new = requests[r]
    BY <1>1 DEF Row
<1>6. requests[r] = seen => new = row
    BY <1>1 DEF Row
<1>7. /\ mixed' \in SUBSET Request /\ \A x \in Request : x \in mixed => x \in mixed'
      /\ r \notin mixed' => row = seen \/ requests[r] = seen
    BY <1>1 DEF UpdateRequest
<1> QED
    BY <1>1, <1>2, <1>3, <1>4, <1>5, <1>6, <1>7

\* A submission comes in, or its payments row goes in, or it dies: nothing else changes.
LEMMA FindKeeps ==
    ASSUME ServiceInv, NEW s \in Submission, NEW r \in Request, NEW h \in TxHash,
           SubmitFindRequest(s, r, h)
    PROVE  ServiceInv'
<1>1. /\ submits \in [Submission -> SubmitRecord] /\ submits[s].pc = "idle"
      /\ requests \in [Request -> Row]
      /\ UNCHANGED <<requests, payments, verifies, numericId, contractKnown, savedBy, mixed,
                     contractVars>>
    BY DEF SubmitFindRequest, ServiceInv, ServiceTypeOK, SubmitRecord, histories
<1>2. PICK sub : sub = [pc |-> "saving", request |-> r, tx |-> h, seen |-> requests[r]]
    OBVIOUS
<1>3. sub \in SubmitRecord /\ sub.pc = "saving" /\ sub.request = r /\ sub.tx = h
    BY <1>1, <1>2 DEF SubmitRecord, SubmitStep
<1>4. /\ submits' = [submits EXCEPT ![s] = sub] /\ submits'[s] = sub
      /\ \A t \in Submission \ {s} : submits'[t] = submits[t]
    BY <1>1, <1>2 DEF SubmitFindRequest
<1>5. submits[s].tx = NoTx /\ NoTx \notin TxHash /\ payments[s] = "none"
    BY <1>1, ServiceAssumption DEF ServiceInv, RowsSound
<1>6. ContractTypeOK' /\ OneProofPerSettlement' /\ \A v \in Verifier : VerifySound(v)'
    BY <1>1, <1>4, CallsStay
<1>7. ServiceTypeOK'
    BY <1>1, <1>3, <1>4, <1>6 DEF ServiceInv, ServiceTypeOK, SubmitRecord
<1>8. RowsSound'
    <2>1. \A t \in Submission : payments'[t] # "none" <=> submits'[t].pc = "done"
        BY <1>1, <1>3, <1>4, <1>5 DEF ServiceInv, RowsSound
    <2>2. \A t \in Submission :
              IF submits'[t].pc = "idle" THEN submits'[t].tx = NoTx
              ELSE submits'[t].request \in Request /\ submits'[t].tx \in TxHash
        BY <1>1, <1>3, <1>4 DEF ServiceInv, RowsSound
    <2>3. ASSUME NEW x \in Request, requests'[x].tx \in TxHash
          PROVE  \E t \in Submission : submits'[t].request = x /\ submits'[t].tx = requests'[x].tx
        <3>1. PICK t \in Submission : submits[t].request = x /\ submits[t].tx = requests[x].tx
            BY <1>1, <2>3 DEF ServiceInv, RowsSound
        <3>2. t # s
            BY <1>1, <1>5, <2>3, <3>1
        <3> QED
            BY <1>1, <1>4, <3>1, <3>2
    <2>4. ASSUME NEW x \in Request, NEW t \in Submission, savedBy'[x] = t
          PROVE  /\ submits'[t].request = x /\ submits'[t].pc \in {"saved", "done", "dead"}
                 /\ \/ x \in mixed'
                    \/ requests'[x].tx = submits'[t].tx
                    \/ requests'[x].status = "APPROVED"
        <3>1. t # s
            BY <1>1, <2>4 DEF ServiceInv, RowsSound
        <3> QED
            BY <1>1, <1>4, <2>4, <3>1 DEF ServiceInv, RowsSound
    <2> QED
        BY <2>1, <2>2, <2>3, <2>4 DEF RowsSound
<1>9. \A v \in Verifier : ReadSound(v)'
    BY <1>1 DEF ServiceInv, ReadSound
<1>10. ApprovedIsSettled'
    <2> SUFFICES ASSUME NEW x \in Request, requests[x].status = "APPROVED"
                 PROVE  \E t, u \in Submission :
                            /\ payments[t] = "SETTLED"
                            /\ submits'[u].request = x /\ submits'[u].tx = submits'[t].tx
                            /\ x \notin mixed => requests[x].tx = submits'[t].tx
        BY <1>1 DEF ApprovedIsSettled
    <2>1. PICK t \in Submission, u \in Submission :
              /\ payments[t] = "SETTLED"
              /\ submits[u].request = x /\ submits[u].tx = submits[t].tx
              /\ x \notin mixed => requests[x].tx = submits[t].tx
        BY DEF ServiceInv, ApprovedIsSettled
    <2>2. t # s /\ submits[t].tx \in TxHash
        BY <1>5, <2>1 DEF ServiceInv, RowsSound
    <2>3. u # s
        BY <1>5, <2>1, <2>2
    <2> QED
        BY <1>4, <2>1, <2>2, <2>3
<1>11. NoLostApproval'
    <2> SUFFICES ASSUME NEW x \in Request, NEW t \in Submission, savedBy[x] = t, x \notin mixed,
                        OwnHash(t)', payments[t] = "SETTLED",
                        \A v \in Verifier : verifies[v].payment = t => ~Busy(v)
                 PROVE  requests[x].status = "APPROVED"
        BY <1>1 DEF NoLostApproval, Busy
    <2>1. t # s /\ submits[t].tx \in TxHash
        BY <1>5 DEF ServiceInv, RowsSound
    <2>2. OwnHash(t)
        BY <1>4, <1>5, <2>1 DEF OwnHash
    <2> QED
        BY <2>2 DEF ServiceInv, NoLostApproval, Busy
<1> QED
    BY <1>6, <1>7, <1>8, <1>9, <1>10, <1>11 DEF ServiceInv

LEMMA SubmitKeeps ==
    ASSUME ServiceInv, NEW s \in Submission, SubmitSaveRequest(s)
    PROVE  ServiceInv'
<1> DEFINE r == submits[s].request
           seen == submits[s].seen
           row == [status |-> "SUBMITTED", tx |-> submits[s].tx]
<1>1. /\ submits \in [Submission -> SubmitRecord] /\ submits[s].pc = "saving"
      /\ UNCHANGED <<payments, verifies, numericId, contractKnown, contractVars>>
      /\ UpdateRequest(r, seen, row)
    BY DEF SubmitSaveRequest, ServiceInv, ServiceTypeOK, SubmitRecord
<1>2. r \in Request /\ submits[s].tx \in TxHash /\ payments[s] = "none"
    BY <1>1 DEF ServiceInv, RowsSound
<1>3. seen \in Row /\ row \in Row /\ row.status = "SUBMITTED" /\ row.tx = submits[s].tx
    BY <1>1, <1>2 DEF Row, SubmitRecord, RequestStatus
<1> HIDE DEF row, seen
<1>4. /\ requests' \in [Request -> Row] /\ mixed' \in SUBSET Request
      /\ \A x \in Request : x \in mixed => x \in mixed'
      /\ \A x \in Request \ {r} : requests'[x] = requests[x]
      /\ requests'[r].status \in {requests[r].status, "SUBMITTED"}
      /\ requests'[r].tx \in {requests[r].tx, submits[s].tx}
      /\ row = seen => requests'[r] = requests[r]
      /\ r \notin mixed' => row = seen \/ requests'[r] = row
    BY <1>1, <1>2, <1>3, UpdateLeaves DEF ServiceInv
<1>5. PICK sub : sub = [submits[s] EXCEPT !.pc = "saved", !.seen = NoRow]
    OBVIOUS
<1>6. /\ sub \in SubmitRecord /\ sub.pc = "saved" /\ sub.request = r /\ sub.tx = submits[s].tx
    BY <1>1, <1>5, NoRowIsRow DEF SubmitRecord, SubmitStep
<1>7. /\ submits' = [submits EXCEPT ![s] = sub] /\ submits'[s] = sub
      /\ \A t \in Submission \ {s} : submits'[t] = submits[t]
    BY <1>1, <1>5 DEF SubmitSaveRequest
<1>8. \A t \in Submission : submits'[t].request = submits[t].request /\ submits'[t].tx = submits[t].tx
    BY <1>6, <1>7
<1>9. /\ savedBy \in [Request -> Submission \cup {NoSubmission}]
      /\ savedBy' \in [Request -> Submission \cup {NoSubmission}]
      /\ \A x \in Request \ {r} : savedBy'[x] = savedBy[x]
      /\ savedBy'[r] = IF row = seen THEN savedBy[r] ELSE s
    <2>1. savedBy' = IF row = seen THEN savedBy ELSE [savedBy EXCEPT ![r] = s]
        BY DEF SubmitSaveRequest, row, seen
    <2> QED
        BY <1>2, <2>1 DEF ServiceInv, ServiceTypeOK
<1> HIDE DEF r
<1>10. ContractTypeOK' /\ OneProofPerSettlement' /\ \A v \in Verifier : VerifySound(v)'
    BY <1>1, <1>8, CallsStay
<1>11. ServiceTypeOK'
    BY <1>1, <1>4, <1>6, <1>7, <1>9, <1>10 DEF ServiceInv, ServiceTypeOK, SubmitRecord
<1>12. \A t \in Submission : OwnHash(t)' => OwnHash(t)
    BY <1>8 DEF OwnHash
<1>13. RowsSound'
    <2>1. \A t \in Submission : payments'[t] # "none" <=> submits'[t].pc = "done"
        BY <1>1, <1>2, <1>6, <1>7 DEF ServiceInv, RowsSound
    <2>2. \A t \in Submission :
              IF submits'[t].pc = "idle" THEN submits'[t].tx = NoTx
              ELSE submits'[t].request \in Request /\ submits'[t].tx \in TxHash
        BY <1>2, <1>6, <1>7 DEF ServiceInv, RowsSound
    <2>3. ASSUME NEW x \in Request, requests'[x].tx \in TxHash
          PROVE  \E t \in Submission : submits'[t].request = x /\ submits'[t].tx = requests'[x].tx
        <3>1. CASE requests'[x].tx = requests[x].tx
            BY <1>8, <2>3, <3>1 DEF ServiceInv, RowsSound
        <3>2. CASE requests'[x].tx # requests[x].tx
            <4>1. x = r /\ requests'[x].tx = submits[s].tx
                BY <1>4, <3>2
            <4> QED
                BY <1>6, <1>7, <4>1
        <3> QED
            BY <3>1, <3>2
    <2>4. ASSUME NEW x \in Request, NEW t \in Submission, savedBy'[x] = t
          PROVE  /\ submits'[t].request = x /\ submits'[t].pc \in {"saved", "done", "dead"}
                 /\ \/ x \in mixed'
                    \/ requests'[x].tx = submits'[t].tx
                    \/ requests'[x].status = "APPROVED"
        <3>1. CASE x = r /\ row # seen
            BY <1>3, <1>4, <1>6, <1>7, <1>9, <2>4, <3>1
        <3>2. CASE ~(x = r /\ row # seen)
            <4>1. savedBy[x] = t /\ requests'[x] = requests[x]
                BY <1>4, <1>9, <2>4, <3>2
            <4>2. t # s
                BY <1>1, <4>1 DEF ServiceInv, RowsSound
            <4> QED
                BY <1>4, <1>7, <4>1, <4>2 DEF ServiceInv, RowsSound
        <3> QED
            BY <3>1, <3>2
    <2> QED
        BY <2>1, <2>2, <2>3, <2>4 DEF RowsSound
<1>14. ASSUME NEW v \in Verifier PROVE ReadSound(v)'
    <2> SUFFICES ASSUME verifies[v].pc = "saving",
                        savedBy'[verifies[v].request] = verifies[v].payment,
                        verifies[v].seen.status = "APPROVED"
                 PROVE  requests'[verifies[v].request].status = "APPROVED"
        BY <1>1 DEF ReadSound
    <2>1. verifies[v].request \in Request /\ payments[verifies[v].payment] # "none"
        BY DEF ServiceInv, VerifySound
    <2>2. ~(verifies[v].request = r /\ row # seen)
        BY <1>2, <1>9, <2>1
    <2>3. /\ savedBy[verifies[v].request] = verifies[v].payment
          /\ requests'[verifies[v].request] = requests[verifies[v].request]
        BY <1>4, <1>9, <2>1, <2>2
    <2> QED
        BY <2>3 DEF ServiceInv, ReadSound
<1>15. ASSUME NEW x \in Request, requests'[x].status = "APPROVED"
       PROVE  \E t, u \in Submission :
                  /\ payments'[t] = "SETTLED"
                  /\ submits'[u].request = x /\ submits'[u].tx = submits'[t].tx
                  /\ x \notin mixed' => requests'[x].tx = submits'[t].tx
    <2>1. requests[x].status = "APPROVED"
        BY <1>4, <1>15
    <2>2. PICK t \in Submission, u \in Submission :
              /\ payments[t] = "SETTLED"
              /\ submits[u].request = x /\ submits[u].tx = submits[t].tx
              /\ x \notin mixed => requests[x].tx = submits[t].tx
        BY <2>1 DEF ServiceInv, ApprovedIsSettled
    <2>3. x \notin mixed' => x \notin mixed /\ requests'[x].tx = requests[x].tx
        <3>1. CASE x = r
            BY <1>3, <1>4, <1>15, <3>1
        <3>2. CASE x # r
            BY <1>4, <3>2
        <3> QED
            BY <3>1, <3>2
    <2> QED
        BY <1>1, <1>8, <2>2, <2>3
<1>16. ApprovedIsSettled'
    BY <1>15 DEF ApprovedIsSettled
<1>17. NoLostApproval'
    <2> SUFFICES ASSUME NEW x \in Request, NEW t \in Submission, savedBy'[x] = t, x \notin mixed',
                        OwnHash(t)', payments[t] = "SETTLED",
                        \A v \in Verifier : verifies[v].payment = t => ~Busy(v)
                 PROVE  requests'[x].status = "APPROVED"
        BY <1>1 DEF NoLostApproval, Busy
    <2>1. ~(x = r /\ row # seen)
        BY <1>2, <1>9
    <2>2. savedBy[x] = t /\ requests'[x] = requests[x] /\ x \notin mixed /\ OwnHash(t)
        BY <1>4, <1>9, <1>12, <2>1
    <2> QED
        BY <2>2 DEF ServiceInv, NoLostApproval, Busy
<1> QED
    BY <1>10, <1>11, <1>13, <1>14, <1>16, <1>17 DEF ServiceInv

LEMMA InsertKeeps == ASSUME ServiceInv, NEW s \in Submission, SubmitInsertPayment(s) PROVE ServiceInv'
<1>1. /\ submits \in [Submission -> SubmitRecord] /\ payments \in [Submission -> PaymentStatus]
      /\ submits[s].pc = "saved" /\ payments' = [payments EXCEPT ![s] = "PENDING"]
      /\ UNCHANGED <<requests, verifies, numericId, contractKnown, savedBy, mixed, contractVars>>
    BY DEF SubmitInsertPayment, ServiceInv, ServiceTypeOK, SubmitRecord, histories
<1>2. PICK sub : sub = [submits[s] EXCEPT !.pc = "done"]
    OBVIOUS
<1>3. /\ sub \in SubmitRecord /\ sub.pc = "done" /\ sub.request = submits[s].request
      /\ sub.tx = submits[s].tx
    BY <1>1, <1>2 DEF SubmitRecord, SubmitStep
<1>4. /\ submits' = [submits EXCEPT ![s] = sub] /\ submits'[s] = sub
      /\ \A t \in Submission \ {s} : submits'[t] = submits[t] /\ payments'[t] = payments[t]
      /\ payments'[s] = "PENDING"
    BY <1>1, <1>2 DEF SubmitInsertPayment
<1>5. payments[s] = "none"
    BY <1>1 DEF ServiceInv, RowsSound
<1>6. \A t \in Submission : submits'[t].request = submits[t].request /\ submits'[t].tx = submits[t].tx
    BY <1>3, <1>4
<1>7. ContractTypeOK' /\ OneProofPerSettlement' /\ \A v \in Verifier : VerifySound(v)'
    BY <1>1, <1>4, <1>5, <1>6, CallsStay
<1>8. ServiceTypeOK'
    BY <1>1, <1>3, <1>4, <1>7 DEF ServiceInv, ServiceTypeOK, PaymentStatus, SubmitRecord
<1>9. RowsSound'
    <2>1. \A t \in Submission : payments'[t] # "none" <=> submits'[t].pc = "done"
        BY <1>3, <1>4 DEF ServiceInv, RowsSound
    <2>2. \A t \in Submission :
              /\ submits'[t].pc = "idle" <=> submits[t].pc = "idle"
              /\ submits[t].pc \in {"saved", "done", "dead"} =>
                     submits'[t].pc \in {"saved", "done", "dead"}
        BY <1>1, <1>3, <1>4
    <2> QED
        BY <1>1, <1>6, <2>1, <2>2 DEF ServiceInv, RowsSound
<1>10. \A v \in Verifier : ReadSound(v)'
    BY <1>1 DEF ServiceInv, ReadSound
<1>11. ApprovedIsSettled'
    <2>1. \A t \in Submission : payments[t] = "SETTLED" => payments'[t] = "SETTLED"
        BY <1>4, <1>5
    <2> QED
        BY <1>1, <1>6, <2>1 DEF ServiceInv, ApprovedIsSettled
<1>12. NoLostApproval'
    <2>1. \A t \in Submission : payments'[t] = "SETTLED" => payments[t] = "SETTLED"
        BY <1>4
    <2> QED
        BY <1>1, <1>6, <2>1 DEF ServiceInv, NoLostApproval, OwnHash
<1> QED
    BY <1>7, <1>8, <1>9, <1>10, <1>11, <1>12 DEF ServiceInv

\* A call moves, and neither its payment nor the ground of its verdict changes.
LEMMA ViaStays ==
    ASSUME ServiceInv, NEW v \in Verifier, NEW pc \in VerifyStep \ {"idle"}, NEW seen \in Row,
           verifies' = [verifies EXCEPT ![v].pc = pc, ![v].seen = seen]
    PROVE  /\ verifies' \in [Verifier -> CallRecord]
           /\ verifies'[v].pc = pc /\ verifies'[v].payment = verifies[v].payment
           /\ verifies'[v].via = verifies[v].via
           /\ verifies'[v].verified = verifies[v].verified
           /\ verifies'[v].request = verifies[v].request
           /\ \A w \in Verifier \ {v} : verifies'[w] = verifies[w]
           /\ numericId' = numericId => OneProofPerSettlement'
<1>1. verifies \in [Verifier -> CallRecord]
    BY DEF ServiceInv, ServiceTypeOK, CallRecord
<1>2. PICK new : new = [verifies[v] EXCEPT !.pc = pc, !.seen = seen]
    OBVIOUS
<1>3. /\ new \in CallRecord /\ new.pc = pc /\ new.payment = verifies[v].payment
      /\ new.via = verifies[v].via /\ new.verified = verifies[v].verified
      /\ new.request = verifies[v].request
    BY <1>1, <1>2 DEF CallRecord
<1>4. verifies' = [verifies EXCEPT ![v] = new]
    BY <1>1, <1>2
<1>5. ASSUME numericId' = numericId PROVE OneProofPerSettlement'
    BY <1>1, <1>3, <1>4, <1>5 DEF ServiceInv, OneProofPerSettlement
<1> QED
    BY ZenonT(30), <1>1, <1>3, <1>4, <1>5

LEMMA SettleKeeps == ASSUME ServiceInv, NEW v \in Verifier, SettlePayment(v) PROVE ServiceInv'
<1> DEFINE p == verifies[v].payment
<1>1. /\ payments \in [Submission -> PaymentStatus] /\ verifies \in [Verifier -> CallRecord]
      /\ verifies[v].pc = "settling" /\ payments' = [payments EXCEPT ![p] = "SETTLED"]
      /\ verifies' = [verifies EXCEPT ![v].pc = "lookup"]
      /\ UNCHANGED <<requests, submits, numericId, contractKnown, savedBy, mixed, contractVars>>
    BY DEF SettlePayment, ServiceInv, ServiceTypeOK, CallRecord, histories
<1>2. p \in Submission /\ numericId[p] \in ChainId /\ payments[p] # "none" /\ VerifySound(v)
    BY <1>1, CallHasPayment DEF ServiceInv, VerifySound
<1>3. /\ verifies' \in [Verifier -> CallRecord] /\ verifies'[v].pc = "lookup"
      /\ verifies'[v].payment = p /\ verifies'[v].via = verifies[v].via
      /\ \A w \in Verifier \ {v} : verifies'[w] = verifies[w]
      /\ OneProofPerSettlement'
    <2>1. PICK seen \in Row : seen = verifies[v].seen
        BY <1>1 DEF CallRecord
    <2>2. PICK old \in CallRecord : old = verifies[v]
        BY <1>1
    <2>3. [old EXCEPT !.pc = "lookup"] = [old EXCEPT !.pc = "lookup", !.seen = seen]
        BY <2>1, <2>2 DEF CallRecord
    <2>4. verifies' = [verifies EXCEPT ![v].pc = "lookup", ![v].seen = seen]
        BY <1>1, <2>1, <2>2, <2>3
    <2>5. "lookup" \in VerifyStep \ {"idle"} /\ numericId' = numericId
        BY <1>1 DEF VerifyStep
    <2> QED
        BY <2>4, <2>5, ViaStays
<1>4. payments'[p] = "SETTLED" /\ \A s \in Submission \ {p} : payments'[s] = payments[s]
    BY <1>1, <1>2
<1>5. ContractTypeOK' /\ \A id \in ChainId : Settled(id) => Settled(id)'
    BY <1>1, ContractKeeps DEF ServiceInv, ServiceTypeOK
<1>6. ServiceTypeOK'
    BY <1>1, <1>2, <1>3, <1>5 DEF ServiceInv, ServiceTypeOK, PaymentStatus, CallRecord
<1>7. RowsSound'
    BY <1>1, <1>2, <1>4 DEF ServiceInv, RowsSound
<1>8. ASSUME NEW w \in Verifier PROVE VerifySound(w)' /\ ReadSound(w)'
    <2>1. CASE w = v
        <3>1. p # NoSubmission
            BY <1>2, ServiceAssumption
        <3>2. \A id \in ChainId : verifies[v].via \in {"chain", "lost"} /\ id = numericId[p]
                  => Settled(id)'
            BY <1>2, <1>5 DEF VerifySound
        <3> QED
            BY <1>1, <1>2, <1>3, <1>4, <2>1, <3>1, <3>2 DEF VerifySound, ReadSound
    <2>2. CASE w # v
        <3>1. verifies[w].pc # "idle" => verifies[w].payment \in Submission
            BY CallHasPayment
        <3>2. VerifySound(w)'
            BY <1>1, <1>3, <1>4, <1>5, <2>2, <3>1, OthersSound
        <3> QED
            BY <1>1, <1>3, <2>2, <3>2 DEF ServiceInv, ReadSound
    <2> QED
        BY <2>1, <2>2
<1>9. ApprovedIsSettled'
    <2>1. \A s \in Submission : payments[s] = "SETTLED" => payments'[s] = "SETTLED"
        BY <1>4
    <2> QED
        BY <1>1, <2>1 DEF ServiceInv, ApprovedIsSettled
<1>10. NoLostApproval'
    <2> SUFFICES ASSUME NEW r \in Request, NEW s \in Submission, savedBy[r] = s, r \notin mixed,
                        OwnHash(s), payments'[s] = "SETTLED",
                        \A w \in Verifier : verifies'[w].payment = s => ~Busy(w)'
                 PROVE  requests[r].status = "APPROVED"
        BY <1>1 DEF NoLostApproval, Busy, OwnHash
    <2>1. s # p
        BY <1>3 DEF Busy
    <2>2. \A w \in Verifier : verifies[w].payment = s => ~Busy(w)
        BY <1>3, <2>1 DEF Busy
    <2> QED
        BY <1>4, <2>1, <2>2 DEF ServiceInv, NoLostApproval, Busy
<1> QED
    BY <1>3, <1>6, <1>7, <1>8, <1>9, <1>10 DEF ServiceInv

LEMMA ApproveKeeps == ASSUME ServiceInv, NEW v \in Verifier, ApproveRequest(v) PROVE ServiceInv'
<1> DEFINE p == verifies[v].payment
           r == verifies[v].request
           seen == verifies[v].seen
           row == [status |-> "APPROVED", tx |-> submits[p].tx]
<1>1. /\ verifies \in [Verifier -> CallRecord] /\ verifies[v].pc = "saving"
      /\ verifies' = [verifies EXCEPT ![v].pc = "done", ![v].seen = NoRow]
      /\ UNCHANGED <<submits, payments, numericId, contractKnown, savedBy, contractVars>>
      /\ UpdateRequest(r, seen, row)
    BY DEF ApproveRequest, ServiceInv, ServiceTypeOK, CallRecord
<1>2. /\ p \in Submission /\ numericId[p] \in ChainId /\ payments[p] = "SETTLED" /\ VerifySound(v)
      /\ r \in Request /\ submits[p].pc = "done" /\ submits[p].tx \in TxHash
    BY <1>1, CallHasPayment DEF ServiceInv, VerifySound, RowsSound
<1>3. PICK t \in Submission : submits[t].request = r /\ submits[t].tx = submits[p].tx
    BY <1>1, <1>2 DEF VerifySound
<1>4. /\ verifies' \in [Verifier -> CallRecord] /\ verifies'[v].pc = "done"
      /\ verifies'[v].payment = p /\ verifies'[v].via = verifies[v].via
      /\ \A w \in Verifier \ {v} : verifies'[w] = verifies[w]
      /\ OneProofPerSettlement'
    BY <1>1, ViaStays, NoRowIsRow DEF VerifyStep
<1>5. seen \in Row /\ row \in Row /\ row.status = "APPROVED" /\ row.tx = submits[p].tx
    BY <1>1, <1>2 DEF Row, CallRecord, RequestStatus
<1> HIDE DEF row, seen
<1>6. /\ requests' \in [Request -> Row] /\ mixed' \in SUBSET Request
      /\ \A x \in Request : x \in mixed => x \in mixed'
      /\ \A x \in Request \ {r} : requests'[x] = requests[x]
      /\ requests'[r].status \in {requests[r].status, "APPROVED"}
      /\ requests'[r].tx \in {requests[r].tx, submits[p].tx}
      /\ seen.status # "APPROVED" => requests'[r].status = "APPROVED"
      /\ row = seen => requests'[r] = requests[r]
      /\ r \notin mixed' => row = seen \/ requests'[r] = row
    BY <1>1, <1>2, <1>5, UpdateLeaves DEF ServiceInv
<1>7. ContractTypeOK' /\ \A id \in ChainId : Settled(id) => Settled(id)'
    BY <1>1, ContractKeeps DEF ServiceInv, ServiceTypeOK
<1>8. ServiceTypeOK'
    BY <1>1, <1>4, <1>6, <1>7 DEF ServiceInv, ServiceTypeOK, CallRecord
<1>9. \A x \in Request : requests[x].status = "APPROVED" => requests'[x].status = "APPROVED"
    BY <1>6
<1>10. RowsSound'
    <2>1. ASSUME NEW x \in Request, requests'[x].tx \in TxHash
          PROVE  \E u \in Submission : submits[u].request = x /\ submits[u].tx = requests'[x].tx
        <3>1. CASE requests'[x].tx = requests[x].tx
            BY <2>1, <3>1 DEF ServiceInv, RowsSound
        <3>2. CASE requests'[x].tx # requests[x].tx
            BY <1>3, <1>6, <3>2
        <3> QED
            BY <3>1, <3>2
    <2>2. ASSUME NEW x \in Request, NEW u \in Submission, savedBy[x] = u
          PROVE  \/ x \in mixed' \/ requests'[x].tx = submits[u].tx
                 \/ requests'[x].status = "APPROVED"
        <3>1. CASE requests'[x] = requests[x]
            BY <1>6, <2>2, <3>1 DEF ServiceInv, RowsSound
        <3>2. CASE x = r /\ requests'[x] = row
            BY <1>5, <3>2
        <3>3. CASE x \in mixed'
            BY <3>3
        <3> QED
            BY <1>6, <3>1, <3>2, <3>3
    <2> QED
        BY <1>1, <2>1, <2>2 DEF ServiceInv, RowsSound
<1>11. ASSUME NEW w \in Verifier PROVE VerifySound(w)' /\ ReadSound(w)'
    <2>1. CASE w = v
        <3>1. p # NoSubmission
            BY <1>2, ServiceAssumption
        <3>2. \A id \in ChainId : verifies[v].via \in {"chain", "lost"} /\ id = numericId[p]
                  => Settled(id)'
            BY <1>2, <1>7 DEF VerifySound
        <3> QED
            BY <1>1, <1>2, <1>4, <2>1, <3>1, <3>2 DEF VerifySound, ReadSound
    <2>2. CASE w # v
        <3>1. VerifySound(w)'
            BY <1>1, <1>4, <1>7, <2>2, OthersSound
        <3>2. verifies[w].pc = "saving" => verifies[w].request \in Request
            BY DEF ServiceInv, VerifySound
        <3>3. ReadSound(w)'
            BY <1>1, <1>4, <1>9, <2>2, <3>2 DEF ServiceInv, ReadSound
        <3> QED
            BY <3>1, <3>3
    <2> QED
        BY <2>1, <2>2
<1>12. ASSUME NEW x \in Request, requests'[x].status = "APPROVED"
       PROVE  \E s, u \in Submission :
                  /\ payments[s] = "SETTLED"
                  /\ submits[u].request = x /\ submits[u].tx = submits[s].tx
                  /\ x \notin mixed' => requests'[x].tx = submits[s].tx
    <2>1. CASE requests'[x] = requests[x]
        BY <1>6, <1>12, <2>1 DEF ServiceInv, ApprovedIsSettled
    <2>2. CASE requests'[x] # requests[x]
        <3>1. x = r /\ row # seen /\ (x \notin mixed' => requests'[x].tx = submits[p].tx)
            BY <1>5, <1>6, <2>2
        <3> QED
            BY <1>2, <1>3, <3>1
    <2> QED
        BY <2>1, <2>2
<1>13. ApprovedIsSettled'
    BY <1>1, <1>12 DEF ApprovedIsSettled
<1>14. NoLostApproval'
    <2> SUFFICES ASSUME NEW x \in Request, NEW s \in Submission, savedBy[x] = s, x \notin mixed',
                        OwnHash(s), payments[s] = "SETTLED",
                        \A w \in Verifier : verifies'[w].payment = s => ~Busy(w)'
                 PROVE  requests'[x].status = "APPROVED"
        BY <1>1 DEF NoLostApproval, Busy, OwnHash
    <2>1. CASE s = p
        <3>1. submits[s].request = x /\ x = r
            BY <1>3, <2>1 DEF ServiceInv, RowsSound, OwnHash
        <3>2. CASE seen.status # "APPROVED"
            BY <1>6, <3>1, <3>2
        <3>3. CASE seen.status = "APPROVED"
            <4>1. requests[r].status = "APPROVED"
                BY <1>1, <2>1, <3>1, <3>3 DEF ServiceInv, ReadSound, seen
            <4> QED
                BY <1>9, <3>1, <4>1
        <3> QED
            BY <3>2, <3>3
    <2>2. CASE s # p
        <3>1. \A w \in Verifier : verifies[w].payment = s => ~Busy(w)
            BY <1>4, <2>2 DEF Busy
        <3>2. x \notin mixed
            BY <1>6
        <3> QED
            BY <1>9, <3>1, <3>2 DEF ServiceInv, NoLostApproval, Busy
    <2> QED
        BY <2>1, <2>2
<1> QED
    BY <1>4, <1>8, <1>10, <1>11, <1>13, <1>14 DEF ServiceInv

LEMMA CrashKeeps == ASSUME ServiceInv, Crash PROVE ServiceInv'
<1>1. /\ submits \in [Submission -> SubmitRecord] /\ verifies \in [Verifier -> CallRecord]
      /\ UNCHANGED <<requests, payments, numericId, contractKnown, savedBy, mixed, contractVars>>
    BY DEF Crash, ServiceInv, ServiceTypeOK, SubmitRecord, CallRecord, histories
<1>2. \A s \in Submission : /\ submits'[s] \in SubmitRecord
                            /\ submits'[s].request = submits[s].request
                            /\ submits'[s].tx = submits[s].tx
                            /\ submits'[s].pc = IF InFlight(submits[s].pc) THEN "dead"
                                                ELSE submits[s].pc
    BY <1>1, NoRowIsRow DEF Crash, SubmitRecord, SubmitStep, InFlight
<1>3. \A v \in Verifier :
          /\ verifies'[v] \in CallRecord /\ verifies'[v].payment = verifies[v].payment
          /\ verifies'[v].via = verifies[v].via /\ verifies'[v].verified = verifies[v].verified
          /\ verifies'[v].pc = IF InFlight(verifies[v].pc) THEN "dead" ELSE verifies[v].pc
    BY ZenonT(30), <1>1, NoRowIsRow DEF Crash, CallRecord, VerifyStep, InFlight
<1>4. submits' \in [Submission -> SubmitRecord] /\ verifies' \in [Verifier -> CallRecord]
    <2>1. /\ submits' = [s \in Submission |-> submits'[s]]
          /\ verifies' = [v \in Verifier |-> verifies'[v]]
        BY DEF Crash
    <2> QED
        BY <1>2, <1>3, <2>1
<1>5. ContractTypeOK' /\ \A id \in ChainId : Settled(id) => Settled(id)'
    BY <1>1, ContractKeeps DEF ServiceInv, ServiceTypeOK
<1>6. ServiceTypeOK'
    BY <1>1, <1>4, <1>5 DEF ServiceInv, ServiceTypeOK, SubmitRecord, CallRecord
<1>7. RowsSound'
    <2>1. \A s \in Submission :
              /\ submits'[s].pc = "idle" <=> submits[s].pc = "idle"
              /\ submits'[s].pc = "done" <=> submits[s].pc = "done"
              /\ submits[s].pc \in {"saved", "done", "dead"} =>
                     submits'[s].pc \in {"saved", "done", "dead"}
        BY <1>2 DEF InFlight
    <2> QED
        BY <1>1, <1>2, <2>1 DEF ServiceInv, RowsSound
<1>8. ASSUME NEW v \in Verifier PROVE VerifySound(v)' /\ ReadSound(v)'
    <2>1. VerifySound(v)
        BY DEF ServiceInv
    <2>2. verifies[v].pc # "idle" => numericId[verifies[v].payment] \in ChainId
        BY CallHasPayment
    <2>3. verifies'[v].pc = "idle" <=> verifies[v].pc = "idle"
        BY <1>3 DEF InFlight
    <2>4. verifies'[v].pc \notin {"idle", "done"} => verifies'[v].pc = "dead"
        BY <1>3 DEF InFlight
    <2>5. verifies'[v].pc = "done" => verifies[v].pc = "done"
        BY <1>3 DEF InFlight
    <2>6. \A id \in ChainId :
              verifies[v].via \in {"chain", "lost"} /\ id = numericId[verifies[v].payment]
              => Settled(id)'
        BY <1>5, <2>1 DEF VerifySound
    <2>7. verifies[v].via \in {"chain", "lost"} => verifies[v].pc # "idle"
        BY <2>1 DEF VerifySound
    <2>8. (verifies[v].via \in {"chain", "lost"} => Settled(numericId[verifies[v].payment]))'
        BY <1>1, <1>3, <2>2, <2>6, <2>7
    <2>9. verifies'[v].verified => verifies'[v].pc \in {"done", "dead"}
        BY <1>3, <2>1, <2>3, <2>4 DEF VerifySound
    <2> QED
        BY <1>1, <1>3, <2>1, <2>3, <2>4, <2>5, <2>8, <2>9 DEF VerifySound, ReadSound
<1>9. OneProofPerSettlement' /\ ApprovedIsSettled'
    BY <1>1, <1>2, <1>3 DEF ServiceInv, OneProofPerSettlement, ApprovedIsSettled
<1>10. NoLostApproval'
    <2>1. \A v \in Verifier : ~Busy(v)' => ~Busy(v)
        BY <1>3 DEF Busy, InFlight
    <2> QED
        BY <1>1, <1>2, <1>3, <2>1 DEF ServiceInv, NoLostApproval, Busy, OwnHash
<1> QED
    BY <1>6, <1>7, <1>8, <1>9, <1>10 DEF ServiceInv

LEMMA ServiceKept == ASSUME ServiceInv, [ServiceNext]_allServiceVars PROVE ServiceInv'
<1>1. [ContractNext]_contractVars
    BY ServiceCallsContract
<1>2. ASSUME NEW v \in Verifier, VerifyContinues(v)
      PROVE  ServiceInv'
    BY <1>1, <1>2, CallStepsKeep, SettleKeeps, ApproveKeeps DEF VerifyContinues, VerifyFinishes
<1>3. CASE UNCHANGED serviceVars \/ DeployContract
    <2>1. /\ UNCHANGED <<requests, submits, payments, verifies, numericId, savedBy, mixed>>
          /\ contractKnown' \in BOOLEAN
        BY <1>3 DEF serviceVars, histories, DeployContract, ServiceInv, ServiceTypeOK
    <2>2. ContractTypeOK' /\ \A id \in ChainId : Settled(id) => Settled(id)'
        BY <1>1, ContractKeeps DEF ServiceInv, ServiceTypeOK
    <2>3. \A v \in Verifier : VerifySound(v)' /\ ReadSound(v)'
        BY <2>1, <2>2, OthersSound DEF ServiceInv, ReadSound
    <2> QED
        BY <2>1, <2>2, <2>3 DEF ServiceInv, ServiceTypeOK, RowsSound, OneProofPerSettlement,
           ApprovedIsSettled, NoLostApproval, OwnHash
<1>4. ASSUME NEW v \in Verifier, NEW s \in Submission, VerifyFindPayment(v, s)
      PROVE  ServiceInv'
    BY <1>1, <1>4, CallStepsKeep
<1> QED
    BY <1>2, <1>3, <1>4, CreateKeeps, FindKeeps, SubmitKeeps, InsertKeeps, CrashKeeps
    DEF ServiceNext, SubmitContinues, WalletCalls, allServiceVars

LEMMA ServiceHolds == ServiceSpec => []ServiceInv
<1>1. ServiceInit /\ LedgerInit => ServiceInv
    BY ServiceStarts
<1>2. ServiceInv /\ [ServiceNext]_allServiceVars => ServiceInv'
    BY ServiceKept
<1> QED
    BY <1>1, <1>2, PTL DEF ServiceSpec
-----------------------------------------------------------------------------
(***************************************************************************)
(* The payer's flow on top of the service.                                 *)
(***************************************************************************)

FlowInv == FlowTypeOK /\ FlowSound

\* Whatever the payer's client does, the relay takes a step of its own or none.
LEMMA FlowStepsService ==
    ASSUME FlowInv, [Next]_vars
    PROVE  [ServiceNext]_allServiceVars
<1>1. ASSUME NEW h \in TxHash, NEW s \in Submission, PostSubmit(h, s)
      PROVE  ServiceNext
    <2>1. paysFor[h] \in Request
        BY <1>1 DEF PostSubmit, FlowInv, FlowSound
    <2> QED
        BY <1>1, <2>1 DEF PostSubmit, ServiceNext
<1>2. ASSUME NEW h \in TxHash, NEW v \in Verifier, PostProof(h, v)
      PROVE  ServiceNext
    <2>1. posted[h] \in Submission
        BY <1>2 DEF PostProof, FlowInv, FlowSound
    <2> QED
        BY <1>2, <2>1 DEF PostProof, ServiceNext
<1>7. ASSUME NEW s \in Submission, NEW v \in Verifier, OtherPost(s, v)
      PROVE  ServiceNext
    BY <1>7 DEF OtherPost, ServiceNext
<1>3. ASSUME NEW r \in Request, RequestPayment(r)
      PROVE  ServiceNext
    BY <1>3 DEF RequestPayment, ServiceNext
<1>4. ASSUME NEW h \in TxHash, SettleCard(h) \/ GiveUp(h) \/ \E r \in Request : Pay(h, r)
      PROVE  UNCHANGED allServiceVars
    BY <1>4 DEF SettleCard, GiveUp, Pay
<1>5. RelaySteps => ServiceNext
    BY DEF RelaySteps, ServiceNext
<1>6. UNCHANGED vars => UNCHANGED allServiceVars
    BY DEF vars
<1> QED
    BY <1>1, <1>2, <1>3, <1>4, <1>5, <1>6, <1>7 DEF Next

\* A call that has begun is for one payment, and a verdict stays.
LEMMA VerdictStays ==
    ASSUME ServiceInv, [ServiceNext]_allServiceVars, NEW v \in Verifier
    PROVE  /\ verifies[v].pc # "idle" => verifies'[v].payment = verifies[v].payment
           /\ verifies[v].verified =>
                  verifies'[v].verified /\ verifies'[v].via = verifies[v].via
<1>1. /\ verifies \in [Verifier -> CallRecord] /\ VerifySound(v)
      /\ verifies[v].verified \in BOOLEAN
    BY DEF ServiceInv, ServiceTypeOK, CallRecord
<1>3. ASSUME NEW w \in Verifier, VerifyContinues(w), w # v
      PROVE  verifies'[v] = verifies[v]
    BY <1>1, <1>3 DEF VerifyContinues, VerifyFinishes, VerifyProve, InvokeSkipped, InvokeSettles,
       InvokeFails, SaveProofRecord, SettlePayment, FindRequest, ReadRequest, ApproveRequest
<1>4. ASSUME VerifyContinues(v)
      PROVE  /\ verifies'[v].payment = verifies[v].payment
             /\ verifies[v].verified =>
                    verifies'[v].verified /\ verifies'[v].via = verifies[v].via
    <2>1. CASE verifies[v].pc \in {"proving", "invoking", "recording"}
        <3>1. ~verifies[v].verified
            BY <1>1, <2>1 DEF VerifySound
        <3>2. verifies'[v].payment = verifies[v].payment
            BY <1>1, <1>4, <2>1 DEF VerifyContinues, VerifyFinishes, VerifyProve, InvokeSkipped,
               InvokeSettles, InvokeFails, SaveProofRecord, SettlePayment, FindRequest,
               ReadRequest, ApproveRequest, CallRecord
        <3> QED
            BY <3>1, <3>2
    <2>2. CASE verifies[v].pc \notin {"proving", "invoking", "recording"}
        BY <1>1, <1>4, <2>2 DEF VerifyContinues, VerifyFinishes, VerifyProve, InvokeSkipped,
           InvokeSettles, InvokeFails, SaveProofRecord, SettlePayment, FindRequest, ReadRequest, ApproveRequest,
           CallRecord
    <2> QED
        BY <2>1, <2>2
<1>5. ASSUME NEW w \in Verifier, NEW s \in Submission, VerifyFindPayment(w, s)
      PROVE  verifies[w].pc = "idle" /\ (w # v => verifies'[v] = verifies[v])
    BY <1>1, <1>5 DEF VerifyFindPayment
<1>6. verifies[v].pc = "idle" => ~verifies[v].verified
    BY <1>1 DEF VerifySound
<1>7. ASSUME Crash
      PROVE  /\ verifies'[v].payment = verifies[v].payment /\ verifies'[v].verified = verifies[v].verified
             /\ verifies'[v].via = verifies[v].via
    BY <1>1, <1>7 DEF Crash, CallRecord
<1>8. \/ UNCHANGED verifies \/ Crash
      \/ \E w \in Verifier : VerifyContinues(w) \/ \E s \in Submission : VerifyFindPayment(w, s)
    BY DEF ServiceNext, CreateRequest, SubmitFindRequest, SubmitSaveRequest, SubmitContinues, SubmitInsertPayment,
       DeployContract, WalletCalls, allServiceVars, serviceVars
<1> QED
    BY <1>3, <1>4, <1>5, <1>6, <1>7, <1>8

LEMMA SettledPaymentStays ==
    ASSUME ServiceInv, [ServiceNext]_allServiceVars, NEW s \in Submission, payments[s] = "SETTLED"
    PROVE  payments'[s] = "SETTLED"
<1>1. payments \in [Submission -> PaymentStatus] /\ submits[s].pc = "done"
    BY DEF ServiceInv, ServiceTypeOK, RowsSound
<1>2. ASSUME NEW t \in Submission, SubmitInsertPayment(t)
      PROVE  payments'[s] = "SETTLED"
    BY <1>1, <1>2 DEF SubmitInsertPayment
<1>3. ASSUME NEW v \in Verifier, VerifyContinues(v)
      PROVE  payments'[s] = "SETTLED"
    BY <1>1, <1>3 DEF VerifyContinues, VerifyFinishes, VerifyProve, InvokeSkipped, InvokeSettles,
       InvokeFails, SaveProofRecord, SettlePayment, FindRequest, ReadRequest, ApproveRequest
<1> QED
    BY <1>2, <1>3 DEF ServiceNext, CreateRequest, SubmitFindRequest, SubmitSaveRequest,
       SubmitContinues, VerifyFindPayment, DeployContract, WalletCalls, Crash, allServiceVars,
       serviceVars

\* A submission that has come in stays one of its hash.
LEMMA SubmissionStays ==
    ASSUME ServiceInv, [ServiceNext]_allServiceVars, NEW s \in Submission,
           submits[s].tx \in TxHash
    PROVE  submits'[s].tx = submits[s].tx
<1>1. submits \in [Submission -> SubmitRecord] /\ submits[s].pc # "idle"
    BY ServiceAssumption DEF ServiceInv, ServiceTypeOK, RowsSound, SubmitRecord
<1>2. ASSUME NEW t \in Submission,
             SubmitContinues(t) \/ \E r \in Request, h \in TxHash : SubmitFindRequest(t, r, h)
      PROVE  submits'[s].tx = submits[s].tx
    BY <1>1, <1>2 DEF SubmitContinues, SubmitSaveRequest, SubmitInsertPayment, SubmitFindRequest,
       SubmitRecord
<1>3. ASSUME NEW v \in Verifier, VerifyContinues(v)
      PROVE  submits'[s].tx = submits[s].tx
    BY <1>1, <1>3 DEF VerifyContinues, VerifyFinishes, VerifyProve, InvokeSkipped, InvokeSettles,
       InvokeFails, SaveProofRecord, SettlePayment, FindRequest, ReadRequest, ApproveRequest
<1>4. ASSUME Crash PROVE submits'[s].tx = submits[s].tx
    <2>1. submits'[s] \in {submits[s], [submits[s] EXCEPT !.pc = "dead", !.seen = NoRow]}
        BY <1>4 DEF Crash
    <2>2. PICK old \in SubmitRecord : old = submits[s]
        BY <1>1
    <2>3. [old EXCEPT !.pc = "dead", !.seen = NoRow].tx = old.tx
        BY DEF SubmitRecord
    <2> QED
        BY <2>1, <2>2, <2>3
<1> QED
    BY <1>2, <1>3, <1>4 DEF ServiceNext, CreateRequest, VerifyFindPayment, DeployContract,
       WalletCalls, allServiceVars, serviceVars

LEMMA FlowStarts == FlowInit => FlowInv /\ CardIsBacked
BY DEF FlowInit, FlowInv, FlowTypeOK, FlowSound, CardIsBacked, Live

LEMMA FlowKept ==
    ASSUME ServiceInv, FlowInv, [Next]_vars
    PROVE  FlowInv'
<1> USE DEF FlowInv, FlowTypeOK, FlowSound
<1>1. [ServiceNext]_allServiceVars
    BY FlowStepsService
<1>2. \A v \in Verifier : verifies[v].pc # "idle" => verifies'[v].payment = verifies[v].payment
    BY <1>1, VerdictStays
<1>3. ASSUME NEW h \in TxHash, client[h] \in {"submitting", "verifying"}
      PROVE  posted[h] \in Submission /\ submits'[posted[h]].tx = h
    <2>1. posted[h] \in Submission /\ submits[posted[h]].tx = h
        BY <1>3
    <2> QED
        BY <1>1, <2>1, SubmissionStays
<1>4. ASSUME NEW h \in TxHash, client[h] = "verifying"
      PROVE  awaits[h] \in Verifier /\ verifies'[awaits[h]].payment = posted[h]
    <2>1. /\ awaits[h] \in Verifier /\ verifies[awaits[h]].payment = posted[h]
          /\ posted[h] \in Submission /\ VerifySound(awaits[h])
        BY <1>4 DEF ServiceInv
    <2>2. verifies[awaits[h]].pc # "idle"
        BY <2>1, ServiceAssumption DEF VerifySound
    <2> QED
        BY <1>2, <1>4, <2>1, <2>2
<1>5. CASE UNCHANGED flowVars
    BY <1>3, <1>4, <1>5 DEF flowVars
<1>6. ASSUME NEW r \in Request, RequestPayment(r)
      PROVE  FlowInv'
    BY <1>3, <1>4, <1>6 DEF RequestPayment
<1>7. ASSUME NEW h \in TxHash, NEW r \in Request, Pay(h, r)
      PROVE  FlowInv'
    BY <1>3, <1>4, <1>7 DEF Pay, Live
<1>8. ASSUME NEW h \in TxHash, SettleCard(h) \/ GiveUp(h)
      PROVE  FlowInv'
    <2>1. CASE SettleCard(h)
        BY <1>3, <1>4, <2>1 DEF SettleCard, Live
    <2>2. CASE GiveUp(h)
        BY <1>3, <1>4, <2>2 DEF GiveUp, Live
    <2> QED
        BY <1>8, <2>1, <2>2
<1>9. ASSUME NEW h \in TxHash, NEW s \in Submission, PostSubmit(h, s)
      PROVE  FlowInv'
    <2>1. /\ client' = [client EXCEPT ![h] = "submitting"] /\ posted' = [posted EXCEPT ![h] = s]
          /\ UNCHANGED <<card, paysFor, awaits>> /\ client[h] = "paid"
        BY <1>9 DEF PostSubmit
    <2>2. submits'[s].tx = h
        BY <1>9 DEF PostSubmit, SubmitFindRequest, ServiceInv, ServiceTypeOK
    <2>3. \A g \in TxHash : g # h => client'[g] = client[g] /\ posted'[g] = posted[g]
        BY <2>1
    <2>4. client'[h] = "submitting" /\ posted'[h] = s
        BY <2>1
    <2>5. FlowTypeOK'
        BY <2>1 DEF Live
    <2>6. FlowSound'
        BY <1>3, <1>4, <2>1, <2>2, <2>3, <2>4
    <2> QED
        BY <2>5, <2>6
<1>10. ASSUME NEW h \in TxHash, NEW v \in Verifier, PostProof(h, v)
       PROVE  FlowInv'
    <2>1. verifies'[v].payment = posted[h]
        BY <1>10 DEF PostProof, VerifyFindPayment, ServiceInv, ServiceTypeOK
    <2>2. /\ client' = [client EXCEPT ![h] = "verifying"] /\ awaits' = [awaits EXCEPT ![h] = v]
          /\ UNCHANGED <<card, paysFor, posted>> /\ client[h] = "submitting"
        BY <1>10 DEF PostProof
    <2>3. \A g \in TxHash : g # h => client'[g] = client[g] /\ awaits'[g] = awaits[g]
        BY <2>2
    <2>4. client'[h] = "verifying" /\ awaits'[h] = v
        BY <2>2
    <2>5. FlowTypeOK'
        BY <2>2 DEF Live
    <2>6. FlowSound'
        BY <1>3, <1>4, <2>1, <2>2, <2>3, <2>4
    <2> QED
        BY <2>5, <2>6
<1> QED
    BY <1>5, <1>6, <1>7, <1>8, <1>9, <1>10 DEF Next, RelaySteps, OtherPost, vars

\* The verdict on one submission, as a card needs it.
Backs(s, v) ==
    /\ payments[s] = "SETTLED"
    /\ verifies[v].payment = s /\ verifies[v].verified
    /\ verifies[v].via = "chain" => Settled(numericId[s])

LEMMA BackingStays ==
    ASSUME ServiceInv, [ServiceNext]_allServiceVars, NEW s \in Submission, NEW v \in Verifier,
           Backs(s, v)
    PROVE  Backs(s, v)'
<1>1. /\ verifies[v].pc # "idle" /\ numericId[s] \in ChainId
    BY ServiceAssumption DEF Backs, ServiceInv, ServiceTypeOK, VerifySound
<1>2. /\ verifies'[v].payment = s /\ verifies'[v].verified /\ verifies'[v].via = verifies[v].via
    BY <1>1, VerdictStays DEF Backs
<1>3. payments'[s] = "SETTLED"
    BY SettledPaymentStays DEF Backs
<1>4. numericId' = numericId
    BY DEF ServiceNext, CreateRequest, SubmitFindRequest, SubmitSaveRequest, SubmitContinues,
       SubmitInsertPayment, VerifyFindPayment, VerifyContinues, VerifyFinishes, VerifyProve,
       InvokeSkipped, InvokeSettles, InvokeFails, SaveProofRecord, SettlePayment, FindRequest,
       ReadRequest, ApproveRequest, DeployContract, WalletCalls, Crash, allServiceVars, serviceVars
<1>5. Settled(numericId[s]) => Settled(numericId[s])'
    <2>1. \A id \in ChainId : Settled(id) => Settled(id)'
        BY ServiceCallsContract, ContractKeeps DEF ServiceInv, ServiceTypeOK
    <2> QED
        BY <1>1, <1>4, <2>1
<1> QED
    BY <1>2, <1>3, <1>5 DEF Backs

\* The submission is of a hash with which the request was paid.
PaidFor(s, r) == submits[s].tx \in TxHash /\ paysFor[submits[s].tx] = r

LEMMA PaidForStays ==
    ASSUME ServiceInv, FlowInv, [Next]_vars, NEW s \in Submission, NEW r \in Request,
           PaidFor(s, r)
    PROVE  PaidFor(s, r)'
<1>1. submits'[s].tx = submits[s].tx /\ submits[s].tx \in TxHash
    BY FlowStepsService, SubmissionStays DEF PaidFor
<1>2. PICK h \in TxHash : h = submits[s].tx /\ paysFor[h] = r
    BY <1>1 DEF PaidFor
<1>3. client[h] # "idle"
    BY <1>2, ServiceAssumption DEF FlowInv, FlowSound
<1>4. paysFor'[h] = r
    BY <1>2, <1>3 DEF Next, RequestPayment, Pay, PostSubmit, SettleCard, GiveUp,
       PostProof, OtherPost, RelaySteps, flowVars, vars, FlowInv, FlowTypeOK
<1> QED
    BY <1>1, <1>2, <1>4 DEF PaidFor

LEMMA CardKept ==
    ASSUME ServiceInv, FlowInv, CardIsBacked, [Next]_vars
    PROVE  CardIsBacked'
<1>1. [ServiceNext]_allServiceVars
    BY FlowStepsService
<1>2. ASSUME NEW r \in Request, NEW s \in Submission, NEW v \in Verifier,
             PaidFor(s, r), Backs(s, v)
      PROVE  PaidFor(s, r)' /\ Backs(s, v)'
    BY <1>1, <1>2, PaidForStays, BackingStays
<1>3. ASSUME NEW r \in Request, card[r] = "SETTLED"
      PROVE  \E s \in Submission, v \in Verifier : PaidFor(s, r) /\ Backs(s, v)
    BY <1>3 DEF CardIsBacked, Backs, PaidFor
<1>4. ASSUME NEW h \in TxHash, SettleCard(h)
      PROVE  \E s \in Submission, v \in Verifier : PaidFor(s, paysFor[h]) /\ Backs(s, v)
    <2>1. /\ awaits[h] \in Verifier /\ verifies[awaits[h]].payment = posted[h]
          /\ posted[h] \in Submission /\ submits[posted[h]].tx = h
          /\ VerifySound(awaits[h])
          /\ verifies[awaits[h]].pc = "done" /\ verifies[awaits[h]].verified
        BY <1>4 DEF SettleCard, FlowInv, FlowSound, ServiceInv
    <2> QED
        BY <2>1 DEF VerifySound, Backs, PaidFor
<1>5. ASSUME NEW r \in Request, card'[r] = "SETTLED", card[r] # "SETTLED"
      PROVE  \E s \in Submission, v \in Verifier : PaidFor(s, r) /\ Backs(s, v)
    <2>1. PICK h \in TxHash : SettleCard(h)
        BY <1>5 DEF Next, RequestPayment, Pay, PostSubmit, GiveUp, PostProof, OtherPost,
           RelaySteps, flowVars, vars, FlowInv, FlowTypeOK
    <2>2. paysFor[h] = r
        BY <1>5, <2>1 DEF SettleCard, FlowInv, FlowTypeOK
    <2> QED
        BY <1>4, <2>1, <2>2
<1>6. ASSUME NEW r \in Request, card'[r] = "SETTLED"
      PROVE  \E s \in Submission, v \in Verifier : PaidFor(s, r)' /\ Backs(s, v)'
    <2>1. PICK s \in Submission, v \in Verifier : PaidFor(s, r) /\ Backs(s, v)
        BY <1>3, <1>5, <1>6
    <2> QED
        BY <1>2, <2>1
<1> QED
    BY <1>6 DEF CardIsBacked, Backs, PaidFor

PaymentInv == ServiceInv /\ FlowInv /\ CardIsBacked

LEMMA PaymentHolds == Spec => []PaymentInv
<1>1. Init => PaymentInv
    BY ServiceStarts, FlowStarts DEF Init, PaymentInv
<1>2. PaymentInv /\ [Next]_vars => PaymentInv'
    BY FlowStepsService, ServiceKept, FlowKept, CardKept DEF PaymentInv
<1> QED
    BY <1>1, <1>2, PTL DEF Spec

\* The payer's flow makes the relay do nothing that the relay does not do by itself:
\* what is proved of the service for any caller holds under the flow.
THEOREM FlowRunsService == Spec => ServiceSpec
<1>1. Init => ServiceInit /\ LedgerInit
    BY DEF Init
<1>2. PaymentInv /\ [Next]_vars => [ServiceNext]_allServiceVars
    BY FlowStepsService DEF PaymentInv
<1> QED
    BY <1>1, <1>2, PaymentHolds, PTL DEF Spec, ServiceSpec

\* The tables of the relay, the contract's storage and the payer's flow keep their
\* shape.
THEOREM PaymentTypeCorrect == Spec => []PaymentTypeOK
<1>1. PaymentInv => PaymentTypeOK
    BY DEF PaymentInv, ServiceInv, FlowInv, PaymentTypeOK
<1> QED
    BY <1>1, PaymentHolds, PTL

\* A request shown as APPROVED carries the hash of a settled payment, whatever
\* submissions and verifications save over each other; where two saves were mixed,
\* a hash that was once reported for it belongs to one.
THEOREM ApprovedWasSettled == ServiceSpec => []ApprovedIsSettled
<1>1. ServiceInv => ApprovedIsSettled
    BY DEF ServiceInv
<1> QED
    BY <1>1, ServiceHolds, PTL

\* Overlapping calls and colliding contract ids report one settlement once.
THEOREM SettlementReportedOnce == ServiceSpec => []OneProofPerSettlement
<1>1. ServiceInv => OneProofPerSettlement
    BY DEF ServiceInv
<1> QED
    BY <1>1, ServiceHolds, PTL

\* The approval of the submission that last saved its request stands: only a further
\* submission, a restart, a shared hash or a mixed save takes it away.
THEOREM ApprovalIsKept == ServiceSpec => []NoLostApproval
<1>1. ServiceInv => NoLostApproval
    BY DEF ServiceInv
<1> QED
    BY <1>1, ServiceHolds, PTL

\* The payer's card says "ZK VERIFIED" only of a request with a settled payment of
\* its own.
THEOREM CardHasPayment == Spec => []CardIsBacked
<1>1. PaymentInv => CardIsBacked
    BY DEF PaymentInv
<1> QED
    BY <1>1, PaymentHolds, PTL
=============================================================================
