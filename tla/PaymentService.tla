--------------------------- MODULE PaymentService ---------------------------
(***************************************************************************)
(* The payment endpoints of the relay (apps/backend/src/payment) and the   *)
(* contract they drive.  Node runs one handler at a time between awaits,   *)
(* so a handler is a process whose steps are separated by its awaits: a    *)
(* submitPayment call is a Submission, a verifyPaymentProof call is a      *)
(* Verifier.  Every submission makes a payments row of its own, whatever   *)
(* hash and request it names, so a row is named by its submission.         *)
(*                                                                         *)
(* A repository save() of a loaded entity reads the row again and updates  *)
(* the columns in which the entity differs from that reading: two steps,   *)
(* between which another save of the same row may come.                    *)
(*                                                                         *)
(* numericId is Math.abs(hashCode(id)) of the row's random uuid, which may *)
(* send two rows to one contract id.                                       *)
(***************************************************************************)
EXTENDS VerifierContract

CONSTANTS
    Request,     \* ids of payment requests
    TxHash,      \* Stellar transaction hashes, numbered as they are obtained
    Submission,  \* submitPayment calls, numbered as they arrive
    Verifier,    \* verifyPaymentProof calls, numbered as they arrive
    TestEnv,     \* STELLCHAT_ENV === "test"
    NoRequest,
    NoTx,
    NoSubmission

ASSUME ServiceAssumption ==
    /\ TestEnv \in BOOLEAN
    /\ NoRequest \notin Request
    /\ TxHash \subseteq Nat /\ NoTx \notin TxHash
    /\ Submission \subseteq Nat /\ NoSubmission \notin Submission
    /\ Verifier \subseteq Nat

VARIABLES
    requests,       \* payment_requests: status and tx_hash of each request
    submits,        \* submitPayment calls
    payments,       \* payments: status of the row each submission inserted
    verifies,       \* verifyPaymentProof calls
    numericId,      \* the contract id derived from the row's uuid
    contractKnown,  \* contract_id.txt exists on the relay
    savedBy,        \* history: the submission that last updated each request
    mixed           \* history: requests that a save updated after another save
                    \* had changed the row it read

histories == <<savedBy, mixed>>

serviceVars ==
    <<requests, submits, payments, verifies, numericId, contractKnown, histories>>

RequestStatus == {"none", "PENDING", "SUBMITTED", "APPROVED"}

PaymentStatus == {"none", "PENDING", "SETTLED"}

SubmitStep == {"idle", "saving", "saved", "done", "dead"}

VerifyStep == {"idle", "proving", "invoking", "recording", "settling",
               "lookup", "approving", "saving", "done", "dead"}

Row == [status : RequestStatus, tx : TxHash \cup {NoTx}]

NoRow == [status |-> "none", tx |-> NoTx]

\* How the invocation ended: not made or refused, settled on the chain, settled
\* with the answer lost, not made for want of a deployed contract, or failed in
\* the test environment, which lets it pass.
Ground == {"none", "chain", "lost", "skipped", "waived"}

\* The grounds on which a proof counts as verified.
Accepted == {"chain", "skipped", "waived"}

ServiceTypeOK ==
    /\ ContractTypeOK
    /\ requests \in [Request -> Row]
    /\ submits \in [Submission -> [pc : SubmitStep, request : Request \cup {NoRequest},
                                   tx : TxHash \cup {NoTx}, seen : Row]]
    /\ payments \in [Submission -> PaymentStatus]
    /\ verifies \in [Verifier -> [pc : VerifyStep, payment : Submission \cup {NoSubmission},
                                  request : Request \cup {NoRequest}, seen : Row,
                                  via : Ground, verified : BOOLEAN]]
    /\ numericId \in [Submission -> ChainId]
    /\ contractKnown \in BOOLEAN
    /\ savedBy \in [Request -> Submission \cup {NoSubmission}]
    /\ mixed \in SUBSET Request

ServiceInit ==
    /\ requests = [r \in Request |-> NoRow]
    /\ submits = [s \in Submission |-> [pc |-> "idle", request |-> NoRequest, tx |-> NoTx,
                                        seen |-> NoRow]]
    /\ payments = [s \in Submission |-> "none"]
    /\ verifies = [v \in Verifier |-> [pc |-> "idle", payment |-> NoSubmission,
                                       request |-> NoRequest, seen |-> NoRow,
                                       via |-> "none", verified |-> FALSE]]
    /\ numericId \in [Submission -> ChainId]
    /\ contractKnown = FALSE
    /\ savedBy = [r \in Request |-> NoSubmission]
    /\ mixed = {}

\* scripts/dev.sh has deployed the contract and set its admin, once.
LedgerInit == admin \in Address /\ NothingStored
-----------------------------------------------------------------------------
(***************************************************************************)
(* createPaymentRequest and submitPayment.                                 *)
(***************************************************************************)

CreateRequest(r) ==
    /\ requests[r].status = "none"
    /\ requests' = [requests EXCEPT ![r].status = "PENDING"]
    /\ UNCHANGED <<submits, payments, verifies, numericId, contractKnown, histories,
                   contractVars>>

\* The UPDATE of a save() that read the row as seen and wants it to become row:
\* the columns that differ are written, the others stay as they are by now.
UpdateRequest(r, seen, row) ==
    /\ requests' = [requests EXCEPT ![r] =
           [status |-> IF row.status = seen.status THEN @.status ELSE row.status,
            tx     |-> IF row.tx = seen.tx THEN @.tx ELSE row.tx]]
    /\ mixed' = IF row # seen /\ requests[r] # seen THEN mixed \cup {r} ELSE mixed

\* The request is found, whatever its status and whatever was reported for it
\* before, and the save of it as SUBMITTED under the reported hash reads it
\* again; an unknown request throws.
SubmitFindRequest(s, r, h) ==
    /\ submits[s].pc = "idle"
    /\ \A t \in Submission : t < s => submits[t].pc # "idle"
    /\ requests[r].status # "none"
    /\ submits' = [submits EXCEPT ![s] = [pc |-> "saving", request |-> r, tx |-> h,
                                         seen |-> requests[r]]]
    /\ UNCHANGED <<requests, payments, verifies, numericId, contractKnown, histories,
                   contractVars>>

\* A slip: the new hash is stored but the status is left as it was.
SubmitKeepsStatus(s) ==
    LET r == submits[s].request
    IN  /\ submits[s].pc = "saving"
        /\ UpdateRequest(r, submits[s].seen, [submits[s].seen EXCEPT !.tx = submits[s].tx])
        /\ savedBy' = [savedBy EXCEPT ![r] = s]
        /\ submits' = [submits EXCEPT ![s].pc = "saved", ![s].seen = NoRow]
        /\ UNCHANGED <<payments, verifies, numericId, contractKnown, contractVars>>

SubmitSaveRequest(s) ==
    LET r   == submits[s].request
        row == [status |-> "SUBMITTED", tx |-> submits[s].tx]
    IN  /\ submits[s].pc = "saving"
        /\ UpdateRequest(r, submits[s].seen, row)
        /\ savedBy' = IF row = submits[s].seen THEN savedBy ELSE [savedBy EXCEPT ![r] = s]
        /\ submits' = [submits EXCEPT ![s].pc = "saved", ![s].seen = NoRow]
        /\ UNCHANGED <<payments, verifies, numericId, contractKnown, contractVars>>

\* The new payments row, and the answer that carries its id.
SubmitInsertPayment(s) ==
    /\ submits[s].pc = "saved"
    /\ payments' = [payments EXCEPT ![s] = "PENDING"]
    /\ submits' = [submits EXCEPT ![s].pc = "done"]
    /\ UNCHANGED <<requests, verifies, numericId, contractKnown, histories, contractVars>>
-----------------------------------------------------------------------------
(***************************************************************************)
(* verifyPaymentProof.                                                     *)
(***************************************************************************)

\* The payment is looked up; an unknown one throws.
VerifyFindPayment(v, s) ==
    /\ verifies[v].pc = "idle"
    /\ \A w \in Verifier : w < v => verifies[w].pc # "idle"
    /\ payments[s] # "none"
    /\ verifies' = [verifies EXCEPT ![v].pc = "proving", ![v].payment = s]
    /\ UNCHANGED <<requests, submits, payments, numericId, contractKnown, histories,
                   contractVars>>

\* The prover's /verify answers success, or failure, or not at all; without
\* success the contract is not invoked.
VerifyProve(v) ==
    /\ verifies[v].pc = "proving"
    /\ \E next \in {"invoking", "recording"} :
           verifies' = [verifies EXCEPT ![v].pc = next]
    /\ UNCHANGED <<requests, submits, payments, numericId, contractKnown, histories,
                   contractVars>>

\* invokeSorobanVerify without a contract_id.txt.
InvokeSkipped(v) ==
    /\ verifies[v].pc = "invoking"
    /\ ~contractKnown
    /\ verifies' = [verifies EXCEPT ![v].pc = "recording", ![v].via = "skipped"]
    /\ UNCHANGED <<requests, submits, payments, numericId, contractKnown, histories,
                   contractVars>>

\* A failed invocation throws, which counts as unverified, except in the test
\* environment.
FailedInvocation(ground) == IF TestEnv THEN "waived" ELSE ground

\* The transaction commits.  Its answer reaches the relay, or the command
\* fails after the commit.  The proof bytes are a JSON text and never empty.
InvokeSettles(v) ==
    LET id == numericId[verifies[v].payment]
    IN  /\ verifies[v].pc = "invoking"
        /\ contractKnown
        /\ \E p \in ProofHash : VerifyAndSettle(id, p)
        /\ \E ground \in {"chain", FailedInvocation("lost")} :
               verifies' = [verifies EXCEPT ![v].pc = "recording", ![v].via = ground]
        /\ UNCHANGED <<requests, submits, payments, numericId, contractKnown, histories>>

\* The contract panics (unknown or settled id), or the command does not run.
InvokeFails(v) ==
    /\ verifies[v].pc = "invoking"
    /\ contractKnown
    /\ verifies' = [verifies EXCEPT ![v].pc = "recording", ![v].via = FailedInvocation("none")]
    /\ UNCHANGED <<requests, submits, payments, numericId, contractKnown, histories,
                   contractVars>>

\* A slip: the proof record is saved and the settlement forgotten.
RecordAndStop(v) ==
    /\ verifies[v].pc = "recording"
    /\ verifies' = [verifies EXCEPT ![v].pc = "done",
                                    ![v].verified = (verifies[v].via \in Accepted)]
    /\ UNCHANGED <<requests, submits, payments, numericId, contractKnown, histories,
                   contractVars>>

\* The proof record is saved with the final verdict.
SaveProofRecord(v) ==
    LET final == verifies[v].via \in Accepted
    IN  /\ verifies[v].pc = "recording"
        /\ verifies' = [verifies EXCEPT ![v].pc = IF final THEN "settling" ELSE "done",
                                        ![v].verified = final]
        /\ UNCHANGED <<requests, submits, payments, numericId, contractKnown, histories,
                   contractVars>>

\* A slip: the status of a request is written into the payment.
SettleAsApproved(v) ==
    /\ verifies[v].pc = "settling"
    /\ payments' = [payments EXCEPT ![verifies[v].payment] = "APPROVED"]
    /\ verifies' = [verifies EXCEPT ![v].pc = "lookup"]
    /\ UNCHANGED <<requests, submits, numericId, contractKnown, histories,
                   contractVars>>

SettlePayment(v) ==
    /\ verifies[v].pc = "settling"
    /\ payments' = [payments EXCEPT ![verifies[v].payment] = "SETTLED"]
    /\ verifies' = [verifies EXCEPT ![v].pc = "lookup"]
    /\ UNCHANGED <<requests, submits, numericId, contractKnown, histories,
                   contractVars>>

\* A slip: only a request still PENDING is looked for.
FindPendingRequest(v) ==
    LET matching == {r \in Request :
                        requests[r] = [status |-> "PENDING",
                                       tx |-> submits[verifies[v].payment].tx]}
    IN  /\ verifies[v].pc = "lookup"
        /\ \/ /\ matching = {}
              /\ verifies' = [verifies EXCEPT ![v].pc = "done"]
           \/ \E r \in matching :
                 verifies' = [verifies EXCEPT ![v].pc = "approving", ![v].request = r]
        /\ UNCHANGED <<requests, submits, payments, numericId, contractKnown, histories,
                       contractVars>>

\* A request is looked up by the payment's hash: one of those that carry it, or
\* none when the hash was overwritten by a later submission.
FindRequest(v) ==
    LET matching == {r \in Request : requests[r].tx = submits[verifies[v].payment].tx}
    IN  /\ verifies[v].pc = "lookup"
        /\ \/ /\ matching = {}
              /\ verifies' = [verifies EXCEPT ![v].pc = "done"]
           \/ \E r \in matching :
                 verifies' = [verifies EXCEPT ![v].pc = "approving", ![v].request = r]
        /\ UNCHANGED <<requests, submits, payments, numericId, contractKnown, histories,
                       contractVars>>

\* The save of the found request as APPROVED reads the row again.
ReadRequest(v) ==
    /\ verifies[v].pc = "approving"
    /\ verifies' = [verifies EXCEPT ![v].pc = "saving",
                                    ![v].seen = requests[verifies[v].request]]
    /\ UNCHANGED <<requests, submits, payments, numericId, contractKnown, histories,
                   contractVars>>

\* The hash the request was found by is saved with it when it is another by now.
ApproveRequest(v) ==
    LET call == verifies[v]
    IN  /\ call.pc = "saving"
        /\ UpdateRequest(call.request, call.seen,
                         [status |-> "APPROVED", tx |-> submits[call.payment].tx])
        /\ verifies' = [verifies EXCEPT ![v].pc = "done", ![v].seen = NoRow]
        /\ UNCHANGED <<submits, payments, numericId, contractKnown, savedBy, contractVars>>
-----------------------------------------------------------------------------
(***************************************************************************)
(* The environment: deployment, wallets that call the contract, restarts.  *)
(***************************************************************************)

\* scripts/dev.sh copies contract_id.txt into the running relay.
DeployContract ==
    /\ ~contractKnown
    /\ contractKnown' = TRUE
    /\ UNCHANGED <<requests, submits, payments, verifies, numericId, histories, contractVars>>

\* Any wallet may call the contract itself: authorize_payment for its own address,
\* verify_and_settle, which asks for nobody's signature, for any payment.
WalletCalls ==
    /\ \/ \E s \in Address, id \in ChainId, t \in Terms : AuthorizePayment(s, id, t)
       \/ \E id \in ChainId, p \in ProofHash : VerifyAndSettle(id, p)
    /\ UNCHANGED serviceVars

InFlight(pc) == pc \notin {"idle", "done", "dead"}

\* The process dies: every call in flight ends where it stands.
Crash ==
    /\ \/ \E s \in Submission : InFlight(submits[s].pc)
       \/ \E v \in Verifier : InFlight(verifies[v].pc)
    /\ submits' = [s \in Submission |->
                      IF InFlight(submits[s].pc)
                      THEN [submits[s] EXCEPT !.pc = "dead", !.seen = NoRow] ELSE submits[s]]
    /\ verifies' = [v \in Verifier |->
                      IF InFlight(verifies[v].pc)
                      THEN [verifies[v] EXCEPT !.pc = "dead", !.seen = NoRow] ELSE verifies[v]]
    /\ UNCHANGED <<requests, payments, numericId, contractKnown, histories, contractVars>>
-----------------------------------------------------------------------------
\* Steps of a call that has been accepted, after its request came in.
SubmitContinues(s) == SubmitSaveRequest(s) \/ SubmitInsertPayment(s)

VerifyFinishes(v) ==
    \/ SaveProofRecord(v)
    \/ SettlePayment(v)
    \/ FindRequest(v)
    \/ ReadRequest(v)
    \/ ApproveRequest(v)

VerifyContinues(v) ==
    \/ VerifyProve(v)
    \/ InvokeSkipped(v)
    \/ InvokeSettles(v)
    \/ InvokeFails(v)
    \/ VerifyFinishes(v)

ServiceNext ==
    \/ \E r \in Request : CreateRequest(r)
    \/ \E s \in Submission, r \in Request, h \in TxHash : SubmitFindRequest(s, r, h)
    \/ \E s \in Submission : SubmitContinues(s)
    \/ \E v \in Verifier, s \in Submission : VerifyFindPayment(v, s)
    \/ \E v \in Verifier : VerifyContinues(v)
    \/ DeployContract
    \/ WalletCalls
    \/ Crash

allServiceVars == <<serviceVars, contractVars>>

ServiceSpec == ServiceInit /\ LedgerInit /\ [][ServiceNext]_allServiceVars

\* The event loop runs every continuation whose database call has answered;
\* the prover and the Stellar command line may never answer.
ServiceFairness ==
    /\ \A s \in Submission : WF_allServiceVars(SubmitContinues(s))
    /\ \A v \in Verifier : WF_allServiceVars(VerifyFinishes(v))

FairServiceSpec == ServiceSpec /\ ServiceFairness
-----------------------------------------------------------------------------
(***************************************************************************)
(* Properties.                                                             *)
(***************************************************************************)

\* A request shown as APPROVED is one whose current transaction hash belongs
\* to a settled payment, although approvals and submissions of any request and any
\* hash save over each other (submitPayment against verifyPaymentProof); and when
\* two saves mixed their columns, at least a hash that was once reported for it
\* belongs to a settled payment.
ApprovedIsSettled ==
    \A r \in Request :
        requests[r].status = "APPROVED" =>
            \E s, t \in Submission :
                /\ payments[s] = "SETTLED"
                /\ submits[t].request = r /\ submits[t].tx = submits[s].tx
                /\ r \notin mixed => requests[r].tx = submits[s].tx

\* One on-chain settlement is reported as success by at most one
\* verifyPaymentProof call, also when calls for the same payment overlap or
\* two payments collide on one contract id.
OneProofPerSettlement ==
    \A v, w \in Verifier :
        /\ verifies[v].via = "chain"
        /\ verifies[w].via = "chain"
        /\ numericId[verifies[v].payment] = numericId[verifies[w].payment]
        => v = w

\* The request of submission s is the only one its hash was ever reported for.
OwnHash(s) ==
    \A t \in Submission :
        submits[t].tx = submits[s].tx => submits[t].request = submits[s].request

\* The last word on a request stands: once the payment of the submission that last
\* saved it is settled, and no call is still about to approve it or has died with
\* it, the request is APPROVED, whatever calls for earlier submissions saved
\* meanwhile.  A further submission takes the approval back (submitPayment asks for
\* no status), of two requests with one hash only one is found, and two saves that
\* mixed their columns leave what neither wrote.
NoLostApproval ==
    \A r \in Request, s \in Submission :
        /\ savedBy[r] = s /\ r \notin mixed
        /\ OwnHash(s)
        /\ payments[s] = "SETTLED"
        /\ \A v \in Verifier :
              verifies[v].payment = s =>
                  verifies[v].pc \notin {"lookup", "approving", "saving", "dead"}
        => requests[r].status = "APPROVED"

\* A settlement that a verifyPaymentProof call made on the chain, and got the
\* answer of, ends up as a SETTLED payment unless the relay restarts: the contract
\* refuses a second settlement, so no retry could make up for it.
ChainSettlementReachesPayment ==
    \A v \in Verifier :
        verifies[v].via = "chain" ~>
            \/ verifies[v].pc = "dead"
            \/ verifies[v].pc = "done" /\ payments[verifies[v].payment] = "SETTLED"
=============================================================================
