----------------------------- MODULE PaymentFlow -----------------------------
(***************************************************************************)
(* The payer's side of a payment (conversation_screen.dart, the card of a  *)
(* payment request and _executePayment) composed with the relay and the    *)
(* contract.  A run of _executePayment is named by the transaction hash    *)
(* its wallet obtains; the flow stops at its first error, and at the next  *)
(* setState when the screen is gone, whatever it has already done.         *)
(***************************************************************************)
EXTENDS PaymentService

CONSTANT NoVerifier

ASSUME FlowAssumption == NoVerifier \notin Verifier

VARIABLES
    card,     \* payment_status in the payer's copy of the request message
    client,   \* where each _executePayment stands
    paysFor,  \* the request it pays
    posted,   \* the submitPayment call it made
    awaits    \* the verify-proof call it waits for

flowVars == <<card, client, paysFor, posted, awaits>>

vars == <<flowVars, allServiceVars>>

Live == {"paid", "submitting", "verifying"}

FlowTypeOK ==
    /\ card \in [Request -> {"none", "PENDING", "SETTLED"}]
    /\ client \in [TxHash -> Live \cup {"idle", "settled", "failed"}]
    /\ paysFor \in [TxHash -> Request \cup {NoRequest}]
    /\ posted \in [TxHash -> Submission \cup {NoSubmission}]
    /\ awaits \in [TxHash -> Verifier \cup {NoVerifier}]

FlowInit ==
    /\ card = [r \in Request |-> "none"]
    /\ client = [h \in TxHash |-> "idle"]
    /\ paysFor = [h \in TxHash |-> NoRequest]
    /\ posted = [h \in TxHash |-> NoSubmission]
    /\ awaits = [h \in TxHash |-> NoVerifier]

Init == ServiceInit /\ LedgerInit /\ FlowInit

\* The payee's "SEND PAYMENT REQUEST": once the request exists its card goes to
\* the payer as a chat message, which is taken as delivered.
RequestPayment(r) ==
    /\ CreateRequest(r)
    /\ card' = [card EXCEPT ![r] = "PENDING"]
    /\ UNCHANGED <<client, paysFor, posted, awaits>>

\* "APPROVE & PAY": offered while the card is PENDING and shows no progress.
\* The ledger confirms the transaction.
Pay(h, r) ==
    /\ client[h] = "idle"
    /\ \A g \in TxHash : g < h => client[g] # "idle"
    /\ card[r] = "PENDING"
    /\ \A g \in TxHash : paysFor[g] = r => client[g] \notin Live
    /\ client' = [client EXCEPT ![h] = "paid"]
    /\ paysFor' = [paysFor EXCEPT ![h] = r]
    /\ UNCHANGED <<card, posted, awaits, allServiceVars>>

\* The screen posts the hash the wallet returned.
PostSubmit(h, s) ==
    /\ client[h] = "paid"
    /\ SubmitFindRequest(s, paysFor[h], h)
    /\ client' = [client EXCEPT ![h] = "submitting"]
    /\ posted' = [posted EXCEPT ![h] = s]
    /\ UNCHANGED <<card, paysFor, awaits>>

\* The submission was answered with the payment's id and the prover returned a
\* proof, which goes to verify-proof.
PostProof(h, v) ==
    /\ client[h] = "submitting"
    /\ submits[posted[h]].pc = "done"
    /\ VerifyFindPayment(v, posted[h])
    /\ client' = [client EXCEPT ![h] = "verifying"]
    /\ awaits' = [awaits EXCEPT ![h] = v]
    /\ UNCHANGED <<card, paysFor, posted>>

\* A POST that no running flow makes: one that reaches the relay once more, or
\* another client's, for which the relay asks no credentials.
OtherPost(s, v) ==
    /\ \/ \E r \in Request, h \in TxHash :
             client[h] \notin {"idle", "paid"} /\ SubmitFindRequest(s, r, h)
       \/ VerifyFindPayment(v, s)
    /\ UNCHANGED flowVars

\* A slip: any answer with status 200 settles the card.
SettleOnAnyAnswer(h) ==
    /\ client[h] = "verifying"
    /\ verifies[awaits[h]].pc = "done"
    /\ card' = [card EXCEPT ![paysFor[h]] = "SETTLED"]
    /\ client' = [client EXCEPT ![h] = "settled"]
    /\ UNCHANGED <<paysFor, posted, awaits, allServiceVars>>

\* The answer says success: the card is saved as SETTLED.
SettleCard(h) ==
    /\ client[h] = "verifying"
    /\ verifies[awaits[h]].pc = "done"
    /\ verifies[awaits[h]].verified
    /\ card' = [card EXCEPT ![paysFor[h]] = "SETTLED"]
    /\ client' = [client EXCEPT ![h] = "settled"]
    /\ UNCHANGED <<paysFor, posted, awaits, allServiceVars>>

\* An error answer, a broken connection, or the screen was left: the card stays
\* PENDING, and what the relay is still doing goes on.
GiveUp(h) ==
    /\ client[h] \in Live
    /\ client' = [client EXCEPT ![h] = "failed"]
    /\ UNCHANGED <<card, paysFor, posted, awaits, allServiceVars>>

RelaySteps ==
    /\ \/ \E s \in Submission : SubmitContinues(s)
       \/ \E v \in Verifier : VerifyContinues(v)
       \/ DeployContract
       \/ WalletCalls
       \/ Crash
    /\ UNCHANGED flowVars

Next ==
    \/ \E r \in Request : RequestPayment(r)
    \/ \E h \in TxHash, r \in Request : Pay(h, r)
    \/ \E h \in TxHash, s \in Submission : PostSubmit(h, s)
    \/ \E h \in TxHash, v \in Verifier : PostProof(h, v)
    \/ \E h \in TxHash : SettleCard(h) \/ GiveUp(h)
    \/ \E s \in Submission, v \in Verifier : OtherPost(s, v)
    \/ RelaySteps

Spec == Init /\ [][Next]_vars
-----------------------------------------------------------------------------
PaymentTypeOK == ServiceTypeOK /\ FlowTypeOK

\* The payer never sees "ZK VERIFIED" for a request without a settled payment
\* of its own, and where the verdict came from the chain the contract holds a
\* settled record: an abandoned or overlapping run of the flow cannot put its
\* result on the wrong card.
CardIsBacked ==
    \A r \in Request :
        card[r] = "SETTLED" =>
            \E s \in Submission, v \in Verifier :
                /\ submits[s].tx \in TxHash /\ paysFor[submits[s].tx] = r
                /\ payments[s] = "SETTLED"
                /\ verifies[v].payment = s /\ verifies[v].verified
                /\ verifies[v].via = "chain" => Settled(numericId[s])
=============================================================================
