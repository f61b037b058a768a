-------------------------- MODULE VerifierContract --------------------------
(***************************************************************************)
(* The Soroban contract StellChatVerifier (contracts/stellar/src/lib.rs).  *)
(* A contract call is one transaction: it commits all of its writes or, if *)
(* it panics, none, so every entry point is one action and a panic is the  *)
(* absence of a step.  zk_proof is an opaque byte string to the contract;  *)
(* a proof is represented by the payment commitment it was made for, and   *)
(* EmptyProof is the byte string of length zero.                           *)
(***************************************************************************)
EXTENDS Naturals

CONSTANTS
    ChainId,     \* u64 payment identifiers
    Address,     \* Stellar addresses
    Amount,      \* i128 amounts
    ProofHash,   \* 32-byte proof commitments
    EmptyProof,  \* the zero-length zk_proof
    NoAdmin,     \* DataKey::Admin not set
    NoRecord,    \* DataKey::Payment(id) not set
    NoProof      \* no transaction has settled the payment yet

Terms == [sender : Address, receiver : Address, amount : Amount,
          proof_hash : ProofHash]

PaymentRecord == [terms : Terms, settled : BOOLEAN]

Proof == ProofHash \cup {EmptyProof}

ASSUME ContractAssumption ==
    /\ EmptyProof \notin ProofHash
    /\ NoAdmin \notin Address
    /\ NoRecord \notin PaymentRecord
    /\ NoRecord \notin Terms
    /\ NoProof \notin Proof

VARIABLES
    admin,       \* DataKey::Admin in instance storage
    records,     \* DataKey::Payment(id) in persistent storage
    verified,    \* the hashes h with DataKey::VerifiedProof(h) set
    events,      \* how many "settled" events the ledger holds for each id
    usedProof    \* the zk_proof argument of the transaction that settled id

contractVars == <<admin, records, verified, events, usedProof>>

ContractTypeOK ==
    /\ admin \in Address \cup {NoAdmin}
    /\ records \in [ChainId -> PaymentRecord \cup {NoRecord}]
    /\ verified \in SUBSET ProofHash
    /\ events \in [ChainId -> Nat]
    /\ usedProof \in [ChainId -> Proof \cup {NoProof}]

NothingStored ==
    /\ records = [id \in ChainId |-> NoRecord]
    /\ verified = {}
    /\ events = [id \in ChainId |-> 0]
    /\ usedProof = [id \in ChainId |-> NoProof]

ContractInit == admin = NoAdmin /\ NothingStored

Authorized(id) == records[id] # NoRecord

Settled(id) == Authorized(id) /\ records[id].settled

\* is_proof_verified
IsProofVerified(h) == h \in verified
-----------------------------------------------------------------------------
(***************************************************************************)
(* The entry points.                                                       *)
(***************************************************************************)

\* initialize: panics with "already initialized" once an admin is stored.
Initialize(a) ==
    /\ admin = NoAdmin
    /\ admin' = a
    /\ UNCHANGED <<records, verified, events, usedProof>>

\* authorize_payment: the signer must be the sender (require_auth), and an
\* identifier that has a record is refused ("replay protection").
AuthorizePayment(signer, id, t) ==
    /\ signer = t.sender
    /\ ~Authorized(id)
    /\ records' = [records EXCEPT ![id] = [terms |-> t, settled |-> FALSE]]
    /\ UNCHANGED <<admin, verified, events, usedProof>>

\* A slip: verify_and_settle without the "already settled" panic.
SettleAgain(id, proof) ==
    /\ Authorized(id)
    /\ proof # EmptyProof
    /\ records' = [records EXCEPT ![id].settled = TRUE]
    /\ verified' = verified \cup {records[id].terms.proof_hash}
    /\ events' = [events EXCEPT ![id] = @ + 1]
    /\ usedProof' = [usedProof EXCEPT ![id] = proof]
    /\ UNCHANGED admin

\* A slip: the record is marked, without DataKey::VerifiedProof.
SettleUnrecorded(id, proof) ==
    /\ Authorized(id)
    /\ ~records[id].settled
    /\ proof # EmptyProof
    /\ records' = [records EXCEPT ![id].settled = TRUE]
    /\ events' = [events EXCEPT ![id] = @ + 1]
    /\ usedProof' = [usedProof EXCEPT ![id] = proof]
    /\ UNCHANGED <<admin, verified>>

\* verify_and_settle: panics when there is no record or it is settled, returns
\* false without a write for an empty proof, and otherwise marks the record,
\* records its commitment as verified and publishes the event.
VerifyAndSettle(id, proof) ==
    /\ Authorized(id)
    /\ ~records[id].settled
    /\ proof # EmptyProof
    /\ records' = [records EXCEPT ![id].settled = TRUE]
    /\ verified' = verified \cup {records[id].terms.proof_hash}
    /\ events' = [events EXCEPT ![id] = @ + 1]
    /\ usedProof' = [usedProof EXCEPT ![id] = proof]
    /\ UNCHANGED admin

ContractNext ==
    \/ \E a \in Address : Initialize(a)
    \/ \E s \in Address, id \in ChainId, t \in Terms : AuthorizePayment(s, id, t)
    \/ \E id \in ChainId, p \in Proof : VerifyAndSettle(id, p)

ContractSpec == ContractInit /\ [][ContractNext]_contractVars
-----------------------------------------------------------------------------
(***************************************************************************)
(* Properties.                                                             *)
(***************************************************************************)

\* is_proof_verified answers true for exactly the commitments of settled
\* payments: neither a settled payment whose proof looks unprocessed nor a
\* processed proof without a settled payment.
VerifiedIffSettled ==
    \A h \in ProofHash :
        IsProofVerified(h) <=>
            \E id \in ChainId : Settled(id) /\ records[id].terms.proof_hash = h

\* Each settled payment has published exactly one "settled" event and no other
\* payment any: a listener that counts events counts settlements.
OneEventPerSettlement ==
    \A id \in ChainId : events[id] = (IF Settled(id) THEN 1 ELSE 0)

\* docs/stellar.md says verify_and_settle "verifies the proof matches the
\* authorized proof_hash": every settled payment was settled by a proof made
\* for the commitment its payer authorized.
SettledByMatchingProof ==
    \A id \in ChainId : Settled(id) => usedProof[id] = records[id].terms.proof_hash

\* The refinement mapping to the abstract settlement.
PhaseOf(id) ==
    IF ~Authorized(id) THEN "none"
    ELSE IF records[id].settled THEN "settled" ELSE "authorized"

TermsOf(id) == IF Authorized(id) THEN records[id].terms ELSE NoRecord

Promise ==
    INSTANCE Settlement WITH
        NoTerms <- NoRecord,
        phase <- [id \in ChainId |-> PhaseOf(id)],
        terms <- [id \in ChainId |-> TermsOf(id)],
        receipts <- events

\* The contract implements the abstract settlement.
ImplementsSettlement == Promise!Spec
=============================================================================
