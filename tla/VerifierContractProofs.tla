----------------------- MODULE VerifierContractProofs -----------------------
(***************************************************************************)
(* Theorems about the settlement contract, for every set of identifiers,   *)
(* addresses, amounts and proof commitments.  ContractInv is the inductive *)
(* invariant: the refinement needs the event counters, whose exactness     *)
(* needs the record a settlement starts from.                              *)
(***************************************************************************)
EXTENDS VerifierContract, TLAPS

ContractInv ==
    /\ ContractTypeOK
    /\ VerifiedIffSettled
    /\ OneEventPerSettlement

\* A record is never mistaken for the absence of one.
LEMMA RecordIsNotNoRecord ==
    ASSUME NEW t \in Terms, NEW b \in BOOLEAN
    PROVE  [terms |-> t, settled |-> b] # NoRecord
BY ContractAssumption DEF ContractAssumption, PaymentRecord

\* Each entry point, and the initial state, keeps the types.
LEMMA InitTypeOK == ContractInit => ContractTypeOK
BY DEF ContractInit, NothingStored, ContractTypeOK

LEMMA NextTypeOK == ContractTypeOK /\ [ContractNext]_contractVars => ContractTypeOK'
<1> SUFFICES ASSUME ContractTypeOK, [ContractNext]_contractVars
             PROVE  ContractTypeOK'
    OBVIOUS
<1> USE DEF ContractTypeOK
<1>1. CASE UNCHANGED contractVars
    BY <1>1 DEF contractVars
<1>2. ASSUME NEW a \in Address, Initialize(a)
      PROVE  ContractTypeOK'
    BY <1>2 DEF Initialize
<1>3. ASSUME NEW s \in Address, NEW id \in ChainId, NEW t \in Terms,
             AuthorizePayment(s, id, t)
      PROVE  ContractTypeOK'
    BY <1>3 DEF AuthorizePayment, PaymentRecord
<1>4. ASSUME NEW id \in ChainId, NEW p \in Proof, VerifyAndSettle(id, p)
      PROVE  ContractTypeOK'
    <2>1. records[id] \in PaymentRecord
        BY <1>4 DEF VerifyAndSettle, Authorized
    <2>2. [records[id] EXCEPT !.settled = TRUE] \in PaymentRecord
        BY <2>1 DEF PaymentRecord
    <2>3. records[id].terms.proof_hash \in ProofHash
        BY <2>1 DEF PaymentRecord, Terms
    <2>4. records' \in [ChainId -> PaymentRecord \cup {NoRecord}]
        BY <1>4, <2>2 DEF VerifyAndSettle
    <2>5. verified' \in SUBSET ProofHash
        BY <1>4, <2>3 DEF VerifyAndSettle
    <2>6. events' \in [ChainId -> Nat]
        BY <1>4 DEF VerifyAndSettle
    <2> QED BY <1>4, <2>4, <2>5, <2>6 DEF VerifyAndSettle
<1> QED BY <1>1, <1>2, <1>3, <1>4 DEF ContractNext

\* What is in storage has the shape the contract declares, after any sequence
\* of calls by anyone.
THEOREM ContractTypeCorrect == ContractSpec => []ContractTypeOK
<1>1. ContractInit => ContractTypeOK
    BY InitTypeOK
<1>2. ContractTypeOK /\ [ContractNext]_contractVars => ContractTypeOK'
    BY NextTypeOK
<1> QED BY <1>1, <1>2, PTL DEF ContractSpec
-----------------------------------------------------------------------------
(***************************************************************************)
(* The inductive invariant.                                                *)
(***************************************************************************)

LEMMA InitInv == ContractInit => ContractInv
<1> SUFFICES ASSUME ContractInit PROVE ContractInv
    OBVIOUS
<1>1. \A id \in ChainId : ~Settled(id)
    BY DEF ContractInit, NothingStored, Settled, Authorized
<1>2. VerifiedIffSettled
    BY <1>1 DEF ContractInit, NothingStored, VerifiedIffSettled, IsProofVerified
<1>3. OneEventPerSettlement
    BY <1>1 DEF ContractInit, NothingStored, OneEventPerSettlement
<1> QED BY <1>2, <1>3, InitTypeOK DEF ContractInv

\* An authorization changes the record of an identifier that had none, and so
\* neither settles a payment nor unsettles one.
LEMMA AuthorizeKeepsInv ==
    ASSUME ContractInv, NEW s \in Address, NEW id \in ChainId, NEW t \in Terms,
           AuthorizePayment(s, id, t)
    PROVE  VerifiedIffSettled' /\ OneEventPerSettlement'
<1> USE DEF ContractInv, ContractTypeOK
<1>1. /\ ~Authorized(id)
      /\ records' = [records EXCEPT ![id] = [terms |-> t, settled |-> FALSE]]
      /\ verified' = verified /\ events' = events
    BY DEF AuthorizePayment
<1>2. ~Settled(id)' /\ ~Settled(id)
    BY <1>1 DEF Settled, Authorized
<1>3. \A x \in ChainId \ {id} : records'[x] = records[x]
    BY <1>1
<1>4. \A x \in ChainId : Settled(x)' <=> Settled(x)
    BY <1>2, <1>3 DEF Settled, Authorized
<1>5. VerifiedIffSettled'
    BY <1>1, <1>2, <1>3, <1>4 DEF VerifiedIffSettled, IsProofVerified
<1>6. OneEventPerSettlement'
    BY <1>1, <1>4 DEF OneEventPerSettlement
<1> QED BY <1>5, <1>6

\* A settlement settles exactly the payment it names: one more event, and one
\* more verified commitment, which is the one its payer authorized.
LEMMA SettleKeepsInv ==
    ASSUME ContractInv, NEW id \in ChainId, NEW p \in Proof, VerifyAndSettle(id, p)
    PROVE  VerifiedIffSettled' /\ OneEventPerSettlement'
<1> USE DEF ContractInv, ContractTypeOK
<1> DEFINE hash == records[id].terms.proof_hash
<1>1. /\ Authorized(id) /\ ~records[id].settled
      /\ records' = [records EXCEPT ![id].settled = TRUE]
      /\ verified' = verified \cup {hash}
      /\ events' = [events EXCEPT ![id] = @ + 1]
    BY DEF VerifyAndSettle
<1>2. records[id] \in PaymentRecord
    BY <1>1 DEF Authorized
<1>3. records'[id] = [terms |-> records[id].terms, settled |-> TRUE]
    BY <1>1, <1>2 DEF PaymentRecord
<1>4. Settled(id)' /\ ~Settled(id) /\ records'[id].terms.proof_hash = hash
    BY <1>1, <1>2, <1>3, RecordIsNotNoRecord DEF Settled, Authorized, PaymentRecord
<1>5. \A x \in ChainId \ {id} : records'[x] = records[x] /\ events'[x] = events[x]
    BY <1>1
<1>6. \A x \in ChainId \ {id} : Settled(x)' <=> Settled(x)
    BY <1>5 DEF Settled, Authorized
<1>7. VerifiedIffSettled'
    BY <1>1, <1>4, <1>5, <1>6 DEF VerifiedIffSettled, IsProofVerified
<1>8. OneEventPerSettlement'
    <2>1. events'[id] = 1
        BY <1>1, <1>4 DEF OneEventPerSettlement
    <2> QED BY <2>1, <1>4, <1>5, <1>6 DEF OneEventPerSettlement
<1> QED BY <1>7, <1>8

LEMMA NextInv == ContractInv /\ [ContractNext]_contractVars => ContractInv'
<1> SUFFICES ASSUME ContractInv, [ContractNext]_contractVars
             PROVE  ContractInv'
    OBVIOUS
<1>1. ContractTypeOK'
    BY NextTypeOK DEF ContractInv
<1>2. VerifiedIffSettled' /\ OneEventPerSettlement'
    <2>1. CASE UNCHANGED contractVars
        BY <2>1 DEF contractVars, ContractInv, VerifiedIffSettled, OneEventPerSettlement,
                    IsProofVerified, Settled, Authorized
    <2>2. ASSUME NEW a \in Address, Initialize(a)
          PROVE  VerifiedIffSettled' /\ OneEventPerSettlement'
        BY <2>2 DEF Initialize, ContractInv, VerifiedIffSettled, OneEventPerSettlement,
                    IsProofVerified, Settled, Authorized
    <2>3. ASSUME NEW s \in Address, NEW id \in ChainId, NEW t \in Terms,
                 AuthorizePayment(s, id, t)
          PROVE  VerifiedIffSettled' /\ OneEventPerSettlement'
        BY <2>3, AuthorizeKeepsInv
    <2>4. ASSUME NEW id \in ChainId, NEW p \in Proof, VerifyAndSettle(id, p)
          PROVE  VerifiedIffSettled' /\ OneEventPerSettlement'
        BY <2>4, SettleKeepsInv
    <2> QED BY <2>1, <2>2, <2>3, <2>4 DEF ContractNext
<1> QED BY <1>1, <1>2 DEF ContractInv

LEMMA InvHolds == ContractSpec => []ContractInv
<1>1. ContractInit => ContractInv
    BY InitInv
<1>2. ContractInv /\ [ContractNext]_contractVars => ContractInv'
    BY NextInv
<1> QED BY <1>1, <1>2, PTL DEF ContractSpec

\* is_proof_verified tells the commitments of settled payments from all others.
THEOREM ProofRegistryExact == ContractSpec => []VerifiedIffSettled
<1>1. ContractInv => VerifiedIffSettled
    BY DEF ContractInv
<1> QED BY <1>1, InvHolds, PTL
-----------------------------------------------------------------------------
(***************************************************************************)
(* The contract implements Settlement.tla.                                 *)
(***************************************************************************)

LEMMA InitImplements == ContractInit => Promise!Init
BY DEF ContractInit, NothingStored, Promise!Init, PhaseOf, TermsOf, Authorized

LEMMA AuthorizeImplements ==
    ASSUME ContractInv, NEW s \in Address, NEW id \in ChainId, NEW t \in Terms,
           AuthorizePayment(s, id, t)
    PROVE  Promise!Authorize(id, t)
<1> USE DEF ContractInv, ContractTypeOK
<1>1. /\ ~Authorized(id)
      /\ records' = [records EXCEPT ![id] = [terms |-> t, settled |-> FALSE]]
      /\ events' = events
    BY DEF AuthorizePayment
<1>2. records'[id] = [terms |-> t, settled |-> FALSE]
    BY <1>1
<1>3. PhaseOf(id) = "none" /\ PhaseOf(id)' = "authorized" /\ TermsOf(id)' = t
    BY <1>1, <1>2, RecordIsNotNoRecord DEF PhaseOf, TermsOf, Authorized
<1>4. \A x \in ChainId \ {id} : records'[x] = records[x]
    BY <1>1
<1>5. \A x \in ChainId \ {id} : PhaseOf(x)' = PhaseOf(x) /\ TermsOf(x)' = TermsOf(x)
    BY <1>4 DEF PhaseOf, TermsOf, Authorized
<1> QED BY <1>1, <1>3, <1>5 DEF Promise!Authorize

LEMMA SettleImplements ==
    ASSUME ContractInv, NEW id \in ChainId, NEW p \in Proof, VerifyAndSettle(id, p)
    PROVE  Promise!Settle(id)
<1> USE DEF ContractInv, ContractTypeOK
<1>1. /\ Authorized(id) /\ ~records[id].settled
      /\ records' = [records EXCEPT ![id].settled = TRUE]
      /\ events' = [events EXCEPT ![id] = @ + 1]
    BY DEF VerifyAndSettle
<1>2. records[id] \in PaymentRecord
    BY <1>1 DEF Authorized
<1>3. records'[id] = [terms |-> records[id].terms, settled |-> TRUE]
    BY <1>1, <1>2 DEF PaymentRecord
<1>4. /\ PhaseOf(id) = "authorized" /\ PhaseOf(id)' = "settled"
      /\ TermsOf(id)' = TermsOf(id)
    BY <1>1, <1>2, <1>3, RecordIsNotNoRecord DEF PhaseOf, TermsOf, Authorized, PaymentRecord
<1>5. events[id] = 0
    BY <1>1 DEF OneEventPerSettlement, Settled
<1>6. events' = [events EXCEPT ![id] = 1]
    BY <1>1, <1>5
<1>7. \A x \in ChainId \ {id} : records'[x] = records[x]
    BY <1>1
<1>8. \A x \in ChainId \ {id} : PhaseOf(x)' = PhaseOf(x) /\ TermsOf(x)' = TermsOf(x)
    BY <1>7 DEF PhaseOf, TermsOf, Authorized
<1> QED BY <1>4, <1>6, <1>8 DEF Promise!Settle

LEMMA NextImplements ==
    ContractInv /\ [ContractNext]_contractVars
        => [Promise!Next]_(Promise!settlementVars)
<1> SUFFICES ASSUME ContractInv, [ContractNext]_contractVars
             PROVE  [Promise!Next]_(Promise!settlementVars)
    OBVIOUS
<1>1. CASE UNCHANGED contractVars
    BY <1>1 DEF contractVars, Promise!settlementVars, PhaseOf, TermsOf, Authorized
<1>2. ASSUME NEW a \in Address, Initialize(a)
      PROVE  UNCHANGED Promise!settlementVars
    BY <1>2 DEF Initialize, Promise!settlementVars, PhaseOf, TermsOf, Authorized
<1>3. ASSUME NEW s \in Address, NEW id \in ChainId, NEW t \in Terms,
             AuthorizePayment(s, id, t)
      PROVE  Promise!Next
    BY <1>3, AuthorizeImplements DEF Promise!Next
<1>4. ASSUME NEW id \in ChainId, NEW p \in Proof, VerifyAndSettle(id, p)
      PROVE  Promise!Next
    BY <1>4, SettleImplements DEF Promise!Next
<1> QED BY <1>1, <1>2, <1>3, <1>4 DEF ContractNext

\* Whoever calls the contract and in whatever order: an identifier is
\* authorized at most once, keeps its terms, and is settled at most once, with
\* one event.
THEOREM ContractImplementsSettlement == ContractSpec => ImplementsSettlement
<1>1. ContractInit => Promise!Init
    BY InitImplements
<1>2. ContractInv /\ [ContractNext]_contractVars
          => [Promise!Next]_(Promise!settlementVars)
    BY NextImplements
<1> QED BY <1>1, <1>2, InvHolds, PTL DEF ContractSpec, ImplementsSettlement, Promise!Spec
=============================================================================
