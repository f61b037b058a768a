----------------------------- MODULE Settlement -----------------------------
(***************************************************************************)
(* What the on-chain part of a StellChat payment promises, whoever calls   *)
(* it and in whatever order: a payment identifier is authorized at most    *)
(* once, under terms that never change afterwards, settled at most once    *)
(* and only after it was authorized, and each settlement leaves exactly    *)
(* one receipt.  VerifierContract.tla (contracts/stellar/src/lib.rs) is    *)
(* shown to implement this specification.                                  *)
(***************************************************************************)
EXTENDS Naturals

CONSTANTS
    ChainId,   \* the u64 payment identifiers of the contract
    Terms,     \* what a payer authorizes: parties, amount and proof commitment
    NoTerms    \* the terms of an identifier nobody has authorized

VARIABLES
    phase,     \* how far each payment has come
    terms,     \* the terms it was authorized under
    receipts   \* how many settlement receipts were published for it

settlementVars == <<phase, terms, receipts>>

Init ==
    /\ phase = [id \in ChainId |-> "none"]
    /\ terms = [id \in ChainId |-> NoTerms]
    /\ receipts = [id \in ChainId |-> 0]

Authorize(id, t) ==
    /\ phase[id] = "none"
    /\ phase' = [phase EXCEPT ![id] = "authorized"]
    /\ terms' = [terms EXCEPT ![id] = t]
    /\ UNCHANGED receipts

Settle(id) ==
    /\ phase[id] = "authorized"
    /\ phase' = [phase EXCEPT ![id] = "settled"]
    /\ receipts' = [receipts EXCEPT ![id] = 1]
    /\ UNCHANGED terms

Next ==
    \E id \in ChainId :
        \/ \E t \in Terms : Authorize(id, t)
        \/ Settle(id)

Spec == Init /\ [][Next]_settlementVars
=============================================================================
