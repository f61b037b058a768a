----------------------------- MODULE MCContract -----------------------------
(* The contract alone: two payments that may share sender, terms and proof    *)
(* commitment, settled with any of two proofs or with none.                   *)
EXTENDS VerifierContract
=============================================================================
