------------------------------ MODULE MCPayment ------------------------------
(* The payer's flow: one card, up to two runs of the flow, two submissions    *)
(* and two verify-proof calls, which a run or somebody else makes.            *)
EXTENDS PaymentFlow
=============================================================================
