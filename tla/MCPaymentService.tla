--------------------------- MODULE MCPaymentService ---------------------------
(* The relay under any caller: submissions of any of two hashes, for one      *)
(* request, and two verify-proof calls.  Contract ids only differ by          *)
(* their name, so the first row may be given the first of them.               *)
EXTENDS PaymentService

CONSTANT FirstId

MCInit == ServiceInit /\ LedgerInit /\ numericId[1] = FirstId

MCSpec == MCInit /\ [][ServiceNext]_allServiceVars /\ ServiceFairness
=============================================================================
