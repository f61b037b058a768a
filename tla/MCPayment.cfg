SPECIFICATION Spec
CONSTANTS
    ChainId = {1}
    Address = {payer}
    Amount = {10}
    ProofHash = {c1}
    EmptyProof = EmptyProof
    NoAdmin = NoAdmin
    NoRecord = NoRecord
    NoProof = NoProof
    Request = {r1}
    TxHash = {1, 2}
    Submission = {1, 2}
    NoSubmission = 0
    Verifier = {1, 2}
    NoRequest = NoRequest
    TestEnv = FALSE
    NoTx = 0
    NoVerifier = 0
INVARIANTS
    PaymentTypeOK
    CardIsBacked
CHECK_DEADLOCK FALSE
