SPECIFICATION MCSpec
CONSTANTS
    ChainId = {1, 2}
    FirstId = 1
    Address = {payer}
    Amount = {10}
    ProofHash = {c1}
    EmptyProof = EmptyProof
    NoAdmin = NoAdmin
    NoRecord = NoRecord
    NoProof = NoProof
    Request = {r1}
    TxHash = {1, 2}
    Submission = {1, 2}
    Verifier = {1, 2}
    NoRequest = NoRequest
    NoSubmission = 0
    TestEnv = FALSE
    NoTx = 0
INVARIANTS
    ApprovedIsSettled
    OneProofPerSettlement
    NoLostApproval

    
CHECK_DEADLOCK FALSE
