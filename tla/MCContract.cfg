SPECIFICATION ContractSpec
CONSTANTS
    ChainId = {1, 2}
    Address = {alice, bob}
    Amount = {10}
    ProofHash = {c1, c2}
    EmptyProof = EmptyProof
    NoAdmin = NoAdmin
    NoRecord = NoRecord
    NoProof = NoProof
INVARIANT
    VerifiedIffSettled
PROPERTY
    ImplementsSettlement
CHECK_DEADLOCK FALSE
