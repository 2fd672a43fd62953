CONSTANTS
    BlockSize = 8
    LoCount = 16
    MaxLen = 50
SPECIFICATION Spec
INVARIANTS
    DigestOfMessage
    NothingLost
