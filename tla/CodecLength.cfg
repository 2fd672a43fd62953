CONSTANTS
    Radix = 32
    NULL = NULL
    Numbers <- MCNumbers
    Messages <- MCMessages
    Leftovers <- MCLeftovers
    Lengths <- MCLengths
SPECIFICATION Spec
CHECK_DEADLOCK FALSE
INVARIANTS
    SafetyCodeArrived
