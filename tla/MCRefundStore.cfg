SPECIFICATION Spec
CONSTANTS
    c1 = c1
    c2 = c2
    nobody = nobody
    noKey = noKey
    noOperation = noOperation
    noRequest = noRequest
    Clients <- MCClients
    Requests <- MCRequests
    Orders <- MCOrders
    Actors <- MCActors
    Owner <- MCOwner
    Total <- MCTotal
    Amounts <- MCAmounts
    Keys <- MCKeys
    NoKey = noKey
    NoOperation = noOperation
    NoRequest = noRequest
    Nobody = nobody
    MaxRequests = 4
    MaxCrashes = 2
SYMMETRY MCSymmetry
INVARIANTS
    BalanceKept
    AnswersGrounded
    OnceForEachKey
PROPERTIES
    LedgerSpec
CHECK_DEADLOCK FALSE
