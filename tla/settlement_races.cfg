SPECIFICATION Spec
CONSTANTS
    i1 = i1
    i2 = i2
    w1 = w1
    w2 = w2
    w3 = w3
    NoId = NoId
    NoInvoice = NoInvoice
    Invoices = {i1, i2}
    Total <- MCTotal
    Workers = {w1, w2}
    GatewayIds = {g1}
    Ops <- EveryOp
    MaxPayments = 2
    MaxFaults = 0
CHECK_DEADLOCK FALSE
SYMMETRY WorkerSymmetry
INVARIANTS
    TypeOK
    NeverOvercredited
    BackedByMoney
PROPERTIES
    OutcomesFinal
