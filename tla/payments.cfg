SPECIFICATION PaymentsSpec
CONSTANTS
    small = small
    large = large
    cheap = cheap
    dear = dear
    card = card
    wire = wire
    Affiliates = {a1}
    Ids = {i1, i2}
    Operators = {o1, o2}
    MaxBatches = 2
    MaxCrashes = 1
    TopUps = {small, large}
    Usages = {cheap, dear}
    Lookups = {}
    Keys <- MCKeys
    InitialKeys = 2
    Purchases = {card, wire}
    Reference <- Apart
    TxOf <- Shared
    Referred = {card}
    Handlers = {h1, h2}
    Jobs = {j1}
    MaxFaults = 1
INVARIANTS
    PayoutsCoverEarnings
    ReservationsAreLive
    BalanceCanBeSpent
    BalanceIsConserved
    OldestCreditFirst
    KeysIssuedOnce
    EventsInOrder
    LossesAreCounted
PROPERTIES
    PaymentIsSettled
CHECK_DEADLOCK FALSE
