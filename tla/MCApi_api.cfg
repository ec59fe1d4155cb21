CONSTANTS
    c1 = c1
    k1 = k1
    Absent = Absent
    Text = Text
    BadText = BadText
    Refused = Refused
    MaxInt64 = 100000
    MaxColumn = 1
    Contracts = {c1}
    Slots = {k1, k2}
    Catalogue <- MCCatalogue
    Burst = 1
    HalfRange = 2
    MaxRefills = 1
    MaxLedger = 1
    MaxFaults = 1
SPECIFICATION Spec
INVARIANTS TypeOK AnswersTrue DeletesCounted WritesGuarded InternalHasCause OneAnswer
PROPERTIES EveryRequestAnswered
