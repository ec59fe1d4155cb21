CONSTANTS
    old = old
    new = new
    broken = broken
    c1 = c1
    c2 = c2
    Unset = Unset
    NotANumber = NotANumber
    HalfInt64 = 100000
    Second = 10
    Instances = {old, new, broken}
    Contracts = {c1}
    Requests = {r1}
    Files <- MCFiles
    Statements <- MCStatements
    Environments <- MCEnvironments
    OneWriter = FALSE
    MaxFaults = 1
    MaxDowns = 1
SPECIFICATION Spec
INVARIANTS TypeOK NoGap SchemaAsRecorded ServesOnItsSchema PollersHaveHandle CleanExit
PROPERTIES ImplementsSchemaVersion EventuallyServed SignalledEnds

