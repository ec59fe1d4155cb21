CONSTANTS
    old = old
    new = new
    broken = broken
    c1 = c1
    c2 = c2
    Unset = Unset
    NotANumber = NotANumber
    HalfInt64 = 100000
    Second = 10
    Instances = {new}
    Contracts = {c1, c2}
    Requests = {r1}
    Files <- MCFiles
    Statements <- MCStatements
    Environments <- MCEnvironments
    OneWriter = FALSE
    MaxFaults = 0
    MaxDowns = 0
SPECIFICATION Spec
PROPERTIES RegisteredIsPolled

