SPECIFICATION Spec
CONSTANTS
    Requests = {r1, r2}
    Workers = {"w1"}
    Hosts = {"shop", "Shop", "k000001"}
    Lower <- LowerCase
    ByRule <- Rule
    Ttl = 2
    MaxOpen = 1
    MaxTime = 5
    MaxChanges = 2
    MaxFaults = 1
SYMMETRY Sym
CHECK_DEADLOCK FALSE
INVARIANTS
    AnsweredOnce
    ChangeTakesEffect
