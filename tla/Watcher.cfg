SPECIFICATION Spec
CONSTANTS
    a = a
    b = b
    c = c
    k = k
    Watches = {a, b}
    First = a
    Widening = {b}
    Interactive = {a}
    Confirm = {a}
    Reporting = {a}
    Completions = {c}
    Retries = {k}
    MaxFailures = 2
    MaxMoves = 1
INVARIANTS
    
    OneRead
    StopIsFinal
CHECK_DEADLOCK FALSE
