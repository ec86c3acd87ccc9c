CONSTANTS
    a = a  b = b  c = c
    v1 = v1  v2 = v2  v3 = v3  v4 = v4  v5 = v5
    NoValue = NoValue
    Tasks <- MCTasks3
    Values <- MCValues

SPECIFICATION Spec
INVARIANT SingleFlight
