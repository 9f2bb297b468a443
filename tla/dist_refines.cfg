CONSTANTS
    c1 = c1
    c2 = c2
    f1 = f1
    f2 = f2
    NaN = NaN
    Calls = {c1, c2}
    Followers = {f1, f2}
    Capacity = 1
    SignalLots <- MCLots
    Multiplier <- MCMultiplier
SPECIFICATION Spec
PROPERTIES ImplementsFanOut CallsReturn
INVARIANTS TypeOK OrdersConserved  ResultIsExact 
