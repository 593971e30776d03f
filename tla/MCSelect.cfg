CONSTANTS
    Candidates = {d1, d2, d3}
    None = None
SPECIFICATION FairSpec
CHECK_DEADLOCK FALSE
INVARIANTS OneSurvivor SelectedWasTouched
PROPERTIES CanceledSelectReturns TouchReturns NoGoroutineLeak
