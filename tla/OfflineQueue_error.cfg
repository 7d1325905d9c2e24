\* One user, one session, a backend that fails.
CONSTANTS
    Users = {u1}
    Sessions = {s1}
    None = None
    MaxCalls = 2
    MaxClicks = 2
    MaxFaults = 2
    MaxVisits = 2
    Patient = TRUE
SPECIFICATION Spec
SYMMETRY Symmetry
CHECK_DEADLOCK FALSE
INVARIANT ErrorsKept
