SPECIFICATION Spec
CONSTANTS
    Requests = {r1, r2}
    Users = {u1, u2}
    NoUser = nouser
    FirstUser = u1
    Sessions = {s1, s2}
    NoSession = nosession
    Names = {a, b, c}
    Emails = {x, y}
    NoName = noname
    MaxChanges = 2
    MaxDbFailures = 1
SYMMETRY Interchangeable
INVARIANTS TypeOK EndedStaysEnded
PROPERTIES AccessIsCurrent RegistrationsAreAnsweredTruly
CHECK_DEADLOCK FALSE
