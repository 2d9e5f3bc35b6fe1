SPECIFICATION Spec
CONSTANTS
    Requests = {r1, r2, r3}
    Problems = {p1, p2}
    NoProblem = noproblem
    Slugs = {a, b}
    NoSlug = noslug
    MaxFailures = 1
SYMMETRY Interchangeable
INVARIANTS TypeOK FlagIsFounded TogglesCount
PROPERTIES ChangesAreCurrent
CHECK_DEADLOCK FALSE
