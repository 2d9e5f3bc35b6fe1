SPECIFICATION FairSpec
CONSTANTS
    Connections = {c1, c2, c3}
    Names = {n1}
    NoName = none
    MaxDbFailures = 1
INVARIANTS TypeOK RegistryAgrees LiveStaysRegistered LiveAloneIsOffered
PROPERTIES LinksAreImplemented PingingStops
CHECK_DEADLOCK FALSE
