SPECIFICATION FairSpec
CONSTANTS
    Payloads <- FourPayloads
    Garbled <- OneGarbled
    MaxSent = 4
INVARIANTS HandledOnArrival
PROPERTIES ChannelIsImplemented EverythingArrives
CHECK_DEADLOCK FALSE
