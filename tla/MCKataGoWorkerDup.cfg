CONSTANTS
    r1 = r1
    r2 = r2
    Requests = {r1, r2}
    Turns <- MCDuplicates
    Unset = Unset
    ExternalId <- MCExternalId
    ClientId = ClientId
    Error = Error
    Current = Current
    PipeSize = 1
    Nobody = Nobody
SPECIFICATION Spec
CHECK_DEADLOCK FALSE
INVARIANTS
    CompletedQueryNotLeftWaiting
