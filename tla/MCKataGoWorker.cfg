CONSTANTS
    r1 = r1
    r2 = r2
    Requests = {r1, r2}
    Turns <- MCTurns
    Unset = Unset
    ExternalId <- MCExternalId
    ClientId = ClientId
    Error = Error
    Current = Current
    PipeSize = 1
    Nobody = Nobody
SPECIFICATION LiveSpec
CHECK_DEADLOCK FALSE
INVARIANTS
    TypeOK
    NoStrandedRequest
    AtMostOneCompletion
    AnsweredRequestForgotten
    CompletedQueryNotLeftWaiting
    ExitIsLogged
PROPERTIES
    EventuallyAnswered
    DeathIsReported
    NoLineDropped
    ImplementsRequestReply
