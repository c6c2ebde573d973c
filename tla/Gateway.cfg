SPECIFICATION FairSpec
CONSTANTS
    Key = {"k1"}
    Entry = {"e1", "e2"}
    NoEntry = "none"
    MaxAttempts = 2
    ActiveKeys <- MCActiveKeys
INVARIANTS TypeOK AttemptsSettled TransportsCounted CancelReachesFinalRead
PROPERTIES BlameMatchesVerdict NoEarlyTimeout WaitsEnd
