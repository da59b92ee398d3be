CONSTANT
    Argvs <- AllArgvs
SPECIFICATION Spec
INVARIANTS BlocksOwned AcceptedIff LastWins FileObeyed
CHECK_DEADLOCK FALSE
