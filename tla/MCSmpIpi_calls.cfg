CONSTANTS
    CPU = {0, 1, 2}
    Loads <- Ways
    None = None
SPECIFICATION FairSpec
INVARIANTS AnsweredByAll MessagesLive
PROPERTIES CallsEnd
CHECK_DEADLOCK FALSE
