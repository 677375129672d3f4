SPECIFICATION FairSpec
CONSTANTS
    Script <- MCScript
    InitialSize = 2
CHECK_DEADLOCK FALSE
INVARIANTS
    Conversation
    RoomToRead
    TimedBySilence
PROPERTIES
    RequestsSettled
    SessionReclaimed
