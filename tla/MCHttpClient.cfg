SPECIFICATION FairSpec
CONSTANTS
    Responses <- MCResponses
    ReadTimeout = TRUE
INVARIANTS
    BodyIsPayload
PROPERTIES
    ReturnsWhenComplete
    ReturnsOnceClosed
