SPECIFICATION FairSpec
CONSTANTS
    Responses <- MCResponses
    ReadTimeout = TRUE
PROPERTY TrailersEnd
