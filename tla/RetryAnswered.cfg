SPECIFICATION FairSpec
CONSTANTS
    r1 = r1
    r2 = r2
    chat = chat
    other = other
    Requests = {r1, r2}
    Talks = {chat, other}
    Placements <- MCPlacements
    MaxCalls = 3
    Entries = {e1, e2, e3, e4}
    MaxContexts = 1
    MaxRequests = 1
    MaxActive = 2
    None = None
PROPERTY RetryAnswered
CHECK_DEADLOCK FALSE
