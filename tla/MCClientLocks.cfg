\* Asynchronous timers, and managers that send option requests.
SPECIFICATION FairSpec
CONSTANTS
    Programs <- MCPollPrograms
    MaxAlerts = 2
    MaxBeats = 2
    MaxRequests = 1
PROPERTY AllSent
CHECK_DEADLOCK FALSE
