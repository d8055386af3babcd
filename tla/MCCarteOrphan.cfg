\* The pid file appears 5 s after launch or later: start() re-launches while
\* its first attempt is still alive.
CONSTANTS
    Pids <- MCPids
    NoPid = NoPid
    TimeoutAccords <- MCTimeoutAccords
    Verboses <- MCVerboses
    PidDelay = 6
    PidReuse = FALSE
SPECIFICATION Spec
PROPERTY StopSilencesCard
