\* A pid file written up to 2 s after launch, and pids reused by
\* other programs: the pid file left by a SIGKILL is taken by another process.
CONSTANTS
    Pids <- MCPids
    NoPid = NoPid
    TimeoutAccords <- MCTimeoutAccords
    Verboses <- MCVerboses
    PidDelay = 3
    PidReuse = TRUE
SPECIFICATION Spec
PROPERTY ImplementsCardLifecycle
