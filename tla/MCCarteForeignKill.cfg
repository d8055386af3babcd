\* Pids reused by other programs after a SIGKILL left the pid file behind.
CONSTANTS
    Pids <- MCPids
    NoPid = NoPid
    TimeoutAccords <- MCTimeoutAccords
    Verboses <- MCVerboses
    PidDelay = 1
    PidReuse = TRUE
SPECIFICATION Spec
PROPERTY NoForeignSignal
