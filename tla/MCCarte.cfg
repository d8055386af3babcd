\* Pid file written up to 1 s after launch (the last delay that start()
\* survives when pids are reused: see MCCarteStalePid), and pids
\* reused by other programs.
CONSTANTS
    Pids <- MCPids
    NoPid = NoPid
    TimeoutAccords <- MCTimeoutAccords
    Verboses <- MCVerboses
    PidDelay = 2
    PidReuse = TRUE
SPECIFICATION Spec
INVARIANT TypeOK
INVARIANT SingleDaemon
PROPERTY StopSilencesCard
PROPERTY ImplementsCardLifecycle
