\* Up to four config() calls (the start-up load and three reloads), and
\* every command line of up to three options.
CONSTANTS
    HostOctet = 255
    NoCard = NoCard
    Broken = Broken
    Slots <- MCSlots
    Confs <- MCConfs
    MaxReloads = 4
    Pairs <- MCPairs
    MaxArgs = 3
SPECIFICATION Spec
INVARIANT TypeOK
INVARIANT HostChannelsAddressed
PROPERTY StopCoversChanged
