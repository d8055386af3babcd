\* A reload of an unchanged sat_conf.py.
CONSTANTS
    HostOctet = 255
    NoCard = NoCard
    Broken = Broken
    Slots <- MCSlots
    Confs <- MCConfs
    MaxReloads = 4
    Pairs <- MCPairs
    MaxArgs = 3
SPECIFICATION Spec
PROPERTY UnchangedSlotsKept
