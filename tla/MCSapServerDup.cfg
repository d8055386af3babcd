\* As MCSapServer.cfg: SIGTERM at any point, then a restart of the wrapper.
CONSTANTS
    D1 = D1
    D2 = D2
    NoData = NoData
    Malformed = Malformed
    Pids <- MCPids
    Datas <- MCDatas
    Contents = {D1, D2, NoData, Malformed}
    MaxGens = 2
SPECIFICATION Spec
INVARIANT NoDuplicateServers
