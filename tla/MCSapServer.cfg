\* Two channel sets, no data and a malformed line, three pids, two wrapper lifetimes.
CONSTANTS
    D1 = D1
    D2 = D2
    NoData = NoData
    Malformed = Malformed
    Pids <- MCPids
    Datas <- MCDatas
    Contents = {D1, D2, NoData, Malformed}
    MaxGens = 2
SPECIFICATION Spec
INVARIANT TypeOK
INVARIANT ServerConfCurrent
INVARIANT OneServerPerWrapper
PROPERTY SignalsOnlyOwnChild
PROPERTY ServerEventuallyCurrent
