\* The server and the command line tool in one tree, and the developer. They end.
CONSTANTS
    d1 = d1
    d2 = d2
    Delegations = {d1, d2}
    Served = {d1}
    Ready = {"opencode", "goose"}
    Asked = {"opencode"}
    Quoted <- MCQuoted
    Paths <- MCPaths
    Workplaces <- MCWorkplaces
SPECIFICATION LiveSpec
CHECK_DEADLOCK FALSE
INVARIANTS TypeOK NoPingPong
PROPERTIES  EarlierWorkSurvives DelegationEnds
