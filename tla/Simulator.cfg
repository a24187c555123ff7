SPECIFICATION LiveSpec
CONSTANTS
    TextSize = 8
    Programs <- MCPrograms
    Requests = {1, 7}
    PokeAddrs = {1}
    PcTargets = {5, 8}
    Ports <- MCPorts
    MaxPending = 1
    MaxFds = 5
INVARIANTS OneInCore BreakpointsNotExecuted ReportsWhereItStopped TraceBalanced GdbUsesLiveCore ReasonRepeated IInv
PROPERTIES RequestServed ClosedSessionEnds InterruptDelivered
