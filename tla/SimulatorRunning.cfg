SPECIFICATION FairLockSpec
CONSTANTS
    TextSize = 8
    Programs <- MCPrograms
    Requests = {7}
    PokeAddrs = {1}
    PcTargets = {5}
    Ports <- MCPorts
    MaxPending = 1
    MaxFds = 4
PROPERTY RunningSimulatorInterrupted
