CONSTANTS
  NONE = NONE
  SeqSpace = 512
  TsSpace = 1024
  Deltas = {2}
  MaxTicks = 5
  Scenarios <- SchedulerScenarios
  Fds <- MCFds
  Ports <- MCPorts
  PrivilegedPorts <- MCPrivilegedPorts
  EphemeralPorts <- MCEphemeralPorts
SPECIFICATION SchedulerSpec
INVARIANTS SchedulerTypeOK ElapsedCoversSleep StopIsPrompt ReceiverSeesPausesAsLoss OneSocket PortAgrees
PROPERTIES StopEndsLoop PauseEnds SendsFromRequestedPort
