CONSTANTS
  r1 = r1
  r2 = r2
  n1 = n1
  n2 = n2
  n3 = n3
  Nobody = Nobody
  Stranger = Stranger
  Run <- MCRun
  Setups <- MCSetups
  Name <- MCName
  Occupied <- MCOccupied
  Prefixed <- MCPrefixed
  GpuFallback <- MCGpuFallback
SPECIFICATION Spec
INVARIANTS TornDownBeforeExit
CHECK_DEADLOCK FALSE
