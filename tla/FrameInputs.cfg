SPECIFICATION Spec
CONSTANTS
  SceneCameras <- Scene2
  Helpers <- Helpers2
  Order <- Orders
  Target <- TwoWindows
  NoTarget = 0
  MAX_CAMERA_DEPENDENCIES = 1
  MAX_CAMERA_DEPENDENCY_DEPTH = 1
  TEMPORAL_CAMERA_GRACE_TICKS = 0
  TEMPORAL_RENDER_FLOW_SPACE_START = 1
  MaxTick = 3
  MaxCalls = 3
INVARIANTS SelectionIsClosed RegistryIsSound TemporariesAreTheRequested
PROPERTY HistoryIsOfTheLastFrame
