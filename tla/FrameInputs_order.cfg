SPECIFICATION Spec
CONSTANTS
  SceneCameras <- Scene3
  Helpers <- NoHelpers
  Order <- Ascending
  Target <- OneWindow
  NoTarget = 0
  MAX_CAMERA_DEPENDENCIES = 8
  MAX_CAMERA_DEPENDENCY_DEPTH = 1
  TEMPORAL_CAMERA_GRACE_TICKS = 3
  TEMPORAL_RENDER_FLOW_SPACE_START = 8
  MaxTick = 2
  MaxCalls = 2
INVARIANT DependencyFirst
