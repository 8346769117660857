SPECIFICATION SpecFactory
CONSTANTS
  Tracks <- BothTracks
  Subtypes <- TwoSubtypes
  Sources <- EditSources
  AuthoredKinds <- AllKinds
  EditedTracks <- OneTrack
  EditedSubtypes <- OneSubtype
  MaxAuthored = 3
  MaxSlots = 8
  CameraGraphs <- TwoTrackSources
  MaxEdited = 5
  MaxGroups = 2
  MaxCalls = 4
  NoNode = NoNode
INVARIANTS FlowGroupsAreRight BridgeKeepsOrder MergedGraphsHavePromisedOrder FactoryOrderIsTheAskedOne
CHECK_DEADLOCK FALSE
