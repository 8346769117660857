SPECIFICATION FrameSpec
CONSTANTS
  ta = ta
  tb = tb
  x1 = x1
  Tags = {ta, tb}
  Programs <- AllPrograms
  MaySway = TRUE
  Forms = {"texture"}
  Sizes = {1, 2}
  Externals = {x1}
  Frames <- SolvedFrames
  MaxUnusedAge = 1
  MaxId = 3
  MaxOver = 2
INVARIANTS NoSharing PoolIsSound
INVARIANTS UsesKeepTheirContents GettersFollowTheTimeline ReplayTellsDivergence
