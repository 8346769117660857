CONSTANTS
    Frames <- MCFrames
    MaxEntries = 1
    NoGraph = 0
    MaxCalls = 3
    MaxCommands = 2
    MaxGraphs = 1
    NoFrame = NoFrame
SPECIFICATION Spec
INVARIANTS CommandsInOrder FramesDoNotOverlap ExecutesItsGraph
PROPERTIES FramesComeToTheirEnd
