CONSTANTS
    Windows = {1, 2}
    Handles = {"h1", "h2"}
    Sizes = {1, 2}
    Modes = {"Fifo", "Mailbox"}
    SupportedModes = {"Fifo", "Immediate"}
    Closed = Closed
    NoRecord = NoRecord
    NoSurface = NoSurface
    NoTexture = NoTexture
    MaxChanges = 2
    MaxFaults = 2
    Panics = TRUE
SPECIFICATION TurnsSpec
INVARIANTS TexturesFit RenderWorldComesHome
PROPERTIES OpenWindowsAreShown ShutdownComesBack
