SPECIFICATION ImagesSpec
CONSTANTS
    VmImages = {disk}
    CtImages = {box}
    Jobs = {j1, j2}
    Blocks = 2
    MaxEvents = 4
    None = None
INVARIANTS ReadyVerified
CHECK_DEADLOCK FALSE
