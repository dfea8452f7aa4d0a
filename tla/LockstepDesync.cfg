SPECIFICATION Spec
CONSTANTS
  FrameCountMod = 4
  SocketCap = 2
  MaxArrivals = 30
  NoAddr = NoAddr
  Content <- LockstepContent
  Senders <- LockstepSenders
  MaxFrames = 3
  MaxLosses = 1
  MaxReboots = 0
  MaxStrays = 1
  MaxSlow = 2
  RxPrompt = FALSE
INVARIANTS
  DesyncBounded
PROPERTIES
  Progress
CHECK_DEADLOCK FALSE
