SPECIFICATION Spec
CONSTANTS
  FrameCountMod = 3
  SocketCap = 2
  MaxArrivals = 30
  NoAddr = NoAddr
  Content <- LockstepContent
  Senders <- LockstepSenders
  MaxFrames = 4
  MaxLosses = 1
  MaxReboots = 1
  MaxStrays = 1
  MaxSlow = 1
  RxPrompt = TRUE
INVARIANTS
  NewestIsTaken
  ReplyToFrameSender
PROPERTIES
  TakenInOrder
  DestructorReturns
  FramesStepInOrder
  ClassificationTruthful
  ImplementsExchange
  ImplementsSlot
CHECK_DEADLOCK FALSE
