SPECIFICATION MCSpec
CONSTANTS
  Shapes <- AllShapes
  Resources = {1, 2}
  maximumInFlightGPUCommands = 2
  maximumPendingGPUCommands = 3
  maximumPendingGPURequestBytes = 4
  CallbackThreads = 2
  MaxOffers = 3
  MaxResets = 1
  Touches <- FewTouches
  HostCapacity = 5
  MotionLimit = 2
  DeviceCapacity = 4
  RingSize = 2
  MaxTrackingID = 1
  MaxTouches = 5
  MaxTouchResets = 1
INVARIANTS HazardOrder UsedInOrder InterruptNotLost GesturesSurvive
PROPERTIES QuietAfterReset
CHECK_DEADLOCK FALSE
