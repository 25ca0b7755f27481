SPECIFICATION MCSpec
CONSTANTS
  Touches <- ScriptedTouches
  HostCapacity = 4
  MotionLimit = 2
  DeviceCapacity = 4
  RingSize = 1
  MaxTrackingID = 1
  MaxTouches = 3
  MaxTouchResets = 0
PROPERTIES EdgesArrive DrainTerminates EveryRequestAnswered
CHECK_DEADLOCK FALSE
