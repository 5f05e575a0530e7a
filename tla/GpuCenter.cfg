\* one tree of two to five pins in the launch
SPECIFICATION DeviceSpec
CONSTANTS
  Launches <- MCLaunches
  Garbage = {0}
INVARIANT CenterMinimizesDepth
CHECK_DEADLOCK FALSE
