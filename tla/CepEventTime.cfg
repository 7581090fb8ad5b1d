SPECIFICATION HistSpec
CONSTANTS
  Sources = {s1}
  Shapes <- AttackShapes
  Rules = {"probe"}
  Steps <- DefaultSteps
  Window <- DefaultWindow
  PortBound = 1024
  MaxTime = 4
  MaxPartials = 3
  MaxEvents = 3
  MaxDelay = 3
INVARIANT WithinEventTime
CHECK_DEADLOCK FALSE
