SPECIFICATION CepFairSpec
CONSTANTS
  Sources = {s1, s2}
  Shapes <- AttackShapes
  Rules = {"probe"}
  Steps <- DefaultSteps
  Window <- DefaultWindow
  PortBound = 1024
  MaxTime = 4
  MaxPartials = 1
PROPERTY StaleExpired
CHECK_DEADLOCK FALSE
