SPECIFICATION HistSpec
CONSTANTS
  Sources = {s1, s2}
  Shapes <- MixedShapes
  Rules = {"probe", "sweep"}
  Steps <- TwoRuleSteps
  Window <- TwoRuleWindow
  PortBound = 1024
  MaxTime = 3
  MaxPartials = 5
  MaxEvents = 5
  MaxDelay = 0
SYMMETRY SourceSymmetry
INVARIANTS
  CepTypeOK
  PartialsOrdered
  AlertJustified
  SequenceDetected
  FiresOncePerStart
CHECK_DEADLOCK FALSE
