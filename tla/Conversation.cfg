CONSTANTS
  Shapes <- FourShapes
  MaxAnswers = 4
  MaxTexts = 3
SPECIFICATION Spec
INVARIANTS
  ContextIsHistory
  ReplayIsComplete
PROPERTIES
  TurnsEndWithAnswers
