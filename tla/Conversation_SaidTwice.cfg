CONSTANTS
  Shapes <- OneShape
  MaxAnswers = 2
  MaxTexts = 2
SPECIFICATION Spec
INVARIANT SaidOnce
