SPECIFICATION Spec
CONSTANTS
    Alerts = {a1, a2}
    Scorings <- MCScorings
    MaxUpdates = 2
SYMMETRY AlertSymmetry
INVARIANTS
    LearntIsMeasured
    LossHasCause
PROPERTY OutcomesAreFinal
