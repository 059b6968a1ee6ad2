CONSTANTS
    Formulas <- MCFormulas
    Variables <- MCVariables
    Readings <- MCReadings

SPECIFICATION Spec
CHECK_DEADLOCK FALSE

INVARIANTS
    AnswerIsRight
    FailsOnlyWhen
