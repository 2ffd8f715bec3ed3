\* The hardware adapter, the control loop and the REST server.
SPECIFICATION Spec
CONSTANTS
    Signals = {"voltage"}
    Other = "other"
    MaxAge = 1
    Commanders = {a, b}
    NoReading = NoReading
    Budgets <- MCBudgets
INVARIANTS
    ContactorsFollowFlags
    AnswersAreWhole
PROPERTIES
    ReadingsNeverGoBack
    StopReturns
\* The environment's budgets run out.
CHECK_DEADLOCK FALSE
