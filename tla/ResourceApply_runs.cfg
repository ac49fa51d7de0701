\* Two runs with two resources that refer to one another, else one run.
SPECIFICATION Spec
CONSTANTS
    Inst = {1, 2, 3}
    Key = {1, 2}
    Nil = Nil
    MaxRun = 2
    Runs <- MCRuns
    Setups <- MCSetups
INVARIANTS TypeOK NoObjectLost FailedIsTainted AcyclicIfInherited
PROPERTIES ReplacedIsUnused CleanRun CrashLosesLittle
CHECK_DEADLOCK FALSE
