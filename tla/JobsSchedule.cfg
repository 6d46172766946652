\* The nine registered jobs have ten slots; here two jobs have two.
SPECIFICATION Spec
CONSTANTS
    Job = {j1, j2}
    Frequent = {j1}
    Slots = 2
    MaxTriggers = 1
    MaxHangs = 1
INVARIANTS
    TypeOK
    NeverTwice
    FinishedMeansFinished
PROPERTIES
    RunsAgain
    ShutdownEnds
    ImplementsPeriodicJobs
\* the service stops after a signal
CHECK_DEADLOCK FALSE
