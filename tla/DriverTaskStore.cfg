\* One task, two executors that may die and the sweep: every race on one record.
SPECIFICATION FairSpec
CONSTANTS
    Tasks = {t1}
    Executors = {e1, e2}
    Sweeper = sweeper
    Attempts = 2
    MaxRev = 2
INVARIANTS
    OneSettler
    HistoryIsTimeline
    ReportedIsSettled
PROPERTIES
    ImplementsTaskStore
    SweepSettles
