SPECIFICATION FairSpec
CONSTANTS
    MaxRequests = 2
    MaxReloads = 1
    MaxEdits = 1
    Kinds = {"stream", "fetch"}
    CustomBodies = {FALSE}
INVARIANTS
    OpenIsTracked
    AnswersAreOwn
    StoredIsShown
    CrashNeedsStray
PROPERTIES AnswerFinishes
CHECK_DEADLOCK FALSE
