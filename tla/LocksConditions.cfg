SPECIFICATION FairSpec
CONSTANTS
    l1 = l1
    l2 = l2
    c1 = c1
    N = 3
    Budget = 5
    Locks = {l1}
    Conditions = {c1}
    Semaphores = {}
    OtherQueues = {}
    ExceptionResults = {}
    LockOf <- MCLockOf
    Ops = {"lock", "unlock", "wait", "wait_for", "notify_one", "notify_all"}
    MaxDepth = 1
INVARIANTS TokenExclusive QueuedOnceIffBlocked NoMissedNotify FailureReported
PROPERTIES DeadlockIsReal Termination
