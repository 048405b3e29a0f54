SPECIFICATION GuardSpec
CONSTANTS
    l1 = l1
    l2 = l2
    N = 2
    Budget = 10
    Locks = {l1, l2}
    Conditions = {}
    Semaphores = {}
    OtherQueues = {}
    ExceptionResults = {}
    LockOf <- NoConditions
    Ops = {"lock", "unlock"}
    MaxDepth = 1
INVARIANTS AbortStopsPeers
