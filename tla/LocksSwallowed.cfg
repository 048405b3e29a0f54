SPECIFICATION Spec
CONSTANTS
    l1 = l1
    l2 = l2
    c1 = c1
    N = 2
    Budget = 3
    Locks = {l1, l2}
    Conditions = {}
    Semaphores = {}
    OtherQueues = {}
    ExceptionResults = {0, 1}
    LockOf <- MCLockOf
    Ops = {"lock", "unlock"}
    MaxDepth = 1
INVARIANTS DeadlockReported
