SPECIFICATION Spec
VIEW LockView
CONSTANTS
    l1 = l1
    l2 = l2
    c1 = c1
    N = 3
    Budget = 3
    Locks = {l1}
    Conditions = {}
    Semaphores = {}
    OtherQueues = {}
    ExceptionResults = {0}
    LockOf <- MCLockOf
    Ops = {"lock", "try_lock_for", "unlock", "lock_shared", "try_lock_shared_for", "unlock_shared"}
    MaxDepth = 2
INVARIANTS TypeOK LockExclusion NoLostWakeup GrantedMeansHeld AbortReachesPeers TokenNotLost
PROPERTIES ImplementsFairLocks NoEffectAfterAbort
