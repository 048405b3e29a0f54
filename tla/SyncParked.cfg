SPECIFICATION Spec
CONSTANTS
    sem1 = sem1
    gate1 = gate1
    bar1 = bar1
    bar2 = bar2
    park1 = park1
    atom1 = atom1
    N = 2
    Budget = 3
    Locks = {}
    Conditions = {}
    Semaphores = {}
    Latches = {}
    Barriers = {}
    Parkers = {park1}
    Atomics = {}
    OtherQueues <- MCQueues
    ExceptionResults = {}
    Programs <- ParkerPrograms
    Permits <- MCPermits
    MaxPermits = 2
    Counts <- MCCounts
    Expected <- MCExpected
    CustomBarriers = {}
    UsedBefore = {park1}
    MaxUpdate = 2
INVARIANTS ParkerPermitSeen
