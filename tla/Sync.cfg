SPECIFICATION Spec
VIEW SyncView
CONSTANTS
    sem1 = sem1
    gate1 = gate1
    bar1 = bar1
    bar2 = bar2
    park1 = park1
    atom1 = atom1
    N = 3
    Budget = 4
    Locks = {}
    Conditions = {}
    Semaphores = {sem1}
    Latches = {gate1}
    Barriers = {bar1, bar2}
    Parkers = {park1}
    Atomics = {atom1}
    OtherQueues <- MCQueues
    ExceptionResults = {}
    Programs <- MCPrograms
    Permits <- MCPermits
    MaxPermits = 2
    Counts <- MCCounts
    Expected <- MCExpected
    CustomBarriers = {bar2}
    UsedBefore = {bar1}
    MaxUpdate = 2
INVARIANTS TypeOK PermitsAgree NoIdlePermit GatesAgree PassedMeansOpen
PROPERTIES OneParkPerUnpark
