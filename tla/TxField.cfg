SPECIFICATION FairSpec
CHECK_DEADLOCK FALSE
CONSTANTS
    field1 = field1
    N = 2
    Budget = 6
    Locks = {}
    Conditions = {}
    Semaphores = {}
    OtherQueues = {}
    ExceptionResults = {}
    Fields = {field1}
PROPERTY FieldRunEnds
