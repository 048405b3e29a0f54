----------------------------- MODULE MCStress -----------------------------
EXTENDS StressRun

\* The sequential model: a counter that wraps, and cannot be decremented at zero
MCStates == 0..15

Counter(name, state) ==
    CASE name = "inc" -> [throws |-> FALSE, value |-> (state + 1) % 16, next |-> (state + 1) % 16]
      [] name = "get" -> [throws |-> FALSE, value |-> state, next |-> state]
      [] name = "dec" /\ state > 0 -> [throws |-> FALSE, value |-> state - 1, next |-> state - 1]
      [] OTHER -> [throws |-> TRUE, value |-> state, next |-> state]

MCNames == {"inc", "get", "dec", "writers"}
MCValues == MCStates \cup {Thrown}

Op(name) == [name |-> name, oneShot |-> FALSE, nonParallel |-> FALSE, group |-> NoGroup,
             exceptionResults |-> FALSE]

Documented(name) == [Op(name) EXCEPT !.exceptionResults = TRUE]

Base == [threads |-> 2, perThread |-> 2, before |-> 0, after |-> 0, iterations |-> 1,
         invocations |-> 1, timeout |-> FALSE, clock |-> "atomic", object |-> "atomic",
         operations |-> <<Op("inc"), Op("get")>>, invalid |-> {}]

\* An operation that throws as documented, and one that is not expected to
Throwing == <<Op("inc"), Documented("dec")>>
Unexpected == <<Op("inc"), Op("dec")>>

Verified == {
    [Base EXCEPT !.operations = Throwing],
    [Base EXCEPT !.object = "racy"],
    [Base EXCEPT !.perThread = 1, !.clock = "rdtsc", !.after = 1],
    [Base EXCEPT !.clock = "rdtsc", !.operations = <<Op("inc")>>],
    [Base EXCEPT !.threads = 3, !.perThread = 1, !.object = "racy"],
    [Base EXCEPT !.perThread = 1, !.before = 1, !.after = 1, !.invocations = 2,
                 !.operations = Throwing, !.invalid = {2}]}

Timed == {
    [Base EXCEPT !.perThread = 1, !.before = 1, !.after = 1, !.timeout = TRUE, !.operations = Throwing],
    [Base EXCEPT !.timeout = TRUE, !.operations = Unexpected],
    [Base EXCEPT !.perThread = 1, !.object = "racy", !.timeout = TRUE, !.iterations = 2]}

\* One-shot operations, non-parallel operations alone and in a group that shares a key
OneShot == [Op("inc") EXCEPT !.oneShot = TRUE]
Alone == [Op("get") EXCEPT !.nonParallel = TRUE]
Grouped == [Op("inc") EXCEPT !.nonParallel = TRUE, !.group = "writers"]
GroupedOnce == [Op("dec") EXCEPT !.nonParallel = TRUE, !.oneShot = TRUE, !.group = "writers"]

Generated == {
    [Base EXCEPT !.threads = 3, !.before = 1, !.after = 1, !.invocations = 0, !.iterations = 1,
                 !.operations = <<OneShot, Alone, Grouped, GroupedOnce>>],
    [Base EXCEPT !.before = 1, !.after = 1, !.invocations = 0, !.iterations = 2,
                 !.operations = <<OneShot, GroupedOnce, Alone>>],
    [Base EXCEPT !.before = 1, !.perThread = 1, !.operations = <<OneShot>>]}

MCConfigs == Verified \cup Timed \cup Generated
=============================================================================
