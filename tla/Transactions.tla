---------------------------- MODULE Transactions ----------------------------
(***************************************************************************)
(* Threads that run transactions over an STM which reports to lincheck     *)
(* through the hooks of lincheck::stm, and the judgement of what the hooks *)
(* recorded: build_stm_opacity_history, then verify_stm_opacity.           *)
(*                                                                         *)
(* The hooks, the transaction context of a thread, the location handles    *)
(* and the judgement are lincheck's.  The STM is external: every thread    *)
(* follows a script; reads go to memory, writes are buffered and published *)
(* before the commit is reported.  A "validating" STM checks at each read  *)
(* and before publishing that what it read is still there, a "careless"    *)
(* one never does.  A hook is also a switch point: a step is what a thread *)
(* does from one hook to the next.                                         *)
(***************************************************************************)
EXTENDS Integers, Sequences, FiniteSets

CONSTANTS
    Threads, Addresses,
    Values,     \* of the fields
    Scenarios,  \* [backend, identity, policy, limit, scripts, recorded, truth]
    MaxAttempts,
    None

ASSUME MaxAttemptsAssumption == MaxAttempts \in Nat \ {0}

VARIABLES
    scenario,   \* [backend, identity, policy, limit, scripts, recorded, truth]
    context,    \* transaction_context of each thread
    registry,   \* BackendLocationRegistry: token -> [active, generation]
    lifetimes,  \* how many object lifetime ids were drawn
    events,     \* the recorded STM events
    memory,     \* the STM: the fields, by address
    attempt,    \* the STM: what each thread's transaction holds
    pc,         \* next script entry of each thread
    truth,      \* what really happened: [initial, transactions], by field incarnation
    misuse      \* what the scripts did wrong: "dead" fields used, transactions "nested"

vars == <<scenario, context, registry, lifetimes, events, memory, attempt, pc, truth,
          misuse>>

Builder == INSTANCE OpacityHistory

NoContext == [next |-> 1, current |-> None, lastAborted |-> None, depth |-> 0]

NoAttempt == [state |-> "idle", reads |-> <<>>, writes |-> <<>>, tries |-> 0, start |-> 0]

-----------------------------------------------------------------------------
(* The handle of a field, for each way of naming it *)

\* The registry entry of a token once get_or_create_location has run
Registered(token) == [registry EXCEPT ![token].active = TRUE]

\* The registry entry of a token once destroy_location has run
Unregistered(token) == [registry EXCEPT ![token] = [active |-> FALSE, generation |-> @.generation + 1]]

HandleOf(address, fields) ==
    CASE scenario.identity = "raw" -> None
      [] scenario.identity = "registry" -> <<"backend", address, registry[address].generation>>
      [] scenario.identity = "lifetime" -> <<"objlife", fields[address].lifetime>>

\* Any access to a field through the registry finds or makes its location
Locate(address) ==
    registry' = IF scenario.identity = "registry" THEN Registered(address) ELSE registry

-----------------------------------------------------------------------------
(* The hooks.  An event carries the context's transaction; the context is  *)
(* cleared after the event.                                                *)

Record(kind, t, tx, address, handle, value) ==
    events' = Append(events, [kind |-> kind, thread |-> t, tx |-> tx, address |-> address,
                              handle |-> handle, value |-> value])

LocationHook(kind, t, address, fields, value) ==
    Record(kind, t, context[t].current, address, HandleOf(address, fields), value)

TransactionHook(kind, t, tx) == Record(kind, t, tx, None, None, None)

ContextAtBegin(c) ==
    IF c.current = None
    THEN [next |-> c.next + 1, current |-> c.next, lastAborted |-> None, depth |-> 1]
    ELSE [c EXCEPT !.depth = @ + 1, !.lastAborted = None]

HookBegin(t) ==
    LET entered == ContextAtBegin(context[t])
    IN  /\ context' = [context EXCEPT ![t] = entered]
        /\ TransactionHook("tx_begin", t, entered.current)

ContextAtCommit(c) ==
    IF c.depth > 1 THEN [c EXCEPT !.depth = @ - 1]
    ELSE [c EXCEPT !.current = None, !.depth = 0]

HookCommit(t) ==
    /\ TransactionHook("tx_commit_success", t, context[t].current)
    /\ context' = [context EXCEPT ![t] = ContextAtCommit(@)]

\* Seeded bug: an abort leaves the transaction current
ContextKeptAtAbort(c) == [c EXCEPT !.lastAborted = c.current]

ContextAtAbort(c) == [c EXCEPT !.lastAborted = c.current, !.current = None, !.depth = 0]

HookAbort(t) ==
    /\ TransactionHook("tx_abort", t, context[t].current)
    /\ context' = [context EXCEPT ![t] = ContextAtAbort(@)]

HookRetry(t) ==
    LET c == context[t]
    IN  /\ TransactionHook("tx_retry", t, IF c.current # None THEN c.current ELSE c.lastAborted)
        /\ context' = [context EXCEPT ![t].lastAborted = None]

-----------------------------------------------------------------------------
(* The STM *)

At(t, op) == /\ pc[t] <= Len(scenario.scripts[t])
             /\ scenario.scripts[t][pc[t]].op = op

Entry(t) == scenario.scripts[t][pc[t]]

Advance(t) == pc' = [pc EXCEPT ![t] = @ + 1]

Consistent(t) == \A a \in DOMAIN attempt[t].reads :
                    memory[a].alive /\ memory[a].value = attempt[t].reads[a]

MayGoOn(t) == scenario.backend = "careless" \/ Consistent(t)

\* The transaction of t that has not ended
Current(t) == CHOOSE i \in DOMAIN truth.transactions :
                truth.transactions[i].thread = t /\ truth.transactions[i].outcome = "live"

Did(t, write, address, value) ==
    truth' = [truth EXCEPT !.transactions[Current(t)].accesses = Append(@,
                 [write |-> write, loc |-> <<address, memory[address].incarnation>>,
                  value |-> value])]

Ended(t, outcome) ==
    truth' = [truth EXCEPT !.transactions[Current(t)].outcome = outcome,
                           !.transactions[Current(t)].end = Len(events) + 1]

\* Some transaction still holds the field
UsedByOne(a) == \E u \in Threads : a \in DOMAIN attempt[u].reads \cup DOMAIN attempt[u].writes

Misuse(kind, condition) == misuse' = IF condition THEN misuse \cup {kind} ELSE misuse

\* A begin inside a transaction nests: the context counts it, the STM merges it
BeginTransaction(t) ==
    LET nested == attempt[t].state = "running"
    IN  /\ At(t, "begin")
        /\ HookBegin(t)
        /\ Advance(t)
        /\ Misuse("nested", nested)
        /\ IF nested THEN UNCHANGED <<attempt, truth>>
           ELSE /\ attempt' = [attempt EXCEPT ![t] = [@ EXCEPT !.state = "running", !.start = pc[t]]]
                /\ truth' = [truth EXCEPT !.transactions = Append(@,
                    [thread |-> t, begin |-> Len(events) + 1, end |-> 0, outcome |-> "live",
                     accesses |-> <<>>])]
        /\ UNCHANGED <<scenario, registry, lifetimes, memory>>

ReadField(t) ==
    LET a == Entry(t).address
        value == IF a \in DOMAIN attempt[t].writes THEN attempt[t].writes[a] ELSE memory[a].value
    IN  /\ At(t, "read")
        /\ attempt[t].state = "running" /\ MayGoOn(t)
        /\ LocationHook("tx_read", t, a, memory, value)
        /\ Locate(a)
        /\ Did(t, FALSE, a, value)
        /\ attempt' = IF a \in DOMAIN attempt[t].writes THEN attempt
                      ELSE [attempt EXCEPT ![t].reads = Builder!Put(@, a, value)]
        /\ Advance(t)
        /\ Misuse("dead", ~ memory[a].alive)
        /\ UNCHANGED <<scenario, context, lifetimes, memory>>

WriteField(t) ==
    LET a == Entry(t).address IN
    /\ At(t, "write")
    /\ attempt[t].state = "running"
    /\ LocationHook("tx_write", t, a, memory, Entry(t).value)
    /\ Locate(a)
    /\ Did(t, TRUE, a, Entry(t).value)
    /\ attempt' = [attempt EXCEPT ![t].writes = Builder!Put(@, a, Entry(t).value)]
    /\ Advance(t)
    /\ Misuse("dead", ~ memory[a].alive)
    /\ UNCHANGED <<scenario, context, lifetimes, memory>>

Publish(t) ==
    /\ At(t, "commit")
    /\ attempt[t].state = "running" /\ MayGoOn(t)
    /\ memory' = [a \in Addresses |->
                    IF a \in DOMAIN attempt[t].writes
                    THEN [memory[a] EXCEPT !.value = attempt[t].writes[a]] ELSE memory[a]]
    /\ attempt' = [attempt EXCEPT ![t].state = "published"]
    /\ UNCHANGED <<scenario, context, registry, lifetimes, events, pc, truth, misuse>>

CommitSuccess(t) ==
    /\ At(t, "commit")
    /\ attempt[t].state = "published"
    /\ HookCommit(t)
    /\ Ended(t, "committed")
    /\ attempt' = [attempt EXCEPT ![t] = NoAttempt]
    /\ Advance(t)
    /\ UNCHANGED <<scenario, registry, lifetimes, memory, misuse>>

\* The STM aborts what it cannot go on with, and what the script gives up
AbortTransaction(t) ==
    /\ attempt[t].state = "running"
    /\ \/ At(t, "abort")
       \/ At(t, "read") /\ ~ MayGoOn(t)
       \/ At(t, "commit") /\ ~ MayGoOn(t)
    /\ HookAbort(t)
    /\ Ended(t, "aborted")
    /\ attempt' = [attempt EXCEPT ![t] = [NoAttempt EXCEPT !.state = "aborted", !.tries = attempt[t].tries + 1,
                                                           !.start = attempt[t].start]]
    /\ UNCHANGED <<scenario, registry, lifetimes, memory, pc, misuse>>

\* A last attempt is not retried: the thread is done
RetryTransaction(t) ==
    LET again == attempt[t].tries < MaxAttempts
    IN  /\ attempt[t].state = "aborted"
        /\ attempt' = [attempt EXCEPT ![t].state = "idle"]
        /\ pc' = [pc EXCEPT ![t] = IF again THEN attempt[t].start ELSE Len(scenario.scripts[t]) + 1]
        /\ IF again THEN HookRetry(t) ELSE UNCHANGED <<context, events>>
        /\ UNCHANGED <<scenario, registry, lifetimes, memory, truth, misuse>>

\* A field is made at an address, perhaps where another one was
ConstructField(t) ==
    LET a == Entry(t).address
        made == [memory EXCEPT ![a] = [alive |-> TRUE, value |-> Entry(t).value,
                    incarnation |-> @.incarnation + 1, lifetime |-> <<a, lifetimes + 1>>]]
    IN  /\ At(t, "construct")
        /\ ~ memory[a].alive
        /\ memory' = made
        /\ lifetimes' = lifetimes + 1
        /\ LocationHook("tx_location_init", t, a, made, Entry(t).value)
        /\ Locate(a)
        /\ Advance(t)
        /\ Misuse("dead", UsedByOne(a))
        /\ truth' = [truth EXCEPT !.initial = Builder!Put(@, <<a, made[a].incarnation>>, Entry(t).value)]
        /\ UNCHANGED <<scenario, context, attempt>>

\* The adapter reports a destroy only for a location its registry knows
DestroyField(t) ==
    LET a == Entry(t).address
        known == scenario.identity = "registry" => registry[a].active
    IN  /\ At(t, "destroy")
        /\ memory[a].alive
        /\ memory' = [memory EXCEPT ![a].alive = FALSE]
        /\ registry' = IF scenario.identity = "registry" /\ known THEN Unregistered(a) ELSE registry
        /\ IF known THEN LocationHook("tx_location_destroy", t, a, memory, None) ELSE UNCHANGED events
        /\ Advance(t)
        /\ Misuse("dead", UsedByOne(a))
        /\ UNCHANGED <<scenario, context, lifetimes, attempt, truth>>

-----------------------------------------------------------------------------

\* The fields exist when the threads start; some operation may have named them
Init ==
    /\ scenario \in Scenarios
    /\ context = [t \in Threads |-> NoContext]
    /\ registry = [a \in Addresses |-> [active |-> scenario.recorded # <<>>, generation |-> 0]]
    /\ memory = [a \in Addresses |-> [alive |-> TRUE, value |-> 0, incarnation |-> 0, lifetime |-> <<a, 0>>]]
    /\ lifetimes = 0
    /\ events = scenario.recorded
    /\ attempt = [t \in Threads |-> NoAttempt]
    /\ pc = [t \in Threads |-> 1]
    /\ truth = scenario.truth
    /\ misuse = {}

Next ==
    \E t \in Threads :
        \/ BeginTransaction(t) \/ ReadField(t) \/ WriteField(t) \/ Publish(t) \/ CommitSuccess(t)
        \/ AbortTransaction(t) \/ RetryTransaction(t) \/ ConstructField(t) \/ DestroyField(t)

Spec == Init /\ [][Next]_vars

-----------------------------------------------------------------------------
(* What the records are worth, at any moment                               *)

\* build_stm_opacity_history, were it called now
History == Builder!BuildHistory(events, scenario.policy)

\* No field was used after its destroy, no ignored anomaly counted
Unambiguous(history) == history.status = "ok" /\ history.anomalies = 0 /\ "dead" \notin misuse

\* The accesses of what happened, each with the recorded access it became
Pairs(did, built) ==
    UNION {{<<did[i].accesses[k], built[i].accesses[k]>> : k \in DOMAIN did[i].accesses} : i \in DOMAIN did}

Faithful(did, built) ==
    /\ Len(did) = Len(built)
    /\ \A i \in DOMAIN did :
         /\ \A f \in {"thread", "begin", "end", "outcome"} : did[i][f] = built[i][f]
         /\ Len(did[i].accesses) = Len(built[i].accesses)
    /\ \A p \in Pairs(did, built) : p[1].write = p[2].write /\ p[1].value = p[2].value
    /\ \A p, q \in Pairs(did, built) : p[1].loc = q[1].loc => p[2].loc = q[2].loc

Separate(did, built) == \A p, q \in Pairs(did, built) : p[2].loc = q[2].loc => p[1].loc = q[1].loc

-----------------------------------------------------------------------------
(* What a scenario may be                                                  *)

ScriptEntryType ==
    [op : {"begin", "commit", "abort"}]
    \cup [op : {"read", "destroy"}, address : Addresses]
    \cup [op : {"write", "construct"}, address : Addresses, value : Values]

HandleType == ({"backend"} \X Addresses \X Nat) \cup ({"objlife"} \X (Addresses \X Nat))

EventType ==
    [kind : {"tx_location_register", "tx_location_init", "tx_location_destroy", "tx_begin", "tx_read",
             "tx_write", "tx_commit_success", "tx_abort", "tx_retry", "tx_attempt_metadata"},
     thread : Threads, tx : Nat \cup {None}, address : Addresses \cup {None},
     handle : HandleType \cup {None}, value : Values \cup {None}]

DidType ==
    [thread : Threads, begin : Nat, end : Nat, outcome : {"live", "committed", "aborted"},
     accesses : Seq([write : BOOLEAN, loc : Addresses \X Nat, value : Values])]

\* The handle of a field that was there from the start
FirstHandle(identity, address) ==
    CASE identity = "raw" -> None
      [] identity = "registry" -> <<"backend", address, 0>>
      [] identity = "lifetime" -> <<"objlife", <<address, 0>>>>

\* Before the scripts start, fields were named and nothing else happened
OnlyNamed(s) ==
    /\ s.truth.transactions = <<>>
    /\ s.truth.initial = [field \in Addresses \X {0} |-> 0]
    /\ \A i \in DOMAIN s.recorded : \E t \in Threads, a \in Addresses :
          s.recorded[i] = [kind |-> "tx_location_init", thread |-> t, tx |-> None, address |-> a,
                           handle |-> FirstHandle(s.identity, a), value |-> 0]

ASSUME NoneAssumption == None \notin Nat \cup HandleType

ASSUME ScenariosAssumption ==
    /\ 0 \in Values
    /\ \A s \in Scenarios :
          /\ s.backend \in {"validating", "careless"}
          /\ s.identity \in {"raw", "registry", "lifetime"}
          /\ s.policy \in {"value_history_only", "strict_lifetimes"}
          /\ s.limit \in Nat
          /\ s.scripts \in [Threads -> Seq(ScriptEntryType)]
          /\ s.recorded \in Seq(EventType)
          /\ s.truth = [initial |-> s.truth.initial, transactions |-> s.truth.transactions]
          /\ s.truth.transactions \in Seq(DidType)

-----------------------------------------------------------------------------

\* What the hooks of all threads recorded is, transaction by transaction, what
\* the threads did: attempts are not merged, split or swapped, none loses an
\* access, and a field stays one location (stm_event, build_stm_opacity_history).
HistoryIsTruth ==
    \A history \in {History} :
        Unambiguous(history) => Faithful(truth.transactions, history.transactions)

\* Two fields that followed each other at one address are never taken for one
\* location, unless the builder counted an ignored anomaly
\* (BackendLocationRegistry, next_generation_by_address, lifetime_policy).
LifetimesKeptApart ==
    \A history \in {History} :
        Unambiguous(history) => Separate(truth.transactions, history.transactions)
=============================================================================
