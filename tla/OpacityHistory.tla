--------------------------- MODULE OpacityHistory ---------------------------
(***************************************************************************)
(* build_stm_opacity_history: the recorded STM events of a run become a    *)
(* history that Opacity judges, or are refused as malformed.               *)
(*                                                                         *)
(* An event is [kind, thread, tx, address, handle, value]; its index is    *)
(* its place in the sequence.  None stands for a missing transaction,      *)
(* address, handle or (usable) value.  A location is named by its explicit *)
(* handle, or by its raw address and a generation.  Labels, type names and *)
(* samples are left out; of the metadata of a handle only its address is   *)
(* kept.                                                                   *)
(***************************************************************************)
EXTENDS Integers, Sequences, FiniteSets

CONSTANT None

\* f with value at x
Put(f, x, value) == [y \in DOMAIN f \cup {x} |-> IF y = x THEN value ELSE f[y]]

EmptyBuilder(policy) ==
    [strict |-> policy = "strict_lifetimes", error |-> FALSE, anomalies |-> 0,
     transactions |-> <<>>,
     initial |-> <<>>,      \* location -> initial value
     raw |-> <<>>,          \* address -> its active raw location
     generation |-> <<>>,   \* address -> generation of its next raw location
     ignored |-> {},        \* raw addresses whose destroy was ignored
     explicit |-> <<>>,     \* active handle -> its address
     destroyed |-> {},      \* handles whose lifetime ended
     explicitSeen |-> {}]   \* addresses that ever had a handle

Fail(b) == [b EXCEPT !.error = TRUE]

\* What strict lifetimes refuse, value histories count and ignore
LifetimeAnomaly(b, occurred) ==
    IF ~ occurred THEN b
    ELSE IF b.strict THEN Fail(b) ELSE [b EXCEPT !.anomalies = @ + 1]

Live(b) == {i \in DOMAIN b.transactions : b.transactions[i].outcome = "live"}

\* The transactions of the event: at most one
FindTx(b, event) ==
    {i \in DOMAIN b.transactions : /\ event.tx # None
                                   /\ b.transactions[i].thread = event.thread
                                   /\ b.transactions[i].tx = event.tx}

Generation(b, address) ==
    IF address \in DOMAIN b.generation THEN b.generation[address] ELSE 0

-----------------------------------------------------------------------------
(* The location an event is about *)

EnsureActiveLocation(b, address) ==
    LET overlapping == LifetimeAnomaly(b, \E h \in DOMAIN b.explicit : b.explicit[h] = address)
        mixed == LifetimeAnomaly(overlapping, Live(b) # {} /\ address \in b.explicitSeen)
        generation == IF b.strict THEN Generation(b, address) ELSE 0
    IN  IF address \in DOMAIN b.raw THEN mixed
        ELSE IF generation > 0 /\ Live(b) # {} THEN Fail(mixed)
        ELSE [mixed EXCEPT !.raw = Put(@, address, <<address, generation>>)]

EnsureExplicitLocation(b, event) ==
    LET h == event.handle
        known == IF h \in DOMAIN b.explicit THEN b.explicit[h] ELSE None
        address == IF event.address = None THEN known ELSE event.address
        overlapping == LifetimeAnomaly(b, address # None /\ address \in DOMAIN b.raw)
    IN  IF h \in b.destroyed \/ known \notin {None, address} THEN Fail(b)
        ELSE [overlapping EXCEPT !.explicit = Put(@, h, address),
                                 !.explicitSeen = @ \cup ({address} \ {None})]

\* An event that brings a raw address back to life after an ignored destroy
ReviveRaw(b, address) ==
    [LifetimeAnomaly(b, ~ b.strict /\ address \in b.ignored) EXCEPT !.ignored = @ \ {address}]

EnsureLocation(b, event) ==
    IF event.handle # None THEN EnsureExplicitLocation(b, event)
    ELSE IF event.address = None THEN Fail(b)
    ELSE EnsureActiveLocation(ReviveRaw(b, event.address), event.address)

LocationOf(b, event) ==
    IF event.handle # None THEN event.handle ELSE b.raw[event.address]

-----------------------------------------------------------------------------
(* The events *)

LocationInit(b, event) ==
    LET ensured == EnsureLocation(b, event)
        location == LocationOf(ensured, event)
        conflicting == location \in DOMAIN ensured.initial /\ ensured.initial[location] # event.value
    IN  IF event.value = None \/ ensured.error THEN Fail(b)
        ELSE IF ~ conflicting THEN [ensured EXCEPT !.initial = Put(@, location, event.value)]
        ELSE IF event.handle # None THEN Fail(b)
        ELSE LifetimeAnomaly(ensured, TRUE)

DestroyExplicit(b, event) ==
    LET h == event.handle
    IN  IF \/ h \notin DOMAIN b.explicit
           \/ event.address # None /\ b.explicit[h] \notin {None, event.address}
        THEN Fail(b)
        ELSE [b EXCEPT !.explicit = [other \in DOMAIN @ \ {h} |-> @[other]],
                       !.destroyed = @ \cup {h}]

\* Seeded bug: the next location at the address gets the same generation
DestroyRawInPlace(b, address) ==
    [b EXCEPT !.raw = [other \in DOMAIN @ \ {address} |-> @[other]]]

DestroyRaw(b, address) ==
    LET active == address \in DOMAIN b.raw
        checked == LifetimeAnomaly(b, ~ active \/ Live(b) # {})
    IN  IF b.strict /\ active
        THEN [checked EXCEPT !.raw = [other \in DOMAIN @ \ {address} |-> @[other]],
                             !.generation = Put(@, address, b.raw[address][2] + 1)]
        ELSE [checked EXCEPT !.ignored = @ \cup {address}]

LocationDestroy(b, event) ==
    IF event.handle # None THEN DestroyExplicit(b, event)
    ELSE IF event.address = None THEN Fail(b)
    ELSE DestroyRaw(b, event.address)

Begin(b, event, index) ==
    IF event.tx = None \/ FindTx(b, event) # {} THEN Fail(b)
    ELSE [b EXCEPT !.transactions = Append(@,
            [thread |-> event.thread, tx |-> event.tx, begin |-> index, end |-> 0,
             outcome |-> "live", accesses |-> <<>>])]

\* A raw access reuses the active location whatever handles its address has
AccessedRaw(b, address) ==
    LET active == address \in DOMAIN b.raw
        afterDestroy == LifetimeAnomaly(b, address \in b.ignored)
        destroyed == LifetimeAnomaly(afterDestroy, ~ active /\ Generation(b, address) > 0)
    IN  IF active THEN destroyed ELSE EnsureActiveLocation(destroyed, address)

\* Seeded bug: the access goes to the transaction that began last
AccessOfNewest(b, event) ==
    LET located == IF event.handle # None THEN EnsureExplicitLocation(b, event)
                   ELSE AccessedRaw(b, event.address)
        access == [write |-> event.kind = "tx_write", loc |-> LocationOf(located, event),
                   value |-> event.value]
    IN  [located EXCEPT !.transactions[Len(located.transactions)].accesses = Append(@, access)]

WithAccess(transactions, found, access) ==
    [i \in DOMAIN transactions |->
        IF i \in found THEN [transactions[i] EXCEPT !.accesses = Append(@, access)] ELSE transactions[i]]

Access(b, event) ==
    LET located == IF event.handle # None THEN EnsureExplicitLocation(b, event)
                   ELSE IF event.address = None THEN Fail(b)
                   ELSE AccessedRaw(b, event.address)
        access == [write |-> event.kind = "tx_write", loc |-> LocationOf(located, event),
                   value |-> event.value]
    IN  IF FindTx(b, event) = {} \/ event.value = None \/ located.error THEN Fail(b)
        ELSE [located EXCEPT !.transactions = WithAccess(@, FindTx(b, event), access)]

WithEnd(transactions, found, outcome, index) ==
    [i \in DOMAIN transactions |->
        IF i \in found THEN [transactions[i] EXCEPT !.outcome = outcome, !.end = index] ELSE transactions[i]]

End(b, event, index) ==
    LET ended == FindTx(b, event) \cap Live(b)
        outcome == IF event.kind = "tx_abort" THEN "aborted" ELSE "committed"
    IN  IF ended = {} THEN Fail(b) ELSE [b EXCEPT !.transactions = WithEnd(@, ended, outcome, index)]

Retry(b, event) ==
    IF event.tx = None \/ \E i \in FindTx(b, event) : b.transactions[i].outcome = "aborted"
    THEN b ELSE Fail(b)

AttemptMetadata(b, event) == IF FindTx(b, event) = {} THEN Fail(b) ELSE b

BuildStep(b, event, index) ==
    IF b.error THEN b
    ELSE CASE event.kind = "tx_location_register" -> EnsureLocation(b, event)
           [] event.kind = "tx_location_init" -> LocationInit(b, event)
           [] event.kind = "tx_location_destroy" -> LocationDestroy(b, event)
           [] event.kind = "tx_begin" -> Begin(b, event, index)
           [] event.kind = "tx_attempt_metadata" -> AttemptMetadata(b, event)
           [] event.kind \in {"tx_read", "tx_write"} -> Access(b, event)
           [] event.kind \in {"tx_commit_success", "tx_abort"} -> End(b, event, index)
           [] event.kind = "tx_retry" -> Retry(b, event)
           [] OTHER -> b

\* What has become of the builder after these events
Built(events, policy) ==
    LET built[n \in 0..Len(events)] ==
            IF n = 0 THEN EmptyBuilder(policy) ELSE BuildStep(built[n - 1], events[n], n)
    IN  built[Len(events)]

Accessed(transactions) ==
    UNION {{transactions[i].accesses[k].loc : k \in DOMAIN transactions[i].accesses}
              : i \in DOMAIN transactions}

\* Every access needs a location whose initial value is known
Finished(built) ==
    [status |-> IF built.error \/ ~ Accessed(built.transactions) \subseteq DOMAIN built.initial
                THEN "malformed_history" ELSE "ok",
     initial |-> built.initial, transactions |-> built.transactions,
     anomalies |-> built.anomalies]

BuildHistory(events, policy) == Finished(Built(events, policy))
=============================================================================
