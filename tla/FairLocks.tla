----------------------------- MODULE FairLocks -----------------------------
(***************************************************************************)
(* What the managed locks promise, without the scheduler that keeps the    *)
(* promise: recursive reader-writer locks whose last holder hands the lock *)
(* over as it leaves, to the writer that has waited longest, or else to    *)
(* every waiting reader at once.  A waiter may give up at any time, even   *)
(* while other locks change.                                               *)
(***************************************************************************)
EXTENDS Integers, Sequences, SequencesExt

CONSTANTS Threads, Locks, NoThread

VARIABLES
    owner, depth,   \* the writer of each lock and how often it holds it
    shared,         \* how often each thread holds it as a reader
    writers,        \* who waits to write, in order
    readers         \* who waits to read

fairVars == <<owner, depth, shared, writers, readers>>

Init ==
    /\ owner = [l \in Locks |-> NoThread]
    /\ depth = [l \in Locks |-> 0]
    /\ shared = [l \in Locks |-> [t \in Threads |-> 0]]
    /\ writers = [l \in Locks |-> <<>>]
    /\ readers = [l \in Locks |-> <<>>]

HeldAs(l, o, d, s) == owner'[l] = o /\ depth'[l] = d /\ shared'[l] = s

\* r is the queue s, but that one thread may have given up
GivenUp(s, r) == r = s \/ \E i \in DOMAIN s : r = RemoveAt(s, i)

\* t waits in queue s; it is not queued twice
Queued(s, t) == IF t \in ToSet(s) THEN s ELSE Append(s, t)

MayWrite(l, t) == owner[l] = t \/ (owner[l] = NoThread /\ \A u \in Threads : shared[l][u] = 0)

\* At most a waiter gives up
Rest(l) ==
    /\ HeldAs(l, owner[l], depth[l], shared[l])
    /\ GivenUp(writers[l], writers'[l]) /\ GivenUp(readers[l], readers'[l])

Write(l, t) ==
    /\ MayWrite(l, t)
    /\ HeldAs(l, t, depth[l] + 1, shared[l])
    /\ writers'[l] = writers[l] /\ readers'[l] = readers[l]

Read(l, t) ==
    /\ owner[l] = NoThread
    /\ HeldAs(l, owner[l], depth[l], [shared[l] EXCEPT ![t] = shared[l][t] + 1])
    /\ writers'[l] = writers[l] /\ readers'[l] = readers[l]

\* t may not write now: it queues, and somebody may give up
WaitToWrite(l, t) ==
    /\ ~MayWrite(l, t)
    /\ HeldAs(l, owner[l], depth[l], shared[l])
    /\ GivenUp(Queued(writers[l], t), writers'[l]) /\ GivenUp(readers[l], readers'[l])

WaitToRead(l, t) ==
    /\ owner[l] # NoThread
    /\ HeldAs(l, owner[l], depth[l], shared[l])
    /\ GivenUp(writers[l], writers'[l]) /\ GivenUp(Queued(readers[l], t), readers'[l])

\* The lock is free, s being its readers: the first writer or all readers have it at once
HandOver(l, s) ==
    \/ /\ writers[l] # <<>>
       /\ HeldAs(l, Head(writers[l]), 1, s)
       /\ GivenUp(Tail(writers[l]), writers'[l]) /\ GivenUp(readers[l], readers'[l])
    \/ /\ writers[l] = <<>>
       /\ HeldAs(l, NoThread, 0, [u \in Threads |-> IF u \in ToSet(readers[l]) THEN s[u] + 1 ELSE s[u]])
       /\ writers'[l] = <<>> /\ readers'[l] = <<>>

EndWrite(l, t) ==
    /\ owner[l] = t
    /\ \/ /\ depth[l] > 1
          /\ HeldAs(l, t, depth[l] - 1, shared[l])
          /\ writers'[l] = writers[l] /\ readers'[l] = readers[l]
       \/ /\ depth[l] = 1
          /\ HandOver(l, shared[l])

EndRead(l, t) ==
    LET s == [shared[l] EXCEPT ![t] = shared[l][t] - 1]
    IN  /\ shared[l][t] > 0
        /\ \/ /\ owner[l] # NoThread \/ \E u \in Threads : s[u] > 0
              /\ HeldAs(l, owner[l], depth[l], s)
              /\ writers'[l] = writers[l] /\ readers'[l] = readers[l]
           \/ /\ owner[l] = NoThread /\ \A u \in Threads : s[u] = 0
              /\ HandOver(l, s)

Move(l) ==
    \/ Rest(l)
    \/ \E t \in Threads : \/ Write(l, t) \/ Read(l, t)
                          \/ WaitToWrite(l, t) \/ WaitToRead(l, t)
                          \/ EndWrite(l, t) \/ EndRead(l, t)

Next == \A l \in Locks : Move(l)

Spec == Init /\ [][Next]_fairVars
=============================================================================
