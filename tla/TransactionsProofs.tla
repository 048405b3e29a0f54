------------------------ MODULE TransactionsProofs ------------------------
(***************************************************************************)
(* What the hooks record of the transactions of any number of threads is,  *)
(* once build_stm_opacity_history has read it, what the threads did, and   *)
(* the verdict on it is the verdict on what they did.                      *)
(***************************************************************************)
EXTENDS OpacityCheck, OpacityProofs

-----------------------------------------------------------------------------
(* The loop of build_stm_opacity_history                                   *)

\* f is what the builder is after each of the first n events
Loop(f, n, evs, policy) ==
    /\ f = [i \in 0 .. n |-> f[i]]
    /\ f[0] = Builder!EmptyBuilder(policy)
    /\ \A i \in 1 .. n : f[i] = Builder!BuildStep(f[i - 1], evs[i], i)

LEMMA LoopExists ==
    ASSUME NEW n \in Nat, NEW evs, NEW policy
    PROVE  \E f : Loop(f, n, evs, policy)
<1> DEFINE T == {m \in 0 .. n : \E f : Loop(f, m, evs, policy)}
<1>1. 0 \in T
  <2>1. PICK f : f = [i \in 0 .. 0 |-> Builder!EmptyBuilder(policy)]
    OBVIOUS
  <2>2. f = [i \in 0 .. 0 |-> f[i]] /\ f[0] = Builder!EmptyBuilder(policy) /\ 1 .. 0 = {}
    BY <2>1
  <2>3. Loop(f, 0, evs, policy)
    BY <2>2 DEF Loop
  <2>4. QED
    BY <2>3
<1>2. ASSUME NEW m \in 1 .. n, m - 1 \in T PROVE m \in T
  <2>1. PICK f : Loop(f, m - 1, evs, policy)
    BY <1>2
  <2>2. PICK step : step = Builder!BuildStep(f[m - 1], evs[m], m)
    OBVIOUS
  <2>3. PICK g : g = [i \in 0 .. m |-> IF i = m THEN step ELSE f[i]]
    OBVIOUS
  <2>4. g = [i \in 0 .. m |-> g[i]] /\ g[0] = f[0]
    BY <2>3
  <2>5. ASSUME NEW i \in 1 .. m PROVE g[i] = Builder!BuildStep(g[i - 1], evs[i], i)
    <3>1. CASE i = m
      <4>1. g[i] = step /\ g[i - 1] = f[m - 1]
        BY <2>3, <3>1
      <4>2. QED
        BY <2>2, <3>1, <4>1
    <3>2. CASE i # m
      <4>1. i \in 1 .. m - 1
        BY <3>2
      <4>2. g[i] = f[i] /\ g[i - 1] = f[i - 1]
        BY <2>3, <4>1
      <4>3. f[i] = Builder!BuildStep(f[i - 1], evs[i], i)
        BY <2>1, <4>1 DEF Loop
      <4>4. QED
        BY <4>2, <4>3
    <3>3. QED
      BY <3>1, <3>2
  <2>6. Loop(g, m, evs, policy)
    BY <2>1, <2>4, <2>5 DEF Loop
  <2>7. QED
    BY <2>6
<1>3. QED
  <2> HIDE DEF T
  <2>1. 0 .. n \subseteq T
    BY <1>1, <1>2, Climb
  <2>2. n \in T
    BY <2>1
  <2>3. QED
    BY <2>2 DEF T

\* Events that agree on the first n lead to the same builder
LEMMA LoopAgrees ==
    ASSUME NEW n \in Nat, NEW m \in Nat, n <= m, NEW evs, NEW more, NEW policy, NEW f, NEW g,
           Loop(f, n, evs, policy), Loop(g, m, more, policy), \A i \in 1 .. n : evs[i] = more[i]
    PROVE  \A i \in 0 .. n : f[i] = g[i]
<1> DEFINE T == {i \in 0 .. n : f[i] = g[i]}
<1>1. 0 \in T
  BY DEF Loop
<1>2. ASSUME NEW i \in 1 .. n, i - 1 \in T PROVE i \in T
  <2>0. i \in 1 .. m
    OBVIOUS
  <2>1. f[i] = Builder!BuildStep(f[i - 1], evs[i], i) /\ g[i] = Builder!BuildStep(g[i - 1], more[i], i)
    BY <2>0 DEF Loop
  <2>2. f[i - 1] = g[i - 1] /\ evs[i] = more[i]
    BY <1>2
  <2>3. QED
    BY <2>1, <2>2
<1>3. QED
  <2> HIDE DEF T
  <2>1. 0 .. n \subseteq T
    BY <1>1, <1>2, Climb
  <2>2. QED
    BY <2>1 DEF T

LEMMA BuiltIs ==
    ASSUME NEW S, NEW evs \in Seq(S), NEW policy, NEW f, Loop(f, Len(evs), evs, policy)
    PROVE  Builder!Built(evs, policy) = f[Len(evs)]
<1> DEFINE Is(h) == h = [n \in 0 .. Len(evs) |->
                          IF n = 0 THEN Builder!EmptyBuilder(policy)
                          ELSE Builder!BuildStep(h[n - 1], evs[n], n)]
<1>1. Len(evs) \in Nat
  OBVIOUS
<1>2. Is(f)
  BY <1>1 DEF Loop
<1>3. ASSUME NEW h, Is(h) PROVE Loop(h, Len(evs), evs, policy)
  <2>1. h = [n \in 0 .. Len(evs) |-> h[n]] /\ h[0] = Builder!EmptyBuilder(policy)
    BY <1>1, <1>3
  <2>2. \A i \in 1 .. Len(evs) : h[i] = Builder!BuildStep(h[i - 1], evs[i], i)
    BY <1>1, <1>3
  <2>3. QED
    BY <2>1, <2>2 DEF Loop
<1>4. Is(CHOOSE h : Is(h))
  BY <1>2
<1>5. PICK h : h = (CHOOSE x : Is(x)) /\ Is(h)
  BY <1>4
<1>6. Builder!Built(evs, policy) = h[Len(evs)]
  BY <1>5 DEF Builder!Built
<1>7. h[Len(evs)] = f[Len(evs)]
  <2> HIDE DEF Is
  <2>1. Loop(h, Len(evs), evs, policy)
    BY <1>3, <1>5
  <2>2. QED
    BY <1>1, <2>1, LoopAgrees
<1>8. QED
  BY <1>6, <1>7

LEMMA BuiltAppend ==
    ASSUME NEW S, NEW evs \in Seq(S), NEW e \in S, NEW policy
    PROVE  Builder!Built(Append(evs, e), policy)
             = Builder!BuildStep(Builder!Built(evs, policy), e, Len(evs) + 1)
<1>1. PICK more : more = Append(evs, e)
  OBVIOUS
<1>2. /\ more \in Seq(S) /\ Len(evs) \in Nat /\ Len(more) = Len(evs) + 1 /\ more[Len(evs) + 1] = e
      /\ \A i \in 1 .. Len(evs) : evs[i] = more[i]
      /\ Len(more) \in Nat /\ Len(evs) + 1 \in 1 .. Len(more) /\ Len(evs) <= Len(more)
  BY <1>1
<1>3. PICK f : Loop(f, Len(evs), evs, policy)
  BY <1>2, LoopExists
<1>4. PICK g : Loop(g, Len(more), more, policy)
  BY <1>2, LoopExists
<1>5. f[Len(evs)] = g[Len(evs)]
  BY <1>2, <1>3, <1>4, LoopAgrees
<1>6. g[Len(evs) + 1] = Builder!BuildStep(g[(Len(evs) + 1) - 1], more[Len(evs) + 1], Len(evs) + 1)
  BY <1>2, <1>4 DEF Loop
<1>7. (Len(evs) + 1) - 1 = Len(evs)
  BY <1>2
<1>8. Builder!Built(evs, policy) = f[Len(evs)] /\ Builder!Built(more, policy) = g[Len(more)]
  BY <1>2, <1>3, <1>4, BuiltIs
<1>9. QED
  BY <1>1, <1>2, <1>5, <1>6, <1>7, <1>8
-----------------------------------------------------------------------------
(* What a step of the builder does as long as it refuses nothing           *)

BuilderFields == {"strict", "error", "anomalies", "transactions", "initial", "raw", "generation",
                  "ignored", "explicit", "destroyed", "explicitSeen"}

IsBuilder(b) ==
    /\ b = [f \in BuilderFields |-> b[f]]
    /\ b.strict \in BOOLEAN /\ b.error \in BOOLEAN /\ b.anomalies \in Nat

\* No event was refused, no anomaly counted
Clean(b) == ~ b.error /\ b.anomalies = 0

\* r is what is left of b: a step that went wrong leaves no clean builder
Leads(b, r) == IsBuilder(r) /\ r.strict = b.strict /\ (Clean(r) => Clean(b))

LEMMA FailFacts ==
    ASSUME NEW b, IsBuilder(b)
    PROVE  Leads(b, Builder!Fail(b)) /\ ~ Clean(Builder!Fail(b))
BY DEF Leads, IsBuilder, BuilderFields, Clean, Builder!Fail

LEMMA AnomalyFacts ==
    ASSUME NEW b, IsBuilder(b), NEW occurred \in BOOLEAN
    PROVE  /\ Leads(b, Builder!LifetimeAnomaly(b, occurred))
           /\ Clean(Builder!LifetimeAnomaly(b, occurred)) => ~ occurred
           /\ ~ occurred => Builder!LifetimeAnomaly(b, occurred) = b
<1>1. CASE ~ occurred
  BY <1>1 DEF Leads, Builder!LifetimeAnomaly
<1>2. CASE occurred /\ b.strict
  <2>1. Builder!LifetimeAnomaly(b, occurred) = Builder!Fail(b)
    BY <1>2 DEF Builder!LifetimeAnomaly
  <2>2. QED
    BY <1>2, <2>1, FailFacts
<1>3. CASE occurred /\ ~ b.strict
  <2>1. Builder!LifetimeAnomaly(b, occurred) = [b EXCEPT !.anomalies = @ + 1]
    BY <1>3 DEF Builder!LifetimeAnomaly
  <2>2. PICK r : r = Builder!LifetimeAnomaly(b, occurred)
    OBVIOUS
  <2>3. IsBuilder(r) /\ r.strict = b.strict /\ r.anomalies = b.anomalies + 1
    BY <2>1, <2>2 DEF IsBuilder, BuilderFields
  <2>4. ~ Clean(r)
    BY <2>3 DEF IsBuilder, Clean
  <2>5. QED
    BY <1>3, <2>2, <2>3, <2>4 DEF Leads
<1>4. QED
  BY <1>1, <1>2, <1>3

\* The generation a new raw location would get
NextGeneration(b, a) == IF b.strict THEN Builder!Generation(b, a) ELSE 0

\* r has the raw locations of b
Keeps(b, r) == r.raw = b.raw /\ r.generation = b.generation /\ r.ignored = b.ignored

\* r has the active raw location of a, that of b if there was one
Active(b, r, a) ==
    /\ r.generation = b.generation /\ r.ignored = b.ignored
    /\ r.raw = IF a \in DOMAIN b.raw THEN b.raw ELSE Builder!Put(b.raw, a, <<a, NextGeneration(b, a)>>)

\* The same, of an address whose destroy was not ignored
Uses(b, r, a) ==
    /\ r.generation = b.generation
    /\ ~ b.strict => a \notin b.ignored /\ r.ignored = b.ignored
    /\ r.raw = IF a \in DOMAIN b.raw THEN b.raw ELSE Builder!Put(b.raw, a, <<a, NextGeneration(b, a)>>)

LEMMA EnsureActiveFacts ==
    ASSUME NEW b, IsBuilder(b), NEW a, NEW r, r = Builder!EnsureActiveLocation(b, a)
    PROVE  Leads(b, r) /\ (Clean(r) => r.transactions = b.transactions /\ Active(b, r, a))
<1>1. PICK first \in BOOLEAN : first = \E h \in DOMAIN b.explicit : b.explicit[h] = a
  OBVIOUS
<1>2. PICK second \in BOOLEAN : second = (Builder!Live(b) # {} /\ a \in b.explicitSeen)
  OBVIOUS
<1>3. PICK c : c = Builder!LifetimeAnomaly(b, first)
  OBVIOUS
<1>4. PICK d : d = Builder!LifetimeAnomaly(c, second)
  OBVIOUS
<1>5. r = IF a \in DOMAIN b.raw THEN d
          ELSE IF NextGeneration(b, a) > 0 /\ Builder!Live(b) # {} THEN Builder!Fail(d)
          ELSE [d EXCEPT !.raw = Builder!Put(@, a, <<a, NextGeneration(b, a)>>)]
  BY <1>1, <1>2, <1>3, <1>4 DEF Builder!EnsureActiveLocation, NextGeneration
<1>6. Leads(b, c) /\ Leads(c, d) /\ Leads(b, d)
  BY <1>3, <1>4, AnomalyFacts DEF Leads
<1>7. Clean(d) => d = b
  BY <1>3, <1>4, <1>6, AnomalyFacts DEF Leads
<1>8. CASE a \in DOMAIN b.raw
  <2>1. r = d
    BY <1>5, <1>8
  <2>2. QED
    BY <1>6, <1>7, <1>8, <2>1 DEF Active
<1>9. CASE a \notin DOMAIN b.raw /\ NextGeneration(b, a) > 0 /\ Builder!Live(b) # {}
  <2>1. r = Builder!Fail(d)
    BY <1>5, <1>9
  <2>2. QED
    BY <1>6, <2>1, FailFacts DEF Leads
<1>10. CASE a \notin DOMAIN b.raw /\ ~(NextGeneration(b, a) > 0 /\ Builder!Live(b) # {})
  <2>1. r = [d EXCEPT !.raw = Builder!Put(@, a, <<a, NextGeneration(b, a)>>)]
    BY <1>5, <1>10
  <2>2. IsBuilder(d) /\ d.strict = b.strict
    BY <1>6 DEF Leads
  <2>3. IsBuilder(r) /\ r.strict = d.strict /\ r.error = d.error /\ r.anomalies = d.anomalies
    BY <2>1, <2>2 DEF IsBuilder, BuilderFields
  <2>4. /\ r.transactions = d.transactions /\ r.generation = d.generation /\ r.ignored = d.ignored
        /\ r.raw = Builder!Put(d.raw, a, <<a, NextGeneration(b, a)>>)
    BY <2>1, <2>2 DEF IsBuilder, BuilderFields
  <2>5. Clean(r) => Clean(d)
    BY <2>3 DEF Clean
  <2>6. QED
    BY <1>6, <1>7, <1>10, <2>2, <2>3, <2>4, <2>5 DEF Leads, Active
<1>11. QED
  BY <1>8, <1>9, <1>10

\* An event that revives a raw address
LEMMA ReviveFacts ==
    ASSUME NEW b, IsBuilder(b), NEW a, NEW r, r = Builder!ReviveRaw(b, a)
    PROVE  /\ Leads(b, r)
           /\ Clean(r) => /\ r.transactions = b.transactions /\ r.raw = b.raw /\ r.generation = b.generation
                          /\ ~ b.strict => a \notin b.ignored /\ r.ignored = b.ignored
<1>1. PICK occurred \in BOOLEAN : occurred = (~ b.strict /\ a \in b.ignored)
  OBVIOUS
<1>2. PICK c : c = Builder!LifetimeAnomaly(b, occurred)
  OBVIOUS
<1>3. r = [c EXCEPT !.ignored = @ \ {a}]
  BY <1>1, <1>2 DEF Builder!ReviveRaw
<1>4. Leads(b, c) /\ (Clean(c) => ~ occurred /\ c = b)
  BY <1>2, AnomalyFacts
<1>5. /\ IsBuilder(r) /\ r.strict = c.strict /\ r.error = c.error /\ r.anomalies = c.anomalies
      /\ r.transactions = c.transactions /\ r.raw = c.raw /\ r.generation = c.generation
      /\ r.ignored = c.ignored \ {a}
  BY <1>3, <1>4 DEF Leads, IsBuilder, BuilderFields
<1>6. Clean(r) => Clean(c)
  BY <1>5 DEF Clean
<1>7. ASSUME Clean(r), ~ b.strict PROVE a \notin b.ignored /\ r.ignored = b.ignored
  <2>1. a \notin b.ignored /\ c = b
    BY <1>1, <1>4, <1>6, <1>7
  <2>2. QED
    BY <1>5, <2>1
<1>8. QED
  BY <1>4, <1>5, <1>6, <1>7 DEF Leads

LEMMA EnsureRawFacts ==
    ASSUME NEW b, IsBuilder(b), NEW a, NEW r,
           r = Builder!EnsureActiveLocation(Builder!ReviveRaw(b, a), a)
    PROVE  Leads(b, r) /\ (Clean(r) => r.transactions = b.transactions /\ Uses(b, r, a))
<1>1. PICK c : c = Builder!ReviveRaw(b, a)
  OBVIOUS
<1>2. /\ Leads(b, c)
      /\ Clean(c) => /\ c.transactions = b.transactions /\ c.raw = b.raw /\ c.generation = b.generation
                     /\ ~ b.strict => a \notin b.ignored /\ c.ignored = b.ignored
  BY <1>1, ReviveFacts
<1>3. Leads(c, r) /\ (Clean(r) => r.transactions = c.transactions /\ Active(c, r, a))
  BY <1>1, <1>2, EnsureActiveFacts DEF Leads
<1>4. c.generation = b.generation /\ c.strict = b.strict => NextGeneration(c, a) = NextGeneration(b, a)
  BY DEF NextGeneration, Builder!Generation
<1>5. QED
  BY <1>2, <1>3, <1>4 DEF Leads, Active, Uses

LEMMA EnsureExplicitFacts ==
    ASSUME NEW b, IsBuilder(b), NEW e, NEW r, r = Builder!EnsureExplicitLocation(b, e)
    PROVE  Leads(b, r) /\ (Clean(r) => r.transactions = b.transactions /\ Keeps(b, r))
<1>1. PICK known : known = IF e.handle \in DOMAIN b.explicit THEN b.explicit[e.handle] ELSE None
  OBVIOUS
<1>2. PICK a : a = IF e.address = None THEN known ELSE e.address
  OBVIOUS
<1>3. PICK occurred \in BOOLEAN : occurred = (a # None /\ a \in DOMAIN b.raw)
  OBVIOUS
<1>4. PICK c : c = Builder!LifetimeAnomaly(b, occurred)
  OBVIOUS
<1>5. r = IF e.handle \in b.destroyed \/ known \notin {None, a} THEN Builder!Fail(b)
          ELSE [c EXCEPT !.explicit = Builder!Put(@, e.handle, a),
                         !.explicitSeen = @ \cup ({a} \ {None})]
  BY <1>1, <1>2, <1>3, <1>4 DEF Builder!EnsureExplicitLocation
<1>6. CASE e.handle \in b.destroyed \/ known \notin {None, a}
  BY <1>5, <1>6, FailFacts
<1>7. CASE ~(e.handle \in b.destroyed \/ known \notin {None, a})
  <2>1. r = [c EXCEPT !.explicit = Builder!Put(@, e.handle, a), !.explicitSeen = @ \cup ({a} \ {None})]
    BY <1>5, <1>7
  <2>2. Leads(b, c) /\ (Clean(c) => c = b)
    BY <1>4, AnomalyFacts
  <2>3. /\ IsBuilder(r) /\ r.strict = c.strict /\ r.error = c.error /\ r.anomalies = c.anomalies
        /\ r.transactions = c.transactions /\ Keeps(c, r)
    BY <2>1, <2>2 DEF Leads, IsBuilder, BuilderFields, Keeps
  <2>4. Clean(r) => Clean(c)
    BY <2>3 DEF Clean
  <2>5. QED
    BY <2>2, <2>3, <2>4 DEF Leads
<1>8. QED
  BY <1>6, <1>7

-----------------------------------------------------------------------------
(* What the builder makes of each kind of event.  A raw event has no       *)
(* handle.                                                                 *)

\* What the naming of a field changes
Named(b, r, e) ==
    /\ r.transactions = b.transactions
    /\ e.handle # None => Keeps(b, r)
    /\ e.handle = None => Uses(b, r, e.address)

LEMMA EnsureFacts ==
    ASSUME NEW b, IsBuilder(b), NEW e, NEW r, r = Builder!EnsureLocation(b, e)
    PROVE  Leads(b, r) /\ (Clean(r) => Named(b, r, e))
<1>1. CASE e.handle # None
  BY <1>1, EnsureExplicitFacts DEF Builder!EnsureLocation, Named
<1>2. CASE e.handle = None /\ e.address = None
  BY <1>2, FailFacts DEF Builder!EnsureLocation
<1>3. CASE e.handle = None /\ e.address # None
  BY <1>3, EnsureRawFacts DEF Builder!EnsureLocation, Named
<1>4. QED
  BY <1>1, <1>2, <1>3

LEMMA InitFacts ==
    ASSUME NEW b, IsBuilder(b), NEW e, NEW r, r = Builder!LocationInit(b, e)
    PROVE  Leads(b, r) /\ (Clean(r) => Named(b, r, e))
<1>1. PICK c : c = Builder!EnsureLocation(b, e)
  OBVIOUS
<1>2. Leads(b, c) /\ (Clean(c) => Named(b, c, e))
  BY <1>1, EnsureFacts
<1>3. PICK x : x = Builder!LocationOf(c, e)
  OBVIOUS
<1>4. r = IF e.value = None \/ c.error THEN Builder!Fail(b)
          ELSE IF ~ (x \in DOMAIN c.initial /\ c.initial[x] # e.value)
          THEN [c EXCEPT !.initial = Builder!Put(@, x, e.value)]
          ELSE IF e.handle # None THEN Builder!Fail(b)
          ELSE Builder!LifetimeAnomaly(c, TRUE)
  BY <1>1, <1>3 DEF Builder!LocationInit
<1>5. CASE r = Builder!Fail(b)
  BY <1>5, FailFacts
<1>6. CASE r = [c EXCEPT !.initial = Builder!Put(@, x, e.value)]
  <2>1. /\ IsBuilder(r) /\ r.strict = c.strict /\ r.error = c.error /\ r.anomalies = c.anomalies
        /\ r.transactions = c.transactions /\ Keeps(c, r)
    BY <1>2, <1>6 DEF Leads, IsBuilder, BuilderFields, Keeps
  <2>2. Clean(r) => Clean(c)
    BY <2>1 DEF Clean
  <2>3. QED
    BY <1>2, <2>1, <2>2 DEF Leads, Named, Keeps, Uses
<1>7. CASE r = Builder!LifetimeAnomaly(c, TRUE)
  BY <1>2, <1>7, AnomalyFacts DEF Leads
<1>8. QED
  BY <1>4, <1>5, <1>6, <1>7

\* The active raw location of a ends: the next one gets a new generation, or is an anomaly
Ends(b, r, a) ==
    /\ a \in DOMAIN b.raw
    /\ b.strict => /\ r.raw = [x \in DOMAIN b.raw \ {a} |-> b.raw[x]]
                   /\ r.generation = Builder!Put(b.generation, a, b.raw[a][2] + 1)
    /\ ~ b.strict => r.raw = b.raw /\ r.generation = b.generation /\ r.ignored = b.ignored \cup {a}

LEMMA DestroyFacts ==
    ASSUME NEW b, IsBuilder(b), NEW e, NEW r, r = Builder!LocationDestroy(b, e)
    PROVE  /\ Leads(b, r)
           /\ Clean(r) => /\ r.transactions = b.transactions
                          /\ e.handle # None => Keeps(b, r)
                          /\ e.handle = None => Ends(b, r, e.address)
<1>1. CASE e.handle # None
  <2>1. \/ r = Builder!Fail(b)
        \/ r = [b EXCEPT !.explicit = [other \in DOMAIN @ \ {e.handle} |-> @[other]],
                         !.destroyed = @ \cup {e.handle}]
    BY <1>1 DEF Builder!LocationDestroy, Builder!DestroyExplicit
  <2>2. CASE r = Builder!Fail(b)
    BY <2>2, FailFacts
  <2>3. CASE r = [b EXCEPT !.explicit = [other \in DOMAIN @ \ {e.handle} |-> @[other]],
                           !.destroyed = @ \cup {e.handle}]
    <3>1. /\ IsBuilder(r) /\ r.strict = b.strict /\ r.error = b.error /\ r.anomalies = b.anomalies
          /\ r.transactions = b.transactions /\ Keeps(b, r)
      BY <2>3 DEF IsBuilder, BuilderFields, Keeps
    <3>2. Clean(r) => Clean(b)
      BY <3>1 DEF Clean
    <3>3. QED
      BY <1>1, <3>1, <3>2 DEF Leads
  <2>4. QED
    BY <2>1, <2>2, <2>3
<1>2. CASE e.handle = None /\ e.address = None
  BY <1>2, FailFacts DEF Builder!LocationDestroy
<1>3. CASE e.handle = None /\ e.address # None
  <2>1. PICK a : a = e.address
    OBVIOUS
  <2>2. PICK occurred \in BOOLEAN : occurred = (~ (a \in DOMAIN b.raw) \/ Builder!Live(b) # {})
    OBVIOUS
  <2>3. PICK c : c = Builder!LifetimeAnomaly(b, occurred)
    OBVIOUS
  <2>4. r = IF b.strict /\ a \in DOMAIN b.raw
            THEN [c EXCEPT !.raw = [other \in DOMAIN @ \ {a} |-> @[other]],
                           !.generation = Builder!Put(@, a, b.raw[a][2] + 1)]
            ELSE [c EXCEPT !.ignored = @ \cup {a}]
    BY <1>3, <2>1, <2>2, <2>3 DEF Builder!LocationDestroy, Builder!DestroyRaw
  <2>5. Leads(b, c) /\ (Clean(c) => ~ occurred /\ c = b)
    BY <2>3, AnomalyFacts
  <2>6. /\ IsBuilder(r) /\ r.strict = c.strict /\ r.error = c.error /\ r.anomalies = c.anomalies
        /\ r.transactions = c.transactions
    BY <2>4, <2>5 DEF Leads, IsBuilder, BuilderFields
  <2>7. Clean(r) => Clean(c)
    BY <2>6 DEF Clean
  <2>8. ASSUME Clean(r) PROVE Ends(b, r, a)
    <3>1. a \in DOMAIN b.raw /\ c = b
      BY <2>2, <2>5, <2>7, <2>8
    <3>2. CASE b.strict
      <4>1. r = [b EXCEPT !.raw = [other \in DOMAIN @ \ {a} |-> @[other]],
                          !.generation = Builder!Put(@, a, b.raw[a][2] + 1)]
        BY <2>4, <3>1, <3>2
      <4>2. /\ r.raw = [other \in DOMAIN b.raw \ {a} |-> b.raw[other]]
            /\ r.generation = Builder!Put(b.generation, a, b.raw[a][2] + 1)
        BY <4>1 DEF IsBuilder, BuilderFields
      <4>3. QED
        BY <3>1, <3>2, <4>2 DEF Ends
    <3>3. CASE ~ b.strict
      <4>1. r = [b EXCEPT !.ignored = @ \cup {a}]
        BY <2>4, <3>1, <3>3
      <4>2. r.raw = b.raw /\ r.generation = b.generation /\ r.ignored = b.ignored \cup {a}
        BY <4>1 DEF IsBuilder, BuilderFields
      <4>3. QED
        BY <3>1, <3>3, <4>2 DEF Ends
    <3>4. QED
      BY <3>2, <3>3
  <2>9. QED
    BY <1>3, <2>1, <2>5, <2>6, <2>7, <2>8 DEF Leads
<1>4. QED
  BY <1>1, <1>2, <1>3

LEMMA BeginFacts ==
    ASSUME NEW b, IsBuilder(b), NEW e, NEW n, NEW r, r = Builder!Begin(b, e, n)
    PROVE  /\ Leads(b, r)
           /\ Clean(r) => /\ e.tx # None /\ Builder!FindTx(b, e) = {} /\ Keeps(b, r)
                          /\ r.transactions = Append(b.transactions,
                                [thread |-> e.thread, tx |-> e.tx, begin |-> n, end |-> 0,
                                 outcome |-> "live", accesses |-> <<>>])
<1>1. CASE e.tx = None \/ Builder!FindTx(b, e) # {}
  BY <1>1, FailFacts DEF Builder!Begin
<1>2. CASE e.tx # None /\ Builder!FindTx(b, e) = {}
  <2>1. r = [b EXCEPT !.transactions = Append(@,
                [thread |-> e.thread, tx |-> e.tx, begin |-> n, end |-> 0,
                 outcome |-> "live", accesses |-> <<>>])]
    BY <1>2 DEF Builder!Begin
  <2>2. /\ IsBuilder(r) /\ r.strict = b.strict /\ r.error = b.error /\ r.anomalies = b.anomalies
        /\ Keeps(b, r)
        /\ r.transactions = Append(b.transactions,
              [thread |-> e.thread, tx |-> e.tx, begin |-> n, end |-> 0,
               outcome |-> "live", accesses |-> <<>>])
    BY <2>1 DEF IsBuilder, BuilderFields, Keeps
  <2>3. QED
    BY <1>2, <2>2 DEF Leads, Clean
<1>3. QED
  BY <1>1, <1>2

LEMMA AccessedRawFacts ==
    ASSUME NEW b, IsBuilder(b), NEW a, NEW r, r = Builder!AccessedRaw(b, a)
    PROVE  Leads(b, r) /\ (Clean(r) => r.transactions = b.transactions /\ Uses(b, r, a))
<1>1. PICK first \in BOOLEAN : first <=> a \in b.ignored
  OBVIOUS
<1>2. PICK second \in BOOLEAN : second = (~ (a \in DOMAIN b.raw) /\ Builder!Generation(b, a) > 0)
  OBVIOUS
<1>3. PICK c : c = Builder!LifetimeAnomaly(b, first)
  OBVIOUS
<1>4. PICK d : d = Builder!LifetimeAnomaly(c, second)
  OBVIOUS
<1>5. r = IF a \in DOMAIN b.raw THEN d ELSE Builder!EnsureActiveLocation(d, a)
  <2>1. c = Builder!LifetimeAnomaly(b, a \in b.ignored)
    BY <1>1, <1>3
  <2>2. QED
    BY <1>2, <1>4, <2>1 DEF Builder!AccessedRaw
<1>6. Leads(b, c) /\ Leads(c, d) /\ Leads(b, d)
  BY <1>3, <1>4, AnomalyFacts DEF Leads
<1>7. Clean(d) => d = b /\ a \notin b.ignored
  BY <1>1, <1>3, <1>4, <1>6, AnomalyFacts DEF Leads
<1>8. CASE a \in DOMAIN b.raw
  <2>1. r = d
    BY <1>5, <1>8
  <2>2. QED
    BY <1>6, <1>7, <1>8, <2>1 DEF Uses
<1>9. CASE a \notin DOMAIN b.raw
  <2>1. Leads(d, r) /\ (Clean(r) => r.transactions = d.transactions /\ Active(d, r, a))
    BY <1>5, <1>6, <1>9, EnsureActiveFacts DEF Leads
  <2>2. QED
    BY <1>6, <1>7, <2>1 DEF Leads, Active, Uses
<1>10. QED
  BY <1>8, <1>9

\* What the event of an access changes
Accessed(b, r, e) ==
    /\ Builder!FindTx(b, e) # {} /\ e.value # None
    /\ e.handle # None => Keeps(b, r)
    /\ e.handle = None => Uses(b, r, e.address)
    /\ r.transactions = Builder!WithAccess(b.transactions, Builder!FindTx(b, e),
          [write |-> e.kind = "tx_write",
           loc |-> IF e.handle # None THEN e.handle ELSE r.raw[e.address],
           value |-> e.value])

LEMMA AccessFacts ==
    ASSUME NEW b, IsBuilder(b), NEW e, NEW r, r = Builder!Access(b, e)
    PROVE  Leads(b, r) /\ (Clean(r) => Accessed(b, r, e))
<1>1. PICK c : c = IF e.handle # None THEN Builder!EnsureExplicitLocation(b, e)
                   ELSE IF e.address = None THEN Builder!Fail(b)
                   ELSE Builder!AccessedRaw(b, e.address)
  OBVIOUS
<1>2. PICK access : access = [write |-> e.kind = "tx_write", loc |-> Builder!LocationOf(c, e),
                              value |-> e.value]
  OBVIOUS
<1>3. r = IF Builder!FindTx(b, e) = {} \/ e.value = None \/ c.error THEN Builder!Fail(b)
          ELSE [c EXCEPT !.transactions = Builder!WithAccess(c.transactions, Builder!FindTx(b, e), access)]
  BY <1>1, <1>2 DEF Builder!Access
<1>4. /\ Leads(b, c)
      /\ Clean(c) => /\ c.transactions = b.transactions
                     /\ e.handle # None => Keeps(b, c)
                     /\ e.handle = None => Uses(b, c, e.address)
  <2>1. CASE e.handle # None
    BY <1>1, <2>1, EnsureExplicitFacts
  <2>2. CASE e.handle = None /\ e.address = None
    BY <1>1, <2>2, FailFacts
  <2>3. CASE e.handle = None /\ e.address # None
    BY <1>1, <2>3, AccessedRawFacts
  <2>4. QED
    BY <2>1, <2>2, <2>3
<1>5. CASE Builder!FindTx(b, e) = {} \/ e.value = None \/ c.error
  BY <1>3, <1>5, FailFacts
<1>6. CASE ~(Builder!FindTx(b, e) = {} \/ e.value = None \/ c.error)
  <2>1. r = [c EXCEPT !.transactions = Builder!WithAccess(c.transactions, Builder!FindTx(b, e), access)]
    BY <1>3, <1>6
  <2>2. /\ IsBuilder(r) /\ r.strict = c.strict /\ r.error = c.error /\ r.anomalies = c.anomalies
        /\ r.raw = c.raw /\ r.generation = c.generation /\ r.ignored = c.ignored
        /\ r.transactions = Builder!WithAccess(c.transactions, Builder!FindTx(b, e), access)
    BY <1>4, <2>1 DEF Leads, IsBuilder, BuilderFields
  <2>3. Clean(r) => Clean(c)
    BY <2>2 DEF Clean
  <2>4. access = [write |-> e.kind = "tx_write",
                  loc |-> IF e.handle # None THEN e.handle ELSE r.raw[e.address],
                  value |-> e.value]
    BY <1>2, <2>2 DEF Builder!LocationOf
  <2>5. ASSUME Clean(r) PROVE Accessed(b, r, e)
    <3>1. /\ c.transactions = b.transactions
          /\ e.handle # None => Keeps(b, r)
          /\ e.handle = None => Uses(b, r, e.address)
      BY <1>4, <2>2, <2>3, <2>5 DEF Keeps, Uses
    <3>2. QED
      BY <1>6, <2>2, <2>4, <3>1 DEF Accessed
  <2>6. QED
    BY <1>4, <2>2, <2>3, <2>5 DEF Leads
<1>7. QED
  BY <1>5, <1>6

LEMMA EndFacts ==
    ASSUME NEW b, IsBuilder(b), NEW e, NEW n, NEW r, r = Builder!End(b, e, n)
    PROVE  /\ Leads(b, r)
           /\ Clean(r) => /\ Keeps(b, r)
                          /\ r.transactions = Builder!WithEnd(b.transactions, Builder!FindTx(b, e) \cap Builder!Live(b),
                                IF e.kind = "tx_abort" THEN "aborted" ELSE "committed", n)
<1>1. PICK I : I = Builder!FindTx(b, e) \cap Builder!Live(b)
  OBVIOUS
<1>2. PICK outcome : outcome = IF e.kind = "tx_abort" THEN "aborted" ELSE "committed"
  OBVIOUS
<1>3. r = IF I = {} THEN Builder!Fail(b)
          ELSE [b EXCEPT !.transactions = Builder!WithEnd(b.transactions, I, outcome, n)]
  BY <1>1, <1>2 DEF Builder!End
<1>4. CASE I = {}
  BY <1>3, <1>4, FailFacts
<1>5. CASE I # {}
  <2>1. r = [b EXCEPT !.transactions = Builder!WithEnd(b.transactions, I, outcome, n)]
    BY <1>3, <1>5
  <2>2. /\ IsBuilder(r) /\ r.strict = b.strict /\ r.error = b.error /\ r.anomalies = b.anomalies
        /\ Keeps(b, r) /\ r.transactions = Builder!WithEnd(b.transactions, I, outcome, n)
    BY <2>1 DEF IsBuilder, BuilderFields, Keeps
  <2>3. QED
    BY <1>1, <1>2, <2>2 DEF Leads, Clean
<1>6. QED
  BY <1>4, <1>5

LEMMA RetryFacts ==
    ASSUME NEW b, IsBuilder(b), NEW e, NEW r, r = Builder!Retry(b, e)
    PROVE  Leads(b, r) /\ (Clean(r) => r = b)
<1>1. r = b \/ r = Builder!Fail(b)
  BY DEF Builder!Retry
<1>2. QED
  BY <1>1, FailFacts DEF Leads

\* Which of these an event leads to
LEMMA StepKinds ==
    ASSUME NEW b, ~ b.error, NEW e, NEW n
    PROVE  /\ e.kind = "tx_location_init" => Builder!BuildStep(b, e, n) = Builder!LocationInit(b, e)
           /\ e.kind = "tx_location_destroy" => Builder!BuildStep(b, e, n) = Builder!LocationDestroy(b, e)
           /\ e.kind = "tx_begin" => Builder!BuildStep(b, e, n) = Builder!Begin(b, e, n)
           /\ e.kind \in {"tx_read", "tx_write"} => Builder!BuildStep(b, e, n) = Builder!Access(b, e)
           /\ e.kind \in {"tx_commit_success", "tx_abort"} => Builder!BuildStep(b, e, n) = Builder!End(b, e, n)
           /\ e.kind = "tx_retry" => Builder!BuildStep(b, e, n) = Builder!Retry(b, e)
  BY DEF Builder!BuildStep

LEMMA ErrorStays ==
    ASSUME NEW b, b.error, NEW e, NEW n
    PROVE  Builder!BuildStep(b, e, n) = b
  BY DEF Builder!BuildStep

\* What the builder knows of raw addresses
RawLocations(b) ==
    /\ \A a \in DOMAIN b.generation : b.generation[a] \in Nat
    /\ \A a \in DOMAIN b.raw : b.raw[a] = <<a, NextGeneration(b, a)>>

\* The number of the raw location of a
RawNumber(b, a) ==
    IF b.strict THEN Builder!Generation(b, a) ELSE IF a \in b.ignored THEN 1 ELSE 0

LEMMA GenerationFacts ==
    ASSUME NEW b, RawLocations(b), NEW a
    PROVE  Builder!Generation(b, a) \in Nat /\ NextGeneration(b, a) \in Nat /\ RawNumber(b, a) \in Nat
  BY DEF RawLocations, Builder!Generation, NextGeneration, RawNumber

LEMMA UsesFacts ==
    ASSUME NEW b, NEW r, NEW a, r.strict = b.strict, b.strict \in BOOLEAN, RawLocations(b), Uses(b, r, a)
    PROVE  /\ RawLocations(r) /\ r.raw[a] = <<a, RawNumber(b, a)>>
           /\ \A x : RawNumber(r, x) = RawNumber(b, x)
<1>1. \A x : NextGeneration(r, x) = NextGeneration(b, x) /\ RawNumber(r, x) = RawNumber(b, x)
  BY DEF Uses, NextGeneration, RawNumber, Builder!Generation
<1>2. NextGeneration(b, a) = RawNumber(b, a)
  BY DEF Uses, NextGeneration, RawNumber
<1>3. CASE a \in DOMAIN b.raw
  BY <1>1, <1>2, <1>3 DEF Uses, RawLocations
<1>4. CASE a \notin DOMAIN b.raw
  <2>1. r.raw = [x \in DOMAIN b.raw \cup {a} |-> IF x = a THEN <<a, NextGeneration(b, a)>> ELSE b.raw[x]]
    BY <1>4 DEF Uses, Builder!Put
  <2>2. \A x \in DOMAIN r.raw : r.raw[x] = <<x, NextGeneration(b, x)>>
    BY <2>1 DEF RawLocations
  <2>3. r.raw[a] = <<a, NextGeneration(b, a)>>
    BY <2>1
  <2>4. r.generation = b.generation
    BY DEF Uses
  <2>5. QED
    BY <1>1, <1>2, <2>2, <2>3, <2>4 DEF RawLocations
<1>5. QED
  BY <1>3, <1>4

LEMMA KeepsFacts ==
    ASSUME NEW b, NEW r, r.strict = b.strict, RawLocations(b), Keeps(b, r)
    PROVE  RawLocations(r) /\ \A x : RawNumber(r, x) = RawNumber(b, x)
  BY DEF Keeps, RawLocations, RawNumber, NextGeneration, Builder!Generation

LEMMA EndsFacts ==
    ASSUME NEW b, NEW r, NEW a, r.strict = b.strict, b.strict \in BOOLEAN, RawLocations(b), Ends(b, r, a)
    PROVE  /\ RawLocations(r)
           /\ \A x : x # a => RawNumber(r, x) = RawNumber(b, x)
           /\ RawNumber(r, a) >= RawNumber(b, a)
           /\ ~(~ b.strict /\ a \in b.ignored) => RawNumber(r, a) > RawNumber(b, a)
<1>1. CASE b.strict
  <2>1. /\ r.raw = [x \in DOMAIN b.raw \ {a} |-> b.raw[x]]
        /\ r.generation = [x \in DOMAIN b.generation \cup {a} |->
                             IF x = a THEN b.raw[a][2] + 1 ELSE b.generation[x]]
    BY <1>1 DEF Ends, Builder!Put
  <2>2. b.raw[a][2] = Builder!Generation(b, a) /\ Builder!Generation(b, a) \in Nat
    BY <1>1, GenerationFacts DEF Ends, RawLocations, NextGeneration
  <2>3. \A x : x # a => Builder!Generation(r, x) = Builder!Generation(b, x)
    BY <2>1 DEF Builder!Generation
  <2>4. Builder!Generation(r, a) = Builder!Generation(b, a) + 1
    BY <2>1, <2>2 DEF Builder!Generation
  <2>5. \A x \in DOMAIN r.generation : r.generation[x] \in Nat
    BY <2>1, <2>2 DEF RawLocations
  <2>6. \A x \in DOMAIN r.raw : r.raw[x] = <<x, NextGeneration(r, x)>>
    BY <1>1, <2>1, <2>3 DEF RawLocations, NextGeneration
  <2>7. QED
    BY <1>1, <2>2, <2>3, <2>4, <2>5, <2>6 DEF RawLocations, RawNumber
<1>2. CASE ~ b.strict
  <2>1. r.raw = b.raw /\ r.generation = b.generation /\ r.ignored = b.ignored \cup {a}
    BY <1>2 DEF Ends
  <2>2. RawLocations(r)
    BY <1>2, <2>1 DEF RawLocations, NextGeneration
  <2>3. QED
    BY <1>2, <2>1, <2>2 DEF RawNumber
<1>3. QED
  BY <1>1, <1>2

-----------------------------------------------------------------------------
(* Types                                                                   *)

ContextType == [next : Nat, current : Nat \cup {None}, lastAborted : Nat \cup {None}, depth : Nat]

FieldType == [alive : BOOLEAN, value : Values, incarnation : Nat, lifetime : Addresses \X Nat]

AttemptType(c) ==
    /\ c = [f \in {"state", "reads", "writes", "tries", "start"} |-> c[f]]
    /\ c.state \in {"idle", "running", "published", "aborted"}
    /\ c.tries \in Nat /\ c.start \in Nat /\ (c.state # "idle" => c.start # 0)
    /\ \A a \in DOMAIN c.writes : c.writes[a] \in Values

TypeOK ==
    /\ scenario \in Scenarios
    /\ context \in [Threads -> ContextType]
    /\ registry \in [Addresses -> [active : BOOLEAN, generation : Nat]]
    /\ lifetimes \in Nat
    /\ events \in Seq(EventType)
    /\ memory \in [Addresses -> FieldType]
    /\ attempt = [t \in Threads |-> attempt[t]] /\ \A t \in Threads : AttemptType(attempt[t])
    /\ pc \in [Threads -> Nat \ {0}]
    /\ truth = [f \in {"initial", "transactions"} |-> truth[f]] /\ truth.transactions \in Seq(DidType)

LEMMA EntryTyped ==
    ASSUME TypeOK, NEW t \in Threads, NEW op, At(t, op)
    PROVE  /\ Entry(t) \in ScriptEntryType /\ Entry(t).op = op
           /\ op \in {"read", "destroy", "write", "construct"} => Entry(t).address \in Addresses
           /\ op \in {"write", "construct"} => Entry(t).value \in Values
<1>1. scenario.scripts[t] \in Seq(ScriptEntryType)
  BY ScenariosAssumption DEF TypeOK
<1>2. pc[t] \in Nat \ {0} /\ pc[t] <= Len(scenario.scripts[t]) /\ scenario.scripts[t][pc[t]].op = op
  BY DEF TypeOK, At
<1>3. Entry(t) \in ScriptEntryType /\ Entry(t).op = op
  <2>1. \A s \in Seq(ScriptEntryType), i \in Nat \ {0} : i <= Len(s) => s[i] \in ScriptEntryType
    OBVIOUS
  <2>2. QED
    BY <1>1, <1>2, <2>1 DEF Entry
<1>4. PICK entry : entry = Entry(t)
  OBVIOUS
<1>5. QED
  BY <1>3, <1>4 DEF ScriptEntryType

LEMMA HandleTyped ==
    ASSUME TypeOK, NEW a \in Addresses, NEW fields \in [Addresses -> FieldType]
    PROVE  /\ HandleOf(a, fields) \in HandleType \cup {None}
           /\ scenario.identity = "raw" => HandleOf(a, fields) = None
           /\ scenario.identity = "registry" => HandleOf(a, fields) = <<"backend", a, registry[a].generation>>
           /\ scenario.identity = "lifetime" => HandleOf(a, fields) = <<"objlife", fields[a].lifetime>>
           /\ scenario.identity # "raw" => HandleOf(a, fields) # None
<1>1. scenario.identity \in {"raw", "registry", "lifetime"}
  BY ScenariosAssumption DEF TypeOK
<1>2. registry[a].generation \in Nat /\ fields[a].lifetime \in Addresses \X Nat
  BY DEF TypeOK, FieldType
<1>3. CASE scenario.identity = "raw"
  BY <1>3 DEF HandleOf
<1>4. CASE scenario.identity = "registry"
  <2>1. HandleOf(a, fields) = <<"backend", a, registry[a].generation>>
    BY <1>4 DEF HandleOf
  <2>2. <<"backend", a, registry[a].generation>> \in HandleType
    BY <1>2 DEF HandleType
  <2>3. QED
    BY <1>4, <2>1, <2>2, NoneAssumption
<1>5. CASE scenario.identity = "lifetime"
  <2>1. HandleOf(a, fields) = <<"objlife", fields[a].lifetime>>
    BY <1>5 DEF HandleOf
  <2>2. <<"objlife", fields[a].lifetime>> \in HandleType
    BY <1>2 DEF HandleType
  <2>3. QED
    BY <1>5, <2>1, <2>2, NoneAssumption
<1>6. QED
  BY <1>1, <1>3, <1>4, <1>5

\* What a hook records
EventOf(kind, t, tx, address, handle, value) ==
    [kind |-> kind, thread |-> t, tx |-> tx, address |-> address, handle |-> handle, value |-> value]

\* What the builder has made of the events so far
Built == Builder!Built(events, scenario.policy)

LEMMA RecordFacts ==
    ASSUME TypeOK, scenario' = scenario, NEW e \in EventType, events' = Append(events, e)
    PROVE  /\ events' \in Seq(EventType)
           /\ Built' = Builder!BuildStep(Built, e, Len(events) + 1)
<1>1. events \in Seq(EventType)
  BY DEF TypeOK
<1>2. Built' = Builder!Built(Append(events, e), scenario.policy)
  BY DEF Built
<1>3. QED
  BY <1>1, <1>2, BuiltAppend DEF Built

\* The events of the hooks
LEMMA TransactionHookFacts ==
    ASSUME TypeOK, NEW t \in Threads, NEW tx \in Nat \cup {None},
           NEW kind \in {"tx_begin", "tx_commit_success", "tx_abort", "tx_retry"}, TransactionHook(kind, t, tx)
    PROVE  /\ EventOf(kind, t, tx, None, None, None) \in EventType
           /\ events' = Append(events, EventOf(kind, t, tx, None, None, None))
  BY DEF TransactionHook, Record, EventOf, EventType

LEMMA LocationHookFacts ==
    ASSUME TypeOK, NEW t \in Threads, NEW a \in Addresses, NEW fields \in [Addresses -> FieldType],
           NEW value \in Values \cup {None},
           NEW kind \in {"tx_read", "tx_write", "tx_location_init", "tx_location_destroy"},
           LocationHook(kind, t, a, fields, value)
    PROVE  /\ EventOf(kind, t, context[t].current, a, HandleOf(a, fields), value) \in EventType
           /\ events' = Append(events, EventOf(kind, t, context[t].current, a, HandleOf(a, fields), value))
<1>1. context[t].current \in Nat \cup {None}
  BY DEF TypeOK, ContextType
<1>2. HandleOf(a, fields) \in HandleType \cup {None}
  BY HandleTyped
<1>3. PICK h : h = HandleOf(a, fields)
  OBVIOUS
<1>4. QED
  BY <1>1, <1>2, <1>3 DEF LocationHook, Record, EventOf, EventType

\* The transaction of t in what happened changes
LEMMA DidTyped ==
    ASSUME NEW did \in Seq(DidType), NEW i, NEW access \in [write : BOOLEAN, loc : Addresses \X Nat, value : Values]
    PROVE  [did EXCEPT ![i].accesses = Append(@, access)] \in Seq(DidType)
<1>1. did \in [1 .. Len(did) -> DidType] /\ Len(did) \in Nat
  OBVIOUS
<1>2. i \in 1 .. Len(did) => [did[i] EXCEPT !.accesses = Append(@, access)] \in DidType
  <2> SUFFICES ASSUME i \in 1 .. Len(did) PROVE [did[i] EXCEPT !.accesses = Append(@, access)] \in DidType
    OBVIOUS
  <2>1. PICK d \in DidType : d = did[i]
    BY <1>1
  <2>2. Append(d.accesses, access) \in Seq([write : BOOLEAN, loc : Addresses \X Nat, value : Values])
    BY DEF DidType
  <2>3. [d EXCEPT !.accesses = Append(@, access)] \in DidType
    BY <2>2 DEF DidType
  <2>4. QED
    BY <2>1, <2>3
<1>3. [did EXCEPT ![i].accesses = Append(@, access)] \in [1 .. Len(did) -> DidType]
  BY <1>1, <1>2
<1>4. QED
  BY <1>1, <1>3

LEMMA EndedTyped ==
    ASSUME NEW did \in Seq(DidType), NEW i, NEW outcome \in {"committed", "aborted"}, NEW n \in Nat
    PROVE  [did EXCEPT ![i].outcome = outcome, ![i].end = n] \in Seq(DidType)
<1>1. did \in [1 .. Len(did) -> DidType] /\ Len(did) \in Nat
  OBVIOUS
<1>2. \A d \in DidType : /\ [d EXCEPT !.outcome = outcome] \in DidType
                         /\ [d EXCEPT !.end = n] \in DidType
  BY DEF DidType
<1>3. [did EXCEPT ![i].outcome = outcome] \in [1 .. Len(did) -> DidType]
  BY <1>1, <1>2
<1>4. PICK f \in [1 .. Len(did) -> DidType] : f = [did EXCEPT ![i].outcome = outcome]
  BY <1>3
<1>5. [f EXCEPT ![i].end = n] \in [1 .. Len(did) -> DidType]
  BY <1>2
<1>6. [did EXCEPT ![i].outcome = outcome, ![i].end = n] = [f EXCEPT ![i].end = n]
  BY <1>4
<1>7. QED
  BY <1>1, <1>5, <1>6

\* What has happened to the transactions, after an access or an end
LEMMA DidFacts ==
    ASSUME TypeOK, NEW t \in Threads, NEW write \in BOOLEAN, NEW a \in Addresses, NEW value \in Values,
           Did(t, write, a, value)
    PROVE  /\ truth' = [f \in {"initial", "transactions"} |-> truth'[f]]
           /\ truth'.transactions \in Seq(DidType) /\ truth'.initial = truth.initial
           /\ truth'.transactions = [truth.transactions EXCEPT ![Current(t)].accesses = Append(@,
                 [write |-> write, loc |-> <<a, memory[a].incarnation>>, value |-> value])]
<1>1. PICK did \in Seq(DidType) : did = truth.transactions
  BY DEF TypeOK
<1>2. PICK i : i = Current(t)
  OBVIOUS
<1>3. PICK access : access = [write |-> write, loc |-> <<a, memory[a].incarnation>>, value |-> value]
  OBVIOUS
<1>4. access \in [write : BOOLEAN, loc : Addresses \X Nat, value : Values]
  BY <1>3 DEF TypeOK, FieldType
<1>5. truth' = [truth EXCEPT !.transactions = [did EXCEPT ![i].accesses = Append(@, access)]]
  BY <1>1, <1>2, <1>3 DEF Did
<1>6. [did EXCEPT ![i].accesses = Append(@, access)] \in Seq(DidType)
  BY <1>4, DidTyped
<1>7. PICK new \in Seq(DidType) : new = [did EXCEPT ![i].accesses = Append(@, access)]
  BY <1>6
<1>8. /\ truth' = [f \in {"initial", "transactions"} |-> truth'[f]] /\ truth'.transactions = new
      /\ truth'.initial = truth.initial
  BY <1>5, <1>7 DEF TypeOK
<1>9. QED
  BY <1>1, <1>2, <1>3, <1>7, <1>8

LEMMA EndedFacts ==
    ASSUME TypeOK, NEW t \in Threads, NEW outcome \in {"committed", "aborted"}, Ended(t, outcome)
    PROVE  /\ truth' = [f \in {"initial", "transactions"} |-> truth'[f]]
           /\ truth'.transactions \in Seq(DidType) /\ truth'.initial = truth.initial
           /\ truth'.transactions = [truth.transactions EXCEPT ![Current(t)].outcome = outcome,
                                                               ![Current(t)].end = Len(events) + 1]
<1>1. PICK did \in Seq(DidType) : did = truth.transactions
  BY DEF TypeOK
<1>2. PICK i : i = Current(t)
  OBVIOUS
<1>3. PICK n \in Nat : n = Len(events) + 1
  BY DEF TypeOK
<1>4. PICK new : new = [did EXCEPT ![i].outcome = outcome, ![i].end = n]
  OBVIOUS
<1>5. new \in Seq(DidType)
  BY <1>4, EndedTyped
<1>6. truth' = [truth EXCEPT !.transactions = new]
  BY <1>1, <1>2, <1>3, <1>4 DEF Ended
<1>7. /\ truth' = [f \in {"initial", "transactions"} |-> truth'[f]] /\ truth'.transactions = new
      /\ truth'.initial = truth.initial
  BY <1>6 DEF TypeOK
<1>8. QED
  BY <1>1, <1>2, <1>3, <1>4, <1>5, <1>7

\* The parts of the state that no hook touches
LEMMA LocateTyped ==
    ASSUME TypeOK, NEW a \in Addresses, Locate(a)
    PROVE  registry' \in [Addresses -> [active : BOOLEAN, generation : Nat]]
  BY DEF TypeOK, Locate, Registered

LEMMA AdvanceTyped ==
    ASSUME TypeOK, NEW t \in Threads, Advance(t)
    PROVE  pc' \in [Threads -> Nat \ {0}]
  BY DEF TypeOK, Advance

\* Only the attempt of t changes, to one of its type
LEMMA AttemptTyped ==
    ASSUME TypeOK, NEW t \in Threads, NEW c, AttemptType(c), attempt' = [attempt EXCEPT ![t] = c]
    PROVE  attempt' = [u \in Threads |-> attempt'[u]] /\ \A u \in Threads : AttemptType(attempt'[u])
<1>1. attempt' = [u \in Threads |-> IF u = t THEN c ELSE attempt[u]]
  BY DEF TypeOK
<1>2. QED
  BY <1>1 DEF TypeOK

LEMMA BeginTyped ==
    ASSUME TypeOK, NEW t \in Threads, BeginTransaction(t)
    PROVE  TypeOK'
<1>1. context' \in [Threads -> ContextType] /\ ContextAtBegin(context[t]).current \in Nat
  <2>1. PICK c \in ContextType : c = context[t]
    BY DEF TypeOK
  <2>2. ContextAtBegin(c) \in ContextType /\ ContextAtBegin(c).current \in Nat
    <3>1. CASE c.current = None
      <4>1. ContextAtBegin(c) = [next |-> c.next + 1, current |-> c.next, lastAborted |-> None, depth |-> 1]
        BY <3>1 DEF ContextAtBegin
      <4>2. QED
        BY <4>1 DEF ContextType
    <3>2. CASE c.current # None
      <4>1. ContextAtBegin(c) = [c EXCEPT !.depth = @ + 1, !.lastAborted = None]
        BY <3>2 DEF ContextAtBegin
      <4>2. PICK d : d = [c EXCEPT !.depth = @ + 1, !.lastAborted = None]
        OBVIOUS
      <4>3. d = [next |-> c.next, current |-> c.current, lastAborted |-> None, depth |-> c.depth + 1]
        BY <4>2 DEF ContextType
      <4>4. c.next \in Nat /\ c.current \in Nat /\ c.depth + 1 \in Nat
        BY <3>2 DEF ContextType
      <4>5. d \in ContextType /\ d.current = c.current
        BY <4>3, <4>4 DEF ContextType
      <4>6. QED
        BY <4>1, <4>2, <4>4, <4>5
    <3>3. QED
      BY <3>1, <3>2
  <2>3. QED
    BY <2>1, <2>2 DEF TypeOK, BeginTransaction, HookBegin
<1>2. events' \in Seq(EventType) /\ Len(events) + 1 \in Nat
  <2>1. TransactionHook("tx_begin", t, ContextAtBegin(context[t]).current)
    BY DEF BeginTransaction, HookBegin
  <2>2. PICK tx \in Nat \cup {None} : tx = ContextAtBegin(context[t]).current
    BY <1>1
  <2>3. TransactionHook("tx_begin", t, tx)
    BY <2>1, <2>2
  <2>4. PICK e \in EventType : events' = Append(events, e)
    BY <2>3, TransactionHookFacts
  <2>5. QED
    BY <2>4 DEF TypeOK
<1>3. pc' \in [Threads -> Nat \ {0}]
  BY AdvanceTyped DEF BeginTransaction
<1>4. UNCHANGED <<scenario, registry, lifetimes, memory>>
  BY DEF BeginTransaction
<1>5. CASE attempt[t].state = "running"
  <2>1. UNCHANGED <<attempt, truth>>
    BY <1>5 DEF BeginTransaction
  <2>2. QED
    BY <1>1, <1>2, <1>3, <1>4, <2>1 DEF TypeOK
<1>6. CASE attempt[t].state # "running"
  <2>0. PICK old : old = attempt[t] /\ AttemptType(old)
    BY DEF TypeOK
  <2>1. PICK c : c = [old EXCEPT !.state = "running", !.start = pc[t]]
    OBVIOUS
  <2>2. AttemptType(c)
    <3>1. pc[t] \in Nat \ {0}
      BY DEF TypeOK
    <3>2. QED
      BY <2>0, <2>1, <3>1 DEF AttemptType
  <2>3. attempt' = [attempt EXCEPT ![t] = c]
    BY <1>6, <2>0, <2>1 DEF BeginTransaction
  <2>4. PICK d : d = [thread |-> t, begin |-> Len(events) + 1, end |-> 0, outcome |-> "live", accesses |-> <<>>]
    OBVIOUS
  <2>5. d \in DidType
    BY <1>2, <2>4 DEF DidType
  <2>6. truth' = [truth EXCEPT !.transactions = Append(@, d)]
    BY <1>6, <2>4 DEF BeginTransaction
  <2>7. truth' = [f \in {"initial", "transactions"} |-> truth'[f]] /\ truth'.transactions \in Seq(DidType)
    <3>1. PICK did \in Seq(DidType) : did = truth.transactions
      BY DEF TypeOK
    <3>2. truth' = [truth EXCEPT !.transactions = Append(did, d)]
      BY <2>6, <3>1
    <3>3. Append(did, d) \in Seq(DidType)
      BY <2>5
    <3>4. PICK new \in Seq(DidType) : new = Append(did, d)
      BY <3>3
    <3>5. QED
      BY <3>2, <3>4 DEF TypeOK
  <2>8. attempt' = [u \in Threads |-> attempt'[u]] /\ \A u \in Threads : AttemptType(attempt'[u])
    BY <2>2, <2>3, AttemptTyped
  <2>9. QED
    BY <1>1, <1>2, <1>3, <1>4, <2>7, <2>8 DEF TypeOK
<1>7. QED
  BY <1>5, <1>6

\* The value that a read returns
LEMMA ReadValueTyped ==
    ASSUME TypeOK, NEW t \in Threads, NEW a \in Addresses
    PROVE  (IF a \in DOMAIN attempt[t].writes THEN attempt[t].writes[a] ELSE memory[a].value) \in Values
  BY DEF TypeOK, AttemptType, FieldType

LEMMA ReadTyped ==
    ASSUME TypeOK, NEW t \in Threads, ReadField(t)
    PROVE  TypeOK'
<1>1. PICK a \in Addresses : a = Entry(t).address
  BY EntryTyped DEF ReadField
<1>2. PICK value \in Values :
         value = IF a \in DOMAIN attempt[t].writes THEN attempt[t].writes[a] ELSE memory[a].value
  BY ReadValueTyped
<1>3. /\ LocationHook("tx_read", t, a, memory, value) /\ Locate(a) /\ Did(t, FALSE, a, value) /\ Advance(t)
      /\ attempt' = IF a \in DOMAIN attempt[t].writes THEN attempt
                    ELSE [attempt EXCEPT ![t].reads = Builder!Put(@, a, value)]
      /\ UNCHANGED <<scenario, context, lifetimes, memory>>
  BY <1>1, <1>2 DEF ReadField
<1>4. memory \in [Addresses -> FieldType] /\ events \in Seq(EventType)
  BY DEF TypeOK
<1>5. events' \in Seq(EventType)
  BY <1>3, <1>4, LocationHookFacts
<1>6. attempt' = [u \in Threads |-> attempt'[u]] /\ \A u \in Threads : AttemptType(attempt'[u])
  <2>1. CASE a \in DOMAIN attempt[t].writes
    BY <1>3, <2>1 DEF TypeOK
  <2>2. CASE a \notin DOMAIN attempt[t].writes
    <3>0. PICK old : old = attempt[t] /\ AttemptType(old)
      BY DEF TypeOK
    <3>1. PICK c : c = [old EXCEPT !.reads = Builder!Put(@, a, value)]
      OBVIOUS
    <3>2. AttemptType(c)
      BY <3>0, <3>1 DEF AttemptType
    <3>3. attempt' = [attempt EXCEPT ![t] = c]
      BY <1>3, <2>2, <3>0, <3>1
    <3>4. QED
      BY <3>2, <3>3, AttemptTyped
  <2>3. QED
    BY <2>1, <2>2
<1>7. QED
  BY <1>3, <1>5, <1>6, DidFacts, LocateTyped, AdvanceTyped DEF TypeOK

LEMMA WriteTyped ==
    ASSUME TypeOK, NEW t \in Threads, WriteField(t)
    PROVE  TypeOK'
<1>1. PICK a \in Addresses : a = Entry(t).address
  BY EntryTyped DEF WriteField
<1>2. PICK value \in Values : value = Entry(t).value
  BY EntryTyped DEF WriteField
<1>3. /\ LocationHook("tx_write", t, a, memory, value) /\ Locate(a) /\ Did(t, TRUE, a, value) /\ Advance(t)
      /\ attempt' = [attempt EXCEPT ![t].writes = Builder!Put(@, a, value)]
      /\ UNCHANGED <<scenario, context, lifetimes, memory>>
  BY <1>1, <1>2 DEF WriteField
<1>4. memory \in [Addresses -> FieldType] /\ events \in Seq(EventType)
  BY DEF TypeOK
<1>5. events' \in Seq(EventType)
  BY <1>3, <1>4, LocationHookFacts
<1>6. attempt' = [u \in Threads |-> attempt'[u]] /\ \A u \in Threads : AttemptType(attempt'[u])
  <2>0. PICK old : old = attempt[t] /\ AttemptType(old)
    BY DEF TypeOK
  <2>1. PICK c : c = [old EXCEPT !.writes = Builder!Put(@, a, value)]
    OBVIOUS
  <2>2. AttemptType(c)
    BY <2>0, <2>1 DEF AttemptType, Builder!Put
  <2>3. attempt' = [attempt EXCEPT ![t] = c]
    BY <1>3, <2>0, <2>1
  <2>4. QED
    BY <2>2, <2>3, AttemptTyped
<1>7. QED
  BY <1>3, <1>5, <1>6, DidFacts, LocateTyped, AdvanceTyped DEF TypeOK

LEMMA PublishTyped ==
    ASSUME TypeOK, NEW t \in Threads, Publish(t)
    PROVE  TypeOK'
<1>1. memory' \in [Addresses -> FieldType]
  <2>1. ASSUME NEW a \in Addresses PROVE memory'[a] \in FieldType
    <3>1. memory[a] \in FieldType
      BY DEF TypeOK
    <3>2. CASE a \in DOMAIN attempt[t].writes
      <4>1. attempt[t].writes[a] \in Values
        BY <3>2 DEF TypeOK, AttemptType
      <4>2. memory'[a] = [memory[a] EXCEPT !.value = attempt[t].writes[a]]
        BY <3>2 DEF Publish
      <4>3. QED
        BY <3>1, <4>1, <4>2 DEF FieldType
    <3>3. CASE a \notin DOMAIN attempt[t].writes
      BY <3>1, <3>3 DEF Publish
    <3>4. QED
      BY <3>2, <3>3
  <2>2. QED
    BY <2>1 DEF Publish
<1>2. attempt' = [u \in Threads |-> attempt'[u]] /\ \A u \in Threads : AttemptType(attempt'[u])
  <2>0. PICK old : old = attempt[t] /\ AttemptType(old) /\ old.state = "running"
    BY DEF TypeOK, Publish
  <2>1. PICK c : c = [old EXCEPT !.state = "published"]
    OBVIOUS
  <2>2. AttemptType(c)
    BY <2>0, <2>1 DEF AttemptType
  <2>3. attempt' = [attempt EXCEPT ![t] = c]
    BY <2>0, <2>1 DEF Publish
  <2>4. QED
    BY <2>2, <2>3, AttemptTyped
<1>3. QED
  BY <1>1, <1>2 DEF TypeOK, Publish

LEMMA CommitTyped ==
    ASSUME TypeOK, NEW t \in Threads, CommitSuccess(t)
    PROVE  TypeOK'
<1>1. context' \in [Threads -> ContextType]
  <2>1. PICK c \in ContextType : c = context[t]
    BY DEF TypeOK
  <2>2. ContextAtCommit(c) \in ContextType
    <3>1. CASE c.depth > 1
      <4>1. PICK d : d = [c EXCEPT !.depth = @ - 1]
        OBVIOUS
      <4>2. ContextAtCommit(c) = d
        BY <3>1, <4>1 DEF ContextAtCommit
      <4>3. d = [next |-> c.next, current |-> c.current, lastAborted |-> c.lastAborted, depth |-> c.depth - 1]
        BY <4>1 DEF ContextType
      <4>4. c.depth - 1 \in Nat
        BY <3>1 DEF ContextType
      <4>5. QED
        BY <4>2, <4>3, <4>4 DEF ContextType
    <3>2. CASE ~(c.depth > 1)
      <4>1. ContextAtCommit(c) = [c EXCEPT !.current = None, !.depth = 0]
        BY <3>2 DEF ContextAtCommit
      <4>2. PICK d : d = [c EXCEPT !.current = None, !.depth = 0]
        OBVIOUS
      <4>3. d = [next |-> c.next, current |-> None, lastAborted |-> c.lastAborted, depth |-> 0]
        BY <4>2 DEF ContextType
      <4>4. QED
        BY <4>1, <4>2, <4>3 DEF ContextType
    <3>3. QED
      BY <3>1, <3>2
  <2>3. QED
    BY <2>1, <2>2 DEF TypeOK, CommitSuccess, HookCommit
<1>2. events' \in Seq(EventType)
  <2>1. PICK tx \in Nat \cup {None} : tx = context[t].current
    BY DEF TypeOK, ContextType
  <2>2. TransactionHook("tx_commit_success", t, tx)
    BY <2>1 DEF CommitSuccess, HookCommit
  <2>3. PICK e \in EventType : events' = Append(events, e)
    BY <2>2, TransactionHookFacts
  <2>4. QED
    BY <2>3 DEF TypeOK
<1>3. Ended(t, "committed") /\ Advance(t) /\ UNCHANGED <<scenario, registry, lifetimes, memory>>
  BY DEF CommitSuccess
<1>4. attempt' = [u \in Threads |-> attempt'[u]] /\ \A u \in Threads : AttemptType(attempt'[u])
  <2>1. PICK c : c = NoAttempt
    OBVIOUS
  <2>2. AttemptType(c)
    BY <2>1 DEF NoAttempt, AttemptType
  <2>3. attempt' = [attempt EXCEPT ![t] = c]
    BY <2>1 DEF CommitSuccess
  <2>4. QED
    BY <2>2, <2>3, AttemptTyped
<1>5. QED
  BY <1>1, <1>2, <1>3, <1>4, EndedFacts, AdvanceTyped DEF TypeOK

LEMMA AbortTyped ==
    ASSUME TypeOK, NEW t \in Threads, AbortTransaction(t)
    PROVE  TypeOK'
<1>1. context' \in [Threads -> ContextType]
  <2>1. PICK c \in ContextType : c = context[t]
    BY DEF TypeOK
  <2>2. ContextAtAbort(c) \in ContextType
    BY DEF ContextAtAbort, ContextType
  <2>3. QED
    BY <2>1, <2>2 DEF TypeOK, AbortTransaction, HookAbort
<1>2. events' \in Seq(EventType)
  <2>1. PICK tx \in Nat \cup {None} : tx = context[t].current
    BY DEF TypeOK, ContextType
  <2>2. TransactionHook("tx_abort", t, tx)
    BY <2>1 DEF AbortTransaction, HookAbort
  <2>3. PICK e \in EventType : events' = Append(events, e)
    BY <2>2, TransactionHookFacts
  <2>4. QED
    BY <2>3 DEF TypeOK
<1>3. Ended(t, "aborted") /\ UNCHANGED <<scenario, registry, lifetimes, memory, pc>>
  BY DEF AbortTransaction
<1>4. attempt' = [u \in Threads |-> attempt'[u]] /\ \A u \in Threads : AttemptType(attempt'[u])
  <2>1. PICK old : old = attempt[t] /\ AttemptType(old) /\ old.state = "running"
    BY DEF TypeOK, AbortTransaction
  <2>2. PICK c : c = [NoAttempt EXCEPT !.state = "aborted", !.tries = old.tries + 1, !.start = old.start]
    OBVIOUS
  <2>3. AttemptType(c)
    <3>1. c = [state |-> "aborted", reads |-> <<>>, writes |-> <<>>, tries |-> old.tries + 1, start |-> old.start]
      BY <2>2 DEF NoAttempt
    <3>2. old.tries \in Nat /\ old.start \in Nat \ {0}
      BY <2>1 DEF AttemptType
    <3>3. QED
      BY <3>1, <3>2 DEF AttemptType
  <2>4. attempt' = [attempt EXCEPT ![t] = c]
    BY <2>1, <2>2 DEF AbortTransaction
  <2>5. QED
    BY <2>3, <2>4, AttemptTyped
<1>5. QED
  BY <1>1, <1>2, <1>3, <1>4, EndedFacts DEF TypeOK

LEMMA RetryTyped ==
    ASSUME TypeOK, NEW t \in Threads, RetryTransaction(t)
    PROVE  TypeOK'
<1>1. PICK old : old = attempt[t] /\ AttemptType(old) /\ old.state = "aborted"
  BY DEF TypeOK, RetryTransaction
<1>2. attempt' = [u \in Threads |-> attempt'[u]] /\ \A u \in Threads : AttemptType(attempt'[u])
  <2>1. PICK c : c = [old EXCEPT !.state = "idle"]
    OBVIOUS
  <2>2. AttemptType(c)
    BY <1>1, <2>1 DEF AttemptType
  <2>3. attempt' = [attempt EXCEPT ![t] = c]
    BY <1>1, <2>1 DEF RetryTransaction
  <2>4. QED
    BY <2>2, <2>3, AttemptTyped
<1>3. pc' \in [Threads -> Nat \ {0}]
  <2>1. attempt[t].start \in Nat \ {0}
    BY <1>1 DEF AttemptType
  <2>2. Len(scenario.scripts[t]) + 1 \in Nat \ {0}
    <3>1. scenario.scripts[t] \in Seq(ScriptEntryType)
      BY ScenariosAssumption DEF TypeOK
    <3>2. Len(scenario.scripts[t]) \in Nat
      BY <3>1
    <3>3. QED
      BY <3>2
  <2>3. QED
    BY <2>1, <2>2 DEF RetryTransaction, TypeOK
<1>4. UNCHANGED <<scenario, registry, lifetimes, memory, truth>>
  BY DEF RetryTransaction
<1>5. CASE attempt[t].tries < MaxAttempts
  <2>1. HookRetry(t)
    BY <1>5 DEF RetryTransaction
  <2>2. context' \in [Threads -> ContextType]
    <3>1. PICK c \in ContextType : c = context[t]
      BY DEF TypeOK
    <3>2. [c EXCEPT !.lastAborted = None] \in ContextType
      BY DEF ContextType
    <3>3. PICK d \in ContextType : d = [c EXCEPT !.lastAborted = None]
      BY <3>2
    <3>4. context' = [context EXCEPT ![t] = d]
      BY <2>1, <3>1, <3>3 DEF HookRetry
    <3>5. QED
      BY <3>4 DEF TypeOK
  <2>3. events' \in Seq(EventType)
    <3>1. PICK tx \in Nat \cup {None} :
             tx = IF context[t].current # None THEN context[t].current ELSE context[t].lastAborted
      BY DEF TypeOK, ContextType
    <3>2. TransactionHook("tx_retry", t, tx)
      BY <2>1, <3>1 DEF HookRetry
    <3>3. PICK e \in EventType : events' = Append(events, e)
      BY <3>2, TransactionHookFacts
    <3>4. QED
      BY <3>3 DEF TypeOK
  <2>4. QED
    BY <1>2, <1>3, <1>4, <2>2, <2>3 DEF TypeOK
<1>6. CASE ~(attempt[t].tries < MaxAttempts)
  <2>1. UNCHANGED <<context, events>>
    BY <1>6 DEF RetryTransaction
  <2>2. QED
    BY <1>2, <1>3, <1>4, <2>1 DEF TypeOK
<1>7. QED
  BY <1>5, <1>6

\* The fields once one was made at a
Made(a, value) ==
    [memory EXCEPT ![a] = [alive |-> TRUE, value |-> value,
                           incarnation |-> @.incarnation + 1, lifetime |-> <<a, lifetimes + 1>>]]

LEMMA ConstructFacts ==
    ASSUME TypeOK, NEW t \in Threads, ConstructField(t)
    PROVE  \E a \in Addresses, value \in Values :
              /\ ~ memory[a].alive /\ memory' = Made(a, value) /\ lifetimes' = lifetimes + 1
              /\ memory' \in [Addresses -> FieldType]
              /\ LocationHook("tx_location_init", t, a, Made(a, value), value)
              /\ Locate(a) /\ Advance(t) /\ Misuse("dead", UsedByOne(a))
              /\ truth' = [truth EXCEPT !.initial = Builder!Put(@, <<a, Made(a, value)[a].incarnation>>, value)]
              /\ UNCHANGED <<scenario, context, attempt>>
<1>1. PICK a \in Addresses : a = Entry(t).address
  BY EntryTyped DEF ConstructField
<1>2. PICK value \in Values : value = Entry(t).value
  BY EntryTyped DEF ConstructField
<1>3. /\ ~ memory[a].alive /\ memory' = Made(a, value) /\ lifetimes' = lifetimes + 1
      /\ LocationHook("tx_location_init", t, a, Made(a, value), value)
      /\ Locate(a) /\ Advance(t) /\ Misuse("dead", UsedByOne(a))
      /\ truth' = [truth EXCEPT !.initial = Builder!Put(@, <<a, Made(a, value)[a].incarnation>>, value)]
      /\ UNCHANGED <<scenario, context, attempt>>
  BY <1>1, <1>2 DEF ConstructField, Made
<1>4. PICK field : field = [alive |-> TRUE, value |-> value, incarnation |-> memory[a].incarnation + 1,
                            lifetime |-> <<a, lifetimes + 1>>]
  OBVIOUS
<1>5. field \in FieldType
  BY <1>4 DEF TypeOK, FieldType
<1>6. memory' = [memory EXCEPT ![a] = field]
  BY <1>3, <1>4 DEF Made
<1>7. memory' \in [Addresses -> FieldType]
  BY <1>5, <1>6 DEF TypeOK
<1>8. QED
  BY <1>3, <1>7

LEMMA ConstructTyped ==
    ASSUME TypeOK, NEW t \in Threads, ConstructField(t)
    PROVE  TypeOK'
<1>1. PICK a \in Addresses, value \in Values :
              /\ memory' = Made(a, value) /\ lifetimes' = lifetimes + 1
              /\ memory' \in [Addresses -> FieldType]
              /\ LocationHook("tx_location_init", t, a, Made(a, value), value)
              /\ Locate(a) /\ Advance(t)
              /\ truth' = [truth EXCEPT !.initial = Builder!Put(@, <<a, Made(a, value)[a].incarnation>>, value)]
              /\ UNCHANGED <<scenario, context, attempt>>
  BY ConstructFacts
<1>2. events' \in Seq(EventType)
  <2>1. PICK made \in [Addresses -> FieldType] : made = Made(a, value)
    BY <1>1
  <2>2. LocationHook("tx_location_init", t, a, made, value)
    BY <1>1, <2>1
  <2>3. PICK e \in EventType : events' = Append(events, e)
    BY <2>2, LocationHookFacts
  <2>4. QED
    BY <2>3 DEF TypeOK
<1>3. PICK initial : truth' = [truth EXCEPT !.initial = initial]
  BY <1>1
<1>4. truth' = [f \in {"initial", "transactions"} |-> truth'[f]] /\ truth'.transactions \in Seq(DidType)
  BY <1>3 DEF TypeOK
<1>5. lifetimes' \in Nat
  BY <1>1 DEF TypeOK
<1>6. QED
  BY <1>1, <1>2, <1>4, <1>5, LocateTyped, AdvanceTyped DEF TypeOK

LEMMA DestroyTyped ==
    ASSUME TypeOK, NEW t \in Threads, DestroyField(t)
    PROVE  TypeOK'
<1>1. PICK a \in Addresses : a = Entry(t).address
  BY EntryTyped DEF DestroyField
<1>2. PICK known \in BOOLEAN : known <=> (scenario.identity = "registry" => registry[a].active)
  OBVIOUS
<1>3. /\ memory' = [memory EXCEPT ![a].alive = FALSE]
      /\ registry' = IF scenario.identity = "registry" /\ known THEN Unregistered(a) ELSE registry
      /\ IF known THEN LocationHook("tx_location_destroy", t, a, memory, None) ELSE UNCHANGED events
      /\ Advance(t) /\ UNCHANGED <<scenario, context, lifetimes, attempt, truth>>
  BY <1>1, <1>2 DEF DestroyField
<1>4. memory' \in [Addresses -> FieldType]
  <2>1. PICK field \in FieldType : field = memory[a]
    BY DEF TypeOK
  <2>2. [field EXCEPT !.alive = FALSE] \in FieldType
    BY DEF FieldType
  <2>3. PICK new \in FieldType : new = [field EXCEPT !.alive = FALSE]
    BY <2>2
  <2>4. memory' = [memory EXCEPT ![a] = new]
    BY <1>3, <2>1, <2>3
  <2>5. QED
    BY <2>4 DEF TypeOK
<1>5. registry' \in [Addresses -> [active : BOOLEAN, generation : Nat]]
  <2>1. PICK entry : entry = registry[a] /\ entry \in [active : BOOLEAN, generation : Nat]
    BY DEF TypeOK
  <2>2. [active |-> FALSE, generation |-> entry.generation + 1] \in [active : BOOLEAN, generation : Nat]
    BY <2>1
  <2>3. Unregistered(a) = [registry EXCEPT ![a] = [active |-> FALSE, generation |-> entry.generation + 1]]
    BY <2>1 DEF Unregistered
  <2>4. QED
    BY <1>3, <2>2, <2>3 DEF TypeOK
<1>6. events' \in Seq(EventType)
  <2>1. CASE known
    <3>1. LocationHook("tx_location_destroy", t, a, memory, None) /\ memory \in [Addresses -> FieldType]
      BY <1>3, <2>1 DEF TypeOK
    <3>2. PICK e \in EventType : events' = Append(events, e)
      BY <3>1, LocationHookFacts
    <3>3. QED
      BY <3>2 DEF TypeOK
  <2>2. CASE ~ known
    BY <1>3, <2>2 DEF TypeOK
  <2>3. QED
    BY <2>1, <2>2
<1>7. QED
  BY <1>3, <1>4, <1>5, <1>6, AdvanceTyped DEF TypeOK

LEMMA InitTyped == Init => TypeOK
<1> SUFFICES ASSUME Init PROVE TypeOK
  OBVIOUS
<1>1. /\ scenario \in Scenarios /\ scenario.recorded \in Seq(EventType)
      /\ scenario.truth = [initial |-> scenario.truth.initial, transactions |-> scenario.truth.transactions]
      /\ scenario.truth.transactions \in Seq(DidType)
  BY ScenariosAssumption DEF Init
<1>2. context \in [Threads -> ContextType] /\ pc \in [Threads -> Nat \ {0}]
  BY DEF Init, NoContext, ContextType
<1>3. registry \in [Addresses -> [active : BOOLEAN, generation : Nat]]
  <2>1. PICK active \in BOOLEAN : registry = [a \in Addresses |-> [active |-> active, generation |-> 0]]
    BY DEF Init
  <2>2. QED
    BY <2>1
<1>4. memory \in [Addresses -> FieldType] /\ lifetimes \in Nat
  BY ScenariosAssumption DEF Init, FieldType
<1>5. attempt = [t \in Threads |-> attempt[t]] /\ \A t \in Threads : AttemptType(attempt[t])
  <2>1. AttemptType(NoAttempt)
    BY DEF AttemptType, NoAttempt
  <2>2. QED
    BY <2>1 DEF Init
<1>6. truth = [f \in {"initial", "transactions"} |-> truth[f]] /\ truth.transactions \in Seq(DidType)
  <2>1. truth = scenario.truth
    BY DEF Init
  <2>2. QED
    BY <1>1, <2>1
<1>7. QED
  BY <1>1, <1>2, <1>3, <1>4, <1>5, <1>6 DEF TypeOK, Init

LEMMA TypeNext ==
    ASSUME TypeOK, [Next]_vars
    PROVE  TypeOK'
<1>1. ASSUME NEW t \in Threads,
             \/ BeginTransaction(t) \/ ReadField(t) \/ WriteField(t) \/ Publish(t) \/ CommitSuccess(t)
             \/ AbortTransaction(t) \/ RetryTransaction(t) \/ ConstructField(t) \/ DestroyField(t)
      PROVE  TypeOK'
  BY <1>1, BeginTyped, ReadTyped, WriteTyped, PublishTyped, CommitTyped, AbortTyped, RetryTyped,
     ConstructTyped, DestroyTyped
<1>2. CASE UNCHANGED vars
  BY <1>2 DEF vars, TypeOK
<1>3. QED
  BY <1>1, <1>2 DEF Next

\* The hooks, the handles and the events they record keep their types, whatever the scripts do.
THEOREM TransactionsTypeCorrect == Spec => []TypeOK
<1>1. QED
  BY InitTyped, TypeNext, PTL DEF Spec

-----------------------------------------------------------------------------
(* What happened and what the builder holds, side by side                  *)

LocationType == HandleType \cup (Addresses \X Nat)

DidAccess == [write : BOOLEAN, loc : Addresses \X Nat, value : Values]

BuiltAccess == [write : BOOLEAN, loc : LocationType, value : Values]

BuiltType ==
    [thread : Threads, tx : Nat, begin : Nat, end : Nat, outcome : {"live", "committed", "aborted"},
     accesses : Seq(BuiltAccess)]

\* Two transactions agree on all but the names of locations
SameTransaction(d, e) ==
    /\ d.thread = e.thread /\ d.begin = e.begin /\ d.end = e.end /\ d.outcome = e.outcome
    /\ Len(d.accesses) = Len(e.accesses)
    /\ \A k \in DOMAIN d.accesses :
          d.accesses[k].write = e.accesses[k].write /\ d.accesses[k].value = e.accesses[k].value

Matched(did, built) == Len(did) = Len(built) /\ \A i \in DOMAIN did : SameTransaction(did[i], built[i])

LEMMA AppendFacts ==
    ASSUME NEW S, NEW s \in Seq(S), NEW x \in S
    PROVE  /\ Len(Append(s, x)) = Len(s) + 1 /\ Len(s) \in Nat
           /\ DOMAIN Append(s, x) = 1 .. Len(s) + 1 /\ DOMAIN s = 1 .. Len(s)
           /\ Append(s, x)[Len(s) + 1] = x
           /\ \A k \in 1 .. Len(s) : Append(s, x)[k] = s[k]
  OBVIOUS

LEMMA PairsAre ==
    ASSUME NEW did, NEW built, NEW p
    PROVE  p \in Pairs(did, built) <=>
              \E i \in DOMAIN did : \E k \in DOMAIN did[i].accesses :
                 p = <<did[i].accesses[k], built[i].accesses[k]>>
  BY DEF Pairs

LEMMA PairTyped ==
    ASSUME NEW did \in Seq(DidType), NEW built \in Seq(BuiltType), Matched(did, built),
           NEW p \in Pairs(did, built)
    PROVE  /\ p = <<p[1], p[2]>> /\ p[1].loc \in Addresses \X Nat
           /\ p[1].write = p[2].write /\ p[1].value = p[2].value
<1>1. PICK i \in DOMAIN did : \E k \in DOMAIN did[i].accesses :
         p = <<did[i].accesses[k], built[i].accesses[k]>>
  BY PairsAre
<1>2. PICK k \in DOMAIN did[i].accesses : p = <<did[i].accesses[k], built[i].accesses[k]>>
  BY <1>1
<1>3. PICK d \in DidType : d = did[i]
  OBVIOUS
<1>4. did[i].accesses[k] \in DidAccess
  <2>1. PICK x \in Seq(DidAccess) : x = d.accesses
    BY DEF DidType, DidAccess
  <2>2. k \in DOMAIN x /\ did[i].accesses[k] = x[k]
    BY <1>3, <2>1
  <2>3. x[k] \in DidAccess
    BY <2>2
  <2>4. QED
    BY <2>2, <2>3
<1>5. SameTransaction(did[i], built[i])
  BY DEF Matched
<1>6. QED
  BY <1>2, <1>4, <1>5 DEF SameTransaction, DidAccess

\* Transactions begin with no accesses
LEMMA BeginMatched ==
    ASSUME NEW did \in Seq(DidType), NEW built \in Seq(BuiltType), Matched(did, built),
           NEW d \in DidType, NEW e \in BuiltType, SameTransaction(d, e), d.accesses = <<>>
    PROVE  /\ Matched(Append(did, d), Append(built, e))
           /\ Pairs(Append(did, d), Append(built, e)) = Pairs(did, built)
<1>1. PICK new : new = Append(did, d)
  OBVIOUS
<1>2. PICK newer : newer = Append(built, e)
  OBVIOUS
<1>3. /\ Len(did) \in Nat /\ Len(built) = Len(did)
      /\ DOMAIN did = 1 .. Len(did) /\ DOMAIN new = 1 .. Len(did) + 1
      /\ Len(new) = Len(did) + 1 /\ Len(newer) = Len(did) + 1
      /\ new[Len(did) + 1] = d /\ newer[Len(did) + 1] = e
      /\ \A i \in DOMAIN did : new[i] = did[i] /\ newer[i] = built[i]
  BY <1>1, <1>2 DEF Matched
<1>4. ASSUME NEW i \in DOMAIN new PROVE SameTransaction(new[i], newer[i])
  <2>1. CASE i = Len(did) + 1
    BY <1>3, <2>1
  <2>2. CASE i # Len(did) + 1
    <3>1. i \in DOMAIN did
      BY <1>3, <2>2
    <3>2. QED
      BY <1>3, <3>1 DEF Matched
  <2>3. QED
    BY <2>1, <2>2
<1>5. ASSUME NEW p PROVE p \in Pairs(new, newer) <=> p \in Pairs(did, built)
  <2>1. ASSUME NEW i \in DOMAIN new, NEW k \in DOMAIN new[i].accesses,
               p = <<new[i].accesses[k], newer[i].accesses[k]>>
        PROVE  p \in Pairs(did, built)
    <3>1. i \in DOMAIN did
      <4>1. i # Len(did) + 1
        BY <1>3
      <4>2. QED
        BY <1>3, <4>1
    <3>2. new[i] = did[i] /\ newer[i] = built[i]
      BY <1>3, <3>1
    <3>3. QED
      BY <2>1, <3>1, <3>2, PairsAre
  <2>2. ASSUME NEW i \in DOMAIN did, NEW k \in DOMAIN did[i].accesses,
               p = <<did[i].accesses[k], built[i].accesses[k]>>
        PROVE  p \in Pairs(new, newer)
    <3>1. i \in DOMAIN new /\ new[i] = did[i] /\ newer[i] = built[i]
      BY <1>3
    <3>2. QED
      BY <2>2, <3>1, PairsAre
  <2>3. QED
    BY <2>1, <2>2, PairsAre
<1>6. QED
  BY <1>1, <1>2, <1>3, <1>4, <1>5 DEF Matched

WithOutcome(did, i, outcome, n) == [did EXCEPT ![i].outcome = outcome, ![i].end = n]

\* A transaction ends on both sides
LEMMA EndMatched ==
    ASSUME NEW did \in Seq(DidType), NEW built \in Seq(BuiltType), Matched(did, built),
           NEW i \in DOMAIN built, NEW outcome \in {"committed", "aborted"}, NEW n \in Nat
    PROVE  /\ Builder!WithEnd(built, {i}, outcome, n) \in Seq(BuiltType)
           /\ Matched(WithOutcome(did, i, outcome, n), Builder!WithEnd(built, {i}, outcome, n))
           /\ Pairs(WithOutcome(did, i, outcome, n), Builder!WithEnd(built, {i}, outcome, n)) = Pairs(did, built)
<1>0. PICK new : new = WithOutcome(did, i, outcome, n)
  OBVIOUS
<1>1. new = [did EXCEPT ![i].outcome = outcome, ![i].end = n]
  BY <1>0 DEF WithOutcome
<1>2. PICK newer : newer = Builder!WithEnd(built, {i}, outcome, n)
  OBVIOUS
<1>3. /\ Len(did) \in Nat /\ Len(built) = Len(did) /\ DOMAIN did = 1 .. Len(did) /\ DOMAIN built = 1 .. Len(did)
      /\ did \in [1 .. Len(did) -> DidType] /\ built \in [1 .. Len(did) -> BuiltType]
  BY DEF Matched
<1>4. DOMAIN new = DOMAIN did /\ DOMAIN newer = DOMAIN did
  BY <1>1, <1>2, <1>3 DEF Builder!WithEnd
<1>5. new \in Seq(DidType)
  BY <1>1, EndedTyped
<1>6. newer \in Seq(BuiltType)
  <2>1. ASSUME NEW j \in DOMAIN did PROVE newer[j] \in BuiltType
    <3>1. PICK old \in BuiltType : old = built[j]
      BY <1>3
    <3>2. [old EXCEPT !.outcome = outcome, !.end = n] \in BuiltType
      BY DEF BuiltType
    <3>3. newer[j] = IF j = i THEN [old EXCEPT !.outcome = outcome, !.end = n] ELSE old
      BY <1>2, <1>3, <3>1 DEF Builder!WithEnd
    <3>4. QED
      BY <3>2, <3>3
  <2>2. newer = [j \in DOMAIN did |-> newer[j]]
    BY <1>2, <1>3 DEF Builder!WithEnd
  <2>3. newer \in [1 .. Len(did) -> BuiltType]
    BY <1>3, <2>1, <2>2
  <2>4. QED
    BY <1>3, <2>3
<1>7. Len(new) = Len(newer)
  BY <1>3, <1>4, <1>5, <1>6
<1>8. ASSUME NEW j \in DOMAIN did
      PROVE  /\ SameTransaction(new[j], newer[j])
             /\ new[j].accesses = did[j].accesses /\ newer[j].accesses = built[j].accesses
  <2>1. PICK d \in DidType : d = did[j]
    BY <1>3
  <2>2. PICK e \in BuiltType : e = built[j]
    BY <1>3
  <2>3. SameTransaction(d, e)
    BY <2>1, <2>2 DEF Matched
  <2>4. CASE j # i
    <3>1. new[j] = d /\ newer[j] = e
      BY <1>1, <1>2, <1>3, <2>1, <2>2, <2>4 DEF Builder!WithEnd
    <3>2. QED
      BY <2>1, <2>2, <2>3, <3>1
  <2>5. CASE j = i
    <3>1. new[j] = [d EXCEPT !.outcome = outcome, !.end = n]
      BY <1>1, <1>3, <2>1, <2>5
    <3>2. newer[j] = [e EXCEPT !.outcome = outcome, !.end = n]
      BY <1>2, <1>3, <2>2, <2>5 DEF Builder!WithEnd
    <3>3. /\ new[j].thread = d.thread /\ new[j].begin = d.begin /\ new[j].accesses = d.accesses
          /\ new[j].outcome = outcome /\ new[j].end = n
      BY <3>1 DEF DidType
    <3>4. /\ newer[j].thread = e.thread /\ newer[j].begin = e.begin /\ newer[j].accesses = e.accesses
          /\ newer[j].outcome = outcome /\ newer[j].end = n
      BY <3>2 DEF BuiltType
    <3>5. QED
      BY <2>1, <2>2, <2>3, <3>3, <3>4 DEF SameTransaction
  <2>6. QED
    BY <2>4, <2>5
<1>9. ASSUME NEW p PROVE p \in Pairs(new, newer) <=> p \in Pairs(did, built)
  <2>1. (\E j \in DOMAIN new : \E k \in DOMAIN new[j].accesses :
            p = <<new[j].accesses[k], newer[j].accesses[k]>>)
        <=> (\E j \in DOMAIN did : \E k \in DOMAIN did[j].accesses :
            p = <<did[j].accesses[k], built[j].accesses[k]>>)
    BY <1>4, <1>8
  <2>2. p \in Pairs(new, newer) <=> \E j \in DOMAIN new : \E k \in DOMAIN new[j].accesses :
            p = <<new[j].accesses[k], newer[j].accesses[k]>>
    BY PairsAre
  <2>3. p \in Pairs(did, built) <=> \E j \in DOMAIN did : \E k \in DOMAIN did[j].accesses :
            p = <<did[j].accesses[k], built[j].accesses[k]>>
    BY PairsAre
  <2>4. QED
    BY <2>1, <2>2, <2>3
<1>10. QED
  BY <1>0, <1>2, <1>4, <1>6, <1>7, <1>8, <1>9 DEF Matched

\* new and newer are did and built, their accesses and their likeness kept
StillMatched(did, built, new, newer) ==
    newer \in Seq(BuiltType) /\ Matched(new, newer) /\ Pairs(new, newer) = Pairs(did, built)

LEMMA EndPair ==
    ASSUME NEW did \in Seq(DidType), NEW built \in Seq(BuiltType), Matched(did, built),
           NEW i \in DOMAIN built, NEW outcome \in {"committed", "aborted"}, NEW n \in Nat
    PROVE  StillMatched(did, built, WithOutcome(did, i, outcome, n), Builder!WithEnd(built, {i}, outcome, n))
  BY EndMatched DEF StillMatched

\* A transaction makes an access on both sides
LEMMA AccessMatched ==
    ASSUME NEW did \in Seq(DidType), NEW built \in Seq(BuiltType), Matched(did, built),
           NEW i \in DOMAIN built,
           NEW d \in DidAccess,
           NEW e \in BuiltAccess,
           d.write = e.write, d.value = e.value
    PROVE  /\ Builder!WithAccess(built, {i}, e) \in Seq(BuiltType)
           /\ Matched([did EXCEPT ![i].accesses = Append(@, d)], Builder!WithAccess(built, {i}, e))
           /\ Pairs([did EXCEPT ![i].accesses = Append(@, d)], Builder!WithAccess(built, {i}, e))
                 \subseteq Pairs(did, built) \cup {<<d, e>>}
<1>1. PICK new : new = [did EXCEPT ![i].accesses = Append(@, d)]
  OBVIOUS
<1>2. PICK newer : newer = Builder!WithAccess(built, {i}, e)
  OBVIOUS
<1>3. /\ Len(did) \in Nat /\ Len(built) = Len(did) /\ DOMAIN did = 1 .. Len(did) /\ DOMAIN built = 1 .. Len(did)
      /\ did \in [1 .. Len(did) -> DidType] /\ built \in [1 .. Len(did) -> BuiltType]
  BY DEF Matched
<1>4. DOMAIN new = DOMAIN did /\ DOMAIN newer = DOMAIN did
  BY <1>1, <1>2, <1>3 DEF Builder!WithAccess
<1>5. new \in Seq(DidType)
  BY <1>1, DidTyped DEF DidAccess
<1>6. newer \in Seq(BuiltType)
  <2>1. ASSUME NEW j \in DOMAIN did PROVE newer[j] \in BuiltType
    <3>1. PICK old \in BuiltType : old = built[j]
      BY <1>3
    <3>2. PICK accesses : accesses = Append(old.accesses, e)
      OBVIOUS
    <3>3. accesses \in Seq(BuiltAccess)
      BY <3>2 DEF BuiltType
    <3>4. [old EXCEPT !.accesses = accesses] \in BuiltType
      BY <3>3 DEF BuiltType
    <3>5. newer[j] = IF j = i THEN [old EXCEPT !.accesses = accesses] ELSE old
      BY <1>2, <1>3, <3>1, <3>2 DEF Builder!WithAccess
    <3>6. QED
      BY <3>4, <3>5
  <2>2. newer = [j \in DOMAIN did |-> newer[j]]
    BY <1>2, <1>3 DEF Builder!WithAccess
  <2>3. newer \in [1 .. Len(did) -> BuiltType]
    BY <1>3, <2>1, <2>2
  <2>4. QED
    BY <1>3, <2>3
<1>7. Len(new) = Len(newer)
  BY <1>3, <1>4, <1>5, <1>6
<1>8. ASSUME NEW j \in DOMAIN did, j # i
      PROVE  new[j] = did[j] /\ newer[j] = built[j]
  BY <1>1, <1>2, <1>3, <1>8 DEF Builder!WithAccess
<1>9. PICK old \in DidType : old = did[i]
  BY <1>3
<1>10. PICK older \in BuiltType : older = built[i]
  BY <1>3
<1>11. new[i] = [old EXCEPT !.accesses = Append(@, d)] /\ newer[i] = [older EXCEPT !.accesses = Append(@, e)]
  BY <1>1, <1>2, <1>3, <1>9, <1>10 DEF Builder!WithAccess
<1>12. SameTransaction(old, older)
  BY <1>3, <1>9, <1>10 DEF Matched
<1>13. PICK x \in Seq(DidAccess) : x = old.accesses
  BY DEF DidType, DidAccess
<1>14. PICK y \in Seq(BuiltAccess) : y = older.accesses
  BY DEF BuiltType
<1>15. PICK n \in Nat : n = Len(x) /\ n = Len(y)
  BY <1>12, <1>13, <1>14 DEF SameTransaction
<1>16. /\ new[i].accesses = Append(x, d) /\ newer[i].accesses = Append(y, e)
       /\ new[i].thread = old.thread /\ new[i].begin = old.begin /\ new[i].end = old.end
       /\ new[i].outcome = old.outcome
       /\ newer[i].thread = older.thread /\ newer[i].begin = older.begin /\ newer[i].end = older.end
       /\ newer[i].outcome = older.outcome
  BY <1>11, <1>13, <1>14 DEF DidType, BuiltType
<1>17. /\ Len(Append(x, d)) = n + 1 /\ Len(Append(y, e)) = n + 1
       /\ DOMAIN Append(x, d) = 1 .. n + 1 /\ DOMAIN x = 1 .. n
       /\ Append(x, d)[n + 1] = d /\ Append(y, e)[n + 1] = e
       /\ \A k \in 1 .. n : Append(x, d)[k] = x[k] /\ Append(y, e)[k] = y[k]
  <2>1. /\ Len(Append(x, d)) = Len(x) + 1 /\ DOMAIN Append(x, d) = 1 .. Len(x) + 1 /\ DOMAIN x = 1 .. Len(x)
        /\ Append(x, d)[Len(x) + 1] = d /\ \A k \in 1 .. Len(x) : Append(x, d)[k] = x[k]
    BY AppendFacts
  <2>2. /\ Len(Append(y, e)) = Len(y) + 1
        /\ Append(y, e)[Len(y) + 1] = e /\ \A k \in 1 .. Len(y) : Append(y, e)[k] = y[k]
    BY AppendFacts
  <2>3. Len(x) = n /\ Len(y) = n
    BY <1>15
  <2>4. QED
    BY <2>1, <2>2, <2>3
<1>18. \A k \in 1 .. n + 1 : k = n + 1 \/ k \in 1 .. n
  OBVIOUS
<1>19. SameTransaction(new[i], newer[i])
  <2>1. ASSUME NEW k \in 1 .. n + 1
        PROVE  Append(x, d)[k].write = Append(y, e)[k].write /\ Append(x, d)[k].value = Append(y, e)[k].value
    <3>1. \A l \in 1 .. n : x[l].write = y[l].write /\ x[l].value = y[l].value
      BY <1>12, <1>13, <1>14, <1>17 DEF SameTransaction
    <3>2. CASE k = n + 1
      BY <1>17, <3>2
    <3>3. CASE k \in 1 .. n
      BY <1>17, <3>1, <3>3
    <3>4. QED
      BY <1>18, <3>2, <3>3
  <2>2. QED
    BY <1>12, <1>16, <1>17, <2>1 DEF SameTransaction
<1>20. ASSUME NEW j \in DOMAIN did PROVE SameTransaction(new[j], newer[j])
  BY <1>8, <1>19 DEF Matched
<1>21. ASSUME NEW p \in Pairs(new, newer) PROVE p \in Pairs(did, built) \cup {<<d, e>>}
  <2>1. PICK j \in DOMAIN new : \E k \in DOMAIN new[j].accesses :
           p = <<new[j].accesses[k], newer[j].accesses[k]>>
    BY PairsAre
  <2>2. PICK k \in DOMAIN new[j].accesses : p = <<new[j].accesses[k], newer[j].accesses[k]>>
    BY <2>1
  <2>3. CASE j # i
    <3>1. new[j] = did[j] /\ newer[j] = built[j] /\ j \in DOMAIN did
      BY <1>4, <1>8, <2>3
    <3>2. p \in Pairs(did, built)
      BY <2>2, <3>1, PairsAre
    <3>3. QED
      BY <3>2
  <2>4. CASE j = i
    <3>1. k \in 1 .. n + 1 /\ p = <<Append(x, d)[k], Append(y, e)[k]>>
      BY <1>16, <1>17, <2>2, <2>4
    <3>2. CASE k = n + 1
      BY <1>17, <3>1, <3>2
    <3>3. CASE k \in 1 .. n
      <4>1. p = <<did[i].accesses[k], built[i].accesses[k]>> /\ k \in DOMAIN did[i].accesses /\ i \in DOMAIN did
        BY <1>3, <1>9, <1>10, <1>13, <1>14, <1>17, <3>1, <3>3
      <4>2. p \in Pairs(did, built)
        BY <4>1, PairsAre
      <4>3. QED
        BY <4>2
    <3>4. QED
      BY <1>18, <3>1, <3>2, <3>3
  <2>5. QED
    BY <2>3, <2>4
<1>22. QED
  BY <1>1, <1>2, <1>4, <1>6, <1>7, <1>20, <1>21 DEF Matched

-----------------------------------------------------------------------------
(* Initial values: only the init of a location touches them                *)

\* A step that touches neither transactions nor initial values
Quiet(b, r) == IsBuilder(r) /\ r.transactions = b.transactions /\ r.initial = b.initial

LEMMA FailQuiet ==
    ASSUME NEW b, IsBuilder(b)
    PROVE  Quiet(b, Builder!Fail(b))
BY DEF Quiet, IsBuilder, BuilderFields, Builder!Fail

LEMMA AnomalyQuiet ==
    ASSUME NEW b, IsBuilder(b), NEW occurred \in BOOLEAN
    PROVE  Quiet(b, Builder!LifetimeAnomaly(b, occurred))
<1>1. CASE ~ occurred
  BY <1>1 DEF Quiet, Builder!LifetimeAnomaly
<1>2. CASE occurred /\ b.strict
  <2>1. Builder!LifetimeAnomaly(b, occurred) = Builder!Fail(b)
    BY <1>2 DEF Builder!LifetimeAnomaly
  <2>2. QED
    BY <2>1, FailQuiet
<1>3. CASE occurred /\ ~ b.strict
  <2>1. PICK r : r = Builder!LifetimeAnomaly(b, occurred)
    OBVIOUS
  <2>2. r = [b EXCEPT !.anomalies = @ + 1]
    BY <1>3, <2>1 DEF Builder!LifetimeAnomaly
  <2>3. Quiet(b, r)
    BY <2>2 DEF Quiet, IsBuilder, BuilderFields
  <2>4. QED
    BY <2>1, <2>3
<1>4. QED
  BY <1>1, <1>2, <1>3

LEMMA ActiveQuiet ==
    ASSUME NEW b, IsBuilder(b), NEW a
    PROVE  Quiet(b, Builder!EnsureActiveLocation(b, a))
<1>1. PICK first \in BOOLEAN : first = \E h \in DOMAIN b.explicit : b.explicit[h] = a
  OBVIOUS
<1>2. PICK second \in BOOLEAN : second = (Builder!Live(b) # {} /\ a \in b.explicitSeen)
  OBVIOUS
<1>3. PICK c : c = Builder!LifetimeAnomaly(b, first)
  OBVIOUS
<1>4. PICK d : d = Builder!LifetimeAnomaly(c, second)
  OBVIOUS
<1>5. PICK r : r = Builder!EnsureActiveLocation(b, a)
  OBVIOUS
<1>6. r = IF a \in DOMAIN b.raw THEN d
          ELSE IF NextGeneration(b, a) > 0 /\ Builder!Live(b) # {} THEN Builder!Fail(d)
          ELSE [d EXCEPT !.raw = Builder!Put(@, a, <<a, NextGeneration(b, a)>>)]
  BY <1>1, <1>2, <1>3, <1>4, <1>5 DEF Builder!EnsureActiveLocation, NextGeneration
<1>7. Quiet(b, c) /\ Quiet(c, d) /\ Quiet(b, d)
  BY <1>3, <1>4, AnomalyQuiet DEF Quiet
<1>8. Quiet(d, Builder!Fail(d))
  BY <1>7, FailQuiet DEF Quiet
<1>9. Quiet(d, [d EXCEPT !.raw = Builder!Put(@, a, <<a, NextGeneration(b, a)>>)])
  BY <1>7 DEF Quiet, IsBuilder, BuilderFields
<1>10. Quiet(d, r)
  BY <1>6, <1>7, <1>8, <1>9 DEF Quiet
<1>11. QED
  BY <1>5, <1>7, <1>10 DEF Quiet

LEMMA ReviveQuiet ==
    ASSUME NEW b, IsBuilder(b), NEW a
    PROVE  Quiet(b, Builder!ReviveRaw(b, a))
<1>1. PICK occurred \in BOOLEAN : occurred = (~ b.strict /\ a \in b.ignored)
  OBVIOUS
<1>2. PICK c : c = Builder!LifetimeAnomaly(b, occurred)
  OBVIOUS
<1>3. PICK r : r = [c EXCEPT !.ignored = @ \ {a}]
  OBVIOUS
<1>4. Builder!ReviveRaw(b, a) = r
  BY <1>1, <1>2, <1>3 DEF Builder!ReviveRaw
<1>5. Quiet(b, c)
  BY <1>2, AnomalyQuiet
<1>6. Quiet(c, r)
  BY <1>3, <1>5 DEF Quiet, IsBuilder, BuilderFields
<1>7. QED
  BY <1>4, <1>5, <1>6 DEF Quiet

LEMMA ExplicitQuiet ==
    ASSUME NEW b, IsBuilder(b), NEW e
    PROVE  Quiet(b, Builder!EnsureExplicitLocation(b, e))
<1>1. PICK known : known = IF e.handle \in DOMAIN b.explicit THEN b.explicit[e.handle] ELSE None
  OBVIOUS
<1>2. PICK a : a = IF e.address = None THEN known ELSE e.address
  OBVIOUS
<1>3. PICK occurred \in BOOLEAN : occurred = (a # None /\ a \in DOMAIN b.raw)
  OBVIOUS
<1>4. PICK c : c = Builder!LifetimeAnomaly(b, occurred)
  OBVIOUS
<1>5. PICK r : r = Builder!EnsureExplicitLocation(b, e)
  OBVIOUS
<1>6. r = IF e.handle \in b.destroyed \/ known \notin {None, a} THEN Builder!Fail(b)
          ELSE [c EXCEPT !.explicit = Builder!Put(@, e.handle, a),
                         !.explicitSeen = @ \cup ({a} \ {None})]
  BY <1>1, <1>2, <1>3, <1>4, <1>5 DEF Builder!EnsureExplicitLocation
<1>7. Quiet(b, c)
  BY <1>4, AnomalyQuiet
<1>8. Quiet(c, [c EXCEPT !.explicit = Builder!Put(@, e.handle, a), !.explicitSeen = @ \cup ({a} \ {None})])
  BY <1>7 DEF Quiet, IsBuilder, BuilderFields
<1>9. Quiet(b, r)
  BY <1>6, <1>7, <1>8, FailQuiet DEF Quiet
<1>10. QED
  BY <1>5, <1>9

LEMMA EnsureQuiet ==
    ASSUME NEW b, IsBuilder(b), NEW e
    PROVE  Quiet(b, Builder!EnsureLocation(b, e))
<1>1. PICK c : c = Builder!ReviveRaw(b, e.address)
  OBVIOUS
<1>2. Quiet(b, c)
  BY <1>1, ReviveQuiet
<1>3. Quiet(c, Builder!EnsureActiveLocation(c, e.address))
  BY <1>2, ActiveQuiet DEF Quiet
<1>4. Quiet(b, Builder!EnsureActiveLocation(c, e.address))
  BY <1>2, <1>3 DEF Quiet
<1>5. QED
  BY <1>1, <1>4, ExplicitQuiet, FailQuiet DEF Builder!EnsureLocation

LEMMA AccessedRawQuiet ==
    ASSUME NEW b, IsBuilder(b), NEW a
    PROVE  Quiet(b, Builder!AccessedRaw(b, a))
<1>1. PICK first \in BOOLEAN : first <=> a \in b.ignored
  OBVIOUS
<1>2. PICK second \in BOOLEAN : second = (~ (a \in DOMAIN b.raw) /\ Builder!Generation(b, a) > 0)
  OBVIOUS
<1>3. PICK c : c = Builder!LifetimeAnomaly(b, first)
  OBVIOUS
<1>4. PICK d : d = Builder!LifetimeAnomaly(c, second)
  OBVIOUS
<1>5. PICK r : r = Builder!AccessedRaw(b, a)
  OBVIOUS
<1>6. r = IF a \in DOMAIN b.raw THEN d ELSE Builder!EnsureActiveLocation(d, a)
  <2>1. c = Builder!LifetimeAnomaly(b, a \in b.ignored)
    BY <1>1, <1>3
  <2>2. QED
    BY <1>2, <1>4, <1>5, <2>1 DEF Builder!AccessedRaw
<1>7. Quiet(b, c) /\ Quiet(c, d) /\ Quiet(b, d)
  BY <1>3, <1>4, AnomalyQuiet DEF Quiet
<1>8. Quiet(d, Builder!EnsureActiveLocation(d, a))
  BY <1>7, ActiveQuiet DEF Quiet
<1>9. QED
  BY <1>5, <1>6, <1>7, <1>8 DEF Quiet

\* The initial value of a location becomes known
Initialised(b, r, e) ==
    /\ IsBuilder(r) /\ r.transactions = b.transactions
    /\ r.initial = b.initial \/ \E x : r.initial = Builder!Put(b.initial, x, e.value)

LEMMA InitShape ==
    ASSUME NEW b, IsBuilder(b), NEW e
    PROVE  Initialised(b, Builder!LocationInit(b, e), e)
<1>1. PICK c : c = Builder!EnsureLocation(b, e)
  OBVIOUS
<1>2. Quiet(b, c)
  BY <1>1, EnsureQuiet
<1>3. PICK x : x = Builder!LocationOf(c, e)
  OBVIOUS
<1>4. PICK r : r = Builder!LocationInit(b, e)
  OBVIOUS
<1>5. \/ r = Builder!Fail(b)
      \/ r = [c EXCEPT !.initial = Builder!Put(@, x, e.value)]
      \/ r = Builder!LifetimeAnomaly(c, TRUE)
  BY <1>1, <1>3, <1>4 DEF Builder!LocationInit
<1>6. CASE r = Builder!Fail(b)
  BY <1>4, <1>6, FailQuiet DEF Quiet, Initialised
<1>7. CASE r = [c EXCEPT !.initial = Builder!Put(@, x, e.value)]
  <2>1. IsBuilder(r) /\ r.transactions = c.transactions /\ r.initial = Builder!Put(c.initial, x, e.value)
    BY <1>2, <1>7 DEF Quiet, IsBuilder, BuilderFields
  <2>2. QED
    BY <1>2, <1>4, <2>1 DEF Quiet, Initialised
<1>8. CASE r = Builder!LifetimeAnomaly(c, TRUE)
  BY <1>2, <1>4, <1>8, AnomalyQuiet DEF Quiet, Initialised
<1>9. QED
  BY <1>5, <1>6, <1>7, <1>8

LEMMA DestroyQuiet ==
    ASSUME NEW b, IsBuilder(b), NEW e
    PROVE  Quiet(b, Builder!LocationDestroy(b, e))
<1>1. PICK r : r = Builder!LocationDestroy(b, e)
  OBVIOUS
<1>2. CASE e.handle # None
  <2>1. \/ r = Builder!Fail(b)
        \/ r = [b EXCEPT !.explicit = [other \in DOMAIN @ \ {e.handle} |-> @[other]],
                         !.destroyed = @ \cup {e.handle}]
    BY <1>1, <1>2 DEF Builder!LocationDestroy, Builder!DestroyExplicit
  <2>2. CASE r = Builder!Fail(b)
    BY <1>1, <2>2, FailQuiet
  <2>3. CASE r = [b EXCEPT !.explicit = [other \in DOMAIN @ \ {e.handle} |-> @[other]],
                           !.destroyed = @ \cup {e.handle}]
    <3>1. Quiet(b, r)
      BY <2>3 DEF Quiet, IsBuilder, BuilderFields
    <3>2. QED
      BY <1>1, <3>1
  <2>4. QED
    BY <2>1, <2>2, <2>3
<1>3. CASE e.handle = None /\ e.address = None
  BY <1>3, FailQuiet DEF Builder!LocationDestroy
<1>4. CASE e.handle = None /\ e.address # None
  <2>1. PICK a : a = e.address
    OBVIOUS
  <2>2. PICK occurred \in BOOLEAN : occurred = (~ (a \in DOMAIN b.raw) \/ Builder!Live(b) # {})
    OBVIOUS
  <2>3. PICK c : c = Builder!LifetimeAnomaly(b, occurred)
    OBVIOUS
  <2>4. r = IF b.strict /\ a \in DOMAIN b.raw
            THEN [c EXCEPT !.raw = [other \in DOMAIN @ \ {a} |-> @[other]],
                           !.generation = Builder!Put(@, a, b.raw[a][2] + 1)]
            ELSE [c EXCEPT !.ignored = @ \cup {a}]
    BY <1>1, <1>4, <2>1, <2>2, <2>3 DEF Builder!LocationDestroy, Builder!DestroyRaw
  <2>5. Quiet(b, c)
    BY <2>3, AnomalyQuiet
  <2>6. Quiet(c, r)
    <3>1. CASE r = [c EXCEPT !.raw = [other \in DOMAIN @ \ {a} |-> @[other]],
                             !.generation = Builder!Put(@, a, b.raw[a][2] + 1)]
      BY <2>5, <3>1 DEF Quiet, IsBuilder, BuilderFields
    <3>2. CASE r = [c EXCEPT !.ignored = @ \cup {a}]
      BY <2>5, <3>2 DEF Quiet, IsBuilder, BuilderFields
    <3>3. QED
      BY <2>4, <3>1, <3>2
  <2>7. QED
    BY <1>1, <2>5, <2>6 DEF Quiet
<1>5. QED
  BY <1>2, <1>3, <1>4

\* What an event leaves of the initial values
Initials(b, c, e) ==
    IF e.kind = "tx_location_init"
    THEN c.initial = Builder!Put(b.initial, Builder!LocationOf(c, e), e.value)
    ELSE c.initial = b.initial

LEMMA InitInitials ==
    ASSUME NEW b, IsBuilder(b), NEW e, NEW r, r = Builder!LocationInit(b, e), Clean(r)
    PROVE  r.initial = Builder!Put(b.initial, Builder!LocationOf(r, e), e.value)
<1>1. PICK c : c = Builder!EnsureLocation(b, e)
  OBVIOUS
<1>2. Quiet(b, c)
  BY <1>1, EnsureQuiet
<1>3. PICK x : x = Builder!LocationOf(c, e)
  OBVIOUS
<1>4. ~ Clean(Builder!Fail(b))
  BY FailFacts
<1>5. PICK d : d = Builder!LifetimeAnomaly(c, TRUE)
  OBVIOUS
<1>6. ~ Clean(d)
  BY <1>2, <1>5, AnomalyFacts DEF Quiet
<1>7. r = [c EXCEPT !.initial = Builder!Put(@, x, e.value)]
  BY <1>1, <1>3, <1>4, <1>5, <1>6 DEF Builder!LocationInit
<1>8. r.initial = Builder!Put(b.initial, x, e.value) /\ r.raw = c.raw
  BY <1>2, <1>7 DEF Quiet, IsBuilder, BuilderFields
<1>9. Builder!LocationOf(r, e) = x
  BY <1>3, <1>8 DEF Builder!LocationOf
<1>10. QED
  BY <1>8, <1>9

LEMMA AccessInitials ==
    ASSUME NEW b, IsBuilder(b), NEW e
    PROVE  Builder!Access(b, e).initial = b.initial
<1>1. PICK c : c = IF e.handle # None THEN Builder!EnsureExplicitLocation(b, e)
                   ELSE IF e.address = None THEN Builder!Fail(b)
                   ELSE Builder!AccessedRaw(b, e.address)
  OBVIOUS
<1>2. Quiet(b, c) /\ Quiet(b, Builder!Fail(b))
  BY <1>1, ExplicitQuiet, FailQuiet, AccessedRawQuiet
<1>3. PICK access : access = [write |-> e.kind = "tx_write", loc |-> Builder!LocationOf(c, e),
                              value |-> e.value]
  OBVIOUS
<1>4. PICK r : r = Builder!Access(b, e)
  OBVIOUS
<1>5. PICK found : found = Builder!FindTx(b, e)
  OBVIOUS
<1>6. \/ r = Builder!Fail(b)
      \/ r = [c EXCEPT !.transactions = Builder!WithAccess(c.transactions, found, access)]
  BY <1>1, <1>3, <1>4, <1>5 DEF Builder!Access
<1>7. r.initial = b.initial
  BY <1>2, <1>6 DEF Quiet, IsBuilder, BuilderFields
<1>8. QED
  BY <1>4, <1>7

LEMMA InitialFacts ==
    ASSUME NEW b, IsBuilder(b), ~ b.error, NEW e, NEW n, NEW c, c = Builder!BuildStep(b, e, n), Clean(c)
    PROVE  Initials(b, c, e)
<1>1. CASE e.kind = "tx_location_init"
  <2>1. c = Builder!LocationInit(b, e)
    BY <1>1 DEF Builder!BuildStep
  <2>2. QED
    BY <1>1, <2>1, InitInitials DEF Initials
<1>2. CASE e.kind # "tx_location_init"
  <2>1. Builder!Fail(b).initial = b.initial
    BY FailQuiet DEF Quiet
  <2>2. Builder!EnsureLocation(b, e).initial = b.initial
    BY EnsureQuiet DEF Quiet
  <2>3. Builder!LocationDestroy(b, e).initial = b.initial
    BY DestroyQuiet DEF Quiet
  <2>4. Builder!Begin(b, e, n).initial = b.initial
    BY <2>1 DEF Builder!Begin, IsBuilder, BuilderFields
  <2>5. Builder!End(b, e, n).initial = b.initial
    BY <2>1 DEF Builder!End, IsBuilder, BuilderFields
  <2>6. Builder!Access(b, e).initial = b.initial
    BY AccessInitials
  <2>7. Builder!AttemptMetadata(b, e).initial = b.initial /\ Builder!Retry(b, e).initial = b.initial
    BY <2>1 DEF Builder!AttemptMetadata, Builder!Retry
  <2>8. \/ c = b \/ c = Builder!EnsureLocation(b, e) \/ c = Builder!LocationDestroy(b, e)
        \/ c = Builder!Begin(b, e, n) \/ c = Builder!AttemptMetadata(b, e) \/ c = Builder!Access(b, e)
        \/ c = Builder!End(b, e, n) \/ c = Builder!Retry(b, e)
    BY <1>2 DEF Builder!BuildStep
  <2>9. QED
    BY <1>2, <2>2, <2>3, <2>4, <2>5, <2>6, <2>7, <2>8 DEF Initials
<1>3. QED
  BY <1>1, <1>2

-----------------------------------------------------------------------------
(* The inductive invariant                                                 *)

Busy(t) == attempt[t].state \in {"running", "published"}

\* The number of the current transaction was given to one transaction, the only one that lives
Inside(built, t, c) ==
    /\ \A j \in DOMAIN built : built[j].thread = t => built[j].tx < c.next
    /\ c.current # None /\ c.depth = 1
    /\ \E i \in DOMAIN built :
         /\ built[i].thread = t /\ built[i].tx = c.current /\ built[i].outcome = "live"
         /\ \A j \in DOMAIN built : built[j].thread = t /\ j # i =>
               built[j].tx # c.current /\ built[j].outcome # "live"

Outside(built, t, c) ==
    /\ \A j \in DOMAIN built : built[j].thread = t => built[j].tx < c.next
    /\ c.current = None
    /\ \A j \in DOMAIN built : built[j].thread = t => built[j].outcome # "live"

Contexts(built) ==
    \A t \in Threads : IF Busy(t) THEN Inside(built, t, context[t]) ELSE Outside(built, t, context[t])

\* The number that tells the field at an address from those before it
Number(b, a) ==
    CASE scenario.identity = "raw" -> RawNumber(b, a)
      [] scenario.identity = "registry" -> registry[a].generation
      [] scenario.identity = "lifetime" -> memory[a].lifetime[2] + (IF memory[a].alive THEN 0 ELSE 1)

\* How the builder calls the field of that number
Name(a, n) ==
    CASE scenario.identity = "raw" -> <<a, n>>
      [] scenario.identity = "registry" -> <<"backend", a, n>>
      [] scenario.identity = "lifetime" -> <<"objlife", <<a, n>>>>

\* The field that lives now has the number of now, those before it had smaller ones
Fits(b, field, loc) ==
    \E n \in Nat :
        /\ loc = Name(field[1], n)
        /\ field[2] <= memory[field[1]].incarnation
        /\ IF memory[field[1]].alive /\ field[2] = memory[field[1]].incarnation
           THEN /\ n = Number(b, field[1])
                /\ scenario.identity = "registry" => registry[field[1]].active
           ELSE n < Number(b, field[1])

\* Two accesses are of one field when the builder takes them to be
Apart(P) == \A p, q \in P : p[1].loc = q[1].loc <=> p[2].loc = q[2].loc

\* A raw field that lives was not destroyed and ignored
IgnoredDead(b) ==
    scenario.identity = "raw" /\ ~ b.strict =>
        \A a \in Addresses : memory[a].alive => a \notin b.ignored

Names(b) == \A p \in Pairs(truth.transactions, b.transactions) : Fits(b, p[1].loc, p[2].loc)

\* The initial value that the builder knows, if any, is the one the field had
Began(b, field, loc) ==
    /\ field \in DOMAIN truth.initial
    /\ loc \in DOMAIN b.initial => b.initial[loc] = truth.initial[field]

\* So it is for every field that was accessed and for every field that lives
Starts(b) ==
    /\ \A p \in Pairs(truth.transactions, b.transactions) : Began(b, p[1].loc, p[2].loc)
    /\ \A a \in Addresses :
          memory[a].alive => Began(b, <<a, memory[a].incarnation>>, Name(a, Number(b, a)))

Recording(b) ==
    /\ b.transactions \in Seq(BuiltType)
    /\ Matched(truth.transactions, b.transactions)
    /\ Contexts(b.transactions)
    /\ RawLocations(b) /\ IgnoredDead(b)
    /\ Names(b) /\ Starts(b)
    /\ Apart(Pairs(truth.transactions, b.transactions))

Lifetimes == \A a \in Addresses : memory[a].lifetime[1] = a /\ memory[a].lifetime[2] <= lifetimes

RecordingInv ==
    /\ IsBuilder(Built)
    /\ Lifetimes
    /\ Clean(Built) /\ "dead" \notin misuse => Recording(Built)

-----------------------------------------------------------------------------
(* Transactions and contexts                                               *)

\* The transactions of t are the same in both
Alike(built, new, t) ==
    /\ \A j : j \in DOMAIN new /\ new[j].thread = t <=> j \in DOMAIN built /\ built[j].thread = t
    /\ \A j \in DOMAIN built : built[j].thread = t =>
          new[j].tx = built[j].tx /\ new[j].outcome = built[j].outcome

LEMMA AlikeContext ==
    ASSUME NEW built, NEW new, NEW t, NEW c, Alike(built, new, t)
    PROVE  /\ Inside(built, t, c) => Inside(new, t, c)
           /\ Outside(built, t, c) => Outside(new, t, c)
BY DEF Alike, Inside, Outside

\* The last aborted transaction does not matter
LEMMA SameContext ==
    ASSUME NEW built, NEW t, NEW c, NEW d,
           d.next = c.next, d.current = c.current, d.depth = c.depth
    PROVE  /\ Inside(built, t, c) => Inside(built, t, d)
           /\ Outside(built, t, c) => Outside(built, t, d)
BY DEF Inside, Outside

LEMMA AccessAlike ==
    ASSUME NEW built, NEW i \in DOMAIN built, built \in Seq(BuiltType), NEW e \in BuiltAccess, NEW t
    PROVE  Alike(built, Builder!WithAccess(built, {i}, e), t)
<1>1. PICK new : new = Builder!WithAccess(built, {i}, e)
  OBVIOUS
<1>2. DOMAIN new = DOMAIN built
  BY <1>1 DEF Builder!WithAccess
<1>3. ASSUME NEW j \in DOMAIN built
      PROVE  new[j].thread = built[j].thread /\ new[j].tx = built[j].tx /\ new[j].outcome = built[j].outcome
  <2>1. PICK old \in BuiltType : old = built[j]
    BY <1>3
  <2>2. new[j] = IF j \in {i} THEN [old EXCEPT !.accesses = Append(@, e)] ELSE old
    BY <1>1, <2>1 DEF Builder!WithAccess
  <2>3. QED
    BY <2>1, <2>2 DEF BuiltType
<1>4. QED
  BY <1>1, <1>2, <1>3 DEF Alike

\* A begin gives the thread a transaction
LEMMA BeginContext ==
    ASSUME NEW built \in Seq(BuiltType), NEW t \in Threads, NEW c \in ContextType,
           NEW e \in BuiltType, e.thread = t, e.tx = c.next, e.outcome = "live",
           Outside(built, t, c)
    PROVE  /\ Inside(Append(built, e), t,
                  [next |-> c.next + 1, current |-> c.next, lastAborted |-> None, depth |-> 1])
           /\ \A u : u # t => Alike(built, Append(built, e), u)
<1>1. PICK new : new = Append(built, e)
  OBVIOUS
<1>2. PICK n \in Nat : n = Len(built)
  OBVIOUS
<1>3. /\ DOMAIN built = 1 .. n /\ DOMAIN new = 1 .. n + 1 /\ new[n + 1] = e
      /\ \A j \in 1 .. n : new[j] = built[j]
  BY <1>1, <1>2
<1>4. \A j \in DOMAIN new : j = n + 1 \/ j \in DOMAIN built
  BY <1>3
<1>5. n + 1 \in DOMAIN new /\ n + 1 \notin DOMAIN built
  BY <1>3
<1>6. c.next \in Nat /\ None \notin Nat
  BY NoneAssumption DEF ContextType
<1>7. ASSUME NEW j \in DOMAIN built, built[j].thread = t
      PROVE  built[j].tx \in Nat /\ built[j].tx < c.next /\ built[j].outcome # "live"
  <2>1. PICK x \in BuiltType : x = built[j]
    BY <1>7
  <2>2. x.tx \in Nat
    BY DEF BuiltType
  <2>3. QED
    BY <1>7, <2>1, <2>2 DEF Outside
<1>8. ASSUME NEW j \in DOMAIN new, new[j].thread = t PROVE new[j].tx < c.next + 1
  <2>1. CASE j = n + 1
    BY <1>3, <1>6, <2>1
  <2>2. CASE j \in DOMAIN built
    BY <1>3, <1>6, <1>7, <1>8, <2>2
  <2>3. QED
    BY <1>4, <2>1, <2>2
<1>9. ASSUME NEW j \in DOMAIN new, new[j].thread = t, j # n + 1
      PROVE  new[j].tx # c.next /\ new[j].outcome # "live"
  <2>1. j \in DOMAIN built /\ new[j] = built[j]
    BY <1>3, <1>4, <1>9
  <2>2. QED
    BY <1>6, <1>7, <1>9, <2>1
<1>10. Inside(new, t, [next |-> c.next + 1, current |-> c.next, lastAborted |-> None, depth |-> 1])
  BY <1>3, <1>5, <1>6, <1>8, <1>9 DEF Inside
<1>11. ASSUME NEW u, u # t PROVE Alike(built, new, u)
  BY <1>3, <1>4, <1>5, <1>11 DEF Alike
<1>12. QED
  BY <1>1, <1>10, <1>11

\* An end takes the transaction from the thread
LEMMA EndContext ==
    ASSUME NEW built \in Seq(BuiltType), NEW t \in Threads, NEW c, NEW d, NEW i \in DOMAIN built,
           NEW outcome \in {"committed", "aborted"}, NEW n,
           built[i].thread = t, Inside(built, t, c), built[i].outcome = "live",
           d.next = c.next, d.current = None
    PROVE  /\ Outside(Builder!WithEnd(built, {i}, outcome, n), t, d)
           /\ \A u : u # t => Alike(built, Builder!WithEnd(built, {i}, outcome, n), u)
<1>1. PICK new : new = Builder!WithEnd(built, {i}, outcome, n)
  OBVIOUS
<1>2. DOMAIN new = DOMAIN built
  BY <1>1 DEF Builder!WithEnd
<1>3. ASSUME NEW j \in DOMAIN built
      PROVE  /\ new[j].thread = built[j].thread /\ new[j].tx = built[j].tx
             /\ new[j].outcome = IF j = i THEN outcome ELSE built[j].outcome
  <2>1. PICK old \in BuiltType : old = built[j]
    BY <1>3
  <2>2. new[j] = IF j \in {i} THEN [old EXCEPT !.outcome = outcome, !.end = n] ELSE old
    BY <1>1, <2>1 DEF Builder!WithEnd
  <2>3. QED
    BY <2>1, <2>2 DEF BuiltType
<1>4. \A j \in DOMAIN built : built[j].thread = t /\ j # i => built[j].outcome # "live"
  BY DEF Inside
<1>5. Outside(new, t, d)
  BY <1>2, <1>3, <1>4 DEF Inside, Outside
<1>6. ASSUME NEW u, u # t PROVE Alike(built, new, u)
  BY <1>2, <1>3, <1>6 DEF Alike
<1>7. QED
  BY <1>1, <1>5, <1>6

\* The transaction of a busy thread, on both sides
LEMMA CurrentFacts ==
    ASSUME TypeOK, NEW b, Recording(b), NEW t \in Threads, Busy(t), NEW e,
           e.thread = t, e.tx = context[t].current
    PROVE  /\ context[t].current # None /\ context[t].depth = 1
           /\ \E i \in DOMAIN b.transactions :
                 /\ Current(t) = i /\ b.transactions[i].thread = t /\ b.transactions[i].outcome = "live"
                 /\ Builder!FindTx(b, e) = {i} /\ Builder!FindTx(b, e) \cap Builder!Live(b) = {i}
<1>1. PICK built \in Seq(BuiltType) : built = b.transactions
  BY DEF Recording
<1>2. PICK did \in Seq(DidType) : did = truth.transactions
  BY DEF TypeOK
<1>3. Inside(built, t, context[t])
  BY <1>1 DEF Recording, Contexts
<1>4. context[t].current # None /\ context[t].depth = 1
  BY <1>3 DEF Inside
<1>5. PICK i \in DOMAIN built :
         /\ built[i].thread = t /\ built[i].tx = context[t].current /\ built[i].outcome = "live"
         /\ \A j \in DOMAIN built : built[j].thread = t /\ j # i =>
               built[j].tx # context[t].current /\ built[j].outcome # "live"
  BY <1>3 DEF Inside
<1>6. /\ DOMAIN did = DOMAIN built
      /\ \A j \in DOMAIN did : did[j].thread = built[j].thread /\ did[j].outcome = built[j].outcome
  BY <1>1, <1>2 DEF Recording, Matched, SameTransaction
<1>7. Current(t) = i
  BY <1>2, <1>5, <1>6 DEF Current
<1>8. \A j : j \in Builder!FindTx(b, e) <=> j = i
  BY <1>1, <1>4, <1>5 DEF Builder!FindTx
<1>9. i \in Builder!Live(b)
  BY <1>1, <1>5 DEF Builder!Live
<1>10. QED
  BY <1>1, <1>4, <1>5, <1>7, <1>8, <1>9

-----------------------------------------------------------------------------
(* Fields and locations                                                    *)

LEMMA IdentityIs ==
    ASSUME TypeOK
    PROVE  scenario.identity \in {"raw", "registry", "lifetime"}
  BY ScenariosAssumption DEF TypeOK

LEMMA NumberTyped ==
    ASSUME TypeOK, NEW b, RawLocations(b), NEW a \in Addresses
    PROVE  Number(b, a) \in Nat
<1>1. RawNumber(b, a) \in Nat
  BY GenerationFacts
<1>2. registry[a].generation \in Nat /\ memory[a].lifetime[2] \in Nat
  BY DEF TypeOK, FieldType
<1>3. QED
  BY <1>1, <1>2, IdentityIs DEF Number

LEMMA NameInjective ==
    ASSUME TypeOK, NEW a, NEW c, NEW m, NEW n, Name(a, m) = Name(c, n)
    PROVE  a = c /\ m = n
  BY IdentityIs DEF Name

LEMMA NameTyped ==
    ASSUME TypeOK, NEW a \in Addresses, NEW n \in Nat
    PROVE  Name(a, n) \in LocationType
<1>1. CASE scenario.identity = "raw"
  BY <1>1 DEF Name, LocationType
<1>2. CASE scenario.identity = "registry"
  BY <1>2 DEF Name, LocationType, HandleType
<1>3. CASE scenario.identity = "lifetime"
  BY <1>3 DEF Name, LocationType, HandleType
<1>4. QED
  BY <1>1, <1>2, <1>3, IdentityIs

\* How a step may change the field at a and its number
Carries(b, c, a) ==
    /\ memory'[a].incarnation >= memory[a].incarnation /\ Number(c, a)' >= Number(b, a)
    /\ IF memory[a].alive
       THEN \/ /\ memory'[a].alive /\ memory'[a].incarnation = memory[a].incarnation
               /\ Number(c, a)' = Number(b, a) /\ (registry[a].active => registry'[a].active)
            \/ /\ ~ memory'[a].alive
               /\ (scenario.identity = "registry" => registry[a].active) => Number(c, a)' > Number(b, a)
       ELSE ~ memory'[a].alive \/ memory'[a].incarnation > memory[a].incarnation

LEMMA FitsKept ==
    ASSUME TypeOK, TypeOK', scenario' = scenario, NEW b, NEW c, RawLocations(b), RawLocations(c),
           NEW field \in Addresses \X Nat, NEW loc, Fits(b, field, loc), Carries(b, c, field[1])
    PROVE  Fits(c, field, loc)'
<1>1. PICK a \in Addresses, k \in Nat : field = <<a, k>>
  OBVIOUS
<1>2. PICK n \in Nat :
        /\ loc = Name(a, n)
        /\ k <= memory[a].incarnation
        /\ IF memory[a].alive /\ k = memory[a].incarnation
           THEN /\ n = Number(b, a)
                /\ scenario.identity = "registry" => registry[a].active
           ELSE n < Number(b, a)
  BY <1>1 DEF Fits
<1>3. memory[a].incarnation \in Nat /\ memory'[a].incarnation \in Nat
  BY DEF TypeOK, FieldType
<1>4. Number(b, a) \in Nat
  BY NumberTyped
<1>5. PICK m : m = Number(c, a)'
  OBVIOUS
<1>6. m \in Nat
  <2>1. (RawNumber(c, a))' \in Nat
    BY GenerationFacts
  <2>2. registry'[a].generation \in Nat /\ memory'[a].lifetime[2] \in Nat
    BY DEF TypeOK, FieldType
  <2>3. scenario'.identity \in {"raw", "registry", "lifetime"}
    BY IdentityIs
  <2>4. QED
    BY <1>5, <2>1, <2>2, <2>3 DEF Number
<1>7. loc = Name(a, n)'
  BY <1>2 DEF Name
<1>8. /\ memory'[a].incarnation >= memory[a].incarnation /\ m >= Number(b, a)
      /\ IF memory[a].alive
         THEN \/ /\ memory'[a].alive /\ memory'[a].incarnation = memory[a].incarnation
                 /\ m = Number(b, a) /\ (registry[a].active => registry'[a].active)
              \/ /\ ~ memory'[a].alive
                 /\ (scenario.identity = "registry" => registry[a].active) => m > Number(b, a)
         ELSE ~ memory'[a].alive \/ memory'[a].incarnation > memory[a].incarnation
  BY <1>1, <1>5 DEF Carries
<1>9. k <= memory'[a].incarnation
  BY <1>2, <1>3, <1>8
<1>10. IF memory'[a].alive /\ k = memory'[a].incarnation
       THEN n = m /\ (scenario'.identity = "registry" => registry'[a].active)
       ELSE n < m
  BY <1>2, <1>3, <1>4, <1>6, <1>8
<1>11. QED
  BY <1>1, <1>5, <1>7, <1>9, <1>10 DEF Fits

LEMMA FitsNew ==
    ASSUME TypeOK, scenario' = scenario, memory' = memory, NEW b, NEW c, RawLocations(b),
           NEW a \in Addresses, memory[a].alive, Number(c, a)' = Number(b, a),
           scenario.identity = "registry" => registry'[a].active,
           NEW field, field = <<a, memory[a].incarnation>>, NEW loc, loc = Name(a, Number(b, a))
    PROVE  Fits(c, field, loc)'
<1>1. PICK n \in Nat : n = Number(b, a)
  BY NumberTyped
<1>2. PICK k \in Nat : k = memory[a].incarnation
  BY DEF TypeOK, FieldType
<1>3. loc = Name(a, n)'
  BY <1>1 DEF Name
<1>4. k <= k
  OBVIOUS
<1>5. QED
  BY <1>1, <1>2, <1>3, <1>4 DEF Fits

\* The location of a field that lives is that of no other
LEMMA FitsApart ==
    ASSUME TypeOK, NEW b, RawLocations(b), NEW a \in Addresses, memory[a].alive,
           NEW field \in Addresses \X Nat, NEW loc, Fits(b, field, loc)
    PROVE  field = <<a, memory[a].incarnation>> <=> loc = Name(a, Number(b, a))
<1>1. PICK x \in Addresses, k \in Nat : field = <<x, k>>
  OBVIOUS
<1>2. PICK n \in Nat :
        /\ loc = Name(x, n)
        /\ IF memory[x].alive /\ k = memory[x].incarnation THEN n = Number(b, x) ELSE n < Number(b, x)
  BY <1>1 DEF Fits
<1>3. Number(b, a) \in Nat /\ memory[a].incarnation \in Nat
  BY NumberTyped DEF TypeOK, FieldType
<1>4. ASSUME field = <<a, memory[a].incarnation>> PROVE loc = Name(a, Number(b, a))
  <2>1. x = a /\ k = memory[a].incarnation
    BY <1>1, <1>4
  <2>2. QED
    BY <1>2, <2>1
<1>5. ASSUME loc = Name(a, Number(b, a)) PROVE field = <<a, memory[a].incarnation>>
  <2>1. x = a /\ n = Number(b, a)
    <3>1. PICK m : m = Number(b, a)
      OBVIOUS
    <3>2. Name(x, n) = Name(a, m)
      BY <1>2, <1>5, <3>1
    <3>3. QED
      BY <3>1, <3>2, NameInjective
  <2>2. k = memory[a].incarnation
    BY <1>2, <1>3, <2>1
  <2>3. QED
    BY <1>1, <2>1, <2>2
<1>6. QED
  BY <1>4, <1>5

-----------------------------------------------------------------------------
(* Every step keeps the invariant                                          *)

\* What the event leaves of b, its place being n
BeginChange(b, c, e, n) ==
    /\ e.tx # None /\ Builder!FindTx(b, e) = {} /\ Keeps(b, c)
    /\ c.transactions = Append(b.transactions,
          [thread |-> e.thread, tx |-> e.tx, begin |-> n, end |-> 0, outcome |-> "live", accesses |-> <<>>])

EndChange(b, c, e, n) ==
    /\ Keeps(b, c)
    /\ c.transactions = Builder!WithEnd(b.transactions, Builder!FindTx(b, e) \cap Builder!Live(b),
          IF e.kind = "tx_abort" THEN "aborted" ELSE "committed", n)

DestroyChange(b, c, e) ==
    /\ c.transactions = b.transactions
    /\ e.handle # None => Keeps(b, c)
    /\ e.handle = None => Ends(b, c, e.address)

Change(b, c, e, n) ==
    /\ e.kind = "tx_location_init" => Named(b, c, e)
    /\ e.kind = "tx_location_destroy" => DestroyChange(b, c, e)
    /\ e.kind = "tx_begin" => BeginChange(b, c, e, n)
    /\ e.kind \in {"tx_read", "tx_write"} => Accessed(b, c, e)
    /\ e.kind \in {"tx_commit_success", "tx_abort"} => EndChange(b, c, e, n)
    /\ e.kind = "tx_retry" => c = b
    /\ Initials(b, c, e)

LEMMA StepFacts ==
    ASSUME NEW b, IsBuilder(b), ~ b.error, NEW e, NEW n, NEW c, c = Builder!BuildStep(b, e, n),
           e.kind \in {"tx_location_init", "tx_location_destroy", "tx_begin", "tx_read", "tx_write",
                       "tx_commit_success", "tx_abort", "tx_retry"}
    PROVE  Leads(b, c) /\ (Clean(c) => Change(b, c, e, n))
<1>0. Clean(c) => Initials(b, c, e)
  BY InitialFacts
<1>1. CASE e.kind = "tx_location_init"
  <2>1. Leads(b, c) /\ (Clean(c) => Named(b, c, e))
    BY <1>1, StepKinds, InitFacts
  <2>2. QED
    BY <1>0, <1>1, <2>1 DEF Change
<1>2. CASE e.kind = "tx_location_destroy"
  <2>1. Leads(b, c) /\ (Clean(c) => DestroyChange(b, c, e))
    BY <1>2, StepKinds, DestroyFacts DEF DestroyChange
  <2>2. QED
    BY <1>0, <1>2, <2>1 DEF Change
<1>3. CASE e.kind = "tx_begin"
  <2>1. Leads(b, c) /\ (Clean(c) => BeginChange(b, c, e, n))
    BY <1>3, StepKinds, BeginFacts DEF BeginChange
  <2>2. QED
    BY <1>0, <1>3, <2>1 DEF Change
<1>4. CASE e.kind \in {"tx_read", "tx_write"}
  <2>1. Leads(b, c) /\ (Clean(c) => Accessed(b, c, e))
    BY <1>4, StepKinds, AccessFacts
  <2>2. QED
    BY <1>0, <1>4, <2>1 DEF Change
<1>5. CASE e.kind \in {"tx_commit_success", "tx_abort"}
  <2>1. c = Builder!End(b, e, n)
    BY <1>5, StepKinds
  <2>2. Leads(b, c) /\ (Clean(c) => EndChange(b, c, e, n))
    BY <2>1, EndFacts DEF EndChange
  <2>3. QED
    BY <1>0, <1>5, <2>2 DEF Change
<1>6. CASE e.kind = "tx_retry"
  <2>1. Leads(b, c) /\ (Clean(c) => c = b)
    BY <1>6, StepKinds, RetryFacts
  <2>2. QED
    BY <1>0, <1>6, <2>1 DEF Change
<1>7. QED
  BY <1>1, <1>2, <1>3, <1>4, <1>5, <1>6

\* What is left of the builder once a hook has recorded its event
LEMMA Effect ==
    ASSUME TypeOK, RecordingInv, scenario' = scenario, NEW e \in EventType, events' = Append(events, e),
           e.kind \in {"tx_location_init", "tx_location_destroy", "tx_begin", "tx_read", "tx_write",
                       "tx_commit_success", "tx_abort", "tx_retry"},
           NEW n, n = Len(events) + 1, NEW b, b = Built, NEW c, c = Built'
    PROVE  /\ IsBuilder(b) /\ IsBuilder(c) /\ c.strict = b.strict
           /\ Clean(c) => Clean(b) /\ Change(b, c, e, n)
<1>1. c = Builder!BuildStep(b, e, n)
  BY RecordFacts
<1>2. IsBuilder(b)
  BY DEF RecordingInv
<1>3. CASE b.error
  <2>1. c = b
    BY <1>1, <1>3, ErrorStays
  <2>2. QED
    BY <1>2, <1>3, <2>1 DEF Clean
<1>4. CASE ~ b.error
  <2>1. Leads(b, c) /\ (Clean(c) => Change(b, c, e, n))
    BY <1>1, <1>2, <1>4, StepFacts
  <2>2. QED
    BY <1>2, <2>1 DEF Leads
<1>5. QED
  BY <1>3, <1>4

\* The names fit, and keep apart, when no pair of accesses comes
LEMMA NamesKept ==
    ASSUME TypeOK, TypeOK', scenario' = scenario, NEW b, NEW c, Recording(b), RawLocations(c),
           Pairs(truth'.transactions, c.transactions) \subseteq Pairs(truth.transactions, b.transactions),
           \A a \in Addresses : Carries(b, c, a)
    PROVE  Names(c)' /\ Apart(Pairs(truth'.transactions, c.transactions))
<1>1. ASSUME NEW p \in Pairs(truth'.transactions, c.transactions)
      PROVE  Fits(c, p[1].loc, p[2].loc)'
  <2>1. p \in Pairs(truth.transactions, b.transactions)
    BY <1>1
  <2>2. p[1].loc \in Addresses \X Nat
    BY <2>1, PairTyped DEF Recording, TypeOK
  <2>3. Fits(b, p[1].loc, p[2].loc)
    BY <2>1 DEF Recording, Names
  <2>4. PICK field \in Addresses \X Nat : field = p[1].loc
    BY <2>2
  <2>5. Carries(b, c, field[1])
    OBVIOUS
  <2>6. RawLocations(b)
    BY DEF Recording
  <2>7. PICK loc : loc = p[2].loc
    OBVIOUS
  <2>8. Fits(c, field, loc)'
    BY <2>3, <2>4, <2>5, <2>6, <2>7, FitsKept
  <2>9. QED
    BY <2>4, <2>7, <2>8
<1>2. Apart(Pairs(truth'.transactions, c.transactions))
  BY DEF Recording, Apart
<1>3. QED
  BY <1>1, <1>2 DEF Names

\* They do when the access comes to the field that lives
LEMMA NamesExtended ==
    ASSUME TypeOK, TypeOK', scenario' = scenario, memory' = memory, NEW b, NEW c, Recording(b), RawLocations(c),
           NEW a \in Addresses, memory[a].alive, scenario.identity = "registry" => registry'[a].active,
           NEW d, NEW e, d.loc = <<a, memory[a].incarnation>>, e.loc = Name(a, Number(b, a)),
           Pairs(truth'.transactions, c.transactions)
               \subseteq Pairs(truth.transactions, b.transactions) \cup {<<d, e>>},
           \A x \in Addresses : Carries(b, c, x)
    PROVE  Names(c)' /\ Apart(Pairs(truth'.transactions, c.transactions))
<1>1. PICK P : P = Pairs(truth.transactions, b.transactions)
  OBVIOUS
<1>2. PICK Q : Q = Pairs(truth'.transactions, c.transactions)
  OBVIOUS
<1>3. Q \subseteq P \cup {<<d, e>>}
  BY <1>1, <1>2
<1>4. RawLocations(b)
  BY DEF Recording
<1>5. Number(c, a)' = Number(b, a)
  BY DEF Carries
<1>6. Fits(c, d.loc, e.loc)'
  <2>1. PICK field : field = d.loc
    OBVIOUS
  <2>2. PICK loc : loc = e.loc
    OBVIOUS
  <2>3. Fits(c, field, loc)'
    BY <1>4, <1>5, <2>1, <2>2, FitsNew
  <2>4. QED
    BY <2>1, <2>2, <2>3
<1>7. ASSUME NEW p \in P
      PROVE  /\ Fits(c, p[1].loc, p[2].loc)'
             /\ p[1].loc = d.loc <=> p[2].loc = e.loc
  <2>1. p[1].loc \in Addresses \X Nat
    BY <1>1, PairTyped DEF Recording, TypeOK
  <2>2. Fits(b, p[1].loc, p[2].loc)
    BY <1>1 DEF Recording, Names
  <2>3. PICK field \in Addresses \X Nat : field = p[1].loc
    BY <2>1
  <2>4. PICK loc : loc = p[2].loc
    OBVIOUS
  <2>5. Fits(c, field, loc)'
    BY <1>4, <2>2, <2>3, <2>4, FitsKept
  <2>6. field = d.loc <=> loc = e.loc
    BY <1>4, <2>2, <2>3, <2>4, FitsApart
  <2>7. QED
    BY <2>3, <2>4, <2>5, <2>6
<1>8. \A p \in Q : Fits(c, p[1].loc, p[2].loc)'
  BY <1>3, <1>6, <1>7
<1>9. Apart(P)
  BY <1>1 DEF Recording
<1>10. Apart(Q)
  <2>1. ASSUME NEW p \in Q, NEW q \in Q PROVE p[1].loc = q[1].loc <=> p[2].loc = q[2].loc
    <3>1. CASE p \in P /\ q \in P
      BY <1>9, <3>1 DEF Apart
    <3>2. CASE p \in P /\ q = <<d, e>>
      BY <1>7, <3>2
    <3>3. CASE p = <<d, e>> /\ q \in P
      BY <1>7, <3>3
    <3>4. CASE p = <<d, e>> /\ q = <<d, e>>
      BY <3>4
    <3>5. QED
      BY <1>3, <3>1, <3>2, <3>3, <3>4
  <2>2. QED
    BY <2>1 DEF Apart
<1>11. QED
  BY <1>2, <1>8, <1>10 DEF Names

\* Nor are initial values forgotten, when no field is made
LEMMA StartsKept ==
    ASSUME scenario' = scenario, NEW b, NEW c, Starts(b),
           c.initial = b.initial, truth'.initial = truth.initial,
           \A p \in Pairs(truth'.transactions, c.transactions) :
              \/ p \in Pairs(truth.transactions, b.transactions)
              \/ \E a \in Addresses :
                    /\ memory[a].alive
                    /\ p[1].loc = <<a, memory[a].incarnation>> /\ p[2].loc = Name(a, Number(b, a)),
           \A a \in Addresses : Carries(b, c, a) /\ (memory'[a].alive => memory[a].alive)
    PROVE  Starts(c)'
<1>1. ASSUME NEW field, NEW loc, Began(b, field, loc) PROVE Began(c, field, loc)'
  BY <1>1 DEF Began
<1>2. ASSUME NEW p \in Pairs(truth'.transactions, c.transactions)
      PROVE  Began(c, p[1].loc, p[2].loc)'
  <2>1. PICK field : field = p[1].loc
    OBVIOUS
  <2>2. PICK loc : loc = p[2].loc
    OBVIOUS
  <2>3. Began(b, field, loc)
    BY <1>2, <2>1, <2>2 DEF Starts
  <2>4. QED
    BY <1>1, <2>1, <2>2, <2>3
<1>3. ASSUME NEW a \in Addresses, memory'[a].alive
      PROVE  Began(c, <<a, memory[a].incarnation>>, Name(a, Number(c, a)))'
  <2>1. /\ memory[a].alive /\ memory'[a].incarnation = memory[a].incarnation
        /\ Number(c, a)' = Number(b, a)
    BY <1>3 DEF Carries
  <2>2. PICK field : field = <<a, memory[a].incarnation>>
    OBVIOUS
  <2>3. PICK loc : loc = Name(a, Number(b, a))
    OBVIOUS
  <2>4. Began(b, field, loc)
    BY <2>1, <2>2, <2>3 DEF Starts
  <2>5. Began(c, field, loc)'
    BY <1>1, <2>4
  <2>6. field = <<a, memory'[a].incarnation>> /\ loc = Name(a, Number(c, a))'
    BY <2>1, <2>2, <2>3 DEF Name
  <2>7. QED
    BY <2>5, <2>6
<1>4. QED
  BY <1>2, <1>3 DEF Starts

\* A field that is made has a location that none had before
LEMMA StartsMade ==
    ASSUME TypeOK, TypeOK', scenario' = scenario, NEW b, NEW c, Recording(b), RawLocations(c),
           NEW a \in Addresses, ~ memory[a].alive, NEW value, NEW loc, NEW k, NEW n,
           k = memory[a].incarnation + 1, n = Number(c, a)', loc = Name(a, n),
           memory'[a].alive, memory'[a].incarnation = k,
           \A x \in Addresses : x # a => memory'[x] = memory[x],
           c.initial = Builder!Put(b.initial, loc, value),
           truth'.initial = Builder!Put(truth.initial, <<a, k>>, value),
           c.transactions = b.transactions, truth'.transactions = truth.transactions,
           \A x \in Addresses : Carries(b, c, x)
    PROVE  Starts(c)'
<1>1. memory[a].incarnation \in Nat /\ Number(b, a) \in Nat /\ RawLocations(b)
  BY NumberTyped DEF Recording, TypeOK, FieldType
<1>2. n >= Number(b, a)
  BY DEF Carries
<1>3. n \in Nat
  <2>1. (RawNumber(c, a))' \in Nat
    BY GenerationFacts
  <2>2. registry'[a].generation \in Nat /\ memory'[a].lifetime[2] \in Nat
    BY DEF TypeOK, FieldType
  <2>3. scenario'.identity \in {"raw", "registry", "lifetime"}
    BY IdentityIs
  <2>4. QED
    BY <2>1, <2>2, <2>3 DEF Number
<1>4. ASSUME NEW field, NEW other, Began(b, field, other), field # <<a, k>>, other # loc
      PROVE  Began(c, field, other)'
  BY <1>4 DEF Began, Builder!Put
<1>5. Began(c, <<a, k>>, loc)'
  BY DEF Began, Builder!Put
<1>6. ASSUME NEW p \in Pairs(truth'.transactions, c.transactions)
      PROVE  Began(c, p[1].loc, p[2].loc)'
  <2>1. p \in Pairs(truth.transactions, b.transactions)
    BY <1>6
  <2>2. p[1].loc \in Addresses \X Nat
    BY <2>1, PairTyped DEF Recording, TypeOK
  <2>3. PICK field \in Addresses \X Nat : field = p[1].loc
    BY <2>2
  <2>4. PICK other : other = p[2].loc
    OBVIOUS
  <2>5. Fits(b, field, other) /\ Began(b, field, other)
    BY <2>1, <2>3, <2>4 DEF Recording, Names, Starts
  <2>6. PICK x \in Addresses, i \in Nat : field = <<x, i>>
    OBVIOUS
  <2>7. PICK m \in Nat :
          /\ other = Name(x, m) /\ i <= memory[x].incarnation
          /\ ~ memory[x].alive => m < Number(b, x)
    BY <2>5, <2>6 DEF Fits
  <2>8. field # <<a, k>>
    BY <1>1, <2>6, <2>7
  <2>9. other # loc
    <3>1. ASSUME other = loc PROVE x = a /\ m = n
      <4>1. Name(x, m) = Name(a, n)
        BY <2>7, <3>1
      <4>2. QED
        BY <4>1, NameInjective
    <3>2. x = a => m < n
      BY <1>1, <1>2, <1>3, <2>7
    <3>3. QED
      BY <1>3, <2>7, <3>1, <3>2
  <2>10. Began(c, field, other)'
    BY <1>4, <2>5, <2>8, <2>9
  <2>11. QED
    BY <2>3, <2>4, <2>10
<1>7. ASSUME NEW x \in Addresses, memory'[x].alive
      PROVE  Began(c, <<x, memory[x].incarnation>>, Name(x, Number(c, x)))'
  <2>1. CASE x = a
    <3>1. <<x, memory'[x].incarnation>> = <<a, k>> /\ Name(x, Number(c, x))' = loc
      BY <2>1 DEF Name
    <3>2. PICK field : field = <<x, memory'[x].incarnation>>
      OBVIOUS
    <3>3. PICK other : other = Name(x, Number(c, x))'
      OBVIOUS
    <3>4. Began(c, field, other)'
      BY <1>5, <3>1, <3>2, <3>3
    <3>5. QED
      BY <3>2, <3>3, <3>4
  <2>2. CASE x # a
    <3>1. memory'[x] = memory[x] /\ memory[x].alive
      BY <1>7, <2>2
    <3>2. Number(c, x)' = Number(b, x)
      BY <1>7, <3>1 DEF Carries
    <3>3. PICK field : field = <<x, memory[x].incarnation>>
      OBVIOUS
    <3>4. PICK other : other = Name(x, Number(b, x))
      OBVIOUS
    <3>5. Began(b, field, other)
      BY <3>1, <3>3, <3>4 DEF Recording, Starts
    <3>6. field # <<a, k>>
      BY <2>2, <3>3
    <3>7. other # loc
      BY <2>2, <3>4, NameInjective
    <3>8. Began(c, field, other)'
      BY <1>4, <3>5, <3>6, <3>7
    <3>9. field = <<x, memory'[x].incarnation>> /\ other = Name(x, Number(c, x))'
      BY <3>1, <3>2, <3>3, <3>4 DEF Name
    <3>10. QED
      BY <3>8, <3>9
  <2>3. QED
    BY <2>1, <2>2
<1>8. QED
  BY <1>6, <1>7 DEF Starts

LEMMA CarriesSame ==
    ASSUME TypeOK, TypeOK', scenario' = scenario, NEW b, NEW c, RawLocations(b), NEW a \in Addresses,
           memory'[a].alive = memory[a].alive, memory'[a].incarnation = memory[a].incarnation,
           memory'[a].lifetime = memory[a].lifetime,
           registry'[a].generation = registry[a].generation, registry[a].active => registry'[a].active,
           RawNumber(c, a) = RawNumber(b, a)
    PROVE  Carries(b, c, a) /\ Number(c, a)' = Number(b, a)
<1>1. Number(c, a)' = Number(b, a)
  BY IdentityIs DEF Number
<1>2. Number(b, a) \in Nat
  BY NumberTyped
<1>3. PICK n \in Nat : n = Number(b, a)
  BY <1>2
<1>4. memory[a].incarnation \in Nat /\ memory[a].alive \in BOOLEAN
  BY DEF TypeOK, FieldType
<1>5. Number(c, a)' >= Number(b, a) /\ memory'[a].incarnation >= memory[a].incarnation
  BY <1>1, <1>3, <1>4
<1>6. QED
  BY <1>1, <1>4, <1>5 DEF Carries

LEMMA ContextsKept ==
    ASSUME NEW built, NEW new, Contexts(built), \A u \in Threads : Alike(built, new, u),
           \A u \in Threads : /\ context'[u].next = context[u].next /\ context'[u].current = context[u].current
                              /\ context'[u].depth = context[u].depth /\ (Busy(u)' <=> Busy(u))
    PROVE  Contexts(new)'
<1>1. ASSUME NEW u \in Threads
      PROVE  IF Busy(u)' THEN Inside(new, u, context'[u]) ELSE Outside(new, u, context'[u])
  <2>1. PICK c : c = context[u]
    OBVIOUS
  <2>2. PICK d : d = context'[u]
    OBVIOUS
  <2>3. IF Busy(u) THEN Inside(built, u, c) ELSE Outside(built, u, c)
    BY <2>1 DEF Contexts
  <2>4. d.next = c.next /\ d.current = c.current /\ d.depth = c.depth
    BY <2>1, <2>2
  <2>5. IF Busy(u) THEN Inside(built, u, d) ELSE Outside(built, u, d)
    BY <2>3, <2>4, SameContext
  <2>6. Alike(built, new, u)
    OBVIOUS
  <2>7. IF Busy(u) THEN Inside(new, u, d) ELSE Outside(new, u, d)
    BY <2>5, <2>6, AlikeContext
  <2>8. QED
    BY <2>2, <2>7
<1>2. QED
  BY <1>1 DEF Contexts

LEMMA AlikeSame ==
    ASSUME NEW built, NEW t
    PROVE  Alike(built, built, t)
  BY DEF Alike

\* The location an event names, as long as nothing went wrong
LEMMA LocationNumber ==
    ASSUME TypeOK, Lifetimes, NEW a \in Addresses, memory[a].alive, NEW b, IsBuilder(b), RawLocations(b), NEW c,
           c.strict = b.strict, NEW h, h = HandleOf(a, memory),
           h # None => Keeps(b, c), h = None => Uses(b, c, a)
    PROVE  /\ RawLocations(c) /\ \A x : RawNumber(c, x) = RawNumber(b, x)
           /\ ~ b.strict => c.ignored = b.ignored
           /\ (IF h # None THEN h ELSE c.raw[a]) = Name(a, Number(b, a))
<1>1. CASE scenario.identity = "raw"
  <2>1. h = None
    BY <1>1, HandleTyped DEF TypeOK
  <2>2. /\ RawLocations(c) /\ \A x : RawNumber(c, x) = RawNumber(b, x)
        /\ c.raw[a] = <<a, RawNumber(b, a)>>
    BY <2>1, UsesFacts DEF IsBuilder
  <2>3. QED
    BY <1>1, <2>1, <2>2 DEF Name, Number, Uses
<1>2. CASE scenario.identity # "raw"
  <2>1. h # None
    BY <1>2, HandleTyped DEF TypeOK
  <2>2. RawLocations(c) /\ \A x : RawNumber(c, x) = RawNumber(b, x)
    BY <2>1, KeepsFacts
  <2>3. h = Name(a, Number(b, a))
    <3>1. CASE scenario.identity = "registry"
      <4>1. h = <<"backend", a, registry[a].generation>>
        BY <3>1, HandleTyped DEF TypeOK
      <4>2. QED
        BY <3>1, <4>1 DEF Name, Number
    <3>2. CASE scenario.identity = "lifetime"
      <4>1. h = <<"objlife", memory[a].lifetime>>
        BY <3>2, HandleTyped DEF TypeOK
      <4>2. PICK n \in Nat : memory[a].lifetime = <<a, n>>
        BY DEF Lifetimes, TypeOK, FieldType
      <4>3. Number(b, a) = n
        BY <3>2, <4>2 DEF Number
      <4>4. QED
        BY <3>2, <4>1, <4>2, <4>3 DEF Name
    <3>3. QED
      BY <1>2, <3>1, <3>2, IdentityIs
  <2>4. QED
    BY <2>1, <2>2, <2>3 DEF Keeps
<1>3. QED
  BY <1>1, <1>2

LEMMA LocateFacts ==
    ASSUME TypeOK, NEW a \in Addresses, Locate(a)
    PROVE  /\ scenario.identity = "registry" => registry'[a].active
           /\ \A x \in Addresses : /\ registry'[x].generation = registry[x].generation
                                   /\ registry[x].active => registry'[x].active
<1>1. registry \in [Addresses -> [active : BOOLEAN, generation : Nat]]
  BY DEF TypeOK
<1>2. registry' = registry \/ registry' = [registry EXCEPT ![a].active = TRUE]
  BY DEF Locate, Registered
<1>3. scenario.identity = "registry" => registry' = [registry EXCEPT ![a].active = TRUE]
  BY DEF Locate, Registered
<1>4. QED
  BY <1>1, <1>2, <1>3

\* A read or a write
LEMMA AccessKept ==
    ASSUME TypeOK, TypeOK', RecordingInv, NEW t \in Threads, NEW a \in Addresses, NEW value \in Values,
           NEW kind \in {"tx_read", "tx_write"}, NEW write \in BOOLEAN, write <=> kind = "tx_write",
           scenario' = scenario, context' = context, memory' = memory, lifetimes' = lifetimes,
           LocationHook(kind, t, a, memory, value), Locate(a),
           truth'.transactions = [truth.transactions EXCEPT ![Current(t)].accesses = Append(@,
               [write |-> write, loc |-> <<a, memory[a].incarnation>>, value |-> value])],
           truth'.initial = truth.initial,
           Misuse("dead", ~ memory[a].alive), attempt[t].state = "running",
           \A u \in Threads : attempt'[u].state = attempt[u].state
    PROVE  RecordingInv'
<1>1. PICK b : b = Built
  OBVIOUS
<1>2. PICK c : c = Built'
  OBVIOUS
<1>3. PICK h : h = HandleOf(a, memory)
  OBVIOUS
<1>4. PICK e : e = EventOf(kind, t, context[t].current, a, h, value)
  OBVIOUS
<1>5. e \in EventType /\ events' = Append(events, e)
  <2>1. memory \in [Addresses -> FieldType]
    BY DEF TypeOK
  <2>2. /\ EventOf(kind, t, context[t].current, a, HandleOf(a, memory), value) \in EventType
        /\ events' = Append(events, EventOf(kind, t, context[t].current, a, HandleOf(a, memory), value))
    BY <2>1, LocationHookFacts
  <2>3. QED
    BY <1>3, <1>4, <2>2
<1>6. /\ e.kind = kind /\ e.thread = t /\ e.tx = context[t].current /\ e.address = a
      /\ e.handle = h /\ e.value = value
  BY <1>4 DEF EventOf
<1>7. /\ IsBuilder(b) /\ IsBuilder(c) /\ c.strict = b.strict
      /\ Clean(c) => Clean(b) /\ Accessed(b, c, e) /\ c.initial = b.initial
  <2>1. PICK n : n = Len(events) + 1
    OBVIOUS
  <2>2. /\ IsBuilder(b) /\ IsBuilder(c) /\ c.strict = b.strict
        /\ Clean(c) => Clean(b) /\ Change(b, c, e, n)
    BY <1>1, <1>2, <1>5, <1>6, <2>1, Effect
  <2>3. QED
    BY <1>6, <2>2 DEF Change, Initials
<1>8. Lifetimes'
  BY DEF RecordingInv, Lifetimes
<1>9. ASSUME Clean(c), "dead" \notin misuse' PROVE Recording(c)'
  <2>1. memory[a].alive /\ "dead" \notin misuse
    BY <1>9 DEF Misuse
  <2>2. Recording(b)
    BY <1>1, <1>7, <1>9, <2>1 DEF RecordingInv
  <2>3. Accessed(b, c, e)
    BY <1>7, <1>9
  <2>4. RawLocations(b) /\ Lifetimes
    BY <2>2 DEF Recording, RecordingInv
  <2>5. (h # None => Keeps(b, c)) /\ (h = None => Uses(b, c, a))
    BY <1>6, <2>3 DEF Accessed
  <2>6. PICK loc : loc = IF h # None THEN h ELSE c.raw[a]
    OBVIOUS
  <2>7. /\ RawLocations(c) /\ \A x : RawNumber(c, x) = RawNumber(b, x)
        /\ ~ b.strict => c.ignored = b.ignored
        /\ loc = Name(a, Number(b, a))
    BY <1>3, <1>7, <2>1, <2>4, <2>5, <2>6, LocationNumber
  <2>8. PICK i \in DOMAIN b.transactions :
           /\ Current(t) = i /\ Builder!FindTx(b, e) = {i}
    BY <1>6, <2>2, CurrentFacts DEF Busy
  <2>9. PICK d : d = [write |-> write, loc |-> <<a, memory[a].incarnation>>, value |-> value]
    OBVIOUS
  <2>10. PICK x : x = [write |-> write, loc |-> loc, value |-> value]
    OBVIOUS
  <2>11. d \in DidAccess /\ d.loc = <<a, memory[a].incarnation>> /\ d.write = write /\ d.value = value
    BY <2>9 DEF DidAccess, TypeOK, FieldType
  <2>12. loc \in LocationType
    BY <2>4, <2>7, NameTyped, NumberTyped
  <2>13. x \in BuiltAccess /\ x.loc = Name(a, Number(b, a)) /\ x.write = write /\ x.value = value
    BY <2>7, <2>10, <2>12 DEF BuiltAccess
  <2>14. PICK did \in Seq(DidType) : did = truth.transactions
    BY DEF TypeOK
  <2>15. PICK built \in Seq(BuiltType) : built = b.transactions
    BY <2>2 DEF Recording
  <2>16. truth'.transactions = [did EXCEPT ![i].accesses = Append(@, d)]
    BY <2>8, <2>9, <2>14
  <2>17. c.transactions = Builder!WithAccess(built, {i}, x)
    <3>1. [write |-> e.kind = "tx_write",
           loc |-> IF e.handle # None THEN e.handle ELSE c.raw[e.address],
           value |-> e.value] = x
      BY <1>6, <2>6, <2>10
    <3>2. QED
      BY <2>3, <2>8, <2>15, <3>1 DEF Accessed
  <2>18. Matched(did, built)
    BY <2>2, <2>14, <2>15 DEF Recording
  <2>19. /\ c.transactions \in Seq(BuiltType)
         /\ Matched(truth'.transactions, c.transactions)
         /\ Pairs(truth'.transactions, c.transactions) \subseteq Pairs(did, built) \cup {<<d, x>>}
    <3>1. i \in DOMAIN built /\ d.write = x.write /\ d.value = x.value
      BY <2>8, <2>11, <2>13, <2>15
    <3>2. /\ Builder!WithAccess(built, {i}, x) \in Seq(BuiltType)
          /\ Matched([did EXCEPT ![i].accesses = Append(@, d)], Builder!WithAccess(built, {i}, x))
          /\ Pairs([did EXCEPT ![i].accesses = Append(@, d)], Builder!WithAccess(built, {i}, x))
                \subseteq Pairs(did, built) \cup {<<d, x>>}
      BY <2>11, <2>13, <2>18, <3>1, AccessMatched
    <3>3. QED
      BY <2>16, <2>17, <3>2
  <2>20. Contexts(c.transactions)'
    <3>1. \A u \in Threads : Alike(built, c.transactions, u)
      BY <2>8, <2>13, <2>15, <2>17, AccessAlike
    <3>2. Contexts(built)
      BY <2>2, <2>15 DEF Recording
    <3>3. \A u \in Threads : (Busy(u)' <=> Busy(u))
      BY DEF Busy
    <3>4. QED
      BY <3>1, <3>2, <3>3, ContextsKept
  <2>21. IgnoredDead(c)'
    BY <1>7, <2>2, <2>7 DEF Recording, IgnoredDead
  <2>22. ASSUME NEW y \in Addresses PROVE Carries(b, c, y)
    BY <2>4, <2>7, LocateFacts, CarriesSame
  <2>23. Names(c)' /\ Apart(Pairs(truth'.transactions, c.transactions))
    BY <2>1, <2>2, <2>7, <2>11, <2>13, <2>14, <2>15, <2>19, <2>22, LocateFacts, NamesExtended
  <2>24. Starts(c)'
    <3>1. c.initial = b.initial /\ Starts(b)
      BY <1>7, <1>9, <2>2 DEF Recording
    <3>2. ASSUME NEW p \in Pairs(truth'.transactions, c.transactions)
          PROVE  \/ p \in Pairs(truth.transactions, b.transactions)
                 \/ /\ p[1].loc = <<a, memory[a].incarnation>>
                    /\ p[2].loc = Name(a, Number(b, a))
      <4>1. p \in Pairs(did, built) \/ p = <<d, x>>
        BY <2>19, <3>2
      <4>2. CASE p = <<d, x>>
        <5>1. p[1] = d /\ p[2] = x
          BY <4>2
        <5>2. QED
          BY <2>11, <2>13, <5>1
      <4>3. QED
        BY <2>14, <2>15, <4>1, <4>2
    <3>3. QED
      BY <2>1, <2>22, <3>1, <3>2, StartsKept
  <2>25. QED
    BY <2>7, <2>19, <2>20, <2>21, <2>23, <2>24 DEF Recording
<1>10. QED
  BY <1>2, <1>7, <1>8, <1>9 DEF RecordingInv

LEMMA ReadKept ==
    ASSUME TypeOK, TypeOK', RecordingInv, NEW t \in Threads, ReadField(t)
    PROVE  RecordingInv'
<1>1. PICK a \in Addresses : a = Entry(t).address
  BY EntryTyped DEF ReadField
<1>2. PICK value \in Values :
         value = IF a \in DOMAIN attempt[t].writes THEN attempt[t].writes[a] ELSE memory[a].value
  BY ReadValueTyped
<1>3. /\ LocationHook("tx_read", t, a, memory, value) /\ Locate(a) /\ Did(t, FALSE, a, value)
      /\ attempt' = IF a \in DOMAIN attempt[t].writes THEN attempt
                    ELSE [attempt EXCEPT ![t].reads = Builder!Put(@, a, value)]
      /\ Misuse("dead", ~ memory[a].alive) /\ attempt[t].state = "running"
      /\ scenario' = scenario /\ context' = context /\ memory' = memory /\ lifetimes' = lifetimes
  BY <1>1, <1>2 DEF ReadField
<1>4. ASSUME NEW u \in Threads PROVE attempt'[u].state = attempt[u].state
  <2>1. attempt = [v \in Threads |-> attempt[v]] /\ AttemptType(attempt[t])
    BY DEF TypeOK
  <2>2. PICK c : c = attempt[t]
    OBVIOUS
  <2>3. c = [f \in {"state", "reads", "writes", "tries", "start"} |-> c[f]]
    BY <2>1, <2>2 DEF AttemptType
  <2>4. [c EXCEPT !.reads = Builder!Put(@, a, value)].state = c.state
    BY <2>3
  <2>5. attempt' = attempt \/ attempt' = [attempt EXCEPT ![t] = [c EXCEPT !.reads = Builder!Put(@, a, value)]]
    BY <1>3, <2>1, <2>2
  <2>6. QED
    BY <2>1, <2>2, <2>4, <2>5
<1>5. /\ truth'.transactions = [truth.transactions EXCEPT ![Current(t)].accesses = Append(@,
         [write |-> FALSE, loc |-> <<a, memory[a].incarnation>>, value |-> value])]
      /\ truth'.initial = truth.initial
  BY <1>3, DidFacts
<1>6. QED
  BY <1>3, <1>4, <1>5, AccessKept

LEMMA WriteKept ==
    ASSUME TypeOK, TypeOK', RecordingInv, NEW t \in Threads, WriteField(t)
    PROVE  RecordingInv'
<1>1. PICK a \in Addresses : a = Entry(t).address
  BY EntryTyped DEF WriteField
<1>2. PICK value \in Values : value = Entry(t).value
  BY EntryTyped DEF WriteField
<1>3. /\ LocationHook("tx_write", t, a, memory, value) /\ Locate(a) /\ Did(t, TRUE, a, value)
      /\ attempt' = [attempt EXCEPT ![t].writes = Builder!Put(@, a, value)]
      /\ Misuse("dead", ~ memory[a].alive) /\ attempt[t].state = "running"
      /\ scenario' = scenario /\ context' = context /\ memory' = memory /\ lifetimes' = lifetimes
  BY <1>1, <1>2 DEF WriteField
<1>4. ASSUME NEW u \in Threads PROVE attempt'[u].state = attempt[u].state
  <2>1. attempt = [v \in Threads |-> attempt[v]] /\ AttemptType(attempt[t])
    BY DEF TypeOK
  <2>2. PICK c : c = attempt[t]
    OBVIOUS
  <2>3. c = [f \in {"state", "reads", "writes", "tries", "start"} |-> c[f]]
    BY <2>1, <2>2 DEF AttemptType
  <2>4. [c EXCEPT !.writes = Builder!Put(@, a, value)].state = c.state
    BY <2>3
  <2>5. attempt' = [attempt EXCEPT ![t] = [c EXCEPT !.writes = Builder!Put(@, a, value)]]
    BY <1>3, <2>1, <2>2
  <2>6. QED
    BY <2>1, <2>2, <2>4, <2>5
<1>5. /\ truth'.transactions = [truth.transactions EXCEPT ![Current(t)].accesses = Append(@,
         [write |-> TRUE, loc |-> <<a, memory[a].incarnation>>, value |-> value])]
      /\ truth'.initial = truth.initial
  BY <1>3, DidFacts
<1>6. QED
  BY <1>3, <1>4, <1>5, AccessKept

\* A step that touches no transaction
LEMMA SameTransactions ==
    ASSUME TypeOK, TypeOK', scenario' = scenario, NEW b, NEW c, Recording(b), RawLocations(c),
           c.transactions = b.transactions, truth'.transactions = truth.transactions,
           \A u \in Threads : /\ context'[u].next = context[u].next /\ context'[u].current = context[u].current
                              /\ context'[u].depth = context[u].depth /\ (Busy(u)' <=> Busy(u)),
           \A a \in Addresses : Carries(b, c, a), IgnoredDead(c)', Starts(c)'
    PROVE  Recording(c)'
<1>1. Contexts(c.transactions)'
  <2>1. Contexts(b.transactions)
    BY DEF Recording
  <2>2. QED
    BY <2>1, AlikeSame, ContextsKept
<1>2. Names(c)' /\ Apart(Pairs(truth'.transactions, c.transactions))
  BY NamesKept
<1>3. QED
  BY <1>1, <1>2 DEF Recording

\* Nor any location: all is as it was but the values of fields
LEMMA QuietKept ==
    ASSUME TypeOK, TypeOK', RecordingInv, scenario' = scenario, registry' = registry, lifetimes' = lifetimes,
           truth' = truth, "dead" \in misuse => "dead" \in misuse',
           IsBuilder(Built'), Clean(Built') => Built' = Built,
           \A a \in Addresses : /\ memory'[a].alive = memory[a].alive /\ memory'[a].lifetime = memory[a].lifetime
                                /\ memory'[a].incarnation = memory[a].incarnation,
           \A u \in Threads : /\ context'[u].next = context[u].next /\ context'[u].current = context[u].current
                              /\ context'[u].depth = context[u].depth /\ (Busy(u)' <=> Busy(u))
    PROVE  RecordingInv'
<1>1. PICK b : b = Built
  OBVIOUS
<1>2. Lifetimes'
  BY DEF RecordingInv, Lifetimes
<1>3. ASSUME Clean(Built'), "dead" \notin misuse' PROVE Recording(b)'
  <2>1. Recording(b)
    BY <1>1, <1>3 DEF RecordingInv
  <2>2. RawLocations(b)
    BY <2>1 DEF Recording
  <2>3. \A a \in Addresses : Carries(b, b, a)
    BY <2>2, CarriesSame
  <2>4. IgnoredDead(b)'
    BY <2>1 DEF Recording, IgnoredDead
  <2>5. Starts(b)'
    BY <2>1, <2>3, StartsKept DEF Recording
  <2>6. QED
    BY <2>1, <2>2, <2>3, <2>4, <2>5, SameTransactions
<1>4. Clean(Built') /\ "dead" \notin misuse' => Recording(Built)'
  <2> SUFFICES ASSUME Clean(Built'), "dead" \notin misuse' PROVE Recording(Built)'
    OBVIOUS
  <2>1. Recording(b)'
    BY <1>3
  <2>2. Built' = b
    BY <1>1
  <2>3. QED
    BY <2>1, <2>2
<1>5. QED
  BY <1>2, <1>4 DEF RecordingInv

LEMMA BuiltSame ==
    ASSUME RecordingInv, scenario' = scenario, events' = events
    PROVE  Built' = Built /\ IsBuilder(Built')
  BY DEF Built, RecordingInv

LEMMA PublishKept ==
    ASSUME TypeOK, TypeOK', RecordingInv, NEW t \in Threads, Publish(t)
    PROVE  RecordingInv'
<1>1. \A a \in Addresses : /\ memory'[a].alive = memory[a].alive /\ memory'[a].lifetime = memory[a].lifetime
                           /\ memory'[a].incarnation = memory[a].incarnation
  <2>1. ASSUME NEW a \in Addresses
        PROVE  /\ memory'[a].alive = memory[a].alive /\ memory'[a].lifetime = memory[a].lifetime
               /\ memory'[a].incarnation = memory[a].incarnation
    <3>1. PICK field \in FieldType : field = memory[a]
      BY DEF TypeOK
    <3>2. \/ memory'[a] = field
          \/ memory'[a] = [field EXCEPT !.value = attempt[t].writes[a]]
      BY <3>1 DEF Publish
    <3>3. QED
      BY <3>1, <3>2 DEF FieldType
  <2>2. QED
    BY <2>1
<1>2. \A u \in Threads : (Busy(u)' <=> Busy(u))
  <2>1. attempt[t].state = "running" /\ attempt' = [attempt EXCEPT ![t].state = "published"]
    BY DEF Publish
  <2>2. ASSUME NEW u \in Threads PROVE (Busy(u)' <=> Busy(u))
    BY <2>1 DEF TypeOK, AttemptType, Busy
  <2>3. QED
    BY <2>2
<1>3. /\ scenario' = scenario /\ registry' = registry /\ lifetimes' = lifetimes /\ truth' = truth
      /\ misuse' = misuse /\ events' = events /\ context' = context
  BY DEF Publish
<1>4. QED
  BY <1>1, <1>2, <1>3, BuiltSame, QuietKept

LEMMA StutterKept ==
    ASSUME TypeOK, TypeOK', RecordingInv, UNCHANGED vars
    PROVE  RecordingInv'
  BY BuiltSame, QuietKept DEF vars, Busy

LEMMA RetryKept ==
    ASSUME TypeOK, TypeOK', RecordingInv, NEW t \in Threads, RetryTransaction(t)
    PROVE  RecordingInv'
<1>1. /\ scenario' = scenario /\ registry' = registry /\ lifetimes' = lifetimes /\ truth' = truth
      /\ misuse' = misuse /\ memory' = memory
      /\ attempt[t].state = "aborted" /\ attempt' = [attempt EXCEPT ![t].state = "idle"]
  BY DEF RetryTransaction
<1>2. \A u \in Threads : (Busy(u)' <=> Busy(u))
  <2>1. ASSUME NEW u \in Threads PROVE (Busy(u)' <=> Busy(u))
    BY <1>1 DEF TypeOK, AttemptType, Busy
  <2>2. QED
    BY <2>1
<1>3. CASE UNCHANGED <<context, events>>
  BY <1>1, <1>2, <1>3, BuiltSame, QuietKept
<1>4. CASE HookRetry(t)
  <2>1. PICK c \in ContextType : c = context[t]
    BY DEF TypeOK
  <2>2. PICK tx : tx = IF c.current # None THEN c.current ELSE c.lastAborted
    OBVIOUS
  <2>3. tx \in Nat \cup {None}
    BY <2>2 DEF ContextType
  <2>4. TransactionHook("tx_retry", t, tx) /\ context' = [context EXCEPT ![t].lastAborted = None]
    BY <1>4, <2>1, <2>2 DEF HookRetry
  <2>5. PICK e : e = EventOf("tx_retry", t, tx, None, None, None)
    OBVIOUS
  <2>6. e \in EventType /\ events' = Append(events, e) /\ e.kind = "tx_retry"
    BY <2>3, <2>4, <2>5, TransactionHookFacts DEF EventOf
  <2>7. IsBuilder(Built') /\ (Clean(Built') => Built' = Built)
    <3>1. PICK n : n = Len(events) + 1
      OBVIOUS
    <3>2. IsBuilder(Built') /\ (Clean(Built') => Change(Built, Built', e, n))
      BY <1>1, <2>6, <3>1, Effect
    <3>3. QED
      BY <2>6, <3>2 DEF Change
  <2>8. \A u \in Threads : /\ context'[u].next = context[u].next /\ context'[u].current = context[u].current
                           /\ context'[u].depth = context[u].depth
    <3>1. ASSUME NEW u \in Threads
          PROVE  /\ context'[u].next = context[u].next /\ context'[u].current = context[u].current
                 /\ context'[u].depth = context[u].depth
      BY <2>4 DEF TypeOK, ContextType
    <3>2. QED
      BY <3>1
  <2>9. QED
    BY <1>1, <1>2, <2>7, <2>8, QuietKept
<1>5. QED
  BY <1>3, <1>4 DEF RetryTransaction

LEMMA BeginKept ==
    ASSUME TypeOK, TypeOK', RecordingInv, NEW t \in Threads, BeginTransaction(t)
    PROVE  RecordingInv'
<1>1. /\ scenario' = scenario /\ registry' = registry /\ lifetimes' = lifetimes /\ memory' = memory
      /\ HookBegin(t) /\ Misuse("nested", attempt[t].state = "running")
  BY DEF BeginTransaction
<1>2. "dead" \in misuse => "dead" \in misuse'
  BY <1>1 DEF Misuse
<1>3. PICK old \in ContextType : old = context[t]
  BY DEF TypeOK
<1>4. PICK entered : entered = ContextAtBegin(old)
  OBVIOUS
<1>5. PICK tx : tx = entered.current
  OBVIOUS
<1>6. TransactionHook("tx_begin", t, tx) /\ context' = [context EXCEPT ![t] = entered]
  BY <1>1, <1>3, <1>4, <1>5 DEF HookBegin
<1>7. IF old.current = None
      THEN entered = [next |-> old.next + 1, current |-> old.next, lastAborted |-> None, depth |-> 1]
      ELSE entered.current = old.current
  BY <1>4 DEF ContextAtBegin, ContextType
<1>8. tx \in Nat
  BY <1>5, <1>7 DEF ContextType
<1>9. PICK e : e = EventOf("tx_begin", t, tx, None, None, None)
  OBVIOUS
<1>10. e \in EventType /\ events' = Append(events, e) /\ e.kind = "tx_begin" /\ e.thread = t /\ e.tx = tx
  BY <1>6, <1>8, <1>9, TransactionHookFacts DEF EventOf
<1>11. PICK b : b = Built
  OBVIOUS
<1>12. PICK c : c = Built'
  OBVIOUS
<1>13. /\ IsBuilder(b) /\ IsBuilder(c) /\ c.strict = b.strict
       /\ Clean(c) => Clean(b) /\ BeginChange(b, c, e, Len(events) + 1) /\ c.initial = b.initial
  <2>1. PICK n : n = Len(events) + 1
    OBVIOUS
  <2>2. /\ IsBuilder(b) /\ IsBuilder(c) /\ c.strict = b.strict
        /\ Clean(c) => Clean(b) /\ Change(b, c, e, n)
    BY <1>1, <1>10, <1>11, <1>12, <2>1, Effect
  <2>3. QED
    BY <1>10, <2>1, <2>2 DEF Change, Initials
<1>14. Lifetimes'
  BY <1>1 DEF RecordingInv, Lifetimes
<1>15. ASSUME Clean(c), "dead" \notin misuse' PROVE Recording(c)'
  <2>1. Recording(b)
    BY <1>2, <1>11, <1>13, <1>15 DEF RecordingInv
  <2>2. /\ Builder!FindTx(b, e) = {} /\ Keeps(b, c)
        /\ c.transactions = Append(b.transactions,
              [thread |-> t, tx |-> tx, begin |-> Len(events) + 1, end |-> 0,
               outcome |-> "live", accesses |-> <<>>])
    BY <1>10, <1>13, <1>15 DEF BeginChange
  <2>3. PICK built \in Seq(BuiltType) : built = b.transactions
    BY <2>1 DEF Recording
  <2>4. PICK did \in Seq(DidType) : did = truth.transactions
    BY DEF TypeOK
  \* A transaction that has begun already makes the builder fail
  <2>5. ~ Busy(t)
    <3>1. SUFFICES ASSUME Busy(t) PROVE FALSE
      OBVIOUS
    <3>2. Inside(built, t, old)
      BY <1>3, <2>1, <2>3, <3>1 DEF Recording, Contexts
    <3>3. old.current # None
      BY <3>2 DEF Inside
    <3>4. e.tx = context[t].current
      BY <1>3, <1>5, <1>7, <1>10, <3>3
    <3>5. PICK i \in DOMAIN b.transactions : Builder!FindTx(b, e) = {i}
      BY <1>10, <2>1, <3>1, <3>4, CurrentFacts
    <3>6. QED
      BY <2>2, <3>5
  <2>6. Outside(built, t, old)
    BY <1>3, <2>1, <2>3, <2>5 DEF Recording, Contexts
  <2>7. entered = [next |-> old.next + 1, current |-> old.next, lastAborted |-> None, depth |-> 1] /\ tx = old.next
    <3>1. old.current = None
      BY <2>6 DEF Outside
    <3>2. QED
      BY <1>5, <1>7, <3>1
  <2>8. PICK n \in Nat : n = Len(events) + 1
    BY DEF TypeOK
  <2>9. PICK d : d = [thread |-> t, begin |-> n, end |-> 0, outcome |-> "live", accesses |-> <<>>]
    OBVIOUS
  <2>10. PICK x : x = [thread |-> t, tx |-> tx, begin |-> n, end |-> 0, outcome |-> "live", accesses |-> <<>>]
    OBVIOUS
  <2>11. d \in DidType /\ d.accesses = <<>> /\ d.thread = t
    BY <2>9 DEF DidType
  <2>12. x \in BuiltType /\ x.thread = t /\ x.tx = old.next /\ x.outcome = "live"
    BY <1>8, <2>7, <2>10 DEF BuiltType
  <2>13. SameTransaction(d, x)
    BY <2>9, <2>10 DEF SameTransaction
  <2>14. /\ truth'.transactions = Append(did, d) /\ truth'.initial = truth.initial
         /\ attempt' = [attempt EXCEPT ![t] = [@ EXCEPT !.state = "running", !.start = pc[t]]]
    <3>1. attempt[t].state # "running"
      BY <2>5 DEF Busy
    <3>2. truth' = [truth EXCEPT !.transactions = Append(@,
              [thread |-> t, begin |-> Len(events) + 1, end |-> 0, outcome |-> "live", accesses |-> <<>>])]
          /\ attempt' = [attempt EXCEPT ![t] = [@ EXCEPT !.state = "running", !.start = pc[t]]]
      BY <3>1 DEF BeginTransaction
    <3>3. truth' = [truth EXCEPT !.transactions = Append(did, d)]
      BY <2>4, <2>8, <2>9, <3>2
    <3>4. truth'.transactions = Append(did, d) /\ truth'.initial = truth.initial
      BY <3>3 DEF TypeOK
    <3>5. QED
      BY <3>2, <3>4
  <2>15. c.transactions = Append(built, x)
    BY <2>2, <2>3, <2>8, <2>10
  <2>16. Matched(did, built)
    BY <2>1, <2>3, <2>4 DEF Recording
  <2>17. /\ Matched(truth'.transactions, c.transactions)
         /\ Pairs(truth'.transactions, c.transactions) = Pairs(did, built)
    BY <2>11, <2>12, <2>13, <2>14, <2>15, <2>16, BeginMatched
  <2>18. c.transactions \in Seq(BuiltType)
    BY <2>12, <2>15
  <2>19. Contexts(c.transactions)'
    <3>1. /\ Inside(c.transactions, t, entered)
          /\ \A u : u # t => Alike(built, c.transactions, u)
      BY <2>6, <2>7, <2>12, <2>15, BeginContext
    <3>2. ASSUME NEW u \in Threads
          PROVE  IF Busy(u)' THEN Inside(c.transactions, u, context'[u])
                 ELSE Outside(c.transactions, u, context'[u])
      <4>1. CASE u = t
        <5>1. context'[u] = entered
          BY <1>6, <4>1 DEF TypeOK
        <5>2. PICK held : held = attempt[t] /\ AttemptType(held)
          BY DEF TypeOK
        <5>3. attempt'[u] = [held EXCEPT !.state = "running", !.start = pc[t]]
          BY <2>14, <4>1, <5>2 DEF TypeOK
        <5>4. attempt'[u].state = "running"
          BY <5>2, <5>3 DEF AttemptType
        <5>5. Busy(u)'
          BY <5>4 DEF Busy
        <5>6. QED
          BY <3>1, <4>1, <5>1, <5>5
      <4>2. CASE u # t
        <5>1. context'[u] = context[u] /\ attempt'[u] = attempt[u]
          BY <1>6, <2>14, <4>2 DEF TypeOK
        <5>2. Busy(u)' <=> Busy(u)
          BY <5>1 DEF Busy
        <5>3. IF Busy(u) THEN Inside(built, u, context[u]) ELSE Outside(built, u, context[u])
          BY <2>1, <2>3 DEF Recording, Contexts
        <5>4. Alike(built, c.transactions, u)
          BY <3>1, <4>2
        <5>5. IF Busy(u) THEN Inside(c.transactions, u, context[u])
              ELSE Outside(c.transactions, u, context[u])
          BY <5>3, <5>4, AlikeContext
        <5>6. QED
          BY <5>1, <5>2, <5>5
      <4>3. QED
        BY <4>1, <4>2
    <3>3. QED
      BY <3>2 DEF Contexts
  <2>20. RawLocations(c) /\ \A a : RawNumber(c, a) = RawNumber(b, a)
    BY <1>13, <2>1, <2>2, KeepsFacts DEF Recording
  <2>21. IgnoredDead(c)'
    BY <1>1, <1>13, <2>1, <2>2 DEF Recording, IgnoredDead, Keeps
  <2>22. RawLocations(b)
    BY <2>1 DEF Recording
  <2>23. \A a \in Addresses : Carries(b, c, a)
    BY <1>1, <2>20, <2>22, CarriesSame
  <2>24. Names(c)' /\ Apart(Pairs(truth'.transactions, c.transactions))
    BY <1>1, <2>1, <2>3, <2>4, <2>17, <2>20, <2>23, NamesKept
  <2>25. Starts(c)'
    <3>1. c.initial = b.initial /\ Starts(b)
      BY <1>13, <1>15, <2>1 DEF Recording
    <3>2. Pairs(truth'.transactions, c.transactions) = Pairs(truth.transactions, b.transactions)
      BY <2>3, <2>4, <2>17
    <3>3. QED
      BY <1>1, <2>14, <2>23, <3>1, <3>2, StartsKept
  <2>26. QED
    BY <2>17, <2>18, <2>19, <2>20, <2>21, <2>24, <2>25 DEF Recording
<1>16. QED
  BY <1>12, <1>13, <1>14, <1>15 DEF RecordingInv

\* A commit or an abort
LEMMA EndKept ==
    ASSUME TypeOK, TypeOK', RecordingInv, NEW t \in Threads, Busy(t),
           NEW kind \in {"tx_commit_success", "tx_abort"}, NEW outcome \in {"committed", "aborted"},
           outcome = "aborted" <=> kind = "tx_abort",
           TransactionHook(kind, t, context[t].current),
           truth'.transactions = [truth.transactions EXCEPT ![Current(t)].outcome = outcome,
                                                            ![Current(t)].end = Len(events) + 1],
           truth'.initial = truth.initial,
           scenario' = scenario, registry' = registry, lifetimes' = lifetimes, memory' = memory, misuse' = misuse,
           context[t].depth = 1 => context'[t].next = context[t].next /\ context'[t].current = None,
           \A u \in Threads : u # t => context'[u] = context[u] /\ attempt'[u] = attempt[u],
           attempt'[t].state \notin {"running", "published"}
    PROVE  RecordingInv'
<1>1. PICK tx : tx = context[t].current
  OBVIOUS
<1>2. tx \in Nat \cup {None}
  BY <1>1 DEF TypeOK, ContextType
<1>3. PICK e : e = EventOf(kind, t, tx, None, None, None)
  OBVIOUS
<1>4. e \in EventType /\ events' = Append(events, e) /\ e.kind = kind /\ e.thread = t /\ e.tx = tx
  <2>1. TransactionHook(kind, t, tx)
    BY <1>1
  <2>2. kind \in {"tx_begin", "tx_commit_success", "tx_abort", "tx_retry"}
    OBVIOUS
  <2>3. e \in EventType /\ events' = Append(events, e)
    BY <1>2, <1>3, <2>1, <2>2, TransactionHookFacts
  <2>4. QED
    BY <1>3, <2>3 DEF EventOf
<1>5. PICK b : b = Built
  OBVIOUS
<1>6. PICK c : c = Built'
  OBVIOUS
<1>7. /\ IsBuilder(b) /\ IsBuilder(c) /\ c.strict = b.strict
      /\ Clean(c) => Clean(b) /\ EndChange(b, c, e, Len(events) + 1) /\ c.initial = b.initial
  <2>1. PICK n : n = Len(events) + 1
    OBVIOUS
  <2>2. e.kind \in {"tx_commit_success", "tx_abort"}
    BY <1>4
  <2>3. /\ IsBuilder(b) /\ IsBuilder(c) /\ c.strict = b.strict
        /\ Clean(c) => Clean(b) /\ Change(b, c, e, n)
    BY <1>4, <1>5, <1>6, <2>1, <2>2, Effect
  <2>4. QED
    BY <2>1, <2>2, <2>3 DEF Change, Initials
<1>8. Lifetimes'
  BY DEF RecordingInv, Lifetimes
<1>9. ASSUME Clean(c), "dead" \notin misuse' PROVE Recording(c)'
  <2>1. Recording(b)
    BY <1>5, <1>7, <1>9 DEF RecordingInv
  <2>2. PICK n : n = Len(events) + 1 /\ n \in Nat
    BY DEF TypeOK
  <2>3. Keeps(b, c) /\ c.transactions = Builder!WithEnd(b.transactions,
                            Builder!FindTx(b, e) \cap Builder!Live(b), outcome, n)
    BY <1>4, <1>7, <1>9, <2>2 DEF EndChange
  <2>4. PICK built \in Seq(BuiltType) : built = b.transactions
    BY <2>1 DEF Recording
  <2>5. PICK did \in Seq(DidType) : did = truth.transactions
    BY DEF TypeOK
  <2>6. PICK i \in DOMAIN built :
          /\ Current(t) = i /\ built[i].thread = t /\ built[i].outcome = "live"
          /\ Builder!FindTx(b, e) \cap Builder!Live(b) = {i}
    BY <1>1, <1>4, <2>1, <2>4, CurrentFacts
  <2>7. context[t].depth = 1
    BY <1>1, <1>4, <2>1, CurrentFacts
  <2>8. outcome \in {"committed", "aborted"}
    OBVIOUS
  <2>9. truth'.transactions = [did EXCEPT ![i].outcome = outcome, ![i].end = n]
    BY <2>2, <2>5, <2>6
  <2>10. c.transactions = Builder!WithEnd(built, {i}, outcome, n)
    BY <2>3, <2>4, <2>6
  <2>11. Matched(did, built)
    BY <2>1, <2>4, <2>5 DEF Recording
  <2>12. /\ c.transactions \in Seq(BuiltType)
         /\ Matched(truth'.transactions, c.transactions)
         /\ Pairs(truth'.transactions, c.transactions) = Pairs(did, built)
    <3>1. PICK new : new = truth'.transactions
      OBVIOUS
    <3>2. PICK newer : newer = c.transactions
      OBVIOUS
    <3>3. new = WithOutcome(did, i, outcome, n) /\ newer = Builder!WithEnd(built, {i}, outcome, n)
      BY <2>9, <2>10, <3>1, <3>2 DEF WithOutcome
    <3>4. StillMatched(did, built, WithOutcome(did, i, outcome, n), Builder!WithEnd(built, {i}, outcome, n))
      BY <2>2, <2>11, EndPair
    <3>5. StillMatched(did, built, new, newer)
      BY <3>3, <3>4
    <3>6. QED
      BY <3>1, <3>2, <3>5 DEF StillMatched
  <2>13. Contexts(c.transactions)'
    <3>1. Inside(built, t, context[t])
      BY <2>1, <2>4 DEF Recording, Contexts
    <3>2. PICK before : before = context[t]
      OBVIOUS
    <3>3. PICK after : after = context'[t]
      OBVIOUS
    <3>4. after.next = before.next /\ after.current = None
      BY <2>7, <3>2, <3>3
    <3>5. Inside(built, t, before)
      BY <3>1, <3>2
    <3>6. /\ Outside(Builder!WithEnd(built, {i}, outcome, n), t, after)
          /\ \A u : u # t => Alike(built, Builder!WithEnd(built, {i}, outcome, n), u)
      BY <2>6, <2>8, <3>4, <3>5, EndContext
    <3>7. Outside(c.transactions, t, after) /\ \A u : u # t => Alike(built, c.transactions, u)
      BY <2>10, <3>6
    <3>8. ASSUME NEW u \in Threads
          PROVE  IF Busy(u)' THEN Inside(c.transactions, u, context'[u])
                 ELSE Outside(c.transactions, u, context'[u])
      <4>1. CASE u = t
        <5>1. ~ Busy(u)'
          BY <4>1 DEF Busy
        <5>2. QED
          BY <3>3, <3>7, <4>1, <5>1
      <4>2. CASE u # t
        <5>1. context'[u] = context[u] /\ attempt'[u] = attempt[u]
          BY <4>2
        <5>2. Busy(u)' <=> Busy(u)
          BY <5>1 DEF Busy
        <5>3. IF Busy(u) THEN Inside(built, u, context[u]) ELSE Outside(built, u, context[u])
          BY <2>1, <2>4 DEF Recording, Contexts
        <5>4. Alike(built, c.transactions, u)
          BY <3>7, <4>2
        <5>5. IF Busy(u) THEN Inside(c.transactions, u, context[u])
              ELSE Outside(c.transactions, u, context[u])
          BY <5>3, <5>4, AlikeContext
        <5>6. QED
          BY <5>1, <5>2, <5>5
      <4>3. QED
        BY <4>1, <4>2
    <3>9. QED
      BY <3>8 DEF Contexts
  <2>14. RawLocations(c) /\ \A a : RawNumber(c, a) = RawNumber(b, a)
    BY <1>7, <2>1, <2>3, KeepsFacts DEF Recording
  <2>15. IgnoredDead(c)'
    BY <1>7, <2>1, <2>3 DEF Recording, IgnoredDead, Keeps
  <2>16. RawLocations(b)
    BY <2>1 DEF Recording
  <2>17. \A a \in Addresses : Carries(b, c, a)
    BY <2>14, <2>16, CarriesSame
  <2>18. Names(c)' /\ Apart(Pairs(truth'.transactions, c.transactions))
    BY <2>1, <2>4, <2>5, <2>12, <2>14, <2>17, NamesKept
  <2>19. Starts(c)'
    <3>1. c.initial = b.initial /\ Starts(b)
      BY <1>7, <1>9, <2>1 DEF Recording
    <3>2. Pairs(truth'.transactions, c.transactions) = Pairs(truth.transactions, b.transactions)
      BY <2>4, <2>5, <2>12
    <3>3. QED
      BY <2>17, <3>1, <3>2, StartsKept
  <2>20. QED
    BY <2>12, <2>13, <2>14, <2>15, <2>18, <2>19 DEF Recording
<1>10. QED
  BY <1>6, <1>7, <1>8, <1>9 DEF RecordingInv

LEMMA CommitKept ==
    ASSUME TypeOK, TypeOK', RecordingInv, NEW t \in Threads, CommitSuccess(t)
    PROVE  RecordingInv'
<1>1. /\ TransactionHook("tx_commit_success", t, context[t].current) /\ Ended(t, "committed")
      /\ context' = [context EXCEPT ![t] = ContextAtCommit(@)]
      /\ attempt[t].state = "published" /\ attempt' = [attempt EXCEPT ![t] = NoAttempt]
      /\ scenario' = scenario /\ registry' = registry /\ lifetimes' = lifetimes /\ memory' = memory
      /\ misuse' = misuse
  BY DEF CommitSuccess, HookCommit
<1>2. PICK c \in ContextType : c = context[t]
  BY DEF TypeOK
<1>3. context'[t] = ContextAtCommit(c)
  BY <1>1, <1>2 DEF TypeOK
<1>4. c.depth = 1 => context'[t].next = c.next /\ context'[t].current = None
  BY <1>3 DEF ContextAtCommit, ContextType
<1>5. \A u \in Threads : u # t => context'[u] = context[u] /\ attempt'[u] = attempt[u]
  BY <1>1 DEF TypeOK
<1>6. attempt'[t].state = "idle"
  BY <1>1 DEF TypeOK, NoAttempt
<1>7. Busy(t)
  BY <1>1 DEF Busy
<1>8. /\ truth'.transactions = [truth.transactions EXCEPT ![Current(t)].outcome = "committed",
                                                          ![Current(t)].end = Len(events) + 1]
      /\ truth'.initial = truth.initial
  BY <1>1, EndedFacts
<1>9. QED
  BY <1>1, <1>2, <1>4, <1>5, <1>6, <1>7, <1>8, EndKept

LEMMA AbortKept ==
    ASSUME TypeOK, TypeOK', RecordingInv, NEW t \in Threads, AbortTransaction(t)
    PROVE  RecordingInv'
<1>1. /\ TransactionHook("tx_abort", t, context[t].current) /\ Ended(t, "aborted")
      /\ context' = [context EXCEPT ![t] = ContextAtAbort(@)]
      /\ attempt[t].state = "running"
      /\ attempt' = [attempt EXCEPT ![t] = [NoAttempt EXCEPT !.state = "aborted", !.tries = attempt[t].tries + 1,
                                                             !.start = attempt[t].start]]
      /\ scenario' = scenario /\ registry' = registry /\ lifetimes' = lifetimes /\ memory' = memory
      /\ misuse' = misuse
  BY DEF AbortTransaction, HookAbort
<1>2. PICK c \in ContextType : c = context[t]
  BY DEF TypeOK
<1>3. context'[t] = ContextAtAbort(c)
  BY <1>1, <1>2 DEF TypeOK
<1>4. context'[t].next = c.next /\ context'[t].current = None
  BY <1>3 DEF ContextAtAbort, ContextType
<1>5. \A u \in Threads : u # t => context'[u] = context[u] /\ attempt'[u] = attempt[u]
  BY <1>1 DEF TypeOK
<1>6. attempt'[t].state = "aborted"
  BY <1>1 DEF TypeOK, NoAttempt
<1>7. Busy(t)
  BY <1>1 DEF Busy
<1>8. /\ truth'.transactions = [truth.transactions EXCEPT ![Current(t)].outcome = "aborted",
                                                          ![Current(t)].end = Len(events) + 1]
      /\ truth'.initial = truth.initial
  BY <1>1, EndedFacts
<1>9. QED
  BY <1>1, <1>2, <1>4, <1>5, <1>6, <1>7, <1>8, EndKept

LEMMA ConstructKept ==
    ASSUME TypeOK, TypeOK', RecordingInv, NEW t \in Threads, ConstructField(t)
    PROVE  RecordingInv'
<1>1. PICK a \in Addresses, value \in Values :
         /\ ~ memory[a].alive /\ memory' = Made(a, value) /\ lifetimes' = lifetimes + 1
         /\ memory' \in [Addresses -> FieldType]
         /\ LocationHook("tx_location_init", t, a, Made(a, value), value)
         /\ Locate(a) /\ Misuse("dead", UsedByOne(a))
         /\ truth' = [truth EXCEPT !.initial = Builder!Put(@, <<a, Made(a, value)[a].incarnation>>, value)]
         /\ UNCHANGED <<scenario, context, attempt>>
  BY ConstructFacts
<1>2. "dead" \in misuse => "dead" \in misuse'
  BY <1>1 DEF Misuse
<1>3. truth'.transactions = truth.transactions
  BY <1>1 DEF TypeOK
<1>4. /\ memory'[a].alive /\ memory'[a].incarnation = memory[a].incarnation + 1
      /\ memory'[a].lifetime = <<a, lifetimes + 1>>
      /\ \A x \in Addresses : x # a => memory'[x] = memory[x]
  <2>1. memory' = [memory EXCEPT ![a] = [alive |-> TRUE, value |-> value,
                      incarnation |-> memory[a].incarnation + 1, lifetime |-> <<a, lifetimes + 1>>]]
    BY <1>1 DEF Made
  <2>2. QED
    BY <2>1 DEF TypeOK
<1>5. PICK h : h = HandleOf(a, Made(a, value))
  OBVIOUS
<1>6. PICK e : e = EventOf("tx_location_init", t, context[t].current, a, h, value)
  OBVIOUS
<1>7. e \in EventType /\ events' = Append(events, e)
  BY <1>1, <1>5, <1>6, LocationHookFacts
<1>8. e.kind = "tx_location_init" /\ e.address = a /\ e.handle = h /\ e.value = value
  BY <1>6 DEF EventOf
<1>9. PICK b : b = Built
  OBVIOUS
<1>10. PICK c : c = Built'
  OBVIOUS
<1>11. /\ IsBuilder(b) /\ IsBuilder(c) /\ c.strict = b.strict
       /\ Clean(c) => Clean(b) /\ Named(b, c, e) /\ Initials(b, c, e)
  <2>1. PICK n : n = Len(events) + 1
    OBVIOUS
  <2>2. /\ IsBuilder(b) /\ IsBuilder(c) /\ c.strict = b.strict
        /\ Clean(c) => Clean(b) /\ Change(b, c, e, n)
    BY <1>1, <1>7, <1>8, <1>9, <1>10, <2>1, Effect
  <2>3. QED
    BY <1>8, <2>2 DEF Change
<1>12. Lifetimes'
  <2>1. lifetimes \in Nat /\ lifetimes' = lifetimes + 1
    BY <1>1 DEF TypeOK
  <2>2. ASSUME NEW x \in Addresses PROVE memory'[x].lifetime[1] = x /\ memory'[x].lifetime[2] <= lifetimes'
    <3>1. CASE x = a
      BY <1>4, <2>1, <3>1
    <3>2. CASE x # a
      <4>1. memory'[x] = memory[x]
        BY <1>4, <3>2
      <4>2. memory[x].lifetime[2] \in Nat
        BY DEF TypeOK, FieldType
      <4>3. memory[x].lifetime[1] = x /\ memory[x].lifetime[2] <= lifetimes
        BY DEF RecordingInv, Lifetimes
      <4>4. QED
        BY <2>1, <4>1, <4>2, <4>3
    <3>3. QED
      BY <3>1, <3>2
  <2>3. QED
    BY <2>2 DEF Lifetimes
<1>13. ASSUME Clean(c), "dead" \notin misuse' PROVE Recording(c)'
  <2>1. Recording(b)
    BY <1>2, <1>9, <1>11, <1>13 DEF RecordingInv
  <2>2. RawLocations(b)
    BY <2>1 DEF Recording
  <2>3. /\ c.transactions = b.transactions
        /\ h # None => Keeps(b, c)
        /\ h = None => Uses(b, c, a)
    BY <1>8, <1>11, <1>13 DEF Named
  <2>4. RawLocations(c) /\ \A x : RawNumber(c, x) = RawNumber(b, x)
    BY <1>11, <2>2, <2>3, UsesFacts, KeepsFacts DEF IsBuilder
  <2>5. IgnoredDead(c)'
    <3>1. SUFFICES ASSUME scenario.identity = "raw", ~ b.strict, NEW x \in Addresses, memory'[x].alive
                   PROVE  x \notin c.ignored
      BY <1>1, <1>11 DEF IgnoredDead
    <3>2. h = None
      BY <1>1, <1>5, <3>1, HandleTyped
    <3>3. c.ignored = b.ignored /\ a \notin b.ignored
      BY <2>3, <3>1, <3>2 DEF Uses
    <3>4. CASE x = a
      BY <3>3, <3>4
    <3>5. CASE x # a
      BY <1>4, <2>1, <3>1, <3>3, <3>5 DEF Recording, IgnoredDead
    <3>6. QED
      BY <3>4, <3>5
  <2>6. ASSUME NEW x \in Addresses PROVE Carries(b, c, x)
    <3>1. CASE x # a
      BY <1>1, <1>4, <2>2, <2>4, <3>1, LocateFacts, CarriesSame
    <3>2. CASE x = a
      <4>1. memory[a].incarnation \in Nat /\ memory[a].lifetime[2] \in Nat /\ lifetimes \in Nat
        BY DEF TypeOK, FieldType
      <4>2. memory[a].lifetime[2] <= lifetimes
        BY DEF RecordingInv, Lifetimes
      <4>3. registry'[a].generation = registry[a].generation /\ registry[a].generation \in Nat
        BY <1>1, LocateFacts DEF TypeOK
      <4>4. RawNumber(c, a) = RawNumber(b, a) /\ RawNumber(b, a) \in Nat
        BY <2>2, <2>4, GenerationFacts
      <4>5. Number(c, a)' >= Number(b, a)
        <5>1. CASE scenario.identity = "raw"
          BY <1>1, <4>4, <5>1 DEF Number
        <5>2. CASE scenario.identity = "registry"
          BY <1>1, <4>3, <5>2 DEF Number
        <5>3. CASE scenario.identity = "lifetime"
          <6>1. Number(b, a) = memory[a].lifetime[2] + 1
            BY <1>1, <5>3 DEF Number
          <6>2. Number(c, a)' = memory'[a].lifetime[2] + 0
            BY <1>1, <1>4, <5>3 DEF Number
          <6>3. QED
            BY <1>4, <4>1, <4>2, <6>1, <6>2
        <5>4. QED
          BY <5>1, <5>2, <5>3, IdentityIs
      <4>6. QED
        BY <1>1, <1>4, <3>2, <4>1, <4>5 DEF Carries
    <3>3. QED
      BY <3>1, <3>2
  <2>7. \A u \in Threads : /\ context'[u].next = context[u].next /\ context'[u].current = context[u].current
                           /\ context'[u].depth = context[u].depth /\ (Busy(u)' <=> Busy(u))
    BY <1>1 DEF Busy
  <2>8. PICK n : n = Number(c, a)'
    OBVIOUS
  <2>9. PICK loc : loc = Builder!LocationOf(c, e)
    OBVIOUS
  <2>10. loc = Name(a, n)
    <3>1. loc = IF h # None THEN h ELSE c.raw[a]
      BY <1>8, <2>9 DEF Builder!LocationOf
    <3>2. CASE scenario.identity = "raw"
      <4>1. h = None
        BY <1>1, <1>5, <3>2, HandleTyped
      <4>2. c.raw[a] = <<a, RawNumber(b, a)>>
        BY <1>11, <2>2, <2>3, <4>1, UsesFacts DEF IsBuilder
      <4>3. n = RawNumber(b, a)
        BY <1>1, <2>4, <2>8, <3>2 DEF Number
      <4>4. QED
        BY <3>1, <3>2, <4>1, <4>2, <4>3 DEF Name
    <3>3. CASE scenario.identity = "registry"
      <4>1. h = <<"backend", a, registry[a].generation>> /\ h # None
        BY <1>1, <1>5, <3>3, HandleTyped
      <4>2. n = registry[a].generation
        BY <1>1, <2>8, <3>3, LocateFacts DEF Number
      <4>3. QED
        BY <3>1, <3>3, <4>1, <4>2 DEF Name
    <3>4. CASE scenario.identity = "lifetime"
      <4>1. h = <<"objlife", memory'[a].lifetime>> /\ h # None
        BY <1>1, <1>5, <3>4, HandleTyped
      <4>2. lifetimes + 1 \in Nat
        BY DEF TypeOK
      <4>3. n = memory'[a].lifetime[2] + 0
        BY <1>1, <1>4, <2>8, <3>4 DEF Number
      <4>4. n = lifetimes + 1
        BY <1>4, <4>2, <4>3
      <4>5. QED
        BY <1>4, <3>1, <3>4, <4>1, <4>4 DEF Name
    <3>5. QED
      BY <3>2, <3>3, <3>4, IdentityIs
  <2>11. c.initial = Builder!Put(b.initial, loc, value)
    BY <1>8, <1>11, <1>13, <2>9 DEF Initials
  <2>12. PICK k : k = memory[a].incarnation + 1
    OBVIOUS
  <2>13. truth'.initial = Builder!Put(truth.initial, <<a, k>>, value)
    <3>1. Made(a, value)[a].incarnation = k
      BY <1>1, <1>4, <2>12
    <3>2. truth' = [truth EXCEPT !.initial = Builder!Put(@, <<a, k>>, value)]
      BY <1>1, <3>1
    <3>3. QED
      BY <3>2 DEF TypeOK
  <2>14. Starts(c)'
    BY <1>1, <1>3, <1>4, <2>1, <2>2, <2>3, <2>4, <2>6, <2>8, <2>10, <2>11, <2>12, <2>13, StartsMade
  <2>15. QED
    BY <1>1, <1>3, <2>1, <2>3, <2>4, <2>5, <2>6, <2>7, <2>14, SameTransactions
<1>14. QED
  BY <1>10, <1>11, <1>12, <1>13 DEF RecordingInv

LEMMA DestroyKept ==
    ASSUME TypeOK, TypeOK', RecordingInv, NEW t \in Threads, DestroyField(t)
    PROVE  RecordingInv'
<1>1. PICK a \in Addresses : a = Entry(t).address
  BY EntryTyped DEF DestroyField
<1>2. PICK known \in BOOLEAN : known <=> (scenario.identity = "registry" => registry[a].active)
  OBVIOUS
<1>3. /\ memory[a].alive /\ memory' = [memory EXCEPT ![a].alive = FALSE]
      /\ registry' = IF scenario.identity = "registry" /\ known THEN Unregistered(a) ELSE registry
      /\ IF known THEN LocationHook("tx_location_destroy", t, a, memory, None) ELSE UNCHANGED events
      /\ Misuse("dead", UsedByOne(a))
      /\ scenario' = scenario /\ context' = context /\ lifetimes' = lifetimes /\ attempt' = attempt
      /\ truth' = truth
  BY <1>1, <1>2 DEF DestroyField
<1>4. "dead" \in misuse => "dead" \in misuse'
  BY <1>3 DEF Misuse
<1>5. /\ ~ memory'[a].alive /\ memory'[a].incarnation = memory[a].incarnation
      /\ memory'[a].lifetime = memory[a].lifetime
      /\ \A x \in Addresses : x # a => memory'[x] = memory[x]
  <2>1. PICK field \in FieldType : field = memory[a]
    BY DEF TypeOK
  <2>2. memory' = [memory EXCEPT ![a] = [field EXCEPT !.alive = FALSE]]
    BY <1>3, <2>1
  <2>3. memory'[a] = [field EXCEPT !.alive = FALSE] /\ \A x \in Addresses : x # a => memory'[x] = memory[x]
    BY <2>2 DEF TypeOK
  <2>4. QED
    BY <2>1, <2>3 DEF FieldType
<1>6. /\ \A x \in Addresses : x # a => registry'[x] = registry[x]
      /\ scenario.identity = "registry" /\ known => registry'[a].generation = registry[a].generation + 1
      /\ scenario.identity # "registry" \/ ~ known => registry' = registry
  <2>1. CASE scenario.identity = "registry" /\ known
    <3>1. PICK entry : entry = [active |-> FALSE, generation |-> registry[a].generation + 1]
      OBVIOUS
    <3>2. registry' = [registry EXCEPT ![a] = entry]
      BY <1>3, <2>1, <3>1 DEF Unregistered
    <3>3. registry'[a] = entry /\ \A x \in Addresses : x # a => registry'[x] = registry[x]
      BY <3>2 DEF TypeOK
    <3>4. QED
      BY <2>1, <3>1, <3>3
  <2>2. CASE ~ (scenario.identity = "registry" /\ known)
    BY <1>3, <2>2
  <2>3. QED
    BY <2>1, <2>2
<1>7. PICK h : h = HandleOf(a, memory)
  OBVIOUS
<1>8. scenario.identity = "raw" <=> h = None
  BY <1>7, HandleTyped DEF TypeOK
<1>9. PICK b : b = Built
  OBVIOUS
<1>10. PICK c : c = Built'
  OBVIOUS
<1>11. /\ IsBuilder(b) /\ IsBuilder(c) /\ c.strict = b.strict
       /\ Clean(c) => /\ Clean(b) /\ c.transactions = b.transactions /\ c.initial = b.initial
                      /\ ~ known \/ h # None => Keeps(b, c)
                      /\ known /\ h = None => Ends(b, c, a)
  <2>1. CASE ~ known
    <3>1. c = b /\ IsBuilder(c)
      BY <1>3, <1>9, <1>10, <2>1, BuiltSame
    <3>2. QED
      BY <2>1, <3>1 DEF Keeps
  <2>2. CASE known
    <3>1. PICK e : e = EventOf("tx_location_destroy", t, context[t].current, a, h, None)
      OBVIOUS
    <3>2. e \in EventType /\ events' = Append(events, e)
      <4>1. LocationHook("tx_location_destroy", t, a, memory, None) /\ memory \in [Addresses -> FieldType]
        BY <1>3, <2>2 DEF TypeOK
      <4>2. /\ EventOf("tx_location_destroy", t, context[t].current, a, HandleOf(a, memory), None) \in EventType
            /\ events' = Append(events,
                  EventOf("tx_location_destroy", t, context[t].current, a, HandleOf(a, memory), None))
        BY <4>1, LocationHookFacts
      <4>3. QED
        BY <1>7, <3>1, <4>2
    <3>3. e.kind = "tx_location_destroy" /\ e.address = a /\ e.handle = h
      BY <3>1 DEF EventOf
    <3>4. /\ IsBuilder(b) /\ IsBuilder(c) /\ c.strict = b.strict
          /\ Clean(c) => /\ Clean(b) /\ c.transactions = b.transactions /\ c.initial = b.initial
                         /\ h # None => Keeps(b, c)
                         /\ h = None => Ends(b, c, a)
      <4>1. PICK n : n = Len(events) + 1
        OBVIOUS
      <4>2. /\ IsBuilder(b) /\ IsBuilder(c) /\ c.strict = b.strict
            /\ Clean(c) => Clean(b) /\ Change(b, c, e, n)
        BY <1>3, <1>9, <1>10, <3>2, <3>3, <4>1, Effect
      <4>3. QED
        BY <3>3, <4>2 DEF Change, DestroyChange, Initials
    <3>5. QED
      BY <2>2, <3>4
  <2>3. QED
    BY <2>1, <2>2
<1>12. Lifetimes'
  <2>1. \A x \in Addresses : memory'[x].lifetime = memory[x].lifetime
    BY <1>5
  <2>2. QED
    BY <1>3, <2>1 DEF RecordingInv, Lifetimes
<1>13. ASSUME Clean(c), "dead" \notin misuse' PROVE Recording(c)'
  <2>1. Recording(b)
    BY <1>4, <1>9, <1>11, <1>13 DEF RecordingInv
  <2>2. RawLocations(b)
    BY <2>1 DEF Recording
  <2>3. /\ c.transactions = b.transactions
        /\ ~ known \/ h # None => Keeps(b, c)
        /\ known /\ h = None => Ends(b, c, a)
    BY <1>11, <1>13
  <2>4. h = None /\ ~ b.strict => a \notin b.ignored
    BY <1>3, <1>8, <2>1 DEF Recording, IgnoredDead
  <2>5. h = None => known
    BY <1>2, <1>8
  <2>6. /\ RawLocations(c)
        /\ \A x : x # a => RawNumber(c, x) = RawNumber(b, x)
        /\ h # None => RawNumber(c, a) = RawNumber(b, a)
        /\ h = None => RawNumber(c, a) > RawNumber(b, a)
    <3>1. CASE h # None
      <4>1. RawLocations(c) /\ \A x : RawNumber(c, x) = RawNumber(b, x)
        BY <1>11, <2>2, <2>3, <3>1, KeepsFacts
      <4>2. QED
        BY <3>1, <4>1
    <3>2. CASE h = None
      <4>1. Ends(b, c, a) /\ ~ (~ b.strict /\ a \in b.ignored)
        BY <2>3, <2>4, <2>5, <3>2
      <4>2. QED
        BY <1>11, <2>2, <3>2, <4>1, EndsFacts DEF IsBuilder
    <3>3. QED
      BY <3>1, <3>2
  <2>7. IgnoredDead(c)'
    <3>1. SUFFICES ASSUME scenario.identity = "raw", ~ b.strict, NEW x \in Addresses, memory'[x].alive
                   PROVE  x \notin c.ignored
      BY <1>3, <1>11 DEF IgnoredDead
    <3>2. x # a /\ memory[x].alive
      BY <1>5, <3>1
    <3>3. x \notin b.ignored
      BY <2>1, <3>1, <3>2 DEF Recording, IgnoredDead
    <3>4. Ends(b, c, a)
      BY <1>8, <2>3, <2>5, <3>1
    <3>5. QED
      BY <3>1, <3>2, <3>3, <3>4 DEF Ends
  <2>8. ASSUME NEW x \in Addresses PROVE Carries(b, c, x)
    <3>1. CASE x # a
      BY <1>3, <1>5, <1>6, <2>2, <2>6, <3>1, CarriesSame
    <3>2. CASE x = a
      <4>1. memory[a].incarnation \in Nat /\ memory[a].lifetime[2] \in Nat /\ registry[a].generation \in Nat
        BY DEF TypeOK, FieldType
      <4>2. PICK n \in Nat : n = Number(b, a)
        BY <2>2, NumberTyped
      <4>3. Number(c, a)' >= n /\ (known => Number(c, a)' > n)
        <5>1. CASE scenario.identity = "raw"
          <6>1. Number(b, a) = RawNumber(b, a) /\ Number(c, a)' = RawNumber(c, a)
            BY <1>3, <5>1 DEF Number
          <6>2. RawNumber(c, a) \in Nat
            BY <2>6, GenerationFacts
          <6>3. QED
            BY <1>8, <2>6, <4>2, <5>1, <6>1, <6>2
        <5>2. CASE scenario.identity = "registry"
          <6>1. Number(b, a) = registry[a].generation /\ Number(c, a)' = registry'[a].generation
            BY <1>3, <5>2 DEF Number
          <6>2. QED
            BY <1>6, <4>1, <4>2, <5>2, <6>1
        <5>3. CASE scenario.identity = "lifetime"
          <6>1. Number(b, a) = memory[a].lifetime[2] + 0 /\ Number(c, a)' = memory'[a].lifetime[2] + 1
            BY <1>3, <1>5, <5>3 DEF Number
          <6>2. QED
            BY <1>5, <4>1, <4>2, <6>1
        <5>4. QED
          BY <5>1, <5>2, <5>3, IdentityIs
      <4>4. (scenario.identity = "registry" => registry[a].active) => Number(c, a)' > Number(b, a)
        BY <1>2, <4>2, <4>3
      <4>5. memory'[a].incarnation >= memory[a].incarnation
        BY <1>5, <4>1
      <4>6. QED
        BY <1>3, <1>5, <3>2, <4>2, <4>3, <4>4, <4>5 DEF Carries
    <3>3. QED
      BY <3>1, <3>2
  <2>9. \A u \in Threads : /\ context'[u].next = context[u].next /\ context'[u].current = context[u].current
                           /\ context'[u].depth = context[u].depth /\ (Busy(u)' <=> Busy(u))
    BY <1>3 DEF Busy
  <2>10. Starts(c)'
    <3>1. c.initial = b.initial /\ Starts(b) /\ c.transactions = b.transactions
      BY <1>11, <1>13, <2>1 DEF Recording
    <3>2. \A x \in Addresses : memory'[x].alive => memory[x].alive
      BY <1>3, <1>5
    <3>3. QED
      BY <1>3, <2>8, <3>1, <3>2, StartsKept
  <2>11. QED
    BY <1>3, <2>1, <2>3, <2>6, <2>7, <2>8, <2>9, <2>10, SameTransactions
<1>14. QED
  BY <1>10, <1>11, <1>12, <1>13 DEF RecordingInv

-----------------------------------------------------------------------------
(* What was recorded before the scripts start                              *)

\* The builder has met no transaction
Started(b) ==
    /\ IsBuilder(b)
    /\ Clean(b) => /\ b.transactions = <<>> /\ RawLocations(b)
                   /\ ~ b.strict => b.ignored = {}
                   /\ \A loc \in DOMAIN b.initial : b.initial[loc] = 0

LEMMA EmptyStarted ==
    ASSUME NEW policy
    PROVE  Started(Builder!EmptyBuilder(policy))
<1>1. PICK strict \in BOOLEAN : strict <=> policy = "strict_lifetimes"
  OBVIOUS
<1>2. PICK b : b = Builder!EmptyBuilder(policy)
  OBVIOUS
<1>3. b = [strict |-> policy = "strict_lifetimes", error |-> FALSE, anomalies |-> 0,
           transactions |-> <<>>, initial |-> <<>>, raw |-> <<>>, generation |-> <<>>,
           ignored |-> {}, explicit |-> <<>>, destroyed |-> {}, explicitSeen |-> {}]
  BY <1>2 DEF Builder!EmptyBuilder
<1>4. IsBuilder(b)
  BY <1>3 DEF IsBuilder, BuilderFields
<1>5. /\ b.transactions = <<>> /\ b.raw = <<>> /\ b.generation = <<>> /\ b.ignored = {}
      /\ b.initial = <<>>
  BY <1>3
<1>6. RawLocations(b)
  BY <1>5 DEF RawLocations
<1>7. QED
  BY <1>2, <1>4, <1>5, <1>6 DEF Started

LEMMA StartedStep ==
    ASSUME NEW b, Started(b), NEW e, e.kind = "tx_location_init", e.value = 0, NEW n, NEW c, c = Builder!BuildStep(b, e, n)
    PROVE  Started(c)
<1>1. IsBuilder(b)
  BY DEF Started
<1>2. CASE b.error
  BY <1>2, ErrorStays
<1>3. CASE ~ b.error
  <2>1. Leads(b, c) /\ (Clean(c) => Change(b, c, e, n))
    BY <1>1, <1>3, StepFacts
  <2>2. IsBuilder(c) /\ c.strict = b.strict /\ (Clean(c) => Clean(b) /\ Named(b, c, e) /\ Initials(b, c, e))
    BY <2>1 DEF Leads, Change
  <2>3. ASSUME Clean(c)
        PROVE  /\ c.transactions = <<>> /\ RawLocations(c) /\ (~ c.strict => c.ignored = {})
               /\ \A loc \in DOMAIN c.initial : c.initial[loc] = 0
    <3>0. \A loc \in DOMAIN c.initial : c.initial[loc] = 0
      BY <2>2, <2>3 DEF Started, Initials, Builder!Put
    <3>1. b.transactions = <<>> /\ RawLocations(b) /\ (~ b.strict => b.ignored = {})
      BY <2>2, <2>3 DEF Started
    <3>2. CASE e.handle # None
      BY <2>2, <2>3, <3>0, <3>1, <3>2, KeepsFacts DEF Named, Keeps
    <3>3. CASE e.handle = None
      <4>1. Uses(b, c, e.address) /\ c.transactions = b.transactions
        BY <2>2, <2>3, <3>3 DEF Named
      <4>2. RawLocations(c)
        BY <1>1, <2>2, <3>1, <4>1, UsesFacts DEF IsBuilder
      <4>3. QED
        BY <2>2, <3>0, <3>1, <4>1, <4>2 DEF Uses
    <3>4. QED
      BY <3>2, <3>3
  <2>4. QED
    BY <2>2, <2>3 DEF Started
<1>4. QED
  BY <1>2, <1>3

LEMMA RecordedStarted ==
    ASSUME NEW S, NEW evs \in Seq(S), NEW policy, 
           \A i \in DOMAIN evs : evs[i].kind = "tx_location_init" /\ evs[i].value = 0
    PROVE  Started(Builder!Built(evs, policy))
<1>1. PICK n \in Nat : n = Len(evs)
  OBVIOUS
<1>2. PICK f : Loop(f, n, evs, policy)
  BY LoopExists
<1>3. Builder!Built(evs, policy) = f[n]
  BY <1>1, <1>2, BuiltIs
<1> DEFINE T == {i \in 0 .. n : Started(f[i])}
<1>4. 0 \in T
  BY <1>2, EmptyStarted DEF Loop
<1>5. ASSUME NEW i \in 1 .. n, i - 1 \in T PROVE i \in T
  <2>1. f[i] = Builder!BuildStep(f[i - 1], evs[i], i)
    BY <1>2 DEF Loop
  <2>2. Started(f[i - 1])
    BY <1>5
  <2>3. evs[i].kind = "tx_location_init" /\ evs[i].value = 0
    BY <1>1
  <2>4. PICK b : b = f[i - 1]
    OBVIOUS
  <2>5. PICK e : e = evs[i]
    OBVIOUS
  <2>6. PICK c : c = f[i]
    OBVIOUS
  <2>7. Started(c)
    BY <2>1, <2>2, <2>3, <2>4, <2>5, <2>6, StartedStep
  <2>8. QED
    BY <2>6, <2>7
<1>6. n \in T
  <2> HIDE DEF T
  <2>1. 0 .. n \subseteq T
    BY <1>4, <1>5, Climb
  <2>2. QED
    BY <2>1
<1>7. QED
  BY <1>3, <1>6

LEMMA InitRecording ==
    ASSUME Init, TypeOK, OnlyNamed(scenario)
    PROVE  RecordingInv
<1>1. PICK b : b = Built
  OBVIOUS
<1>2. Started(b)
  <2>1. events = scenario.recorded
    BY DEF Init
  <2>2. ASSUME NEW i \in DOMAIN events PROVE events[i].kind = "tx_location_init" /\ events[i].value = 0
    <3>1. PICK t \in Threads, a \in Addresses :
             events[i] = [kind |-> "tx_location_init", thread |-> t, tx |-> None, address |-> a,
                          handle |-> FirstHandle(scenario.identity, a), value |-> 0]
      BY <2>1 DEF OnlyNamed
    <3>2. PICK handle : handle = FirstHandle(scenario.identity, a)
      OBVIOUS
    <3>3. QED
      BY <3>1, <3>2
  <2>3. events \in Seq(EventType)
    BY DEF TypeOK
  <2>4. QED
    BY <1>1, <2>2, <2>3, RecordedStarted DEF Built
<1>3. truth.transactions = <<>>
  BY DEF Init, OnlyNamed
<1>4. Lifetimes
  BY DEF Init, Lifetimes
<1>5. ASSUME Clean(b) PROVE Recording(b)
  <2>1. /\ b.transactions = <<>> /\ RawLocations(b) /\ (~ b.strict => b.ignored = {})
        /\ \A loc \in DOMAIN b.initial : b.initial[loc] = 0
    BY <1>2, <1>5 DEF Started
  <2>2. Pairs(truth.transactions, b.transactions) = {}
    BY <1>3 DEF Pairs
  <2>3. b.transactions \in Seq(BuiltType) /\ Matched(truth.transactions, b.transactions)
    BY <1>3, <2>1 DEF Matched
  <2>4. Contexts(b.transactions)
    <3>1. ASSUME NEW t \in Threads PROVE ~ Busy(t) /\ Outside(b.transactions, t, context[t])
      <4>1. attempt[t].state = "idle" /\ context[t].current = None
        BY DEF Init, NoAttempt, NoContext
      <4>2. QED
        BY <2>1, <4>1 DEF Busy, Outside
    <3>2. QED
      BY <3>1 DEF Contexts
  <2>5. Starts(b)
    <3>1. truth.initial = [field \in Addresses \X {0} |-> 0]
      BY DEF Init, OnlyNamed
    <3>2. ASSUME NEW a \in Addresses
          PROVE  Began(b, <<a, memory[a].incarnation>>, Name(a, Number(b, a)))
      <4>1. PICK field : field = <<a, memory[a].incarnation>>
        OBVIOUS
      <4>2. field \in Addresses \X {0}
        BY <4>1 DEF Init
      <4>3. field \in DOMAIN truth.initial /\ truth.initial[field] = 0
        BY <3>1, <4>2
      <4>4. QED
        BY <2>1, <4>1, <4>3 DEF Began
    <3>3. QED
      BY <2>2, <3>2 DEF Starts
  <2>6. QED
    BY <2>1, <2>2, <2>3, <2>4, <2>5 DEF Recording, IgnoredDead, Names, Apart
<1>6. QED
  BY <1>1, <1>2, <1>4, <1>5 DEF RecordingInv, Started

-----------------------------------------------------------------------------
(* The theorems                                                            *)

LEMMA RecordingNext ==
    ASSUME TypeOK, TypeOK', RecordingInv, [Next]_vars
    PROVE  RecordingInv'
<1>1. ASSUME NEW t \in Threads,
             \/ BeginTransaction(t) \/ ReadField(t) \/ WriteField(t) \/ Publish(t) \/ CommitSuccess(t)
             \/ AbortTransaction(t) \/ RetryTransaction(t) \/ ConstructField(t) \/ DestroyField(t)
      PROVE  RecordingInv'
  BY <1>1, BeginKept, ReadKept, WriteKept, PublishKept, CommitKept, AbortKept, RetryKept,
     ConstructKept, DestroyKept
<1>2. QED
  BY <1>1, StutterKept DEF Next

LEMMA ScenarioKept == [Next]_vars => scenario' = scenario
  BY DEF Next, vars, BeginTransaction, ReadField, WriteField, Publish, CommitSuccess,
     AbortTransaction, RetryTransaction, ConstructField, DestroyField

LEMMA RecordingMeans ==
    ASSUME TypeOK, RecordingInv
    PROVE  HistoryIsTruth /\ LifetimesKeptApart
<1>1. PICK b : b = Built
  OBVIOUS
<1>2. PICK history : history = History
  OBVIOUS
<1>3. /\ history.transactions = b.transactions
      /\ Unambiguous(history) => Clean(b) /\ "dead" \notin misuse
  <2>1. history = Builder!Finished(b)
    BY <1>1, <1>2 DEF History, Built, Builder!BuildHistory
  <2>2. PICK status : status = IF b.error \/ ~ Builder!Accessed(b.transactions) \subseteq DOMAIN b.initial
                               THEN "malformed_history" ELSE "ok"
    OBVIOUS
  <2>3. history = [status |-> status, initial |-> b.initial, transactions |-> b.transactions,
                   anomalies |-> b.anomalies]
    BY <2>1, <2>2 DEF Builder!Finished
  <2>4. QED
    BY <2>2, <2>3 DEF Unambiguous, Clean
<1>4. ASSUME Unambiguous(history)
      PROVE  /\ Faithful(truth.transactions, history.transactions)
             /\ Separate(truth.transactions, history.transactions)
  <2>1. Recording(b)
    BY <1>1, <1>3, <1>4 DEF RecordingInv
  <2>2. PICK built \in Seq(BuiltType) : built = b.transactions
    BY <2>1 DEF Recording
  <2>3. PICK did \in Seq(DidType) : did = truth.transactions
    BY DEF TypeOK
  <2>4. Matched(did, built) /\ Apart(Pairs(did, built))
    BY <2>1, <2>2, <2>3 DEF Recording
  <2>5. /\ Len(did) = Len(built)
        /\ \A i \in DOMAIN did :
             /\ \A f \in {"thread", "begin", "end", "outcome"} : did[i][f] = built[i][f]
             /\ Len(did[i].accesses) = Len(built[i].accesses)
    BY <2>4 DEF Matched, SameTransaction
  <2>6. \A p \in Pairs(did, built) : p[1].write = p[2].write /\ p[1].value = p[2].value
    BY <2>4, PairTyped
  <2>7. Faithful(did, built) /\ Separate(did, built)
    BY <2>4, <2>5, <2>6 DEF Faithful, Separate, Apart
  <2>8. QED
    BY <1>3, <2>2, <2>3, <2>7
<1>5. QED
  BY <1>2, <1>4 DEF HistoryIsTruth, LifetimesKeptApart

\* Whatever the threads, their scripts and the STM do, what was recorded is what happened:
\* transactions, outcomes and accesses, and every field one location (stm_event,
\* build_stm_opacity_history).  Scenarios may have named fields before, but run no transaction.
THEOREM TransactionsHistoryIsTruth == Spec => [](OnlyNamed(scenario) => HistoryIsTruth)
<1>1. Init /\ TypeOK => (OnlyNamed(scenario) => RecordingInv)
  BY InitRecording
<1>2. TypeOK /\ TypeOK' /\ (OnlyNamed(scenario) => RecordingInv) /\ [Next]_vars
        => (OnlyNamed(scenario) => RecordingInv)'
  BY RecordingNext, ScenarioKept
<1>3. TypeOK /\ (OnlyNamed(scenario) => RecordingInv) => (OnlyNamed(scenario) => HistoryIsTruth)
  BY RecordingMeans
<1>4. QED
  BY <1>1, <1>2, <1>3, TransactionsTypeCorrect, PTL DEF Spec

\* Fields that followed each other at an address are told apart, by generation, handle or lifetime id,
\* unless an anomaly was counted (BackendLocationRegistry, next_generation_by_address, lifetime_policy).
THEOREM TransactionsLifetimesKeptApart == Spec => [](OnlyNamed(scenario) => LifetimesKeptApart)
<1>1. Init /\ TypeOK => (OnlyNamed(scenario) => RecordingInv)
  BY InitRecording
<1>2. TypeOK /\ TypeOK' /\ (OnlyNamed(scenario) => RecordingInv) /\ [Next]_vars
        => (OnlyNamed(scenario) => RecordingInv)'
  BY RecordingNext, ScenarioKept
<1>3. TypeOK /\ (OnlyNamed(scenario) => RecordingInv) => (OnlyNamed(scenario) => LifetimesKeptApart)
  BY RecordingMeans
<1>4. QED
  BY <1>1, <1>2, <1>3, TransactionsTypeCorrect, PTL DEF Spec

-----------------------------------------------------------------------------
(* What the builder makes of any events can be judged.                     *)

TxFields == {"thread", "tx", "begin", "end", "outcome", "accesses"}

\* Transactions whose begins and ends are places of the first n events
Timed(txs, n) ==
    /\ Len(txs) \in Nat /\ txs = [i \in 1 .. Len(txs) |-> txs[i]]
    /\ \A i \in 1 .. Len(txs) : /\ txs[i] = [f \in TxFields |-> txs[i][f]]
                                /\ txs[i].begin \in 1 .. n /\ txs[i].end \in 0 .. n
                                /\ txs[i].end # 0 => txs[i].begin < txs[i].end
    /\ \A i, j \in 1 .. Len(txs) : i < j => txs[i].begin < txs[j].begin

Shaped(b, n) ==
    /\ IsBuilder(b) /\ b.initial = [x \in DOMAIN b.initial |-> b.initial[x]]
    /\ Timed(b.transactions, n)

LEMMA TimedLater ==
    ASSUME NEW txs, NEW n \in Nat, Timed(txs, n)
    PROVE  Timed(txs, n + 1)
BY DEF Timed

LEMMA TimedBegin ==
    ASSUME NEW txs, NEW n \in Nat, Timed(txs, n), NEW tx,
           tx = [f \in TxFields |-> tx[f]], tx.begin = n + 1, tx.end = 0
    PROVE  Timed(Append(txs, tx), n + 1)
<1>1. PICK m \in Nat : m = Len(txs)
  BY DEF Timed
<1>2. PICK more : more = Append(txs, tx)
  OBVIOUS
<1>3. PICK S : S = {txs[i] : i \in 1 .. m} \cup {tx}
  OBVIOUS
<1>4. txs \in Seq(S) /\ tx \in S
  <2>1. txs \in [1 .. m -> S]
    BY <1>1, <1>3 DEF Timed
  <2>2. m \in Nat
    OBVIOUS
  <2>3. txs \in Seq(S)
    BY <2>1, <2>2
  <2>4. tx \in S
    BY <1>3
  <2>5. QED
    BY <2>3, <2>4
<1>5. /\ more \in Seq(S) /\ Len(more) = m + 1 /\ more[m + 1] = tx
      /\ \A i \in 1 .. m : more[i] = txs[i]
  BY <1>1, <1>2, <1>4
<1>6. more = [i \in 1 .. Len(more) |-> more[i]]
  BY <1>5
<1>7. ASSUME NEW i \in 1 .. m + 1
      PROVE  /\ more[i] = [f \in TxFields |-> more[i][f]]
             /\ more[i].begin \in 1 .. n + 1 /\ more[i].end \in 0 .. n + 1
             /\ more[i].end # 0 => more[i].begin < more[i].end
  <2>1. CASE i = m + 1
    BY <1>5, <2>1
  <2>2. CASE i # m + 1
    <3>1. i \in 1 .. m /\ more[i] = txs[i]
      BY <1>5, <2>2
    <3>2. QED
      BY <1>1, <3>1 DEF Timed
  <2>3. QED
    BY <2>1, <2>2
<1>8. ASSUME NEW i \in 1 .. m + 1, NEW j \in 1 .. m + 1, i < j
      PROVE  more[i].begin < more[j].begin
  <2>1. i \in 1 .. m /\ more[i] = txs[i] /\ txs[i].begin \in 1 .. n
    BY <1>1, <1>5, <1>8 DEF Timed
  <2>2. CASE j = m + 1
    BY <1>5, <2>1, <2>2
  <2>3. CASE j # m + 1
    <3>1. j \in 1 .. m /\ more[j] = txs[j]
      BY <1>5, <2>3
    <3>2. QED
      BY <1>1, <1>8, <2>1, <3>1 DEF Timed
  <2>4. QED
    BY <2>2, <2>3
<1>9. Timed(more, n + 1)
  BY <1>5, <1>6, <1>7, <1>8 DEF Timed
<1>10. QED
  BY <1>2, <1>9

LEMMA TimedAccess ==
    ASSUME NEW txs, NEW n \in Nat, Timed(txs, n), NEW found, NEW access
    PROVE  Timed(Builder!WithAccess(txs, found, access), n + 1)
<1>1. PICK m \in Nat : m = Len(txs)
  BY DEF Timed
<1>2. PICK new : new = Builder!WithAccess(txs, found, access)
  OBVIOUS
<1>3. new = [i \in 1 .. m |-> IF i \in found THEN [txs[i] EXCEPT !.accesses = Append(@, access)] ELSE txs[i]]
  <2>1. DOMAIN txs = 1 .. m
    BY <1>1 DEF Timed
  <2>2. QED
    BY <1>2, <2>1 DEF Builder!WithAccess
<1>4. Len(new) = m
  BY <1>3
<1>5. ASSUME NEW i \in 1 .. m
      PROVE  /\ new[i] = [f \in TxFields |-> new[i][f]]
             /\ new[i].begin = txs[i].begin /\ new[i].end = txs[i].end
  <2>1. PICK tx : tx = txs[i]
    OBVIOUS
  <2>2. tx = [f \in TxFields |-> tx[f]]
    BY <1>1, <2>1 DEF Timed
  <2>3. PICK accesses : accesses = Append(tx.accesses, access)
    OBVIOUS
  <2>4. new[i] = IF i \in found THEN [tx EXCEPT !.accesses = accesses] ELSE tx
    BY <1>3, <2>1, <2>3
  <2>5. QED
    BY <2>1, <2>2, <2>4 DEF TxFields
<1>6. Timed(new, n)
  <2>1. new = [i \in 1 .. Len(new) |-> new[i]]
    BY <1>3, <1>4
  <2>2. QED
    BY <1>1, <1>4, <1>5, <2>1 DEF Timed
<1>7. QED
  BY <1>2, <1>6, TimedLater

LEMMA TimedEnd ==
    ASSUME NEW txs, NEW n \in Nat, Timed(txs, n), NEW found, NEW outcome
    PROVE  Timed(Builder!WithEnd(txs, found, outcome, n + 1), n + 1)
<1>1. PICK m \in Nat : m = Len(txs)
  BY DEF Timed
<1>2. PICK new : new = Builder!WithEnd(txs, found, outcome, n + 1)
  OBVIOUS
<1>3. new = [i \in 1 .. m |-> IF i \in found THEN [txs[i] EXCEPT !.outcome = outcome, !.end = n + 1] ELSE txs[i]]
  <2>1. DOMAIN txs = 1 .. m
    BY <1>1 DEF Timed
  <2>2. QED
    BY <1>2, <2>1 DEF Builder!WithEnd
<1>4. Len(new) = m
  <2>1. new = [i \in 1 .. m |-> new[i]]
    BY <1>3
  <2>2. QED
    BY <2>1
<1>5. ASSUME NEW i \in 1 .. m
      PROVE  /\ new[i] = [f \in TxFields |-> new[i][f]]
             /\ new[i].begin = txs[i].begin /\ (new[i].end = txs[i].end \/ new[i].end = n + 1)
  <2>1. PICK tx : tx = txs[i]
    OBVIOUS
  <2>2. tx = [f \in TxFields |-> tx[f]]
    BY <1>1, <2>1 DEF Timed
  <2>3. new[i] = IF i \in found THEN [tx EXCEPT !.outcome = outcome, !.end = n + 1] ELSE tx
    BY <1>3, <2>1
  <2>4. QED
    BY <2>1, <2>2, <2>3 DEF TxFields
<1>6. ASSUME NEW i \in 1 .. m
      PROVE  /\ new[i].begin \in 1 .. n + 1 /\ new[i].end \in 0 .. n + 1
             /\ new[i].end # 0 => new[i].begin < new[i].end
  <2>1. /\ txs[i].begin \in 1 .. n /\ txs[i].end \in 0 .. n
        /\ txs[i].end # 0 => txs[i].begin < txs[i].end
    BY <1>1 DEF Timed
  <2>2. PICK begin \in 1 .. n : begin = txs[i].begin
    BY <2>1
  <2>3. PICK end \in 0 .. n : end = txs[i].end
    BY <2>1
  <2>4. new[i].begin = begin /\ (new[i].end = end \/ new[i].end = n + 1) /\ (end # 0 => begin < end)
    BY <1>5, <2>1, <2>2, <2>3
  <2>5. PICK ended : ended = new[i].end
    OBVIOUS
  <2>6. ended \in 0 .. n + 1 /\ (ended # 0 => begin < ended)
    BY <2>4, <2>5
  <2>7. QED
    BY <2>4, <2>5, <2>6
<1>7. \A i, j \in 1 .. m : i < j => new[i].begin < new[j].begin
  BY <1>1, <1>5 DEF Timed
<1>8. Timed(new, n + 1)
  <2>1. new = [i \in 1 .. Len(new) |-> new[i]]
    BY <1>3, <1>4
  <2>2. QED
    BY <1>4, <1>5, <1>6, <1>7, <2>1 DEF Timed
<1>9. QED
  BY <1>2, <1>8

LEMMA QuietShaped ==
    ASSUME NEW b, NEW n \in Nat, Shaped(b, n), NEW r, Quiet(b, r)
    PROVE  Shaped(r, n + 1)
BY TimedLater DEF Shaped, Quiet

LEMMA PutIsFunction ==
    ASSUME NEW f, NEW x, NEW v
    PROVE  Builder!Put(f, x, v) = [y \in DOMAIN Builder!Put(f, x, v) |-> Builder!Put(f, x, v)[y]]
BY DEF Builder!Put

LEMMA AccessShape ==
    ASSUME NEW b, NEW n \in Nat, Shaped(b, n), NEW e
    PROVE  Shaped(Builder!Access(b, e), n + 1)
<1>1. IsBuilder(b)
  BY DEF Shaped
<1>2. PICK c : c = IF e.handle # None THEN Builder!EnsureExplicitLocation(b, e)
                   ELSE IF e.address = None THEN Builder!Fail(b)
                   ELSE Builder!AccessedRaw(b, e.address)
  OBVIOUS
<1>3. Quiet(b, c)
  BY <1>1, <1>2, ExplicitQuiet, FailQuiet, AccessedRawQuiet
<1>4. PICK access : access = [write |-> e.kind = "tx_write", loc |-> Builder!LocationOf(c, e),
                              value |-> e.value]
  OBVIOUS
<1>5. PICK r : r = Builder!Access(b, e)
  OBVIOUS
<1>6. PICK found : found = Builder!FindTx(b, e)
  OBVIOUS
<1>7. \/ r = Builder!Fail(b)
      \/ r = [c EXCEPT !.transactions = Builder!WithAccess(c.transactions, found, access)]
  BY <1>2, <1>4, <1>5, <1>6 DEF Builder!Access
<1>8. CASE r = Builder!Fail(b)
  BY <1>1, <1>5, <1>8, FailQuiet, QuietShaped
<1>9. CASE r = [c EXCEPT !.transactions = Builder!WithAccess(c.transactions, found, access)]
  <2>1. /\ IsBuilder(r) /\ r.initial = c.initial
        /\ r.transactions = Builder!WithAccess(c.transactions, found, access)
    BY <1>3, <1>9 DEF Quiet, IsBuilder, BuilderFields
  <2>2. Timed(c.transactions, n)
    BY <1>3 DEF Quiet, Shaped
  <2>3. Timed(r.transactions, n + 1)
    BY <2>1, <2>2, TimedAccess
  <2>4. QED
    BY <1>3, <1>5, <2>1, <2>3 DEF Shaped, Quiet
<1>10. QED
  BY <1>7, <1>8, <1>9

LEMMA BeginShape ==
    ASSUME NEW b, NEW n \in Nat, Shaped(b, n), NEW e
    PROVE  Shaped(Builder!Begin(b, e, n + 1), n + 1)
<1>1. IsBuilder(b)
  BY DEF Shaped
<1>2. PICK tx : tx = [thread |-> e.thread, tx |-> e.tx, begin |-> n + 1, end |-> 0,
                      outcome |-> "live", accesses |-> <<>>]
  OBVIOUS
<1>3. PICK r : r = Builder!Begin(b, e, n + 1)
  OBVIOUS
<1>4. r = Builder!Fail(b) \/ r = [b EXCEPT !.transactions = Append(b.transactions, tx)]
  BY <1>2, <1>3 DEF Builder!Begin
<1>5. CASE r = Builder!Fail(b)
  BY <1>1, <1>3, <1>5, FailQuiet, QuietShaped
<1>6. CASE r = [b EXCEPT !.transactions = Append(b.transactions, tx)]
  <2>1. /\ IsBuilder(r) /\ r.initial = b.initial
        /\ r.transactions = Append(b.transactions, tx)
    BY <1>1, <1>6 DEF IsBuilder, BuilderFields
  <2>2. tx = [f \in TxFields |-> tx[f]] /\ tx.begin = n + 1 /\ tx.end = 0
    BY <1>2 DEF TxFields
  <2>3. Timed(r.transactions, n + 1)
    BY <2>1, <2>2, TimedBegin DEF Shaped
  <2>4. QED
    BY <1>3, <2>1, <2>3 DEF Shaped
<1>7. QED
  BY <1>4, <1>5, <1>6

LEMMA EndShape ==
    ASSUME NEW b, NEW n \in Nat, Shaped(b, n), NEW e
    PROVE  Shaped(Builder!End(b, e, n + 1), n + 1)
<1>1. IsBuilder(b)
  BY DEF Shaped
<1>2. PICK ended : ended = Builder!FindTx(b, e) \cap Builder!Live(b)
  OBVIOUS
<1>3. PICK outcome : outcome = IF e.kind = "tx_abort" THEN "aborted" ELSE "committed"
  OBVIOUS
<1>4. PICK r : r = Builder!End(b, e, n + 1)
  OBVIOUS
<1>5. \/ r = Builder!Fail(b)
      \/ r = [b EXCEPT !.transactions = Builder!WithEnd(b.transactions, ended, outcome, n + 1)]
  BY <1>2, <1>3, <1>4 DEF Builder!End
<1>6. CASE r = Builder!Fail(b)
  BY <1>1, <1>4, <1>6, FailQuiet, QuietShaped
<1>7. CASE r = [b EXCEPT !.transactions = Builder!WithEnd(b.transactions, ended, outcome, n + 1)]
  <2>1. /\ IsBuilder(r) /\ r.initial = b.initial
        /\ r.transactions = Builder!WithEnd(b.transactions, ended, outcome, n + 1)
    BY <1>1, <1>7 DEF IsBuilder, BuilderFields
  <2>2. Timed(r.transactions, n + 1)
    BY <2>1, TimedEnd DEF Shaped
  <2>3. QED
    BY <1>4, <2>1, <2>2 DEF Shaped
<1>8. QED
  BY <1>5, <1>6, <1>7

LEMMA StepShaped ==
    ASSUME NEW b, NEW n \in Nat, Shaped(b, n), NEW e
    PROVE  Shaped(Builder!BuildStep(b, e, n + 1), n + 1)
<1>1. IsBuilder(b) /\ Quiet(b, b)
  BY DEF Shaped, Quiet
<1>2. Shaped(b, n + 1)
  BY <1>1, QuietShaped
<1>3. Shaped(Builder!EnsureLocation(b, e), n + 1)
  BY <1>1, EnsureQuiet, QuietShaped
<1>4. Shaped(Builder!LocationInit(b, e), n + 1)
  <2>1. PICK r : r = Builder!LocationInit(b, e)
    OBVIOUS
  <2>2. Initialised(b, r, e)
    BY <1>1, <2>1, InitShape
  <2>3. r.initial = [x \in DOMAIN r.initial |-> r.initial[x]]
    BY <2>2, PutIsFunction DEF Initialised, Shaped
  <2>4. QED
    BY <2>1, <2>2, <2>3, TimedLater DEF Initialised, Shaped
<1>5. Shaped(Builder!LocationDestroy(b, e), n + 1)
  BY <1>1, DestroyQuiet, QuietShaped
<1>6. Shaped(Builder!Fail(b), n + 1)
  BY <1>1, FailQuiet, QuietShaped
<1>7. Shaped(Builder!AttemptMetadata(b, e), n + 1) /\ Shaped(Builder!Retry(b, e), n + 1)
  BY <1>2, <1>6 DEF Builder!AttemptMetadata, Builder!Retry
<1>8. Shaped(Builder!Begin(b, e, n + 1), n + 1)
  BY BeginShape
<1>9. Shaped(Builder!Access(b, e), n + 1) /\ Shaped(Builder!End(b, e, n + 1), n + 1)
  BY AccessShape, EndShape
<1>10. PICK c : c = Builder!BuildStep(b, e, n + 1)
  OBVIOUS
<1>11. \/ c = b \/ c = Builder!EnsureLocation(b, e) \/ c = Builder!LocationInit(b, e)
       \/ c = Builder!LocationDestroy(b, e) \/ c = Builder!Begin(b, e, n + 1)
       \/ c = Builder!AttemptMetadata(b, e) \/ c = Builder!Access(b, e)
       \/ c = Builder!End(b, e, n + 1) \/ c = Builder!Retry(b, e)
  BY <1>10 DEF Builder!BuildStep
<1>12. QED
  BY <1>2, <1>3, <1>4, <1>5, <1>7, <1>8, <1>9, <1>10, <1>11

LEMMA EmptyShaped ==
    ASSUME NEW policy
    PROVE  Shaped(Builder!EmptyBuilder(policy), 0)
<1>1. PICK b : b = Builder!EmptyBuilder(policy)
  OBVIOUS
<1>2. IsBuilder(b)
  BY <1>1, EmptyStarted DEF Started
<1>3. b.transactions = <<>> /\ b.initial = <<>>
  BY <1>1 DEF Builder!EmptyBuilder
<1>4. Len(<<>>) = 0 /\ <<>> = [i \in 1 .. 0 |-> <<>>[i]] /\ 1 .. 0 = {}
  OBVIOUS
<1>5. Timed(<<>>, 0)
  BY <1>4 DEF Timed
<1>6. <<>> = [x \in DOMAIN <<>> |-> <<>>[x]]
  OBVIOUS
<1>7. QED
  BY <1>1, <1>2, <1>3, <1>5, <1>6 DEF Shaped

LEMMA BuiltShaped ==
    ASSUME NEW S, NEW evs \in Seq(S), NEW policy
    PROVE  Shaped(Builder!Built(evs, policy), Len(evs))
<1>1. PICK n \in Nat : n = Len(evs)
  OBVIOUS
<1>2. PICK f : Loop(f, n, evs, policy)
  BY LoopExists
<1>3. Builder!Built(evs, policy) = f[n]
  BY <1>1, <1>2, BuiltIs
<1> DEFINE T == {i \in 0 .. n : Shaped(f[i], i)}
<1>4. 0 \in T
  BY <1>2, EmptyShaped DEF Loop
<1>5. ASSUME NEW i \in 1 .. n, i - 1 \in T PROVE i \in T
  <2>1. f[i] = Builder!BuildStep(f[i - 1], evs[i], i)
    BY <1>2 DEF Loop
  <2>2. PICK m \in Nat : m = i - 1
    OBVIOUS
  <2>3. Shaped(f[m], m) /\ i = m + 1 /\ f[i] = Builder!BuildStep(f[m], evs[i], m + 1)
    BY <1>5, <2>1, <2>2
  <2>4. Shaped(f[i], m + 1)
    BY <2>3, StepShaped
  <2>5. QED
    BY <2>3, <2>4
<1>6. n \in T
  <2> HIDE DEF T
  <2>1. 0 .. n \subseteq T
    BY <1>4, <1>5, Climb
  <2>2. QED
    BY <2>1
<1>7. QED
  BY <1>1, <1>3, <1>6

\* Whatever was recorded, what the builder accepts can be judged
LEMMA HistoryWellFormed ==
    ASSUME NEW S, NEW evs \in Seq(S), NEW policy, NEW history,
           history = Builder!BuildHistory(evs, policy), history.status = "ok"
    PROVE  WellFormed(history)
<1>1. PICK b : b = Builder!Built(evs, policy)
  OBVIOUS
<1>2. Shaped(b, Len(evs)) /\ Len(evs) \in Nat
  BY <1>1, BuiltShaped
<1>3. PICK status : status = IF b.error \/ ~ Builder!Accessed(b.transactions) \subseteq DOMAIN b.initial
                             THEN "malformed_history" ELSE "ok"
  OBVIOUS
<1>4. history = [status |-> status, initial |-> b.initial, transactions |-> b.transactions,
                 anomalies |-> b.anomalies]
  BY <1>1, <1>3 DEF Builder!Finished, Builder!BuildHistory
<1>5. history.initial = b.initial /\ history.transactions = b.transactions /\ status = "ok"
  BY <1>4
<1>6. Builder!Accessed(b.transactions) \subseteq DOMAIN b.initial
  BY <1>3, <1>5
<1>7. PICK txs : txs = b.transactions
  OBVIOUS
<1>8. Timed(txs, Len(evs))
  BY <1>2, <1>7 DEF Shaped
<1>9. DOMAIN txs = 1 .. Len(txs) /\ Len(txs) \in Nat
  BY <1>8 DEF Timed
<1>10. ASSUME NEW i \in DOMAIN txs
       PROVE  /\ txs[i].begin \in Nat /\ txs[i].end \in Nat
              /\ txs[i].end # 0 => txs[i].begin < txs[i].end
              /\ \A k \in DOMAIN txs[i].accesses : txs[i].accesses[k].loc \in DOMAIN b.initial
  <2>1. /\ txs[i].begin \in 1 .. Len(evs) /\ txs[i].end \in 0 .. Len(evs)
        /\ txs[i].end # 0 => txs[i].begin < txs[i].end
    BY <1>8, <1>9 DEF Timed
  <2>2. ASSUME NEW k \in DOMAIN txs[i].accesses PROVE txs[i].accesses[k].loc \in DOMAIN b.initial
    <3>1. txs[i].accesses[k].loc \in Builder!Accessed(txs)
      BY DEF Builder!Accessed
    <3>2. QED
      BY <1>6, <1>7, <3>1
  <2>3. QED
    BY <1>2, <2>1, <2>2
<1>11. \A i, j \in DOMAIN txs : i < j => txs[i].begin < txs[j].begin
  BY <1>8, <1>9 DEF Timed
<1>12. b.initial = [x \in DOMAIN b.initial |-> b.initial[x]]
  BY <1>2 DEF Shaped
<1>13. QED
  BY <1>5, <1>7, <1>9, <1>10, <1>11, <1>12 DEF WellFormed

-----------------------------------------------------------------------------
(* The judgement of a run.                                                 *)

\* A run is judged when nothing happens any more
Over ==
    Judged => /\ \A t \in Threads : Idle(t) /\ attempt[t].state # "aborted"
              /\ verdict = Judgement(events, scenario.policy, scenario.limit)

LEMMA CheckIsSpec == CheckSpec => Spec
<1>1. CheckInit => Init
  BY DEF CheckInit
<1>2. [CheckNext]_checkVars => [Next]_vars
  BY DEF CheckNext, checkVars, Judge
<1>3. QED
  BY <1>1, <1>2, PTL DEF CheckSpec, Spec

LEMMA NothingHappens ==
    ASSUME TypeOK, \A t \in Threads : Idle(t) /\ attempt[t].state # "aborted"
    PROVE  ~ Next
<1>1. ASSUME NEW t \in Threads, NEW op PROVE ~ At(t, op)
  <2>1. pc[t] \in Nat
    BY DEF TypeOK
  <2>2. PICK script \in Seq(ScriptEntryType) : script = scenario.scripts[t]
    BY ScenariosAssumption DEF TypeOK
  <2>3. Len(script) \in Nat
    OBVIOUS
  <2>4. pc[t] > Len(script)
    BY <2>2 DEF Idle
  <2>5. QED
    BY <2>1, <2>2, <2>3, <2>4 DEF At
<1>2. SUFFICES ASSUME NEW t \in Threads,
                      \/ BeginTransaction(t) \/ ReadField(t) \/ WriteField(t) \/ Publish(t)
                      \/ CommitSuccess(t) \/ AbortTransaction(t) \/ RetryTransaction(t)
                      \/ ConstructField(t) \/ DestroyField(t)
               PROVE  FALSE
  BY DEF Next
<1>3. ~ BeginTransaction(t) /\ ~ ReadField(t) /\ ~ WriteField(t)
  BY <1>1 DEF BeginTransaction, ReadField, WriteField
<1>4. ~ Publish(t) /\ ~ CommitSuccess(t) /\ ~ AbortTransaction(t)
  BY <1>1 DEF Publish, CommitSuccess, AbortTransaction
<1>5. ~ ConstructField(t) /\ ~ DestroyField(t)
  BY <1>1 DEF ConstructField, DestroyField
<1>6. ~ RetryTransaction(t)
  BY DEF RetryTransaction
<1>7. QED
  BY <1>2, <1>3, <1>4, <1>5, <1>6

LEMMA OverKept ==
    ASSUME TypeOK, Over, [CheckNext]_checkVars
    PROVE  Over'
<1>1. CASE Next /\ UNCHANGED verdict
  <2>1. ~ Judged
    BY <1>1, NothingHappens DEF Over
  <2>2. ~ Judged'
    BY <1>1, <2>1 DEF Judged
  <2>3. QED
    BY <2>2 DEF Over
<1>2. CASE Judge
  BY <1>2 DEF Judge, Over, vars, Idle
<1>3. CASE UNCHANGED checkVars
  BY <1>3 DEF checkVars, vars, Over, Judged, Idle
<1>4. QED
  BY <1>1, <1>2, <1>3 DEF CheckNext

\* What a judgement says, and of what
LEMMA JudgementFacts ==
    ASSUME TypeOK, NEW judged, judged = Judgement(events, scenario.policy, scenario.limit)
    PROVE  /\ judged.history = History
           /\ History.status = "ok" =>
                 WellFormed(History) /\ MeansOpacity(History, scenario.limit, judged)
           /\ History.status # "ok" => judged.status = "malformed_history"
<1>1. PICK history : history = History
  OBVIOUS
<1>2. history = Builder!BuildHistory(events, scenario.policy)
  BY <1>1 DEF History
<1>3. PICK answer : answer = VerifyStmOpacity(history, scenario.limit)
  OBVIOUS
<1>4. judged = IF history.status # "ok"
               THEN [status |-> history.status, order |-> <<>>, history |-> history]
               ELSE [status |-> answer.status, order |-> answer.order, history |-> history]
  BY <1>2, <1>3 DEF Judgement
<1>5. judged.history = history
  BY <1>4
<1>6. ASSUME history.status = "ok"
      PROVE  WellFormed(history) /\ MeansOpacity(history, scenario.limit, judged)
  <2>1. events \in Seq(EventType) /\ scenario.limit \in Nat
    BY ScenariosAssumption DEF TypeOK
  <2>2. WellFormed(history)
    BY <1>2, <1>6, <2>1, HistoryWellFormed
  <2>3. MeansOpacity(history, scenario.limit, answer)
    BY <1>3, <2>1, <2>2, VerifyMeansOpacity
  <2>4. judged.status = answer.status /\ judged.order = answer.order
    BY <1>4, <1>6
  <2>5. QED
    BY <2>2, <2>3, <2>4 DEF MeansOpacity
<1>7. history.status \in {"ok", "malformed_history"}
  <2>1. PICK b : b = Builder!Built(events, scenario.policy)
    OBVIOUS
  <2>2. PICK status : status = IF b.error \/ ~ Builder!Accessed(b.transactions) \subseteq DOMAIN b.initial
                               THEN "malformed_history" ELSE "ok"
    OBVIOUS
  <2>3. history = [status |-> status, initial |-> b.initial, transactions |-> b.transactions,
                   anomalies |-> b.anomalies]
    BY <1>2, <2>1, <2>2 DEF Builder!Finished, Builder!BuildHistory
  <2>4. QED
    BY <2>2, <2>3
<1>8. ASSUME history.status # "ok" PROVE judged.status = "malformed_history"
  BY <1>4, <1>7, <1>8
<1>9. QED
  BY <1>1, <1>5, <1>6, <1>8

\* Of whatever was recorded, committed_order is a serial order that explains all transactions
\* of the history (search_stm_opacity_committed_order).
THEOREM TransactionsOrderIsWitness == CheckSpec => []OrderIsWitness
<1>1. CheckInit => Over
  BY DEF CheckInit, Over, Judged
<1>2. TypeOK /\ Over /\ [CheckNext]_checkVars => Over'
  BY OverKept
<1>3. TypeOK /\ Over => OrderIsWitness
  <2>1. SUFFICES ASSUME TypeOK, Over, Judged, verdict.status = "ok"
                 PROVE  Witness(verdict.history, verdict.order)
    BY DEF OrderIsWitness
  <2>2. verdict = Judgement(events, scenario.policy, scenario.limit)
    BY <2>1 DEF Over
  <2>3. /\ verdict.history = History
        /\ History.status = "ok" => MeansOpacity(History, scenario.limit, verdict)
        /\ History.status # "ok" => verdict.status = "malformed_history"
    BY <2>1, <2>2, JudgementFacts
  <2>4. QED
    BY <2>1, <2>3 DEF MeansOpacity
<1>4. QED
  BY <1>1, <1>2, <1>3, CheckIsSpec, TransactionsTypeCorrect, PTL DEF CheckSpec

\* What happened and what was recorded of it differ in the names of locations only
LEMMA TruthMirrored ==
    ASSUME TypeOK, RecordingInv, NEW history, history = History, Unambiguous(history)
    PROVE  Mirrors(truth, history) /\ Mirrors(history, truth)
<1>1. PICK b : b = Built
  OBVIOUS
<1>2. /\ history.transactions = b.transactions /\ history.initial = b.initial
      /\ Clean(b) /\ "dead" \notin misuse
      /\ Builder!Accessed(b.transactions) \subseteq DOMAIN b.initial
  <2>1. history = Builder!Finished(b)
    BY <1>1 DEF History, Built, Builder!BuildHistory
  <2>2. PICK status : status = IF b.error \/ ~ Builder!Accessed(b.transactions) \subseteq DOMAIN b.initial
                               THEN "malformed_history" ELSE "ok"
    OBVIOUS
  <2>3. history = [status |-> status, initial |-> b.initial, transactions |-> b.transactions,
                   anomalies |-> b.anomalies]
    BY <2>1, <2>2 DEF Builder!Finished
  <2>4. QED
    BY <2>2, <2>3 DEF Unambiguous, Clean
<1>3. Recording(b)
  BY <1>1, <1>2 DEF RecordingInv
<1>4. PICK built \in Seq(BuiltType) : built = b.transactions
  BY <1>3 DEF Recording
<1>5. PICK did \in Seq(DidType) : did = truth.transactions
  BY DEF TypeOK
<1>6. Matched(did, built) /\ Apart(Pairs(did, built))
  BY <1>3, <1>4, <1>5 DEF Recording
<1>7. /\ Len(did) \in Nat /\ DOMAIN did = 1 .. Len(did) /\ Len(built) = Len(did)
      /\ DOMAIN built = 1 .. Len(did)
  BY <1>6 DEF Matched
<1>8. ASSUME NEW i \in DOMAIN did
      PROVE  SameShape(did[i], built[i]) /\ DOMAIN built[i].accesses = DOMAIN did[i].accesses
  <2>1. SameTransaction(did[i], built[i])
    BY <1>6, <1>8 DEF Matched
  <2>2. PICK x \in Seq(DidAccess) : x = did[i].accesses
    <3>1. PICK d \in DidType : d = did[i]
      BY <1>8
    <3>2. QED
      BY <3>1 DEF DidType, DidAccess
  <2>3. PICK y \in Seq(BuiltAccess) : y = built[i].accesses
    <3>1. PICK e \in BuiltType : e = built[i]
      BY <1>7, <1>8
    <3>2. QED
      BY <3>1 DEF BuiltType
  <2>4. /\ Len(x) \in Nat /\ Len(y) = Len(x) /\ DOMAIN x = 1 .. Len(x) /\ DOMAIN y = 1 .. Len(x)
    BY <2>1, <2>2, <2>3 DEF SameTransaction
  <2>5. \A k \in 1 .. Len(x) : (x[k].write <=> y[k].write) /\ x[k].value = y[k].value
    BY <2>1, <2>2, <2>3, <2>4 DEF SameTransaction
  <2>6. /\ did[i].begin = built[i].begin /\ did[i].end = built[i].end
        /\ did[i].outcome = built[i].outcome
    BY <2>1 DEF SameTransaction
  <2>7. QED
    BY <2>2, <2>3, <2>4, <2>5, <2>6 DEF SameShape
<1>9. ASSUME NEW i \in DOMAIN did, NEW k \in DOMAIN did[i].accesses
      PROVE  \E p \in Pairs(did, built) :
                p[1].loc = LocAt(truth, i, k) /\ p[2].loc = LocAt(history, i, k)
  <2>1. PICK p : p = <<did[i].accesses[k], built[i].accesses[k]>>
    OBVIOUS
  <2>2. p \in Pairs(did, built)
    BY <1>9, <2>1, PairsAre
  <2>3. p[1] = did[i].accesses[k] /\ p[2] = built[i].accesses[k]
    BY <2>1
  <2>4. QED
    BY <1>2, <1>4, <1>5, <2>2, <2>3 DEF LocAt
<1>10. ASSUME NEW i \in DOMAIN did, NEW k \in DOMAIN did[i].accesses,
              NEW j \in DOMAIN did, NEW l \in DOMAIN did[j].accesses
       PROVE  LocAt(truth, i, k) = LocAt(truth, j, l) <=> LocAt(history, i, k) = LocAt(history, j, l)
  <2>1. PICK p \in Pairs(did, built) : p[1].loc = LocAt(truth, i, k) /\ p[2].loc = LocAt(history, i, k)
    BY <1>9
  <2>2. PICK q \in Pairs(did, built) : q[1].loc = LocAt(truth, j, l) /\ q[2].loc = LocAt(history, j, l)
    BY <1>9
  <2>3. p[1].loc = q[1].loc <=> p[2].loc = q[2].loc
    BY <1>6 DEF Apart
  <2>4. QED
    BY <2>1, <2>2, <2>3
<1>11. ASSUME NEW i \in DOMAIN did, NEW k \in DOMAIN did[i].accesses
       PROVE  /\ LocAt(truth, i, k) \in DOMAIN truth.initial
              /\ LocAt(history, i, k) \in DOMAIN history.initial
              /\ truth.initial[LocAt(truth, i, k)] = history.initial[LocAt(history, i, k)]
  <2>1. PICK p \in Pairs(did, built) : p[1].loc = LocAt(truth, i, k) /\ p[2].loc = LocAt(history, i, k)
    BY <1>9
  <2>2. Began(b, p[1].loc, p[2].loc)
    BY <1>3, <1>4, <1>5 DEF Recording, Starts
  <2>3. i \in DOMAIN built /\ k \in DOMAIN built[i].accesses
    BY <1>7, <1>8
  <2>4. built[i].accesses[k].loc \in Builder!Accessed(built)
    BY <2>3 DEF Builder!Accessed
  <2>5. LocAt(history, i, k) \in DOMAIN b.initial
    BY <1>2, <1>4, <2>4 DEF LocAt
  <2>6. QED
    BY <1>2, <2>1, <2>2, <2>5 DEF Began
<1>12. Mirrors(truth, history)
  <2>1. /\ Len(truth.transactions) \in Nat /\ DOMAIN truth.transactions = 1 .. Len(truth.transactions)
        /\ DOMAIN history.transactions = 1 .. Len(truth.transactions)
    BY <1>2, <1>4, <1>5, <1>7
  <2>2. \A i \in DOMAIN truth.transactions : SameShape(truth.transactions[i], history.transactions[i])
    BY <1>2, <1>4, <1>5, <1>8
  <2>3. QED
    BY <1>5, <1>10, <1>11, <2>1, <2>2 DEF Mirrors
<1>13. Len(history.transactions) = Len(truth.transactions)
  BY <1>2, <1>4, <1>5, <1>7
<1>14. QED
  BY <1>12, <1>13, MirrorsBack

\* In a run that starts with nothing but named fields, and whose records are unambiguous, the
\* verdict on the records is the verdict on what happened, whatever the scripts, the STM and the
\* interleaving: "ok" only if all transactions saw, in some order, consistent states, "violation"
\* only if there is no such order, and the search gives up only at a configured limit
\* (apply_stm_opacity_check, verify_stm_opacity).
THEOREM TransactionsVerdictSound == CheckSpec => [](OnlyNamed(scenario) => VerdictSound)
<1>1. CheckInit => Over
  BY DEF CheckInit, Over, Judged
<1>2. TypeOK /\ Over /\ [CheckNext]_checkVars => Over'
  BY OverKept
<1>3. Init /\ TypeOK => (OnlyNamed(scenario) => RecordingInv)
  BY InitRecording
<1>4. TypeOK /\ TypeOK' /\ (OnlyNamed(scenario) => RecordingInv) /\ [Next]_vars
        => (OnlyNamed(scenario) => RecordingInv)'
  BY RecordingNext, ScenarioKept
<1>5. TypeOK /\ Over /\ (OnlyNamed(scenario) => RecordingInv)
        => (OnlyNamed(scenario) => VerdictSound)
  <2>1. SUFFICES ASSUME TypeOK, Over, RecordingInv, Judged, Unambiguous(verdict.history)
                 PROVE  CASE verdict.status = "ok" -> Opaque(truth)
                          [] verdict.status = "violation" -> ~ Opaque(truth)
                          [] verdict.status = "search_limit_exceeded" -> scenario.limit # 0
    BY DEF VerdictSound
  <2>2. verdict = Judgement(events, scenario.policy, scenario.limit)
    BY <2>1 DEF Over
  <2>3. PICK history : history = History
    OBVIOUS
  <2>4. /\ verdict.history = history
        /\ history.status = "ok" => MeansOpacity(history, scenario.limit, verdict)
    BY <2>1, <2>2, <2>3, JudgementFacts
  <2>5. history.status = "ok" /\ Mirrors(truth, history) /\ Mirrors(history, truth)
    <3>1. Unambiguous(history)
      BY <2>1, <2>4
    <3>2. QED
      BY <2>1, <2>3, <3>1, TruthMirrored DEF Unambiguous
  <2>6. Opaque(truth) <=> Opaque(history)
    BY <2>5, OpaqueMirrored
  <2>7. /\ verdict.status = "ok" => Opaque(history)
        /\ verdict.status = "violation" => ~ Opaque(history)
        /\ verdict.status = "search_limit_exceeded" => scenario.limit # 0
        /\ verdict.status \in {"ok", "violation", "search_limit_exceeded"}
    BY <2>4, <2>5 DEF MeansOpacity, Witness, Opaque
  <2>8. CASE verdict.status = "ok"
    BY <2>6, <2>7, <2>8
  <2>9. CASE verdict.status = "violation"
    BY <2>6, <2>7, <2>9
  <2>10. CASE verdict.status = "search_limit_exceeded"
    BY <2>6, <2>7, <2>10
  <2>11. QED
    BY <2>7, <2>8, <2>9, <2>10
<1>6. CheckSpec => [](OnlyNamed(scenario) => RecordingInv)
  BY <1>3, <1>4, CheckIsSpec, TransactionsTypeCorrect, PTL DEF Spec
<1>7. QED
  BY <1>1, <1>2, <1>5, <1>6, CheckIsSpec, TransactionsTypeCorrect, PTL DEF CheckSpec

=============================================================================
