--------------------------- MODULE WorkshopProofs ---------------------------
(***************************************************************************)
(* What one episodic event does to the projection, for every value of the  *)
(* constants: the facts the proofs about the harvester rest on.            *)
(***************************************************************************)
EXTENDS Workshop, SequenceTheorems, FiniteSetTheorems, TLAPS

(* A projection of fresh WIPs is a projection (the cold start).            *)
LEMMA NewProjectionType == NewProjection \in Projection /\ NewWIP \in WIP
  BY DEF NewProjection, Projection, NewWIP, WIP, WIPPhase

(* _recompute_phase always answers one of the three phases.                *)
LEMMA PhaseType ==
  ASSUME NEW fragments
  PROVE  RecomputePhase(fragments) \in WIPPhase
  BY DEF RecomputePhase, WIPPhase

(* A recycle resets its WIP to a fresh one and touches no other.           *)
LEMMA RecycleEffect ==
  ASSUME NEW p \in Projection, NEW w \in WIPs, NEW ts
  PROVE  /\ Apply(p, RecycleEvent(w, ts)) = [p EXCEPT ![w] = NewWIP]
         /\ Apply(p, RecycleEvent(w, ts)) \in Projection
<1>1. Apply(p, RecycleEvent(w, ts)) = ApplyRecycle(p, RecycleEvent(w, ts))
  BY DEF Apply, RecycleEvent, LifecycleEvent
<1>2. ApplyRecycle(p, RecycleEvent(w, ts)) = [p EXCEPT ![w] = NewWIP]
  BY DEF ApplyRecycle, RecycleEvent, LifecycleEvent
<1>3. [p EXCEPT ![w] = NewWIP] \in Projection
  BY NewProjectionType DEF Projection
<1> QED BY <1>1, <1>2, <1>3

(* A rejection only counts: one more attempt, nothing else.                *)
LEMMA AttemptEffect ==
  ASSUME NEW p \in Projection, NEW w \in WIPs, NEW ts
  PROVE  /\ Apply(p, HarvestAttemptEvent(w, ts)) = [p EXCEPT ![w].attempts = @ + 1]
         /\ Apply(p, HarvestAttemptEvent(w, ts)) \in Projection
<1>1. Apply(p, HarvestAttemptEvent(w, ts))
        = ApplyHarvestAttempt(p, HarvestAttemptEvent(w, ts))
  BY DEF Apply, HarvestAttemptEvent, LifecycleEvent
<1>2. ApplyHarvestAttempt(p, HarvestAttemptEvent(w, ts))
        = [p EXCEPT ![w].attempts = @ + 1]
  BY DEF ApplyHarvestAttempt, HarvestAttemptEvent, LifecycleEvent
<1>3. [p EXCEPT ![w].attempts = @ + 1] \in Projection
  BY DEF Projection, WIP
<1> QED BY <1>1, <1>2, <1>3

(* A contribute to an incomplete WIP adds its fragment to that WIP alone,  *)
(* and the only edge it can signal is that WIP becoming complete.          *)
LEMMA ContributeEffect ==
  ASSUME NEW p \in Projection, NEW w \in WIPs, NEW a \in Actors, NEW ts \in Int,
         NEW e, e = ContributeEvent(w, a, ts, FALSE), w \in OpenSlots(p)
  PROVE  /\ Apply(p, e) \in Projection
         /\ \A v \in WIPs : v # w => Apply(p, e)[v] = p[v]
         /\ Apply(p, e)[w].attempts = p[w].attempts
         /\ CompletedBy(p, e) \subseteq CompleteWIPs(Apply(p, e))
<1> DEFINE next == Apply(p, e)
           fragments == Append(p[w].fragments, a)
           ph == RecomputePhase(fragments)
           done == IF ph = "complete" THEN ts ELSE p[w].completedTs
           filled == [fragments |-> fragments, phase |-> ph,
                      completedTs |-> done, attempts |-> p[w].attempts]
<1>1. next = ApplyContribute(p, e)
  BY DEF Apply, ContributeEvent
<1>2. /\ e.target = w /\ e.actor = a /\ e.ts = ts /\ e.blank = FALSE
  BY DEF ContributeEvent
<1>0. p[w].phase # "complete"
  BY DEF OpenSlots
<1>3. ApplyContribute(p, e) =
        [p EXCEPT ![w] = filled]
  BY <1>0, <1>2 DEF ApplyContribute, Projection
<1>4. p[w] \in WIP
  BY DEF Projection
<1>5. fragments \in Seq(Actors) /\ ph \in WIPPhase /\ done \in Int
  BY <1>4, PhaseType DEF WIP
<1> HIDE DEF fragments, ph, done
<1>6. filled \in WIP /\ filled.attempts = p[w].attempts
  BY <1>4, <1>5 DEF WIP
<1> HIDE DEF filled
<1>7. ApplyContribute(p, e) \in Projection
  BY <1>3, <1>6 DEF Projection
<1>8. /\ \A v \in WIPs : v # w => next[v] = p[v]
      /\ next[w].attempts = p[w].attempts
  BY <1>1, <1>3, <1>6 DEF Projection
<1>9. CompletedBy(p, e) \subseteq CompleteWIPs(next)
  BY DEF CompletedBy, CompleteWIPs
<1> QED BY <1>1, <1>7, <1>8, <1>9

(* An accepted contribute is the last fragment of its WIP.                 *)
LEMMA ContributeAppends ==
  ASSUME NEW p \in Projection, NEW w \in WIPs, NEW a, NEW ts, w \in OpenSlots(p)
  PROVE  Apply(p, ContributeEvent(w, a, ts, FALSE))[w].fragments = Append(p[w].fragments, a)
<1>1. PICK e : e = ContributeEvent(w, a, ts, FALSE)
  OBVIOUS
<1>2. e.action = "contribute" /\ e.target = w /\ e.actor = a /\ e.blank = FALSE
  BY <1>1 DEF ContributeEvent
<1>3. Apply(p, e) = ApplyContribute(p, e) /\ p[w].phase # "complete"
  BY <1>2 DEF Apply, OpenSlots
<1>4. ApplyContribute(p, e)[w].fragments = Append(p[w].fragments, a)
  BY <1>2, <1>3 DEF ApplyContribute, Projection
<1> QED BY <1>1, <1>3, <1>4

(* A contribute touches no WIP but its own.                                *)
LEMMA ContributeElsewhere ==
  ASSUME NEW p \in Projection, NEW w, NEW a, NEW ts, NEW v \in WIPs, v # w
  PROVE  Apply(p, ContributeEvent(w, a, ts, FALSE))[v] = p[v]
<1>1. PICK e : e = ContributeEvent(w, a, ts, FALSE)
  OBVIOUS
<1>2. e.action = "contribute" /\ e.target = w
  BY <1>1 DEF ContributeEvent
<1>3. Apply(p, e) = ApplyContribute(p, e)
  BY <1>2 DEF Apply
<1>4. ApplyContribute(p, e)[v] = p[v]
  BY <1>2 DEF ApplyContribute, Projection
<1> QED BY <1>1, <1>3, <1>4

-----------------------------------------------------------------------------
(* Positions of a log. *)

(* A set of naturals has a least element.                                  *)
LEMMA LeastNatural ==
  ASSUME NEW T \in SUBSET Nat, T # {}
  PROVE  \E n \in T : \A m \in T : n <= m
<1> DEFINE Less == OpToRel(<, Nat)
<1>1. IsWellFoundedOn(Less, Nat)
  BY NatLessThanWellFounded
<1>2. \A m, n \in Nat : m < n => <<m, n>> \in Less
  BY DEF OpToRel
<1> HIDE DEF Less
<1>3. PICK n \in T : \A m \in T : ~ (<<m, n>> \in Less)
  BY <1>1, WFMin
<1>4. \A m \in T : ~ (m < n)
  BY <1>2, <1>3
<1> QED BY <1>4

(* Induction over the naturals, for a set.                                 *)
LEMMA AllNaturals ==
  ASSUME NEW S, 0 \in S, \A n \in Nat : n \in S => n + 1 \in S
  PROVE  Nat \subseteq S
<1> SUFFICES ASSUME Nat \ S # {} PROVE FALSE
  OBVIOUS
<1>1. PICK n \in Nat \ S : \A m \in Nat \ S : n <= m
  BY LeastNatural
<1>2. n # 0 /\ n - 1 \in Nat
  OBVIOUS
<1>3. n - 1 \in S
  BY <1>1, <1>2
<1> QED BY <1>2, <1>3

(* How many of some positions are at or before i.                          *)
PlaceOf(K, i) == Cardinality({h \in K : h <= i})

LEMMA Count ==
  ASSUME NEW n \in Nat, NEW K \in SUBSET (1 .. n)
  PROVE  /\ IsFiniteSet(K) /\ Cardinality(K) \in 0 .. n
         /\ PlaceOf(K, n) = Cardinality(K)
         /\ \A i \in K : PlaceOf(K, i) \in 1 .. Cardinality(K)
<1>1. IsFiniteSet(1 .. n) /\ Cardinality(1 .. n) = n
  BY FS_Interval
<1>2. IsFiniteSet(K) /\ Cardinality(K) <= n
  BY <1>1, FS_Subset
<1>3. Cardinality(K) \in Nat
  BY <1>2, FS_CardinalityType
<1>4. {h \in K : h <= n} = K
  <2>1. \A h \in K : h <= n
    OBVIOUS
  <2> QED BY <2>1, Zenon
<1>5. ASSUME NEW i \in K PROVE PlaceOf(K, i) \in 1 .. Cardinality(K)
  <2> DEFINE L == {h \in K : h <= i}
  <2>1. L \in SUBSET K /\ i \in L
    OBVIOUS
  <2> HIDE DEF L
  <2>2. IsFiniteSet(L) /\ Cardinality(L) <= Cardinality(K)
    BY <1>2, <2>1, FS_Subset
  <2>3. Cardinality(L) \in Nat /\ Cardinality(L) # 0
    BY <2>1, <2>2, FS_CardinalityType, FS_EmptySet
  <2> QED BY <1>3, <2>2, <2>3 DEF PlaceOf, L
<1> QED BY <1>2, <1>3, <1>4, <1>5 DEF PlaceOf

(* A new last position keeps the rank of the others.                       *)
LEMMA PlaceOfOneMore ==
  ASSUME NEW n \in Nat, NEW K \in SUBSET (1 .. n)
  PROVE  /\ Cardinality(K \cup {n + 1}) = Cardinality(K) + 1
         /\ \A i \in K : PlaceOf(K \cup {n + 1}, i) = PlaceOf(K, i)
         /\ PlaceOf(K \cup {n + 1}, n + 1) = Cardinality(K) + 1
<1>1. IsFiniteSet(K) /\ n + 1 \notin K
  BY Count
<1>2. Cardinality(K \cup {n + 1}) = Cardinality(K) + 1
  BY <1>1, FS_AddElement
<1>3. ASSUME NEW i \in K PROVE {h \in K \cup {n + 1} : h <= i} = {h \in K : h <= i}
  OBVIOUS
<1>4. {h \in K \cup {n + 1} : h <= n + 1} = K \cup {n + 1}
  <2>1. \A h \in K \cup {n + 1} : h <= n + 1
    OBVIOUS
  <2> QED BY <2>1, Zenon
<1> QED BY <1>2, <1>3, <1>4 DEF PlaceOf

LEMMA NthOfOneMore ==
  ASSUME NEW n \in Nat, NEW K \in SUBSET (1 .. n)
  PROVE  /\ \A j \in 1 .. Cardinality(K) : Nth(K \cup {n + 1}, j) = Nth(K, j)
         /\ Nth(K \cup {n + 1}, Cardinality(K) + 1) = n + 1
<1> DEFINE L == K \cup {n + 1}
<1>0. Cardinality(K) \in Nat
  BY Count
<1>1. ASSUME NEW j \in 1 .. Cardinality(K) PROVE Nth(L, j) = Nth(K, j)
  <2>1. \A i : (i \in L /\ PlaceOf(L, i) = j) <=> (i \in K /\ PlaceOf(K, i) = j)
    <3>1. Cardinality(K) + 1 # j
      BY <1>0
    <3>2. /\ \A i \in K : PlaceOf(L, i) = PlaceOf(K, i)
          /\ PlaceOf(L, n + 1) = Cardinality(K) + 1
      BY PlaceOfOneMore
    <3> QED BY <3>1, <3>2, Zenon
  <2> QED BY <2>1 DEF Nth, PlaceOf
<1>2. Nth(L, Cardinality(K) + 1) = n + 1
  <2>1. \A i : (i \in L /\ PlaceOf(L, i) = Cardinality(K) + 1) <=> i = n + 1
    <3>1. \A i \in K : PlaceOf(K, i) # Cardinality(K) + 1
      <4>1. \A i \in K : PlaceOf(K, i) \in 1 .. Cardinality(K)
        BY Count
      <4> QED BY <1>0, <4>1
    <3>2. /\ \A i \in K : PlaceOf(L, i) = PlaceOf(K, i)
          /\ PlaceOf(L, n + 1) = Cardinality(K) + 1
      BY PlaceOfOneMore
    <3> QED BY <3>1, <3>2, Zenon
  <2> QED BY <2>1 DEF Nth, PlaceOf
<1> QED BY <1>1, <1>2

LEMMA NthIsMember ==
  ASSUME NEW n \in Nat, NEW K \in SUBSET (1 .. n), NEW j \in 1 .. Cardinality(K)
  PROVE  Nth(K, j) \in K
<1> DEFINE Good(k) == \A L \in SUBSET (1 .. k) : \A i \in 1 .. Cardinality(L) : Nth(L, i) \in L
           S == {k \in Nat : Good(k)}
<1>1. 0 \in S
  <2>1. \A L \in SUBSET (1 .. 0) : L = {}
    OBVIOUS
  <2>2. Cardinality({}) = 0
    BY FS_EmptySet
  <2> QED BY <2>1, <2>2
<1>2. ASSUME NEW k \in Nat, k \in S PROVE k + 1 \in S
  <2> SUFFICES ASSUME NEW L \in SUBSET (1 .. k + 1), NEW i \in 1 .. Cardinality(L)
               PROVE  Nth(L, i) \in L
    OBVIOUS
  <2>1. CASE k + 1 \notin L
    <3>1. L \in SUBSET (1 .. k)
      BY <2>1
    <3> QED BY <1>2, <3>1
  <2>2. CASE k + 1 \in L
    <3> DEFINE M == L \ {k + 1}
    <3>1. M \in SUBSET (1 .. k) /\ L = M \cup {k + 1}
      BY <2>2
    <3> HIDE DEF M
    <3>2. /\ Cardinality(L) = Cardinality(M) + 1
          /\ \A h \in 1 .. Cardinality(M) : Nth(L, h) = Nth(M, h)
          /\ Nth(L, Cardinality(M) + 1) = k + 1
          /\ Cardinality(M) \in Nat
      <4>1. Cardinality(L) = Cardinality(M) + 1
        BY <3>1, PlaceOfOneMore
      <4>2. /\ \A h \in 1 .. Cardinality(M) : Nth(L, h) = Nth(M, h)
            /\ Nth(L, Cardinality(M) + 1) = k + 1
        BY <3>1, NthOfOneMore
      <4>3. Cardinality(M) \in Nat
        BY <3>1, Count
      <4> QED BY <4>1, <4>2, <4>3, Zenon
    <3>3. i \in 1 .. Cardinality(M) \/ i = Cardinality(M) + 1
      BY <3>2
    <3>4. \A h \in 1 .. Cardinality(M) : Nth(M, h) \in M
      BY <1>2, <3>1
    <3> QED BY <3>1, <3>2, <3>3, <3>4, Zenon
  <2> QED BY <2>1, <2>2
<1>3. n \in S
  <2> HIDE DEF S
  <2> QED BY <1>1, <1>2, AllNaturals
<1> QED BY <1>3

(* The events at some positions of a log are as many as the positions.     *)
LEMMA EventsAtType ==
  ASSUME NEW E, NEW s \in Seq(E), NEW K \in SUBSET (1 .. Len(s))
  PROVE  EventsAt(s, K) \in Seq(E) /\ Len(EventsAt(s, K)) = Cardinality(K)
<1> DEFINE n == Len(s)
           m == Cardinality(K)
           at == EventsAt(s, K)
<1>1. n \in Nat /\ m \in Nat
  <2>1. n \in Nat
    BY LenProperties
  <2> QED BY <2>1, Count
<1>2. \A i \in 1 .. n : s[i] \in E
  BY LenProperties
<1>3. \A j \in 1 .. m : Nth(K, j) \in 1 .. n
  BY <1>1, NthIsMember
<1>4. at = [j \in 1 .. m |-> s[Nth(K, j)]]
  BY DEF EventsAt
<1> HIDE DEF n, m, at
<1>5. at \in [1 .. m -> E]
  BY <1>2, <1>3, <1>4
<1>6. at \in Seq(E)
  BY <1>1, <1>5, SeqDef
<1>7. Len(at) = m
  BY <1>1, <1>5, <1>6, LenProperties
<1> QED BY <1>6, <1>7 DEF at, m

(* An append leaves the events at older positions alone.                   *)
LEMMA EventsAtKept ==
  ASSUME NEW E, NEW s \in Seq(E), NEW e \in E, NEW K \in SUBSET (1 .. Len(s))
  PROVE  EventsAt(Append(s, e), K) = EventsAt(s, K)
<1>1. Len(s) \in Nat /\ \A i \in 1 .. Len(s) : Append(s, e)[i] = s[i]
  BY AppendProperties
<1>2. \A j \in 1 .. Cardinality(K) : Nth(K, j) \in 1 .. Len(s)
  BY <1>1, NthIsMember
<1>3. \A j \in 1 .. Cardinality(K) : Append(s, e)[Nth(K, j)] = s[Nth(K, j)]
  BY <1>1, <1>2
<1> QED BY <1>3, Zenon DEF EventsAt

(* An event that is appended comes last of those at the positions that     *)
(* include its own.                                                        *)
LEMMA EventsAtAppend ==
  ASSUME NEW E, NEW s \in Seq(E), NEW e \in E, NEW K \in SUBSET (1 .. Len(s))
  PROVE  EventsAt(Append(s, e), K \cup {Len(s) + 1}) = Append(EventsAt(s, K), e)
<1> DEFINE n == Len(s)
           m == Cardinality(K)
           more == Append(s, e)
           L == K \cup {n + 1}
           at == EventsAt(s, K)
<1>1. n \in Nat /\ m \in Nat /\ Cardinality(L) = m + 1
  <2>1. n \in Nat
    BY LenProperties
  <2>2. m \in 0 .. n
    BY <2>1, Count
  <2>3. Cardinality(L) = m + 1
    BY <2>1, PlaceOfOneMore
  <2> QED BY <2>1, <2>2, <2>3
<1>2. /\ \A i \in 1 .. n : more[i] = s[i] /\ s[i] \in E
      /\ more[n + 1] = e
  BY AppendProperties
<1>3. /\ \A j \in 1 .. m : Nth(L, j) = Nth(K, j) /\ Nth(K, j) \in 1 .. n
      /\ Nth(L, m + 1) = n + 1
  <2>1. \A j \in 1 .. m : Nth(L, j) = Nth(K, j)
    BY <1>1, NthOfOneMore
  <2>2. Nth(L, m + 1) = n + 1
    BY <1>1, NthOfOneMore
  <2>3. \A j \in 1 .. m : Nth(K, j) \in K
    BY <1>1, NthIsMember
  <2> QED BY <2>1, <2>2, <2>3
<1>4. /\ at = [j \in 1 .. m |-> s[Nth(K, j)]]
      /\ EventsAt(more, L) = [j \in 1 .. m + 1 |-> more[Nth(L, j)]]
  BY <1>1 DEF EventsAt
<1> HIDE DEF n, m, more, L, at
<1>5. at \in [1 .. m -> E]
  BY <1>2, <1>3, <1>4
<1>6. at \in Seq(E) /\ Len(at) = m
  BY EventsAtType DEF at, m
<1>7. EventsAt(more, L) = Append(at, e)
  <2> DEFINE as == Append(at, e)
             bs == EventsAt(more, L)
  <2>1. as \in [1 .. m + 1 -> E] /\ (\A j \in 1 .. m : as[j] = at[j]) /\ as[m + 1] = e
    <3>1. as \in Seq(E) /\ Len(as) = m + 1 /\ (\A j \in 1 .. m : as[j] = at[j]) /\ as[m + 1] = e
      BY <1>6, AppendProperties
    <3>2. as \in [1 .. Len(as) -> E]
      BY <3>1, LenProperties
    <3> QED BY <3>1, <3>2
  <2>2. \A j \in 1 .. m + 1 : j \in 1 .. m \/ j = m + 1
    BY <1>1
  <2>3. \A j \in 1 .. m : bs[j] = at[j]
    <3> TAKE j \in 1 .. m
    <3>1. j \in 1 .. m + 1
      BY <1>1
    <3> QED BY <1>2, <1>3, <1>4, <3>1
  <2>4. bs[m + 1] = e
    <3>1. m + 1 \in 1 .. m + 1
      BY <1>1
    <3> QED BY <1>2, <1>3, <1>4, <3>1
  <2>5. bs = [j \in 1 .. m + 1 |-> bs[j]]
    BY <1>4
  <2> HIDE DEF as, bs
  <2>6. \A j \in 1 .. m + 1 : as[j] = bs[j]
    BY <2>1, <2>2, <2>3, <2>4
  <2>7. as = bs
    BY <2>1, <2>5, <2>6
  <2> QED BY <2>7 DEF as, bs
<1> QED BY <1>7 DEF n, m, more, L, at

LEMMA EventsAtNone == \A s : EventsAt(s, {}) = << >>
  BY FS_EmptySet DEF EventsAt

(* The actors of one more event.                                           *)
LEMMA ActorsOfAppend ==
  ASSUME NEW E, NEW at \in Seq(E), ActorsOf(at) \in Seq(Actors)
  PROVE  /\ Len(ActorsOf(at)) = Len(at)
         /\ \A e \in E : e.actor \in Actors =>
              ActorsOf(Append(at, e)) = Append(ActorsOf(at), e.actor)
<1> DEFINE n == Len(at)
           by == ActorsOf(at)
<1>1. n \in Nat /\ DOMAIN at = 1 .. n
  BY LenProperties
<1>2. by = [j \in 1 .. n |-> at[j].actor]
  BY <1>1 DEF ActorsOf
<1>3. Len(by) = n
  <2>1. DOMAIN by = 1 .. Len(by) /\ Len(by) \in Nat
    BY LenProperties
  <2>2. DOMAIN by = 1 .. n
    BY <1>2
  <2>3. \A a, b \in Nat : 1 .. a = 1 .. b => a = b
    <3> TAKE a, b \in Nat
    <3> HAVE 1 .. a = 1 .. b
    <3>1. (a \in 1 .. a \/ a = 0) /\ (b \in 1 .. b \/ b = 0)
      OBVIOUS
    <3> QED BY <3>1
  <2> HIDE DEF n, by
  <2> QED BY <1>1, <2>1, <2>2, <2>3
<1>4. ASSUME NEW e \in E, e.actor \in Actors
      PROVE  ActorsOf(Append(at, e)) = Append(by, e.actor)
  <2> DEFINE more == Append(at, e)
             as == ActorsOf(more)
             bs == Append(by, e.actor)
  <2>1. /\ DOMAIN more = 1 .. n + 1
        /\ \A j \in 1 .. n : more[j] = at[j]
        /\ more[n + 1] = e
    BY AppendProperties, LenProperties
  <2>2. as = [j \in 1 .. n + 1 |-> more[j].actor]
    BY <2>1 DEF ActorsOf
  <2>3. /\ bs \in Seq(Actors) /\ Len(bs) = n + 1
        /\ \A j \in 1 .. n : bs[j] = by[j]
        /\ bs[n + 1] = e.actor
    BY <1>3, <1>4, AppendProperties
  <2>4. bs \in [1 .. n + 1 -> Actors]
    BY <2>3, LenProperties
  <2> HIDE DEF n, by, more, as, bs
  <2>5. \A j \in 1 .. n + 1 : bs[j] = more[j].actor
    BY <1>1, <1>2, <2>1, <2>3
  <2>6. as = bs
    BY <2>2, <2>4, <2>5
  <2> QED BY <2>6 DEF as, bs, more
<1> QED BY <1>3, <1>4
=============================================================================
