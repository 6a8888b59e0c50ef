-------------------------- MODULE WorkshopLogProofs --------------------------
(***************************************************************************)
(* The live projection of WorkshopLog is a function of the log, for every  *)
(* set of WIPs and contributors, every floor and logs of every length:     *)
(* what the replay of a log gives, by induction on the log; then LogInv,   *)
(* with a lemma for each action.                                           *)
(***************************************************************************)
EXTENDS WorkshopLog, WorkshopProofs

-----------------------------------------------------------------------------
(* The replay. *)

(* g holds the projections after the first 0, 1, .. k events of q.         *)
Follows(g, q, k) ==
  g = [n \in 0 .. k |-> IF n = 0 THEN NewProjection ELSE Apply(g[n - 1], q[n])]

(* The recursion of After has a solution, so After is one.                 *)
LEMMA AfterIs ==
  ASSUME NEW E, NEW q \in Seq(E)
  PROVE  /\ After(q)[0] = NewProjection
         /\ \A n \in 1 .. Len(q) : After(q)[n] = Apply(After(q)[n - 1], q[n])
<1> DEFINE S == {k \in Nat : \E g : Follows(g, q, k)}
<1>1. 0 \in S
  <2> DEFINE g == [n \in 0 .. 0 |-> NewProjection]
  <2>1. \A n \in 0 .. 0 : n = 0
    OBVIOUS
  <2>2. Follows(g, q, 0)
    BY <2>1, Zenon DEF Follows
  <2> QED BY <2>2
<1>2. ASSUME NEW k \in Nat, k \in S PROVE k + 1 \in S
  <2>1. PICK g : Follows(g, q, k)
    BY <1>2
  <2> DEFINE h == [n \in 0 .. k + 1 |-> IF n = k + 1 THEN Apply(g[k], q[k + 1]) ELSE g[n]]
             next == [n \in 0 .. k + 1 |-> IF n = 0 THEN NewProjection ELSE Apply(h[n - 1], q[n])]
  <2>2. \A n \in 0 .. k : n \in 0 .. k + 1 /\ n # k + 1 /\ (n # 0 => n - 1 \in 0 .. k /\ n - 1 \in 0 .. k + 1 /\ n - 1 # k + 1)
    OBVIOUS
  <2>3. k + 1 \in 0 .. k + 1 /\ k + 1 # 0 /\ (k + 1) - 1 = k /\ k \in 0 .. k
    OBVIOUS
  <2>4. \A n \in 0 .. k + 1 : n \in 0 .. k \/ n = k + 1
    OBVIOUS
  <2>5. \A n \in 0 .. k : g[n] = IF n = 0 THEN NewProjection ELSE Apply(g[n - 1], q[n])
    BY <2>1, Zenon DEF Follows
  <2>6. \A n \in 0 .. k : h[n] = g[n]
    BY <2>2, Zenon
  <2>7. h[k + 1] = Apply(g[k], q[k + 1])
    BY <2>3, Zenon
  <2>8. \A n \in 0 .. k : h[n] = next[n]
    BY <2>2, <2>5, <2>6, Zenon
  <2>9. next[k + 1] = Apply(h[k], q[k + 1])
    BY <2>3
  <2>10. \A n \in 0 .. k + 1 : h[n] = next[n]
    BY <2>3, <2>4, <2>6, <2>7, <2>8, <2>9, Zenon
  <2>11. h = next
    <3>1. h = [n \in 0 .. k + 1 |-> h[n]] /\ next = [n \in 0 .. k + 1 |-> next[n]]
      OBVIOUS
    <3> HIDE DEF h, next
    <3> QED BY <2>10, <3>1, Zenon
  <2> HIDE DEF h
  <2>12. Follows(h, q, k + 1)
    BY <2>11, Zenon DEF Follows
  <2> HIDE DEF next
  <2> QED BY <2>12
<1>3. Len(q) \in Nat
  OBVIOUS
<1>4. Len(q) \in S
  <2> HIDE DEF S
  <2> QED BY <1>1, <1>2, <1>3, AllNaturals
<1>5. Follows(After(q), q, Len(q))
  BY <1>4, Zenon DEF After, Follows
<1>6. \A n \in 0 .. Len(q) : After(q)[n] = IF n = 0 THEN NewProjection ELSE Apply(After(q)[n - 1], q[n])
  BY <1>5, Zenon DEF Follows
<1>7. 0 \in 0 .. Len(q) /\ \A n \in 1 .. Len(q) : n \in 0 .. Len(q) /\ n # 0
  BY <1>3
<1> QED BY <1>6, <1>7, Zenon

(* One more event only adds a projection.                                  *)
LEMMA AfterAppend ==
  ASSUME NEW E, NEW q \in Seq(E), NEW e \in E
  PROVE  /\ \A n \in 0 .. Len(q) : After(Append(q, e))[n] = After(q)[n]
         /\ After(Append(q, e))[Len(q) + 1] = Apply(After(q)[Len(q)], e)
<1> DEFINE more == Append(q, e)
           S == {n \in Nat : n <= Len(q) => After(more)[n] = After(q)[n]}
<1>1. /\ Len(q) \in Nat /\ more \in Seq(E) /\ Len(more) = Len(q) + 1
      /\ \A n \in 1 .. Len(q) : more[n] = q[n]
      /\ more[Len(q) + 1] = e
  BY AppendProperties
<1> HIDE DEF more
<1>2. /\ After(q)[0] = NewProjection
      /\ \A n \in 1 .. Len(q) : After(q)[n] = Apply(After(q)[n - 1], q[n])
  BY AfterIs
<1>3. /\ After(more)[0] = NewProjection
      /\ \A n \in 1 .. Len(q) + 1 : After(more)[n] = Apply(After(more)[n - 1], more[n])
  BY <1>1, AfterIs
<1>4. 0 \in S
  BY <1>2, <1>3
<1>5. ASSUME NEW n \in Nat, n \in S PROVE n + 1 \in S
  <2> SUFFICES ASSUME n + 1 <= Len(q) PROVE After(more)[n + 1] = After(q)[n + 1]
    OBVIOUS
  <2>1. n + 1 \in 1 .. Len(q) /\ n + 1 \in 1 .. Len(q) + 1 /\ (n + 1) - 1 = n /\ n <= Len(q)
    BY <1>1
  <2> QED BY <1>1, <1>2, <1>3, <1>5, <2>1
<1>6. Nat \subseteq S
  <2> HIDE DEF S
  <2> QED BY <1>4, <1>5, AllNaturals
<1>7. \A n \in 0 .. Len(q) : After(more)[n] = After(q)[n]
  BY <1>1, <1>6
<1>8. After(more)[Len(q) + 1] = Apply(After(q)[Len(q)], e)
  <2>1. Len(q) + 1 \in 1 .. Len(q) + 1 /\ (Len(q) + 1) - 1 = Len(q) /\ Len(q) \in 0 .. Len(q)
    BY <1>1
  <2> QED BY <1>1, <1>3, <1>7, <2>1
<1> QED BY <1>7, <1>8 DEF more

(* Every event of the log keeps the type of the projection.                *)
LEMMA ApplyType ==
  ASSUME NEW p \in Projection, NEW e \in Event
  PROVE  Apply(p, e) \in Projection
<1>1. CASE e.action = "contribute"
  <2>1. e.actor \in Actors /\ e.ts \in Nat
    BY <1>1 DEF Event
  <2>2. CASE e.target \notin WIPs \/ e.blank
    BY <1>1, <2>2 DEF Apply, ApplyContribute
  <2>3. CASE e.target \in WIPs /\ ~e.blank /\ p[e.target].phase = "complete"
    BY <1>1, <2>3 DEF Apply, ApplyContribute
  <2>4. CASE e.target \in WIPs /\ ~e.blank /\ p[e.target].phase # "complete"
    <3> DEFINE w == e.target
               fs == Append(p[w].fragments, e.actor)
               ph == RecomputePhase(fs)
               ts == IF ph = "complete" THEN e.ts ELSE p[w].completedTs
               next == [fragments |-> fs, phase |-> ph, completedTs |-> ts,
                        attempts |-> p[w].attempts]
    <3>1. Apply(p, e) = [p EXCEPT ![w] = next]
      BY <1>1, <2>4 DEF Apply, ApplyContribute, Projection
    <3>2. p[w] \in WIP
      BY <2>4 DEF Projection
    <3>3. fs \in Seq(Actors) /\ ph \in WIPPhase /\ ts \in Int
      BY <2>1, <3>2, PhaseType DEF WIP
    <3> HIDE DEF fs, ph, ts
    <3>4. next \in WIP
      BY <3>2, <3>3 DEF WIP
    <3> HIDE DEF next
    <3> QED BY <3>1, <3>4 DEF Projection
  <2> QED BY <2>2, <2>3, <2>4
<1>2. CASE e.action = "workshop.recycle"
  BY <1>2, NewProjectionType DEF Apply, ApplyRecycle, Projection
<1>3. CASE e.action = "workshop.harvest_attempt"
  <2>1. CASE e.target \in WIPs
    <3>1. Apply(p, e) = [p EXCEPT ![e.target].attempts = @ + 1]
      BY <1>3, <2>1 DEF Apply, ApplyHarvestAttempt
    <3> QED BY <2>1, <3>1 DEF Projection, WIP
  <2>2. CASE e.target \notin WIPs
    BY <1>3, <2>2 DEF Apply, ApplyHarvestAttempt
  <2> QED BY <2>1, <2>2
<1> QED BY <1>1, <1>2, <1>3 DEF Event

-----------------------------------------------------------------------------
(* What a log says of one WIP. *)

(* A recycle forgets the positions of its WIP; any other event of the WIP  *)
(* is one more, and the events of other WIPs are none.                     *)
LEMMA SinceRecycleAppend ==
  ASSUME NEW q \in Seq(Event), NEW e \in Event, NEW w \in WIPs
  PROVE  /\ SinceRecycle(q, w) \in SUBSET (1 .. Len(q))
         /\ SinceRecycle(Append(q, e), w) =
              IF e.target # w THEN SinceRecycle(q, w)
              ELSE IF e.action = "workshop.recycle" THEN {}
              ELSE SinceRecycle(q, w) \cup {Len(q) + 1}
<1> DEFINE n == Len(q)
           more == Append(q, e)
           cut(ev) == ev.action = "workshop.recycle" /\ ev.target = w
<1>1. /\ n \in Nat /\ DOMAIN q = 1 .. n /\ DOMAIN more = 1 .. n + 1 /\ Len(more) = n + 1
      /\ \A i \in 1 .. n : more[i] = q[i]
      /\ more[n + 1] = e
  BY AppendProperties, LenProperties
<1> HIDE DEF n, more
<1>2. SinceRecycle(q, w) = {i \in 1 .. n : q[i].target = w /\ \A j \in i .. n : ~cut(q[j])}
  BY <1>1 DEF SinceRecycle, n
<1>3. SinceRecycle(more, w)
        = {i \in 1 .. n + 1 : more[i].target = w /\ \A j \in i .. n + 1 : ~cut(more[j])}
  BY <1>1 DEF SinceRecycle
<1> HIDE DEF cut
<1>4. ASSUME NEW i \in 1 .. n
      PROVE  (\A j \in i .. n + 1 : ~cut(more[j])) <=> (~cut(e) /\ \A j \in i .. n : ~cut(q[j]))
  <2>1. /\ n + 1 \in i .. n + 1
        /\ \A j \in i .. n : j \in i .. n + 1 /\ j \in 1 .. n
        /\ \A j \in i .. n + 1 : j \in i .. n \/ j = n + 1
    BY <1>1
  <2> QED BY <1>1, <2>1, Zenon
<1>5. (\A j \in n + 1 .. n + 1 : ~cut(more[j])) <=> ~cut(e)
  <2>1. \A j : j \in n + 1 .. n + 1 <=> j = n + 1
    BY <1>1
  <2> QED BY <1>1, <2>1, Zenon
<1>6. /\ \A i : i \in 1 .. n + 1 <=> (i \in 1 .. n \/ i = n + 1)
      /\ n + 1 \notin 1 .. n
  BY <1>1
<1>7. \A i : i \in SinceRecycle(more, w) <=>
        \/ i \in 1 .. n /\ q[i].target = w /\ ~cut(e) /\ \A j \in i .. n : ~cut(q[j])
        \/ i = n + 1 /\ e.target = w /\ ~cut(e)
  <2> TAKE i
  <2>1. CASE i \in 1 .. n
    BY <1>1, <1>3, <1>4, <1>6, <2>1, Zenon
  <2>2. CASE i = n + 1
    BY <1>1, <1>3, <1>5, <1>6, <2>2, Zenon
  <2>3. CASE i \notin 1 .. n + 1
    BY <1>3, <1>6, <2>3, Zenon
  <2> QED BY <1>6, <2>1, <2>2, <2>3, Zenon
<1>8. CASE e.target # w
  <2>1. ~cut(e)
    BY <1>8 DEF cut
  <2> QED BY <1>2, <1>7, <1>8, <2>1, Zenon DEF more, n
<1>9. CASE e.target = w /\ e.action = "workshop.recycle"
  <2>1. cut(e)
    BY <1>9 DEF cut
  <2> QED BY <1>2, <1>7, <1>9, <2>1, Zenon DEF more, n
<1>10. CASE e.target = w /\ e.action # "workshop.recycle"
  <2>1. ~cut(e)
    BY <1>10 DEF cut
  <2> QED BY <1>2, <1>7, <1>10, <2>1, Zenon DEF more, n
<1> QED BY <1>8, <1>9, <1>10

LEMMA OfferedAppend ==
  ASSUME NEW q \in Seq(Event), NEW e \in Event, NEW w \in WIPs
  PROVE  /\ Offered(q, w) \in SUBSET (1 .. Len(q))
         /\ Rejected(q, w) \in SUBSET (1 .. Len(q))
         /\ e.target # w \/ (e.action = "contribute" /\ e.blank) =>
              /\ Offered(Append(q, e), w) = Offered(q, w)
              /\ Rejected(Append(q, e), w) = Rejected(q, w)
         /\ e.target = w /\ e.action = "workshop.recycle" =>
              /\ Offered(Append(q, e), w) = {}
              /\ Rejected(Append(q, e), w) = {}
         /\ e.target = w /\ e.action = "workshop.harvest_attempt" =>
              /\ Offered(Append(q, e), w) = Offered(q, w)
              /\ Rejected(Append(q, e), w) = Rejected(q, w) \cup {Len(q) + 1}
         /\ e.target = w /\ e.action = "contribute" /\ ~e.blank =>
              /\ Offered(Append(q, e), w) = Offered(q, w) \cup {Len(q) + 1}
              /\ Rejected(Append(q, e), w) = Rejected(q, w)
<1> DEFINE more == Append(q, e)
           new == Len(q) + 1
           K == SinceRecycle(q, w)
           L == SinceRecycle(more, w)
           fragment(ev) == ev.action = "contribute" /\ ~ev.blank
           rejection(ev) == ev.action = "workshop.harvest_attempt"
<1>1. /\ K \in SUBSET (1 .. Len(q))
      /\ L = IF e.target # w THEN K ELSE IF e.action = "workshop.recycle" THEN {} ELSE K \cup {new}
  BY SinceRecycleAppend
<1>2. /\ \A i \in K : more[i] = q[i] /\ i # new
      /\ more[new] = e
  BY <1>1, AppendProperties
<1>3. /\ Offered(q, w) = {i \in K : fragment(q[i])}
      /\ Rejected(q, w) = {i \in K : rejection(q[i])}
      /\ Offered(more, w) = {i \in L : fragment(more[i])}
      /\ Rejected(more, w) = {i \in L : rejection(more[i])}
  BY DEF Offered, Rejected
<1>4. Offered(q, w) \in SUBSET (1 .. Len(q)) /\ Rejected(q, w) \in SUBSET (1 .. Len(q))
  BY <1>1, <1>3
<1>5. ASSUME e.target # w
      PROVE  Offered(more, w) = Offered(q, w) /\ Rejected(more, w) = Rejected(q, w)
  <2> HIDE DEF K, L, more, new, fragment, rejection
  <2>1. L = K
    BY <1>1, <1>5
  <2> QED BY <1>2, <1>3, <2>1, Zenon
<1>6. ASSUME e.target = w, e.action = "workshop.recycle"
      PROVE  Offered(more, w) = {} /\ Rejected(more, w) = {}
  <2> HIDE DEF K, L, more, new, fragment, rejection
  <2>1. L = {}
    BY <1>1, <1>6
  <2> QED BY <1>3, <2>1, Zenon
<1>7. ASSUME e.target = w, e.action # "workshop.recycle"
      PROVE  /\ ~fragment(e) => Offered(more, w) = Offered(q, w)
             /\ ~rejection(e) => Rejected(more, w) = Rejected(q, w)
             /\ fragment(e) => Offered(more, w) = Offered(q, w) \cup {new}
             /\ rejection(e) => Rejected(more, w) = Rejected(q, w) \cup {new}
  <2> HIDE DEF K, L, more, new, fragment, rejection
  <2>1. L = K \cup {new}
    BY <1>1, <1>7
  <2>2. ~fragment(e) => Offered(more, w) = Offered(q, w)
    BY <1>2, <1>3, <2>1, Zenon
  <2>3. ~rejection(e) => Rejected(more, w) = Rejected(q, w)
    BY <1>2, <1>3, <2>1, Zenon
  <2>4. fragment(e) => Offered(more, w) = Offered(q, w) \cup {new}
    BY <1>2, <1>3, <2>1, Zenon
  <2>5. rejection(e) => Rejected(more, w) = Rejected(q, w) \cup {new}
    BY <1>2, <1>3, <2>1, Zenon
  <2> QED BY <2>2, <2>3, <2>4, <2>5, Zenon
<1> HIDE DEF K, L
<1>8. CASE e.target # w
  BY <1>4, <1>5, <1>8
<1>9. CASE e.target = w /\ e.action = "workshop.recycle"
  BY <1>4, <1>6, <1>9
<1>10. CASE e.target = w /\ e.action # "workshop.recycle"
  BY <1>4, <1>7, <1>10
<1> QED BY <1>8, <1>9, <1>10

LEMMA KeptAppend ==
  ASSUME NEW at \in Seq(Event), NEW e \in Event
  PROVE  /\ Kept(at) \in Seq(Event) /\ Len(Kept(at)) <= CompleteFloor
         /\ Len(at) >= CompleteFloor =>
              Kept(Append(at, e)) = Kept(at) /\ Len(Kept(at)) = CompleteFloor
         /\ Len(at) < CompleteFloor =>
              Kept(at) = at /\ Kept(Append(at, e)) = Append(at, e)
<1> DEFINE n == Len(at)
           c == CompleteFloor
           more == Append(at, e)
<1>1. n \in Nat /\ c \in Nat \ {0}
  BY WorkshopAssumption
<1>2. more \in Seq(Event) /\ Len(more) = n + 1
  BY AppendProperties
<1>3. SubSeq(at, 1, n) = at /\ SubSeq(more, 1, n + 1) = more
  BY <1>2, SubSeqFull
<1>4. CASE n >= c
  <2>1. 1 \in 1 .. n /\ c \in 1 .. n
    BY <1>1, <1>4
  <2>2. SubSeq(more, 1, c) = SubSeq(at, 1, c)
    <3>1. more = at \o <<e>> /\ <<e>> \in Seq(Event)
      BY AppendIsConcat
    <3> HIDE DEF more
    <3> QED BY <2>1, <3>1, SubSeqOfConcat1
  <2>3. SubSeq(at, 1, c) \in Seq(Event) /\ Len(SubSeq(at, 1, c)) = c
    <3>1. \A i \in 1 .. c : at[i] \in Event
      BY <1>1, <1>4
    <3> QED BY <1>1, <3>1, SubSeqProperties
  <2>4. Kept(at) = SubSeq(at, 1, c)
    BY <1>4 DEF Kept
  <2>5. Kept(more) = SubSeq(more, 1, c)
    <3>1. Len(more) >= c
      BY <1>1, <1>2, <1>4
    <3> HIDE DEF more
    <3> QED BY <3>1 DEF Kept
  <2> QED BY <1>1, <1>4, <2>2, <2>3, <2>4, <2>5
<1>5. CASE n < c
  <2>1. Kept(at) = at
    <3>1. (IF Len(at) >= c THEN c ELSE Len(at)) = n
      BY <1>1, <1>5
    <3> QED BY <1>3, <3>1 DEF Kept
  <2>2. Kept(more) = more
    <3>1. (IF Len(more) >= c THEN c ELSE Len(more)) = n + 1
      BY <1>1, <1>2, <1>5
    <3> HIDE DEF more
    <3> QED BY <1>3, <3>1 DEF Kept
  <2> QED BY <1>1, <1>5, <2>1, <2>2
<1> QED BY <1>1, <1>4, <1>5

(* RecomputePhase and the floor of a complete WIP.                         *)
LEMMA CompleteIff ==
  ASSUME NEW fragments
  PROVE  /\ RecomputePhase(fragments) = "complete" <=> Len(fragments) >= CompleteFloor
         /\ RecomputePhase(<< >>) = "forming"
<1>1. Cardinality(Contributors(<< >>)) = 0
  <2>1. Contributors(<< >>) = {}
    BY DEF Contributors
  <2> QED BY <2>1, FS_EmptySet
<1>2. RecomputePhase(<< >>) = "forming"
  BY <1>1, WorkshopAssumption DEF RecomputePhase
<1>3. RecomputePhase(fragments) = "complete" <=> Len(fragments) >= CompleteFloor
  BY DEF RecomputePhase
<1> QED BY <1>2, <1>3

(* The handlers of workshop.py keep what the log says, event by event.     *)
LEMMA WIPOfAppend ==
  ASSUME NEW q \in Seq(Event), NEW e \in Event, NEW p \in Projection,
         NEW w \in WIPs, p[w] = WIPOf(q, w)
  PROVE  Apply(p, e)[w] = WIPOf(Append(q, e), w)
<1> DEFINE more == Append(q, e)
           off == Offered(q, w)
           rej == Rejected(q, w)
           at == EventsAt(q, off)
           kept == Kept(at)
<1>1. off \in SUBSET (1 .. Len(q)) /\ rej \in SUBSET (1 .. Len(q))
  BY OfferedAppend
<1>2. /\ at \in Seq(Event)
      /\ EventsAt(more, off) = at
      /\ EventsAt(more, off \cup {Len(q) + 1}) = Append(at, e)
  <2>1. EventsAt(q, off) \in Seq(Event)
    BY <1>1, EventsAtType
  <2>2. EventsAt(Append(q, e), off) = EventsAt(q, off)
    BY <1>1, EventsAtKept
  <2>3. EventsAt(Append(q, e), off \cup {Len(q) + 1}) = Append(EventsAt(q, off), e)
    BY <1>1, EventsAtAppend
  <2> QED BY <2>1, <2>2, <2>3
<1>3. p[w] = [fragments   |-> ActorsOf(kept),
              phase       |-> RecomputePhase(ActorsOf(kept)),
              completedTs |-> IF Len(kept) = CompleteFloor THEN kept[CompleteFloor].ts ELSE 0,
              attempts    |-> Cardinality(rej)]
  BY DEF WIPOf
<1>4. p[w] \in WIP
  BY DEF Projection
<1>5. ASSUME Offered(more, w) = off, Rejected(more, w) = rej
      PROVE  WIPOf(more, w) = p[w]
  <2>1. EventsAt(more, Offered(more, w)) = at
    BY <1>2, <1>5
  <2> HIDE DEF more, off, rej, at
  <2> QED BY <1>3, <1>5, <2>1 DEF WIPOf
<1>6. CASE e.target # w
  <2>1. WIPOf(more, w) = p[w]
    BY <1>5, <1>6, OfferedAppend
  <2>2. Apply(p, e)[w] = p[w]
    <3>1. CASE e.target \notin WIPs
      BY <3>1 DEF Apply, ApplyContribute, ApplyRecycle, ApplyHarvestAttempt
    <3>2. CASE e.target \in WIPs
      BY <1>6, <3>2 DEF Apply, ApplyContribute, ApplyRecycle, ApplyHarvestAttempt, Projection
    <3> QED BY <3>1, <3>2
  <2> QED BY <2>1, <2>2
<1>7. CASE e.target = w /\ e.action = "workshop.recycle"
  <2>1. Offered(more, w) = {} /\ Rejected(more, w) = {}
    BY <1>7, OfferedAppend
  <2>2. EventsAt(more, {}) = << >> /\ Kept(<< >>) = << >> /\ ActorsOf(<< >>) = << >>
        /\ Len(<< >>) = 0 /\ Cardinality({}) = 0
    <3>1. Kept(<< >>) = << >>
      <4>1. SubSeq(<< >>, 1, 0) = << >>
        BY SubSeqEmpty
      <4>2. (IF Len(<< >>) >= CompleteFloor THEN CompleteFloor ELSE Len(<< >>)) = 0
        BY WorkshopAssumption
      <4> QED BY <4>1, <4>2 DEF Kept
    <3>2. ActorsOf(<< >>) = << >>
      BY DEF ActorsOf
    <3> QED BY <3>1, <3>2, EventsAtNone, FS_EmptySet
  <2>3. 0 # CompleteFloor
    BY WorkshopAssumption
  <2>4. WIPOf(more, w) = NewWIP
    <3> HIDE DEF more
    <3> QED BY <2>1, <2>2, <2>3, CompleteIff DEF WIPOf, NewWIP
  <2>5. Apply(p, e)[w] = NewWIP
    BY <1>7 DEF Apply, ApplyRecycle, Projection
  <2> QED BY <2>4, <2>5
<1>8. CASE e.target = w /\ e.action = "workshop.harvest_attempt"
  <2>1. Offered(more, w) = off /\ Rejected(more, w) = rej \cup {Len(q) + 1}
    BY <1>8, OfferedAppend
  <2>2. Cardinality(rej \cup {Len(q) + 1}) = Cardinality(rej) + 1
    <3>1. Len(q) \in Nat
      BY LenProperties
    <3> QED BY <1>1, <3>1, PlaceOfOneMore
  <2>3. EventsAt(more, Offered(more, w)) = at
    BY <1>2, <2>1
  <2>4. WIPOf(more, w) = [p[w] EXCEPT !.attempts = @ + 1]
    <3> HIDE DEF more, off, rej, at
    <3> QED BY <1>3, <2>1, <2>2, <2>3 DEF WIPOf
  <2>5. Apply(p, e)[w] = [p[w] EXCEPT !.attempts = @ + 1]
    BY <1>8 DEF Apply, ApplyHarvestAttempt, Projection
  <2> QED BY <2>4, <2>5
<1>9. CASE e.target = w /\ e.action = "contribute" /\ e.blank
  <2>1. WIPOf(more, w) = p[w]
    BY <1>5, <1>9, OfferedAppend
  <2>2. Apply(p, e)[w] = p[w]
    BY <1>9 DEF Apply, ApplyContribute
  <2> QED BY <2>1, <2>2
<1>10. CASE e.target = w /\ e.action = "contribute" /\ ~e.blank
  <2>1. Offered(more, w) = off \cup {Len(q) + 1} /\ Rejected(more, w) = rej
    BY <1>10, OfferedAppend
  <2>2. EventsAt(more, Offered(more, w)) = Append(at, e)
    BY <1>2, <2>1
  <2>3. e.actor \in Actors /\ e.ts \in Nat
    BY <1>10 DEF Event
  <2>4. ActorsOf(kept) \in Seq(Actors)
    BY <1>3, <1>4 DEF WIP
  <2>5. Len(ActorsOf(kept)) = Len(kept)
    BY <1>2, <2>4, KeptAppend, ActorsOfAppend
  <2>6. CASE Len(at) >= CompleteFloor
    <3>1. Kept(Append(at, e)) = kept /\ Len(kept) = CompleteFloor
      BY <1>2, <2>6, KeptAppend
    <3>2. WIPOf(more, w) = p[w]
      <4> HIDE DEF more, off, rej, at
      <4> QED BY <1>3, <2>1, <2>2, <3>1 DEF WIPOf
    <3>3. p[w].phase = "complete"
      BY <1>3, <2>5, <3>1, CompleteIff, WorkshopAssumption
    <3>4. Apply(p, e)[w] = p[w]
      BY <1>10, <3>3 DEF Apply, ApplyContribute
    <3> QED BY <3>2, <3>4
  <2>7. CASE Len(at) < CompleteFloor
    <3> DEFINE fs == Append(p[w].fragments, e.actor)
    <3>1. kept = at /\ Kept(Append(at, e)) = Append(at, e)
      BY <1>2, <2>7, KeptAppend
    <3>2. p[w].fragments = ActorsOf(at) /\ ActorsOf(at) \in Seq(Actors)
      BY <1>3, <2>4, <3>1
    <3>3. ActorsOf(Append(at, e)) = fs
      BY <1>2, <2>3, <3>2, ActorsOfAppend
    <3>4. /\ Len(at) \in Nat /\ Len(Append(at, e)) = Len(at) + 1
          /\ Append(at, e)[Len(at) + 1] = e
      BY <1>2, AppendProperties
    <3>5. Len(fs) = Len(at) + 1
      BY <1>2, <2>3, <3>2, ActorsOfAppend, AppendProperties
    <3>6. p[w].phase # "complete" /\ p[w].completedTs = 0
      <4>1. ~(Len(kept) >= CompleteFloor) /\ Len(kept) # CompleteFloor
        BY <2>7, <3>1, <3>4, WorkshopAssumption
      <4>2. p[w].phase # "complete"
        BY <1>3, <2>5, <4>1, CompleteIff
      <4>3. p[w].completedTs = 0
        BY <1>3, <4>1
      <4> QED BY <4>2, <4>3
    <3>7. RecomputePhase(fs) = "complete" <=> Len(at) + 1 = CompleteFloor
      <4>1. Len(at) + 1 >= CompleteFloor <=> Len(at) + 1 = CompleteFloor
        BY <2>7, <3>4, WorkshopAssumption
      <4> HIDE DEF fs
      <4> QED BY <3>5, <4>1, CompleteIff
    <3> DEFINE next == [fragments   |-> fs,
                        phase       |-> RecomputePhase(fs),
                        completedTs |-> IF Len(at) + 1 = CompleteFloor THEN e.ts ELSE 0,
                        attempts    |-> p[w].attempts]
    <3>8. WIPOf(more, w) = next
      <4>1. Cardinality(Rejected(more, w)) = p[w].attempts
        BY <1>3, <2>1
      <4> HIDE DEF more, off, rej, at, fs
      <4> QED BY <2>2, <3>1, <3>3, <3>4, <4>1 DEF WIPOf
    <3>9. Apply(p, e)[w] = next
      <4> HIDE DEF at, next, fs
      <4>1. Apply(p, e) = [p EXCEPT ![w] =
              [fragments   |-> fs,
               phase       |-> RecomputePhase(fs),
               completedTs |-> IF RecomputePhase(fs) = "complete" THEN e.ts ELSE p[w].completedTs,
               attempts    |-> p[w].attempts]]
        BY <1>10, <3>6 DEF Apply, ApplyContribute, Projection, fs
      <4> QED BY <3>6, <3>7, <4>1 DEF Projection, next
    <3> QED BY <3>8, <3>9
  <2>8. Len(at) \in Nat /\ CompleteFloor \in Nat
    BY <1>2, WorkshopAssumption
  <2> HIDE DEF at
  <2> QED BY <2>6, <2>7, <2>8
<1> QED BY <1>6, <1>7, <1>8, <1>9, <1>10 DEF Event

(* A cold log holds fresh WIPs.                                            *)
LEMMA WIPOfNothing ==
  ASSUME NEW w \in WIPs
  PROVE  WIPOf(<< >>, w) = NewWIP
<1>1. Offered(<< >>, w) = {} /\ Rejected(<< >>, w) = {}
  BY DEF Offered, Rejected, SinceRecycle
<1>2. SubSeq(<< >>, 1, 0) = << >>
  BY SubSeqEmpty
<1>3. (IF Len(<< >>) >= CompleteFloor THEN CompleteFloor ELSE Len(<< >>)) = 0
  BY WorkshopAssumption
<1>4. Kept(<< >>) = << >>
  BY <1>2, <1>3 DEF Kept
<1>5. ActorsOf(<< >>) = << >> /\ Len(<< >>) # CompleteFloor
  BY WorkshopAssumption DEF ActorsOf
<1>6. EventsAt(<< >>, {}) = << >> /\ Cardinality({}) = 0
  BY EventsAtNone, FS_EmptySet
<1> QED BY <1>1, <1>4, <1>5, <1>6, CompleteIff DEF WIPOf, NewWIP

(* Whatever a log holds, its replay is what the log says of every WIP.     *)
LEMMA ReplayMeansLog ==
  ASSUME NEW q \in Seq(Event)
  PROVE  Replay(q) \in Projection /\ \A w \in WIPs : Replay(q)[w] = WIPOf(q, w)
<1> DEFINE right(s) == Replay(s) \in Projection /\ \A w \in WIPs : Replay(s)[w] = WIPOf(s, w)
           S == {n \in Nat : \A s \in Seq(Event) : Len(s) = n => right(s)}
<1>1. 0 \in S
  <2> SUFFICES ASSUME NEW s \in Seq(Event), Len(s) = 0 PROVE right(s)
    OBVIOUS
  <2>1. s = << >>
    BY EmptySeq
  <2>2. Replay(s) = NewProjection
    <3>1. After(s)[0] = NewProjection
      BY AfterIs
    <3> QED BY <3>1 DEF Replay
  <2>3. \A w \in WIPs : NewProjection[w] = WIPOf(<< >>, w)
    BY WIPOfNothing DEF NewProjection
  <2> QED BY <2>1, <2>2, <2>3, NewProjectionType
<1>2. ASSUME NEW n \in Nat, n \in S PROVE n + 1 \in S
  <2> SUFFICES ASSUME NEW s \in Seq(Event), Len(s) = n + 1 PROVE right(s)
    OBVIOUS
  <2>1. s # << >>
    BY EmptySeq
  <2>2. PICK front \in Seq(Event), e \in Event : s = Append(front, e)
    BY <2>1, SequenceEmptyOrAppend
  <2>3. Len(front) \in Nat /\ Len(s) = Len(front) + 1
    BY <2>2, AppendProperties, LenProperties
  <2>4. Len(front) = n
    BY <2>3
  <2>5. right(front)
    BY <1>2, <2>4
  <2>6. Replay(s) = Apply(Replay(front), e)
    <3>1. After(s)[Len(front) + 1] = Apply(After(front)[Len(front)], e)
      BY <2>2, AfterAppend
    <3> QED BY <2>3, <3>1 DEF Replay
  <2>7. Replay(s) \in Projection
    BY <2>5, <2>6, ApplyType
  <2>8. ASSUME NEW w \in WIPs PROVE Replay(s)[w] = WIPOf(s, w)
    <3>1. Apply(Replay(front), e)[w] = WIPOf(Append(front, e), w)
      BY <2>5, WIPOfAppend
    <3> QED BY <2>2, <2>6, <3>1
  <2> QED BY <2>7, <2>8
<1>3. Len(q) \in Nat
  BY LenProperties
<1>4. Nat \subseteq S
  <2> HIDE DEF S
  <2> QED BY <1>1, <1>2, AllNaturals
<1> QED BY <1>3, <1>4

-----------------------------------------------------------------------------
(* The live projection. *)

LEMMA LogInvInit == Init => LogInv
<1> SUFFICES ASSUME Init PROVE LogInv
  OBVIOUS
<1>1. log = << >> /\ inflight = << >> /\ log \in Seq(Event) /\ Len(log) = 0
  BY EmptySeq DEF Init
<1>2. LogTypeOK
  BY <1>1, NewProjectionType DEF Init, LogTypeOK
<1>3. Mirrored = 0
  BY <1>1 DEF Mirrored
<1>4. wips = After(log)[Mirrored]
  BY <1>1, <1>3, AfterIs DEF Init
<1>5. \A w \in WIPs : Completions(w) = {}
  BY <1>1 DEF Completions
<1>6. pending = {w \in WIPs : \E i \in Completions(w) : i > drainedAt /\ i <= Mirrored}
  BY <1>5 DEF Init
<1> QED BY <1>1, <1>2, <1>4, <1>6 DEF LogInv

(* A commit leaves the edges of the events before it where they were.      *)
LEMMA CommitKeepsInv ==
  ASSUME LogInv, NEW e \in Event, Commit(e)
  PROVE  LogInv'
<1> DEFINE n == Len(log)
<1>1. /\ log \in Seq(Event) /\ n \in Nat /\ drainedAt \in 0 .. n
      /\ inflight = << >> /\ Mirrored = n
      /\ log' = Append(log, e) /\ inflight' = << e >>
      /\ wips' = wips /\ pending' = pending /\ drainedAt' = drainedAt
  BY LenProperties DEF Commit, LogInv, LogTypeOK, Mirrored
<1>2. /\ log' \in Seq(Event) /\ Len(log') = n + 1 /\ log'[n + 1] = e
      /\ \A i \in 1 .. n : log'[i] = log[i]
      /\ DOMAIN log = 1 .. n /\ DOMAIN log' = 1 .. n + 1
  BY <1>1, AppendProperties, LenProperties
<1>3. inflight' \in Seq(Event) /\ Len(inflight') = 1 /\ inflight'[1] = e
  BY <1>1
<1>4. Mirrored' = n
  BY <1>1, <1>2, <1>3 DEF Mirrored
<1>5. \A i \in 0 .. n : After(log')[i] = After(log)[i]
  BY <1>1, AfterAppend
<1>6. LogTypeOK'
  BY <1>1, <1>2, <1>3 DEF LogInv, LogTypeOK
<1>7. wips' = After(log')[Mirrored']
  BY <1>1, <1>4, <1>5 DEF LogInv
<1>8. ASSUME NEW w \in WIPs, NEW i \in 1 .. n
      PROVE  i \in Completions(w)' <=> i \in Completions(w)
  <2>1. i - 1 \in 0 .. n /\ i \in 1 .. n + 1
    BY <1>1
  <2>2. After(log')[i - 1] = After(log)[i - 1] /\ log'[i] = log[i]
    BY <1>2, <1>5, <2>1
  <2> QED BY <1>2, <2>1, <2>2, Zenon DEF Completions
<1>9. pending' = {w \in WIPs : \E i \in Completions(w)' : i > drainedAt' /\ i <= Mirrored'}
  <2>1. \A w \in WIPs : \A i \in Completions(w) : i \in 1 .. n
    BY <1>2 DEF Completions
  <2>2. \A w \in WIPs : \A i \in Completions(w)' : i <= n => i \in 1 .. n
    BY <1>1, <1>2 DEF Completions
  <2>3. pending = {w \in WIPs : \E i \in Completions(w) : i > drainedAt /\ i <= n}
    BY <1>1 DEF LogInv
  <2> HIDE DEF n
  <2> QED BY <1>1, <1>4, <1>8, <2>1, <2>2, <2>3, Zenon
<1>10. inflight'[1] = log'[Len(log')] /\ drainedAt' < Len(log') /\ Len(inflight') <= Len(log')
  BY <1>1, <1>2, <1>3
<1> QED BY <1>6, <1>7, <1>9, <1>10 DEF LogInv

LEMMA MirrorKeepsInv ==
  ASSUME LogInv, Mirror
  PROVE  LogInv'
<1> DEFINE n == Len(log)
<1>1. /\ log \in Seq(Event) /\ n \in Nat /\ drainedAt \in 0 .. n - 1
      /\ inflight \in Seq(Event) /\ Len(inflight) = 1 /\ inflight[1] = log[n]
      /\ n \in 1 .. n /\ Mirrored = n - 1
      /\ wips \in Projection
  <2>1. /\ log \in Seq(Event) /\ inflight \in Seq(Event) /\ Len(inflight) <= 1 /\ inflight # << >>
        /\ inflight[1] = log[n] /\ drainedAt < n /\ drainedAt \in 0 .. n /\ wips \in Projection
    BY DEF Mirror, LogInv, LogTypeOK
  <2>2. n \in Nat
    BY <2>1, LenProperties
  <2>3. Len(inflight) \in Nat \ {0}
    BY <2>1, EmptySeq
  <2>4. Len(inflight) = 1
    <3>1. \A k \in Nat \ {0} : k <= 1 => k = 1
      OBVIOUS
    <3> QED BY <2>1, <2>3, <3>1, Zenon
  <2> QED BY <2>1, <2>2, <2>4 DEF Mirrored
<1>2. /\ log' = log /\ inflight' = << >> /\ drainedAt' = drainedAt
      /\ wips' = Apply(wips, log[n])
      /\ pending' = pending \cup CompletedBy(wips, log[n])
  BY <1>1 DEF Mirror
<1>3. log[n] \in Event
  BY <1>1, ElementOfSeq
<1>4. After(log)[n] = Apply(After(log)[n - 1], log[n])
  BY <1>1, AfterIs
<1>5. Mirrored' = n
  BY <1>1, <1>2 DEF Mirrored
<1>6. wips = After(log)[n - 1]
  BY <1>1 DEF LogInv
<1>7. wips' = After(log')[Mirrored'] /\ wips' \in Projection
  BY <1>1, <1>2, <1>3, <1>4, <1>5, <1>6, ApplyType
<1>8. pending' \subseteq WIPs
  BY <1>2 DEF LogInv, LogTypeOK, CompletedBy
<1>9. LogTypeOK'
  <2>1. inflight' \in Seq(Event) /\ Len(inflight') = 0
    BY <1>2, EmptySeq
  <2> QED BY <1>1, <1>2, <1>7, <1>8, <2>1 DEF LogTypeOK
<1>10. pending' = {w \in WIPs : \E i \in Completions(w) : i > drainedAt /\ i <= n}
  <2>1. \A w \in WIPs : n \in Completions(w) <=> w \in CompletedBy(wips, log[n])
    <3>1. DOMAIN log = 1 .. n
      BY <1>1, LenProperties
    <3> QED BY <1>1, <1>6, <3>1 DEF Completions
  <2>2. \A w \in WIPs : \A i \in Completions(w) : i \in 1 .. n
    BY <1>1, LenProperties DEF Completions
  <2>3. pending = {w \in WIPs : \E i \in Completions(w) : i > drainedAt /\ i <= n - 1}
    BY <1>1 DEF LogInv
  <2>4. \A i \in 1 .. n : i <= n /\ (i <= n - 1 \/ i = n)
    BY <1>1
  <2>5. n > drainedAt
    BY <1>1
  <2>6. CompletedBy(wips, log[n]) \subseteq WIPs
    BY DEF CompletedBy
  <2>7. \A i : i <= n - 1 /\ i \in 1 .. n => i <= n
    BY <1>1
  <2> HIDE DEF n
  <2> QED BY <1>1, <1>2, <2>1, <2>2, <2>3, <2>4, <2>5, <2>6, Zenon
<1>11. \A w : Completions(w)' = Completions(w)
  BY <1>2 DEF Completions
<1> QED BY <1>1, <1>2, <1>5, <1>7, <1>9, <1>10, <1>11, EmptySeq DEF LogInv

LEMMA LogInvStep == LogInv /\ [Next]_vars => LogInv'
<1> SUFFICES ASSUME LogInv, [Next]_vars PROVE LogInv'
  OBVIOUS
<1>0. /\ log \in Seq(Event) /\ Len(log) \in Nat
      /\ wips \in Projection /\ pending \subseteq WIPs
  BY LenProperties DEF LogInv, LogTypeOK
<1>1. CASE CommitContribute
  <2>1. PICK w \in WIPs, a \in Actors : Commit(ContributeEvent(w, a, Now, FALSE))
    BY <1>1 DEF CommitContribute
  <2>2. ContributeEvent(w, a, Now, FALSE) \in Event
    BY <1>0 DEF ContributeEvent, Event, Now
  <2> QED BY <2>1, <2>2, CommitKeepsInv
<1>2. CASE CommitIgnored
  <2>1. PICK a \in Actors, w \in WIPs \cup {NoWIP} :
          Commit(ContributeEvent(w, a, Now, w # NoWIP))
    BY <1>2 DEF CommitIgnored
  <2>2. (w # NoWIP) \in BOOLEAN
    OBVIOUS
  <2>3. ContributeEvent(w, a, Now, w # NoWIP) \in Event
    BY <1>0, <2>2 DEF ContributeEvent, Event, Now
  <2> QED BY <2>1, <2>3, CommitKeepsInv
<1>3. CASE CommitLifecycle
  <2>1. PICK w \in WIPs : \/ Commit(RecycleEvent(w, Now))
                         \/ Commit(HarvestAttemptEvent(w, Now))
    BY <1>3 DEF CommitLifecycle, CompleteWIPs
  <2>2. RecycleEvent(w, Now) \in Event /\ HarvestAttemptEvent(w, Now) \in Event
    BY <1>0 DEF RecycleEvent, HarvestAttemptEvent, LifecycleEvent, Event, Now
  <2> QED BY <2>1, <2>2, CommitKeepsInv
<1>4. CASE Mirror
  BY <1>4, MirrorKeepsInv
<1>5. CASE Drain \/ Restart
  <2>1. /\ log' = log /\ inflight' = << >> /\ pending' = {} /\ drainedAt' = Len(log)
        /\ inflight' \in Seq(Event) /\ Len(inflight') = 0
    BY <1>5, EmptySeq DEF Drain, Restart
  <2>2. Mirrored' = Len(log)
    BY <1>0, <2>1 DEF Mirrored
  <2>3. wips' = After(log)[Len(log)] /\ wips' \in Projection
    <3>1. CASE Drain
      <4>1. Mirrored = Len(log)
        BY <1>0, <3>1 DEF Drain, Mirrored
      <4> QED BY <1>0, <3>1, <4>1 DEF Drain, LogInv
    <3>2. CASE Restart
      BY <1>0, <3>2, ReplayMeansLog DEF Restart, Replay
    <3> QED BY <1>5, <3>1, <3>2
  <2>4. LogTypeOK'
    BY <1>0, <2>1, <2>3 DEF LogTypeOK
  <2>5. pending' = {w \in WIPs : \E i \in Completions(w)' : i > drainedAt' /\ i <= Mirrored'}
    <3>1. \A w \in WIPs : \A i \in Completions(w)' : ~(i > Len(log))
      BY <1>0, <2>1 DEF Completions
    <3> QED BY <2>1, <3>1
  <2> QED BY <1>0, <2>1, <2>2, <2>3, <2>4, <2>5 DEF LogInv
<1>6. CASE UNCHANGED vars
  <2>1. /\ log' = log /\ wips' = wips /\ pending' = pending
        /\ inflight' = inflight /\ drainedAt' = drainedAt
    BY <1>6 DEF vars
  <2> QED BY <2>1 DEF LogInv, LogTypeOK, Mirrored, Completions
<1> QED BY <1>1, <1>2, <1>3, <1>4, <1>5, <1>6 DEF Next

(* Memory is where the mirrored part of the log has brought it, whatever   *)
(* was committed, mirrored, drained or lost with a process.                *)
THEOREM LogInvariant == Spec => []LogInv
<1> QED BY LogInvInit, LogInvStep, PTL DEF Spec

(* Every variable keeps its type.                                          *)
THEOREM LogTypeCorrect == Spec => []LogTypeOK
<1>1. LogInv => LogTypeOK
  BY DEF LogInv
<1> QED BY <1>1, LogInvariant, PTL

LEMMA SettledIsReplay ==
  ASSUME LogInv, inflight = << >>
  PROVE  Mirrored = Len(log) /\ wips = Replay(log)
<1>1. Len(log) \in Nat /\ Len(inflight) = 0
  BY LenProperties DEF LogInv, LogTypeOK
<1>2. Mirrored = Len(log)
  BY <1>1 DEF Mirrored
<1> QED BY <1>2 DEF LogInv, Replay

(* With nothing in flight, the projection kept event by event is the one a *)
(* cold rebuild of the log gives.                                          *)
THEOREM RestartIsDeterministic == Spec => []LiveIsReplay
<1>1. LogInv => LiveIsReplay
  BY SettledIsReplay DEF LiveIsReplay
<1> QED BY <1>1, LogInvariant, PTL

(* The handlers of workshop.py keep, of every WIP, exactly the fragments,  *)
(* the completion and the rejections that the log tells of since its last  *)
(* recycle.                                                                *)
THEOREM NoFragmentIsLost == Spec => []ProjectionMatchesLog
<1>1. LogInv => ProjectionMatchesLog
  <2> SUFFICES ASSUME LogInv, inflight = << >>, NEW w \in WIPs PROVE wips[w] = WIPOf(log, w)
    BY DEF ProjectionMatchesLog
  <2>1. wips = Replay(log) /\ log \in Seq(Event)
    BY SettledIsReplay DEF LogInv, LogTypeOK
  <2> QED BY <2>1, ReplayMeansLog
<1> QED BY <1>1, LogInvariant, PTL

(* The edge signal: the pending WIPs are those the log completed since the *)
(* last drain or rebuild, and no other.                                    *)
THEOREM EdgesAreSignalledOnce == Spec => []PendingAreUndrainedEdges
<1>1. LogInv => PendingAreUndrainedEdges
  <2> SUFFICES ASSUME LogInv, inflight = << >>
               PROVE  pending = {w \in WIPs : \E i \in Completions(w) : i > drainedAt}
    BY DEF PendingAreUndrainedEdges
  <2>1. Mirrored = Len(log) /\ Len(log) \in Nat /\ DOMAIN log = 1 .. Len(log)
    BY SettledIsReplay, LenProperties DEF LogInv, LogTypeOK
  <2>2. \A w \in WIPs : \A i \in Completions(w) : i <= Mirrored
    BY <2>1 DEF Completions
  <2> QED BY <2>2 DEF LogInv
<1> QED BY <1>1, LogInvariant, PTL
=============================================================================
