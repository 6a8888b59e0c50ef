----------------------------- MODULE SceneProofs -----------------------------
(***************************************************************************)
(* The event contract of scenes, for every set of WIPs and agents and any  *)
(* number of failed appends and kills: how one append changes what is read *)
(* of the log, then SceneInv, with a lemma for each of its parts.          *)
(***************************************************************************)
EXTENDS Scene, WorkshopProofs

-----------------------------------------------------------------------------
(* Reading a log that grows. *)

OfPositions(s) == {i \in DOMAIN log : log[i].scene = s}
TurnPositions(s) == {i \in DOMAIN log : log[i].scene = s /\ log[i].kind = "contribute"}

(* An append of one event.                                                 *)
LEMMA Appended ==
  ASSUME log \in Seq(SceneEvent), NEW e \in SceneEvent, log' = Append(log, e)
  PROVE  /\ Len(log) \in Nat /\ DOMAIN log = 1 .. Len(log)
         /\ log' \in Seq(SceneEvent)
         /\ DOMAIN log' = (1 .. Len(log)) \cup {Len(log) + 1}
         /\ \A i \in 1 .. Len(log) : log'[i] = log[i] /\ i # Len(log) + 1
         /\ log'[Len(log) + 1] = e
<1>1. /\ Len(log) \in Nat /\ DOMAIN log = 1 .. Len(log)
      /\ log' \in Seq(SceneEvent) /\ Len(log') = Len(log) + 1
      /\ \A i \in 1 .. Len(log) : log'[i] = log[i]
      /\ log'[Len(log) + 1] = e
  BY AppendProperties, LenProperties
<1>2. DOMAIN log' = 1 .. Len(log) + 1
  BY <1>1, LenProperties
<1>3. \A n \in Nat : /\ 1 .. n + 1 = (1 .. n) \cup {n + 1}
                     /\ \A i \in 1 .. n : i # n + 1
  OBVIOUS
<1> QED BY <1>1, <1>2, <1>3

(* A scene gets the events that bear its id, and the turns among them.     *)
LEMMA SceneReads ==
  ASSUME log \in Seq(SceneEvent), NEW e \in SceneEvent, log' = Append(log, e), NEW s
  PROVE  /\ Of(s) \in Seq(SceneEvent) /\ Turns(s) \in Seq(SceneEvent)
         /\ Of(s)' = IF e.scene = s THEN Append(Of(s), e) ELSE Of(s)
         /\ Turns(s)' = IF e.scene = s /\ e.kind = "contribute"
                        THEN Append(Turns(s), e) ELSE Turns(s)
<1> DEFINE n == Len(log)
           K == OfPositions(s)
           T == TurnPositions(s)
<1>1. K \in SUBSET (1 .. n) /\ T \in SUBSET (1 .. n)
  BY LenProperties DEF OfPositions, TurnPositions
<1>2. Of(s) \in Seq(SceneEvent) /\ Turns(s) \in Seq(SceneEvent)
  BY <1>1, EventsAtType DEF Of, Turns, OfPositions, TurnPositions
<1>3. K' = IF e.scene = s THEN K \cup {n + 1} ELSE K
  <2>1. CASE e.scene = s
    BY <2>1, Appended DEF OfPositions
  <2>2. CASE e.scene # s
    BY <2>2, Appended DEF OfPositions
  <2> QED BY <2>1, <2>2
<1>4. T' = IF e.scene = s /\ e.kind = "contribute" THEN T \cup {n + 1} ELSE T
  <2>1. CASE e.scene = s /\ e.kind = "contribute"
    BY <2>1, Appended DEF TurnPositions
  <2>2. CASE ~ (e.scene = s /\ e.kind = "contribute")
    BY <2>2, Appended DEF TurnPositions
  <2> QED BY <2>1, <2>2
<1>5. /\ Of(s) = EventsAt(log, K) /\ Turns(s) = EventsAt(log, T)
      /\ Of(s)' = EventsAt(Append(log, e), K')
      /\ Turns(s)' = EventsAt(Append(log, e), T')
  BY DEF Of, Turns, OfPositions, TurnPositions
<1> HIDE DEF K, T
<1>6. /\ EventsAt(Append(log, e), K) = EventsAt(log, K)
      /\ EventsAt(Append(log, e), T) = EventsAt(log, T)
  BY <1>1, EventsAtKept
<1>7. /\ EventsAt(Append(log, e), K \cup {n + 1}) = Append(EventsAt(log, K), e)
      /\ EventsAt(Append(log, e), T \cup {n + 1}) = Append(EventsAt(log, T), e)
  BY <1>1, EventsAtAppend
<1> QED BY <1>2, <1>3, <1>4, <1>5, <1>6, <1>7

(* What is read of a log that does not change does not change either.      *)
LEMMA SceneReadsSame ==
  ASSUME log' = log, NEW s
  PROVE  Of(s)' = Of(s) /\ Turns(s)' = Turns(s)
  BY DEF Of, Turns

(* A WIP holds the turns since its last recycle.                           *)
LEMMA HeldReads ==
  ASSUME log \in Seq(SceneEvent), NEW e \in SceneEvent, log' = Append(log, e),
         NEW w \in WIPs
  PROVE  /\ Held(w) \in SUBSET (1 .. Len(log))
         /\ Held(w)' = IF e = Recycled(w) THEN {}
                       ELSE IF e.kind = "contribute" /\ e.wip = w
                            THEN Held(w) \cup {Len(log) + 1} ELSE Held(w)
<1> DEFINE n == Len(log)
           turnOf(ev) == ev.kind = "contribute" /\ ev.wip = w
           cut(ev) == ev = Recycled(w)
<1>1. /\ n \in Nat /\ DOMAIN log = 1 .. n /\ Len(log') = n + 1
      /\ DOMAIN log' = (1 .. n) \cup {n + 1}
      /\ \A i \in 1 .. n : log'[i] = log[i] /\ i # n + 1
      /\ log'[n + 1] = e
  BY Appended, AppendProperties
<1>2. Held(w) = {i \in 1 .. n : turnOf(log[i]) /\ \A j \in i .. n : ~cut(log[j])}
  BY <1>1 DEF Held
<1>3. Held(w)' = {i \in (1 .. n) \cup {n + 1} :
                   turnOf(log'[i]) /\ \A j \in i .. n + 1 : ~cut(log'[j])}
  BY <1>1 DEF Held
<1>4. turnOf(e) => ~cut(e)
  BY DEF Recycled
<1> HIDE DEF n, turnOf, cut
<1>5. ASSUME NEW i \in 1 .. n
      PROVE  (\A j \in i .. n + 1 : ~cut(log'[j])) <=> (~cut(e) /\ \A j \in i .. n : ~cut(log[j]))
  <2>1. /\ n + 1 \in i .. n + 1
        /\ \A j \in i .. n : j \in i .. n + 1 /\ j \in 1 .. n
        /\ \A j \in i .. n + 1 : j \in i .. n \/ j = n + 1
    BY <1>1
  <2> QED BY <1>1, <2>1, Zenon
<1>6. (\A j \in n + 1 .. n + 1 : ~cut(log'[j])) <=> ~cut(e)
  <2>1. \A j : j \in n + 1 .. n + 1 <=> j = n + 1
    BY <1>1
  <2> QED BY <1>1, <2>1, Zenon
<1>7. Held(w) \in SUBSET (1 .. n)
  BY <1>2
<1>8. \A i : i \in Held(w)' <=>
        \/ i \in 1 .. n /\ turnOf(log[i]) /\ ~cut(e) /\ \A j \in i .. n : ~cut(log[j])
        \/ i = n + 1 /\ turnOf(e) /\ ~cut(e)
  <2> TAKE i
  <2>1. CASE i \in 1 .. n
    BY <1>1, <1>3, <1>5, <2>1, Zenon
  <2>2. CASE i = n + 1
    BY <1>1, <1>3, <1>6, <2>2, Zenon
  <2>3. CASE i \notin (1 .. n) \cup {n + 1}
    BY <1>3, <2>3, Zenon
  <2> QED BY <2>1, <2>2, <2>3, Zenon
<1>9. CASE cut(e)
  <2>1. Held(w)' = {}
    BY <1>8, <1>9, Zenon
  <2> QED BY <1>7, <1>9, <2>1 DEF cut, n
<1>10. CASE ~cut(e) /\ turnOf(e)
  <2>1. Held(w)' = Held(w) \cup {n + 1}
    BY <1>2, <1>8, <1>10, Zenon
  <2> QED BY <1>7, <1>10, <2>1 DEF cut, turnOf, n
<1>11. CASE ~cut(e) /\ ~turnOf(e)
  <2>1. Held(w)' = Held(w)
    BY <1>2, <1>8, <1>11, Zenon
  <2> QED BY <1>7, <1>11, <2>1 DEF cut, turnOf, n
<1> QED BY <1>9, <1>10, <1>11

-----------------------------------------------------------------------------
(* What each action writes. *)

(* The casts pick_authors can return.                                      *)
LEMMA CastsAre ==
  ASSUME NEW as
  PROVE  as \in Casts <=>
           \E a \in Actors : \E b \in Actors \ {a} : \E c \in Closers(a, b) : as = <<a, b, c>>
<1>1. as \in Casts <=> \E a \in Actors : as \in PickAuthors(a)
  BY DEF Casts
<1>2. ASSUME NEW a \in Actors
      PROVE  as \in PickAuthors(a) <=>
               \E b \in Actors \ {a} : as \in {<<a, b, c>> : c \in Closers(a, b)}
  BY DEF PickAuthors
<1>3. ASSUME NEW a \in Actors, NEW b \in Actors
      PROVE  as \in {<<a, b, c>> : c \in Closers(a, b)} <=> \E c \in Closers(a, b) : as = <<a, b, c>>
  OBVIOUS
<1> QED BY <1>1, <1>2, <1>3, Zenon

(* pick_authors: three agents, the second one not the first.               *)
LEMMA CastMembers ==
  ASSUME NEW as \in Casts
  PROVE  /\ as[1] \in Actors /\ as[2] \in Actors /\ as[3] \in Actors
         /\ as[1] # as[2] /\ as[2] # as[3]
         /\ as[1] = as[3] => Actors = {as[1], as[2]}
<1>1. PICK a \in Actors : \E b \in Actors \ {a} : \E c \in Closers(a, b) : as = <<a, b, c>>
  BY CastsAre
<1>2. PICK b \in Actors \ {a} : \E c \in Closers(a, b) : as = <<a, b, c>>
  BY <1>1
<1>3. PICK c \in Closers(a, b) : as = <<a, b, c>>
  BY <1>2
<1>4. CASE Actors \ {a, b} = {}
  <2>1. c = a
    BY <1>4 DEF Closers
  <2> QED BY <1>4, <1>3, <2>1
<1>5. CASE Actors \ {a, b} # {}
  <2>1. c \in Actors \ {a, b}
    BY <1>5 DEF Closers
  <2> QED BY <1>3, <2>1
<1> QED BY <1>4, <1>5

(* A step that writes an event of an earlier scene, or of none, leaves the *)
(* types of the log right.                                                 *)
LEMMA LogTypeStep ==
  ASSUME SceneTypeOK, NEW e \in SceneEvent, log' = Append(log, e),
         scene' \in Nat, scene <= scene', e.scene <= scene'
  PROVE  log' \in Seq(SceneEvent) /\ \A i \in DOMAIN log' : log'[i].scene <= scene'
<1>1. log \in Seq(SceneEvent) /\ scene \in Nat
  BY DEF SceneTypeOK
<1>2. ASSUME NEW i \in DOMAIN log' PROVE log'[i].scene <= scene'
  <2>1. CASE i = Len(log) + 1
    BY <1>1, <2>1, Appended
  <2>2. CASE i \in 1 .. Len(log)
    <3>1. log[i].scene <= scene /\ log[i] \in SceneEvent /\ log'[i] = log[i]
      BY <1>1, <2>2, Appended DEF SceneTypeOK
    <3>2. log[i].scene \in Nat
      BY <3>1 DEF SceneEvent
    <3> QED BY <1>1, <3>1, <3>2
  <2> QED BY <1>1, <2>1, <2>2, Appended
<1> QED BY <1>1, <1>2, Appended

(* The turn events and the events of run() are of the log's type.          *)
LEMMA EventTypes ==
  /\ \A s \in Nat, k \in 0 .. 3, a \in Actors, w \in WIPs : TurnEvent(s, k, a, w) \in SceneEvent
  /\ \A s \in Nat, as \in Casts, w \in WIPs : OpenEvent(s, as, w) \in SceneEvent
  /\ \A s \in Nat, k \in 0 .. 2 : AbortEvent(s, k) \in SceneEvent
  /\ \A w \in WIPs : Recycled(w) \in SceneEvent
<1>1. \A s \in Nat, k \in 0 .. 3, a \in Actors, w \in WIPs : TurnEvent(s, k, a, w) \in SceneEvent
  BY DEF TurnEvent, SceneEvent
<1>2. \A s \in Nat, as \in Casts, w \in WIPs : OpenEvent(s, as, w) \in SceneEvent
  BY DEF OpenEvent, SceneEvent
<1>3. \A s \in Nat, k \in 0 .. 2 : AbortEvent(s, k) \in SceneEvent
  BY DEF AbortEvent, SceneEvent
<1>4. \A w \in WIPs : Recycled(w) \in SceneEvent
  BY DEF Recycled, SceneEvent
<1> QED BY <1>1, <1>2, <1>3, <1>4

(* A contribute that is accepted lands in its WIP and nowhere else.        *)
LEMMA ContributeLands ==
  ASSUME SceneTypeOK, NoBlackHole, NEW s \in 0 .. scene, NEW k \in 0 .. 3,
         NEW a \in Actors, NEW w \in WIPs, AcceptsContribute(w), Contribute(s, k, a, w),
         scene' = scene
  PROVE  /\ NoBlackHole' /\ wips' \in Projection
         /\ log' \in Seq(SceneEvent) /\ \A i \in DOMAIN log' : log'[i].scene <= scene'
<1> DEFINE e == TurnEvent(s, k, a, w)
<1>1. /\ log \in Seq(SceneEvent) /\ wips \in Projection /\ scene \in Nat
      /\ log' = Append(log, e) /\ wips' = Apply(wips, ContributeEvent(w, a, 0, FALSE))
  BY DEF SceneTypeOK, Contribute
<1>2. e \in SceneEvent
  BY <1>1, EventTypes
<1>3. e.scene = s /\ e.kind = "contribute" /\ e.wip = w /\ e.actor = a
      /\ \A v \in WIPs : e # Recycled(v)
  BY DEF TurnEvent, Recycled
<1> HIDE DEF e
<1>4. /\ wips' \in Projection
      /\ \A v \in WIPs : v # w => wips'[v] = wips[v]
      /\ wips'[w].fragments = Append(wips[w].fragments, a)
  <2>1. w \in OpenSlots(wips)
    BY DEF AcceptsContribute, OpenSlots
  <2>0. PICK ts \in Int : ts = 0
    OBVIOUS
  <2> DEFINE ce == ContributeEvent(w, a, ts, FALSE)
  <2>a. ts \in Int /\ a \in Actors /\ w \in WIPs
    OBVIOUS
  <2>2. wips \in Projection
    BY <1>1
  <2>3. Apply(wips, ce) \in Projection
    <3>1. PICK e1 : e1 = ce
      OBVIOUS
    <3> HIDE DEF ce
    <3>2. Apply(wips, e1) \in Projection
      BY <2>a, <2>1, <2>2, <3>1, ContributeEffect DEF ce
    <3> QED BY <3>1, <3>2
  <2>5. ASSUME NEW v \in WIPs, v # w PROVE Apply(wips, ce)[v] = wips[v]
    BY <2>2, <2>5, ContributeElsewhere, Zenon
  <2>4. Apply(wips, ce)[w].fragments = Append(wips[w].fragments, a)
    BY <2>1, <2>2, ContributeAppends, Zenon
  <2> QED BY <1>1, <2>0, <2>3, <2>4, <2>5
<1>5. ASSUME NEW v \in WIPs PROVE wips'[v].fragments = ActorsOf(EventsAt(log, Held(v)))'
  <2>1. /\ Held(v) \in SUBSET (1 .. Len(log))
        /\ Held(v)' = IF v = w THEN Held(v) \cup {Len(log) + 1} ELSE Held(v)
    BY <1>1, <1>2, <1>3, HeldReads
  <2>2. wips[v].fragments = ActorsOf(EventsAt(log, Held(v)))
    BY DEF NoBlackHole
  <2>3. CASE v # w
    <3>1. EventsAt(log', Held(v)) = EventsAt(log, Held(v))
      BY <1>1, <1>2, <2>1, EventsAtKept
    <3> QED BY <1>4, <2>1, <2>2, <2>3, <3>1
  <2>4. CASE v = w
    <3> DEFINE at == EventsAt(log, Held(v))
    <3>1. EventsAt(log', Held(v)') = Append(at, e)
      <4>1. EventsAt(Append(log, e), Held(v) \cup {Len(log) + 1}) = Append(EventsAt(log, Held(v)), e)
        BY <1>1, <1>2, <2>1, EventsAtAppend
      <4> QED BY <1>1, <2>1, <2>4, <4>1, Zenon
    <3>2. at \in Seq(SceneEvent)
      BY <1>1, <2>1, EventsAtType
    <3>3. ActorsOf(at) \in Seq(Actors)
      BY <1>1, <2>2 DEF Projection, WIP
    <3> HIDE DEF at
    <3>4. ActorsOf(Append(at, e)) = Append(ActorsOf(at), a)
      BY <1>2, <1>3, <3>2, <3>3, ActorsOfAppend
    <3> QED BY <1>4, <2>2, <2>4, <3>1, <3>4 DEF at
  <2> QED BY <2>3, <2>4
<1>6. log' \in Seq(SceneEvent) /\ \A i \in DOMAIN log' : log'[i].scene <= scene'
  BY <1>1, <1>2, <1>3, LogTypeStep
<1> QED BY <1>4, <1>5, <1>6 DEF NoBlackHole

(* A flush empties its WIP, in the log as in memory.                       *)
LEMMA RecycleLands ==
  ASSUME SceneTypeOK, NoBlackHole, NEW w \in WIPs, Recycle(w)
  PROVE  NoBlackHole' /\ SceneTypeOK'
<1> DEFINE e == Recycled(w)
<1>1. /\ log \in Seq(SceneEvent) /\ wips \in Projection /\ scene \in Nat
      /\ log' = Append(log, e) /\ wips' = Apply(wips, RecycleEvent(w, 0)) /\ scene' = scene
  BY DEF SceneTypeOK, Recycle, sceneVars
<1>2. e \in SceneEvent
  BY EventTypes
<1>3. e.scene = 0 /\ e.kind # "contribute" /\ \A v \in WIPs : e = Recycled(v) <=> v = w
  BY DEF Recycled
<1> HIDE DEF e
<1>4. wips' = [wips EXCEPT ![w] = NewWIP] /\ wips' \in Projection
  BY <1>1, RecycleEffect
<1>5. ASSUME NEW v \in WIPs PROVE wips'[v].fragments = ActorsOf(EventsAt(log, Held(v)))'
  <2>1. /\ Held(v) \in SUBSET (1 .. Len(log))
        /\ Held(v)' = IF v = w THEN {} ELSE Held(v)
    BY <1>1, <1>2, <1>3, HeldReads
  <2>2. wips[v].fragments = ActorsOf(EventsAt(log, Held(v)))
    BY DEF NoBlackHole
  <2>3. CASE v # w
    <3>1. EventsAt(log', Held(v)) = EventsAt(log, Held(v))
      BY <1>1, <1>2, <2>1, EventsAtKept
    <3> QED BY <1>1, <1>4, <2>1, <2>2, <2>3, <3>1 DEF Projection
  <2>4. CASE v = w
    <3>1. EventsAt(log', {}) = << >> /\ ActorsOf(<< >>) = << >>
      BY EventsAtNone DEF ActorsOf
    <3>2. wips'[v].fragments = << >>
      BY <1>1, <1>4, <2>4 DEF Projection, NewWIP
    <3> QED BY <2>1, <2>4, <3>1, <3>2
  <2> QED BY <2>3, <2>4
<1>6. log' \in Seq(SceneEvent) /\ \A i \in DOMAIN log' : log'[i].scene <= scene'
  BY <1>1, <1>2, <1>3, LogTypeStep
<1>7. SceneTypeOK'
  BY <1>1, <1>4, <1>6 DEF SceneTypeOK, Recycle, sceneVars
<1> QED BY <1>5, <1>7 DEF NoBlackHole

(* scene.open and scene.abort tell nothing of a WIP.                       *)
LEMMA FrameEventLands ==
  ASSUME log \in Seq(SceneEvent), NoBlackHole, NEW e \in SceneEvent,
         e.kind \in {"scene.open", "scene.abort"}, log' = Append(log, e), wips' = wips
  PROVE  NoBlackHole'
<1>1. ASSUME NEW v \in WIPs PROVE wips'[v].fragments = ActorsOf(EventsAt(log, Held(v)))'
  <2>0. e # Recycled(v)
    BY DEF Recycled
  <2>1. Held(v) \in SUBSET (1 .. Len(log)) /\ Held(v)' = Held(v)
    BY <2>0, HeldReads
  <2>2. wips[v].fragments = ActorsOf(EventsAt(log, Held(v)))
    BY DEF NoBlackHole
  <2>3. EventsAt(log', Held(v)) = EventsAt(log, Held(v))
    BY <2>1, EventsAtKept
  <2> QED BY <2>1, <2>2, <2>3
<1> QED BY <1>1 DEF NoBlackHole

-----------------------------------------------------------------------------
(* The script of one scene. *)

(* A scene that has just opened.                                           *)
LEMMA OpenIsScripted ==
  ASSUME NEW s, NEW as, NEW w
  PROVE  LET e == OpenEvent(s, as, w) IN Scripted(s, Append(<< >>, e), << >>)
  BY DEF Scripted, OpenEvent

(* The next turn of a scene that is open.                                  *)
LEMMA TurnIsScripted ==
  ASSUME NEW s, NEW evs \in Seq(SceneEvent), NEW turns \in Seq(SceneEvent),
         Scripted(s, evs, turns), Len(evs) = Len(turns) + 1, Len(turns) < 3,
         NEW e \in SceneEvent,
         e = TurnEvent(s, Len(turns) + 1, evs[1].authors[Len(turns) + 1], evs[1].wip)
  PROVE  Scripted(s, Append(evs, e), Append(turns, e))
<1> DEFINE n == Len(turns)
           xs == Append(evs, e)
           ts == Append(turns, e)
<1>1. /\ n \in Nat /\ Len(xs) = n + 2 /\ Len(ts) = n + 1
      /\ xs[1] = evs[1] /\ xs[n + 2] = e /\ ts[n + 1] = e
  BY AppendProperties, LenProperties
<1>2. \A k \in 1 .. n : ts[k] = turns[k] /\ xs[k + 1] = evs[k + 1]
  BY AppendProperties, LenProperties
<1>3. DOMAIN turns = 1 .. n /\ DOMAIN ts = 1 .. n + 1
  BY AppendProperties, LenProperties
<1>4. evs[1].kind = "scene.open"
      /\ \A k \in 1 .. n : /\ evs[k + 1] = turns[k]
                          /\ turns[k] = TurnEvent(s, k, evs[1].authors[k], evs[1].wip)
  BY <1>3 DEF Scripted
<1> HIDE DEF xs, ts, n
<1>5. ASSUME NEW k \in 1 .. n + 1
      PROVE  xs[k + 1] = ts[k] /\ ts[k] = TurnEvent(s, k, xs[1].authors[k], xs[1].wip)
  <2>1. CASE k \in 1 .. n
    BY <1>1, <1>2, <1>4, <2>1
  <2>2. CASE k = n + 1
    <3>1. k + 1 = n + 2
      BY <1>1, <2>2
    <3> QED BY <1>1, <2>2, <3>1 DEF n
  <2> QED BY <1>1, <2>1, <2>2
<1>6. Len(ts) <= 3 /\ Len(xs) = Len(ts) + 1
  BY <1>1 DEF n
<1> QED BY <1>1, <1>3, <1>4, <1>5, <1>6 DEF Scripted, xs, ts

(* The abort of a scene that is open.                                      *)
LEMMA AbortIsScripted ==
  ASSUME NEW s, NEW evs \in Seq(SceneEvent), NEW turns \in Seq(SceneEvent),
         Scripted(s, evs, turns), Len(evs) = Len(turns) + 1, Len(turns) < 3,
         NEW e \in SceneEvent, e = AbortEvent(s, Len(turns))
  PROVE  Scripted(s, Append(evs, e), turns)
<1> DEFINE n == Len(turns)
           xs == Append(evs, e)
<1>1. /\ n \in Nat /\ Len(xs) = n + 2 /\ xs[1] = evs[1] /\ xs[Len(xs)] = e
      /\ \A k \in 1 .. n : xs[k + 1] = evs[k + 1]
  BY AppendProperties, LenProperties
<1>2. DOMAIN turns = 1 .. n
  BY LenProperties
<1>3. evs[1].kind = "scene.open"
      /\ \A k \in 1 .. n : /\ evs[k + 1] = turns[k]
                          /\ turns[k] = TurnEvent(s, k, evs[1].authors[k], evs[1].wip)
  BY <1>2 DEF Scripted
<1> HIDE DEF xs
<1> QED BY <1>1, <1>2, <1>3 DEF Scripted, Last, xs

-----------------------------------------------------------------------------
(* How a step changes the scenes. *)

(* An event of another scene changes nothing of this one.                  *)
LEMMA SceneUntouched ==
  ASSUME log \in Seq(SceneEvent), NEW s,
         log' = log \/ \E e \in SceneEvent : e.scene # s /\ log' = Append(log, e)
  PROVE  Of(s)' = Of(s) /\ Turns(s)' = Turns(s) /\ Closed(s)' = Closed(s)
<1>1. Of(s)' = Of(s) /\ Turns(s)' = Turns(s)
  <2>1. CASE log' = log
    BY <2>1, SceneReadsSame
  <2>2. CASE \E e \in SceneEvent : e.scene # s /\ log' = Append(log, e)
    <3>1. PICK e \in SceneEvent : e.scene # s /\ log' = Append(log, e)
      BY <2>2
    <3> QED BY <3>1, SceneReads
  <2> QED BY <2>1, <2>2
<1> QED BY <1>1 DEF Closed, Aborted, Last

(* One scene more or less among the orphans.                               *)
LEMMA OrphansCount ==
  ASSUME scene \in Nat, NEW c, NEW X \in SUBSET (Orphans \cup {c})
  PROVE  /\ Cardinality(Orphans) \in Nat /\ Cardinality(X) \in Nat
         /\ Cardinality(X) <= Cardinality(Orphans) + 1
         /\ X \subseteq Orphans => Cardinality(X) <= Cardinality(Orphans)
<1>1. IsFiniteSet(Orphans)
  <2>1. IsFiniteSet(1 .. scene) /\ Orphans \subseteq 1 .. scene
    BY FS_Interval DEF Orphans, SceneIds
  <2> QED BY <2>1, FS_Subset
<1> DEFINE O == Orphans
<1> HIDE DEF O
<1>2. IsFiniteSet(O) /\ X \in SUBSET (O \cup {c})
  BY <1>1 DEF O
<1>3. /\ IsFiniteSet(O \cup {c}) /\ Cardinality(O) \in Nat
      /\ Cardinality(O \cup {c}) = Cardinality(O) \/ Cardinality(O \cup {c}) = Cardinality(O) + 1
  BY <1>2, FS_AddElement, FS_CardinalityType
<1>4. Cardinality(X) \in Nat /\ Cardinality(X) <= Cardinality(O \cup {c})
  BY <1>2, <1>3, FS_Subset, FS_CardinalityType
<1>5. X \subseteq O => Cardinality(X) <= Cardinality(O)
  BY <1>2, FS_Subset
<1> QED BY <1>3, <1>4, <1>5 DEF O

(* A step that writes no event of a scene, and leaves run() in the middle  *)
(* of one only at the cost of a kill or of an operation that raises.       *)
LEMMA QuietStep ==
  ASSUME SceneTypeOK, SceneTypeOK', EventContract, OrphansAreExplained, scene' = scene,
         log' = log \/ \E e \in SceneEvent : e.scene = 0 /\ log' = Append(log, e),
         \/ /\ kills' + faults' >= kills + faults
            /\ pc # "idle" => pc' # "idle"
         \/ kills' + faults' >= kills + faults + 1
  PROVE  EventContract' /\ OrphansAreExplained'
<1>1. /\ log \in Seq(SceneEvent) /\ scene \in Nat /\ kills \in Nat /\ faults \in Nat
      /\ kills' \in Nat /\ faults' \in Nat
  BY DEF SceneTypeOK
<1>2. SceneIds' = SceneIds
  BY DEF SceneIds
<1>3. ASSUME NEW s \in SceneIds
      PROVE  Of(s)' = Of(s) /\ Turns(s)' = Turns(s) /\ Closed(s)' = Closed(s)
  <2>1. s # 0
    BY <1>1, <1>3 DEF SceneIds
  <2> QED BY <1>1, <2>1, SceneUntouched
<1>4. EventContract'
  BY <1>2, <1>3 DEF EventContract
<1>5. Orphans' \subseteq Orphans \cup {scene}
      /\ ((pc # "idle" => pc' # "idle") => Orphans' \subseteq Orphans)
  <2>1. ASSUME NEW s \in Orphans' PROVE s \in SceneIds /\ ~ Closed(s) /\ ~ InFlight(s)'
    BY <1>2, <1>3, <2>1 DEF Orphans
  <2>2. ASSUME NEW s \in Orphans' PROVE s = scene \/ s \in Orphans
    BY <2>1, <2>2 DEF Orphans, InFlight
  <2>3. ASSUME NEW s \in Orphans', pc # "idle" => pc' # "idle" PROVE s \in Orphans
    BY <2>1, <2>3 DEF Orphans, InFlight
  <2> QED BY <2>2, <2>3
<1>6. PICK c : c = scene
  OBVIOUS
<1>7. PICK X : X = Orphans'
  OBVIOUS
<1>8. /\ Cardinality(Orphans) \in Nat /\ Cardinality(X) \in Nat
      /\ Cardinality(X) <= Cardinality(Orphans) + 1
      /\ X \subseteq Orphans => Cardinality(X) <= Cardinality(Orphans)
  BY <1>1, <1>5, <1>6, <1>7, OrphansCount
<1>9. Cardinality(Orphans) <= kills + faults
  BY DEF OrphansAreExplained
<1>10. Cardinality(X) <= kills' + faults'
  <2> DEFINE m == Cardinality(Orphans)
             x == Cardinality(X)
  <2>0. m \in Nat /\ x \in Nat /\ m <= kills + faults /\ x <= m + 1
    BY <1>8, <1>9
  <2>9. \A h, y, k, f, l, g \in Nat :
          h <= k + f => /\ y <= h /\ l + g >= k + f => y <= l + g
                        /\ y <= h + 1 /\ l + g >= k + f + 1 => y <= l + g
    OBVIOUS
  <2> HIDE DEF m, x
  <2>1. CASE kills' + faults' >= kills + faults + 1
    <3>1. x <= kills' + faults'
      BY <1>1, <2>0, <2>1, <2>9, Zenon
    <3> QED BY <3>1 DEF x
  <2>2. CASE kills' + faults' >= kills + faults /\ (pc # "idle" => pc' # "idle")
    <3>1. X \subseteq Orphans
      BY <1>5, <1>7, <2>2
    <3>2. x <= m
      BY <1>8, <3>1 DEF x, m
    <3>3. x <= kills' + faults'
      BY <1>1, <2>0, <2>2, <2>9, <3>2, Zenon
    <3> QED BY <3>3 DEF x
  <2> QED BY <2>1, <2>2
<1> QED BY <1>4, <1>7, <1>10 DEF OrphansAreExplained

(* A step that writes an event of the scene c, and leaves c closed or in   *)
(* flight.                                                                 *)
LEMMA OneSceneStep ==
  ASSUME SceneTypeOK, SceneTypeOK', EventContract, OrphansAreExplained,
         NEW c, SceneIds' \subseteq SceneIds \cup {c},
         \E e \in SceneEvent : e.scene = c /\ log' = Append(log, e),
         \A s \in SceneIds : InFlight(s) => s = c,
         Scripted(c, Of(c)', Turns(c)'), Closed(c)' \/ InFlight(c)',
         UNCHANGED <<kills, faults>>
  PROVE  EventContract' /\ OrphansAreExplained'
<1>1. log \in Seq(SceneEvent) /\ scene \in Nat /\ kills \in Nat /\ faults \in Nat
  BY DEF SceneTypeOK
<1>2. ASSUME NEW s \in SceneIds, s # c
      PROVE  Of(s)' = Of(s) /\ Turns(s)' = Turns(s) /\ Closed(s)' = Closed(s)
  BY <1>1, <1>2, SceneUntouched
<1>3. ASSUME NEW s \in SceneIds' PROVE Scripted(s, Of(s)', Turns(s)')
  <2>1. CASE s = c
    BY <2>1
  <2>2. CASE s # c
    BY <1>2, <1>3, <2>2 DEF EventContract
  <2> QED BY <2>1, <2>2
<1>4. EventContract'
  BY <1>3 DEF EventContract
<1>5. ASSUME NEW s \in Orphans' PROVE s \in Orphans
  <2>1. s \in SceneIds' /\ ~ Closed(s)' /\ ~ InFlight(s)'
    BY <1>5 DEF Orphans
  <2>2. s # c
    BY <2>1
  <2>3. s \in SceneIds /\ ~ Closed(s) /\ ~ InFlight(s)
    BY <1>2, <2>1, <2>2
  <2> QED BY <2>3 DEF Orphans
<1>6. PICK X : X = Orphans'
  OBVIOUS
<1>7. /\ Cardinality(Orphans) \in Nat /\ Cardinality(X) \in Nat
      /\ X \subseteq Orphans => Cardinality(X) <= Cardinality(Orphans)
  BY <1>1, <1>5, <1>6, OrphansCount
<1>8. Cardinality(Orphans) <= kills + faults
  BY DEF OrphansAreExplained
<1>9. Cardinality(X) <= kills + faults
  BY <1>1, <1>5, <1>6, <1>7, <1>8
<1> QED BY <1>4, <1>6, <1>9 DEF OrphansAreExplained

-----------------------------------------------------------------------------
(* SceneInv, action by action. *)

LEMMA SceneInvInit == Init => SceneInv
<1> SUFFICES ASSUME Init PROVE SceneInv
  OBVIOUS
<1>1. /\ log = << >> /\ wips = NewProjection /\ pc = "idle" /\ scene = 0 /\ turn = 0
      /\ faults = 0 /\ kills = 0
  BY DEF Init
<1>2. log \in Seq(SceneEvent) /\ DOMAIN log = {} /\ MaxFaults \in Nat /\ MaxKills \in Nat
  BY <1>1, SceneAssumption
<1>3. SceneTypeOK
  BY <1>1, <1>2, NewProjectionType DEF SceneTypeOK
<1>4. SceneIds = {}
  BY <1>1 DEF SceneIds
<1>5. Orphans = {} /\ Cardinality({}) = 0
  BY <1>4, FS_EmptySet DEF Orphans
<1>6. ASSUME NEW w \in WIPs PROVE wips[w].fragments = ActorsOf(EventsAt(log, Held(w)))
  <2>1. Held(w) = {}
    BY <1>2 DEF Held
  <2>2. EventsAt(log, {}) = << >> /\ ActorsOf(<< >>) = << >>
    BY EventsAtNone DEF ActorsOf
  <2>3. wips[w].fragments = << >>
    BY <1>1 DEF NewProjection, NewWIP
  <2> QED BY <2>1, <2>2, <2>3
<1>7. OrphansAreExplained
  <2>1. Cardinality(Orphans) = 0
    BY <1>5
  <2> QED BY <1>1, <2>1 DEF OrphansAreExplained
<1> QED BY <1>1, <1>3, <1>4, <1>6, <1>7
        DEF SceneInv, EventContract, NoBlackHole, InFlightLogged

(* A contribute outside of scenes.                                         *)
LEMMA SoloKeepsSceneInv ==
  ASSUME SceneInv, NEW a \in Actors, NEW w \in WIPs, SoloContribute(a, w)
  PROVE  SceneInv'
<1> USE DEF SceneInv
<1>1. PICK z : z = 0
  OBVIOUS
<1>2. /\ Contribute(z, z, a, w) /\ AcceptsContribute(w) /\ pc' = pc /\ pc = "idle"
      /\ scene' = scene /\ authors' = authors /\ turn' = turn /\ wip' = wip
      /\ faults' = faults /\ kills' = kills
  BY <1>1 DEF SoloContribute, Idle, sceneVars
<1>3. z \in 0 .. scene /\ z \in 0 .. 3 /\ kills \in Nat /\ faults \in Nat
  BY <1>1 DEF SceneTypeOK
<1>4. /\ NoBlackHole' /\ wips' \in Projection
      /\ log' \in Seq(SceneEvent) /\ \A i \in DOMAIN log' : log'[i].scene <= scene'
  BY <1>2, <1>3, ContributeLands
<1>5. SceneTypeOK'
  BY <1>2, <1>4 DEF SceneTypeOK
<1>6. \E e \in SceneEvent : e.scene = 0 /\ log' = Append(log, e)
  <2>1. TurnEvent(z, z, a, w) \in SceneEvent
    BY <1>1, EventTypes
  <2>2. TurnEvent(z, z, a, w).scene = 0
    BY <1>1 DEF TurnEvent
  <2> QED BY <1>2, <2>1, <2>2 DEF Contribute
<1>7. EventContract' /\ OrphansAreExplained'
  <2>1. kills' + faults' >= kills + faults
    BY <1>2, <1>3
  <2> QED BY <1>2, <1>5, <1>6, <2>1, QuietStep
<1> QED BY <1>2, <1>4, <1>5, <1>7 DEF InFlightLogged

(* A flush between scenes.                                                 *)
LEMMA RecycleKeepsSceneInv ==
  ASSUME SceneInv, NEW w \in WIPs, Recycle(w)
  PROVE  SceneInv'
<1> USE DEF SceneInv
<1>1. /\ pc' = pc /\ pc = "idle" /\ scene' = scene /\ faults' = faults /\ kills' = kills
      /\ log' = Append(log, Recycled(w))
  BY DEF Recycle, Idle, sceneVars
<1>2. NoBlackHole' /\ SceneTypeOK'
  BY RecycleLands
<1>3. \E e \in SceneEvent : e.scene = 0 /\ log' = Append(log, e)
  <2>1. Recycled(w) \in SceneEvent /\ Recycled(w).scene = 0
    BY EventTypes DEF Recycled
  <2> QED BY <1>1, <2>1
<1>4. EventContract' /\ OrphansAreExplained'
  <2>1. kills' + faults' >= kills + faults
    BY <1>1 DEF SceneTypeOK
  <2> QED BY <1>1, <1>2, <1>3, <2>1, QuietStep
<1> QED BY <1>1, <1>2, <1>4 DEF InFlightLogged

(* A scene opens with a new id.                                            *)
LEMMA OpenKeepsSceneInv ==
  ASSUME SceneInv, NEW a \in Actors, NEW w \in WIPs, OpenScene(a, w)
  PROVE  SceneInv'
<1> USE DEF SceneInv
<1>1. PICK c : c = scene + 1
  OBVIOUS
<1>2. PICK as : as = authors'
  OBVIOUS
<1>3. PICK e : e = OpenEvent(c, as, w)
  OBVIOUS
<1>4. /\ pc = "idle" /\ pc' = "turn" /\ scene' = c /\ wip' = w /\ turn' = 1
      /\ log' = Append(log, e) /\ wips' = wips /\ faults' = faults /\ kills' = kills
      /\ as \in Casts
  BY <1>1, <1>2, <1>3 DEF OpenScene, Idle, Casts
<1>5. /\ log \in Seq(SceneEvent) /\ scene \in Nat /\ c \in Nat /\ c > scene
      /\ \A i \in DOMAIN log : log[i].scene <= scene /\ log[i].scene \in Nat
  <2>1. log \in Seq(SceneEvent) /\ scene \in Nat /\ \A i \in DOMAIN log : log[i].scene <= scene
    BY DEF SceneTypeOK
  <2>2. \A i \in DOMAIN log : log[i] \in SceneEvent
    BY <2>1
  <2>3. \A x \in SceneEvent : x.scene \in Nat
    BY DEF SceneEvent
  <2> QED BY <1>1, <2>1, <2>2, <2>3
<1>6. e \in SceneEvent
  BY <1>3, <1>4, <1>5, EventTypes
<1>7. e.scene = c /\ e.kind = "scene.open"
  BY <1>3 DEF OpenEvent
<1>8. NoBlackHole'
  BY <1>4, <1>5, <1>6, <1>7, FrameEventLands
<1>9. SceneTypeOK'
  <2>1. log' \in Seq(SceneEvent) /\ \A i \in DOMAIN log' : log'[i].scene <= scene'
    BY <1>4, <1>5, <1>6, <1>7, LogTypeStep
  <2> QED BY <1>2, <1>4, <1>5, <2>1 DEF SceneTypeOK
<1>10. Of(c) = << >> /\ Turns(c) = << >>
  <2>1. \A i \in DOMAIN log : log[i].scene # c
    BY <1>5
  <2>2. OfPositions(c) = {} /\ TurnPositions(c) = {}
    BY <2>1 DEF OfPositions, TurnPositions
  <2> QED BY <2>2, EventsAtNone DEF Of, Turns, OfPositions, TurnPositions
<1>11. Of(c)' = Append(<< >>, e) /\ Turns(c)' = << >>
  BY <1>4, <1>5, <1>6, <1>7, <1>10, SceneReads
<1>12. EventContract' /\ OrphansAreExplained'
  <2>1. Scripted(c, Of(c)', Turns(c)')
    BY <1>3, <1>11, OpenIsScripted
  <2>2. SceneIds' \subseteq SceneIds \cup {c}
    BY <1>1, <1>4, <1>5 DEF SceneIds
  <2>3. InFlight(c)' /\ \A s \in SceneIds : ~ InFlight(s)
    BY <1>4 DEF InFlight
  <2> QED BY <1>4, <1>6, <1>7, <1>9, <2>1, <2>2, <2>3, OneSceneStep
<1>13. InFlightLogged'
  <2>1. Of(scene)' = Of(c)' /\ Turns(scene)' = Turns(c)'
    BY <1>4 DEF Of, Turns
  <2>2. /\ Of(c)'[1] = e /\ Len(Of(c)') = 1 /\ Len(Turns(c)') = 0
    BY <1>11
  <2>3. e = OpenEvent(scene', authors', wip')
    BY <1>2, <1>3, <1>4
  <2> QED BY <1>4, <1>5, <2>1, <2>2, <2>3 DEF InFlightLogged
<1> QED BY <1>8, <1>9, <1>12, <1>13

(* Where run() stands between two turns.                                   *)
LEMMA InTheMiddle ==
  ASSUME SceneInv, pc # "idle", NEW c, c = scene
  PROVE  /\ c \in Nat /\ c > 0 /\ c \in SceneIds /\ turn \in 1 .. 3
         /\ wip \in WIPs /\ authors \in Casts
         /\ log \in Seq(SceneEvent)
         /\ Of(c)[1] = OpenEvent(c, authors, wip)
         /\ Len(Turns(c)) = turn - 1 /\ Len(Of(c)) = turn
         /\ Scripted(c, Of(c), Turns(c))
         /\ \A s \in SceneIds : InFlight(s) => s = c
         /\ scene' = scene => Of(scene)' = Of(c)' /\ Turns(scene)' = Turns(c)'
<1>1. /\ scene \in Nat /\ scene > 0 /\ turn \in 1 .. 3
      /\ wip \in WIPs /\ authors \in Casts /\ log \in Seq(SceneEvent)
  BY DEF SceneInv, SceneTypeOK, InFlightLogged
<1>2. c \in SceneIds
  BY <1>1 DEF SceneIds
<1>3. /\ Of(c)[1] = OpenEvent(c, authors, wip)
      /\ Len(Turns(c)) = turn - 1 /\ Len(Of(c)) = turn
  BY DEF SceneInv, InFlightLogged
<1>4. Scripted(c, Of(c), Turns(c))
  BY <1>2 DEF SceneInv, EventContract
<1> QED BY <1>1, <1>2, <1>3, <1>4 DEF InFlight, Of, Turns

(* A turn that lands.                                                      *)
LEMMA TurnKeepsSceneInv ==
  ASSUME SceneInv, TakeTurn
  PROVE  SceneInv'
<1> USE DEF SceneInv
<1>1. PICK c : c = scene
  OBVIOUS
<1>2. PICK k : k = turn
  OBVIOUS
<1>3. PICK a : a = authors[k]
  OBVIOUS
<1>4. PICK w : w = wip
  OBVIOUS
<1> DEFINE e == TurnEvent(c, k, a, w)
<1>5. /\ pc = "turn" /\ AcceptsContribute(w) /\ Contribute(c, k, a, w)
      /\ IF k = 3 THEN pc' = "idle" /\ turn' = turn ELSE turn' = k + 1 /\ pc' = pc
      /\ scene' = scene /\ authors' = authors /\ wip' = wip
      /\ faults' = faults /\ kills' = kills /\ log' = Append(log, e)
  BY <1>1, <1>2, <1>3, <1>4 DEF TakeTurn, Contribute, LastTurn
<1>6. /\ c \in Nat /\ c > 0 /\ c \in SceneIds /\ k \in 1 .. 3
      /\ w \in WIPs /\ authors \in Casts
      /\ log \in Seq(SceneEvent)
      /\ Of(c)[1] = OpenEvent(c, authors, w)
      /\ Len(Turns(c)) = k - 1 /\ Len(Of(c)) = k
      /\ Scripted(c, Of(c), Turns(c))
      /\ \A s \in SceneIds : InFlight(s) => s = c
      /\ Of(scene)' = Of(c)' /\ Turns(scene)' = Turns(c)'
  BY <1>1, <1>2, <1>4, <1>5, InTheMiddle
<1>7. a \in Actors
  BY <1>3, <1>6, CastMembers
<1>8. e \in SceneEvent
  BY <1>6, <1>7, EventTypes
<1>9. e.scene = c /\ e.kind = "contribute"
  BY DEF TurnEvent
<1> HIDE DEF e
<1>10. /\ NoBlackHole' /\ wips' \in Projection
       /\ log' \in Seq(SceneEvent) /\ \A i \in DOMAIN log' : log'[i].scene <= scene'
  BY <1>1, <1>5, <1>6, <1>7, ContributeLands
<1>11. SceneTypeOK'
  BY <1>2, <1>5, <1>6, <1>10 DEF SceneTypeOK
<1>12. /\ Of(c) \in Seq(SceneEvent) /\ Turns(c) \in Seq(SceneEvent)
       /\ Of(c)' = Append(Of(c), e) /\ Turns(c)' = Append(Turns(c), e)
  BY <1>5, <1>6, <1>8, <1>9, SceneReads
<1>13. Scripted(c, Of(c)', Turns(c)')
  <2>1. Of(c)[1].authors = authors /\ Of(c)[1].wip = w
    BY <1>6 DEF OpenEvent
  <2>2. Len(Of(c)) = Len(Turns(c)) + 1 /\ Len(Turns(c)) < 3 /\ Len(Turns(c)) + 1 = k
    BY <1>6
  <2>3. e = TurnEvent(c, Len(Turns(c)) + 1, Of(c)[1].authors[Len(Turns(c)) + 1], Of(c)[1].wip)
    BY <1>3, <2>1, <2>2 DEF e
  <2>4. PICK evs : evs = Of(c)
    OBVIOUS
  <2>5. PICK ts : ts = Turns(c)
    OBVIOUS
  <2>6. Scripted(c, Append(evs, e), Append(ts, e))
    BY <1>6, <1>8, <1>12, <2>2, <2>3, <2>4, <2>5, TurnIsScripted
  <2> QED BY <1>12, <2>4, <2>5, <2>6
<1>14. /\ Len(Of(c)') = k + 1 /\ Len(Turns(c)') = k
       /\ Of(c)'[1] = OpenEvent(c, authors, w)
  <2>1. /\ Len(Of(c)') = Len(Of(c)) + 1 /\ Len(Turns(c)') = Len(Turns(c)) + 1
        /\ Of(c)'[1] = Of(c)[1]
    BY <1>6, <1>12, AppendProperties, LenProperties
  <2> QED BY <1>6, <2>1
<1>15. EventContract' /\ OrphansAreExplained'
  <2>1. SceneIds' \subseteq SceneIds \cup {c}
    BY <1>5 DEF SceneIds
  <2>2. Closed(c)' \/ InFlight(c)'
    BY <1>1, <1>5, <1>14 DEF Closed, InFlight
  <2> QED BY <1>5, <1>6, <1>8, <1>9, <1>11, <1>13, <2>1, <2>2, OneSceneStep
<1>16. InFlightLogged'
  <2>1. CASE k = 3
    BY <1>5, <2>1 DEF InFlightLogged
  <2>2. CASE k # 3
    BY <1>1, <1>4, <1>5, <1>6, <1>14, <2>2 DEF InFlightLogged
  <2> QED BY <2>1, <2>2
<1> QED BY <1>10, <1>11, <1>15, <1>16

(* The scene.abort of a turn that failed.                                  *)
LEMMA AbortKeepsSceneInv ==
  ASSUME SceneInv, Abort
  PROVE  SceneInv'
<1> USE DEF SceneInv
<1>1. PICK c : c = scene
  OBVIOUS
<1>2. PICK k : k = turn - 1
  OBVIOUS
<1> DEFINE e == AbortEvent(c, k)
<1>3. /\ pc = "abort" /\ pc' = "idle" /\ log' = Append(log, e) /\ wips' = wips
      /\ scene' = scene /\ authors' = authors /\ wip' = wip /\ turn' = turn
      /\ faults' = faults /\ kills' = kills
  BY <1>1, <1>2 DEF Abort, sceneVars
<1>4. /\ c \in Nat /\ c > 0 /\ c \in SceneIds /\ turn \in 1 .. 3
      /\ log \in Seq(SceneEvent)
      /\ Len(Turns(c)) = turn - 1 /\ Len(Of(c)) = turn
      /\ Scripted(c, Of(c), Turns(c))
      /\ \A s \in SceneIds : InFlight(s) => s = c
  BY <1>1, <1>3, InTheMiddle
<1>5. k \in 0 .. 2
  BY <1>2, <1>4
<1>6. e \in SceneEvent
  BY <1>4, <1>5, EventTypes
<1>7. e.scene = c /\ e.kind = "scene.abort"
  BY DEF AbortEvent
<1> HIDE DEF e
<1>8. NoBlackHole'
  BY <1>3, <1>4, <1>6, <1>7, FrameEventLands
<1>9. SceneTypeOK'
  <2>1. log' \in Seq(SceneEvent) /\ \A i \in DOMAIN log' : log'[i].scene <= scene'
    BY <1>1, <1>3, <1>4, <1>6, <1>7, LogTypeStep
  <2> QED BY <1>3, <2>1 DEF SceneTypeOK
<1>10. /\ Of(c) \in Seq(SceneEvent) /\ Turns(c) \in Seq(SceneEvent)
       /\ Of(c)' = Append(Of(c), e) /\ Turns(c)' = Turns(c)
  BY <1>3, <1>4, <1>6, <1>7, SceneReads
<1>11. Scripted(c, Of(c)', Turns(c)')
  <2>1. Len(Of(c)) = Len(Turns(c)) + 1 /\ Len(Turns(c)) < 3 /\ Len(Turns(c)) = k
    BY <1>2, <1>4
  <2>2. e = AbortEvent(c, Len(Turns(c)))
    BY <2>1 DEF e
  <2>3. PICK evs : evs = Of(c)
    OBVIOUS
  <2>4. PICK ts : ts = Turns(c)
    OBVIOUS
  <2>5. Scripted(c, Append(evs, e), ts)
    BY <1>4, <1>6, <1>10, <2>1, <2>2, <2>3, <2>4, AbortIsScripted
  <2> QED BY <1>10, <2>3, <2>4, <2>5
<1>12. EventContract' /\ OrphansAreExplained'
  <2>1. SceneIds' \subseteq SceneIds \cup {c}
    BY <1>3 DEF SceneIds
  <2>2. Last(Of(c)') = e
    BY <1>10, AppendProperties, LenProperties DEF Last
  <2>3. Closed(c)'
    BY <1>7, <2>2 DEF Closed, Aborted
  <2> QED BY <1>3, <1>4, <1>6, <1>7, <1>9, <1>11, <2>1, <2>3, OneSceneStep
<1> QED BY <1>3, <1>8, <1>9, <1>12 DEF InFlightLogged

(* A step that writes nothing.                                             *)
LEMMA StillKeepsSceneInv ==
  ASSUME SceneInv, UNCHANGED <<log, wips, sceneVars>>,
         pc' \in {"idle", "turn", "abort"}, pc = "idle" => pc' = "idle",
         kills' \in 0 .. MaxKills, faults' \in 0 .. MaxFaults,
         \/ /\ kills' + faults' >= kills + faults
            /\ pc # "idle" => pc' # "idle"
         \/ kills' + faults' >= kills + faults + 1
  PROVE  SceneInv'
<1> USE DEF SceneInv, sceneVars
<1>1. SceneTypeOK'
  BY DEF SceneTypeOK
<1>2. NoBlackHole'
  BY DEF NoBlackHole, Held
<1>3. EventContract' /\ OrphansAreExplained'
  BY <1>1, QuietStep
<1>4. InFlightLogged'
  BY DEF InFlightLogged, Of, Turns
<1> QED BY <1>1, <1>2, <1>3, <1>4

LEMMA SceneInvStep == SceneInv /\ [Next]_vars => SceneInv'
<1> SUFFICES ASSUME SceneInv, [Next]_vars PROVE SceneInv'
  OBVIOUS
<1>0. /\ kills \in 0 .. MaxKills /\ faults \in 0 .. MaxFaults
      /\ pc \in {"idle", "turn", "abort"} /\ MaxKills \in Nat /\ MaxFaults \in Nat
  BY SceneAssumption DEF SceneInv, SceneTypeOK
<1>1. ASSUME NEW a \in Actors, NEW w \in WIPs, SoloContribute(a, w) PROVE SceneInv'
  BY <1>1, SoloKeepsSceneInv
<1>2. ASSUME NEW w \in WIPs, Recycle(w) PROVE SceneInv'
  BY <1>2, RecycleKeepsSceneInv
<1>3. ASSUME NEW a \in Actors, NEW w \in WIPs, OpenScene(a, w) PROVE SceneInv'
  BY <1>3, OpenKeepsSceneInv
<1>4. CASE TakeTurn
  BY <1>4, TurnKeepsSceneInv
<1>5. CASE Abort
  BY <1>5, AbortKeepsSceneInv
<1>6. CASE TurnFails
  BY <1>0, <1>6, StillKeepsSceneInv DEF TurnFails
<1>7. CASE OpenRaises
  <2>1. faults' = faults + 1 /\ faults < MaxFaults /\ kills' = kills
    BY <1>7 DEF OpenRaises
  <2>2. faults' \in 0 .. MaxFaults /\ kills' + faults' >= kills + faults + 1
    BY <1>0, <2>1
  <2> QED BY <1>0, <1>7, <2>1, <2>2, StillKeepsSceneInv DEF OpenRaises
<1>8. CASE CommitRaises
  <2>1. faults' = faults + 1 /\ faults < MaxFaults /\ kills' = kills
    BY <1>8 DEF CommitRaises
  <2>2. faults' \in 0 .. MaxFaults /\ kills' + faults' >= kills + faults + 1
    BY <1>0, <2>1
  <2> QED BY <1>0, <1>8, <2>1, <2>2, StillKeepsSceneInv DEF CommitRaises
<1>9. CASE AbortRaises
  <2>1. faults' = faults + 1 /\ faults < MaxFaults /\ kills' = kills
    BY <1>9 DEF AbortRaises
  <2>2. faults' \in 0 .. MaxFaults /\ kills' + faults' >= kills + faults + 1
    BY <1>0, <2>1
  <2> QED BY <1>0, <1>9, <2>1, <2>2, StillKeepsSceneInv DEF AbortRaises
<1>10. CASE KillAndRestart
  <2>1. kills' = kills + 1 /\ kills < MaxKills /\ faults' = faults
    BY <1>10 DEF KillAndRestart
  <2>2. kills' \in 0 .. MaxKills /\ kills' + faults' >= kills + faults + 1
    BY <1>0, <2>1
  <2> QED BY <1>0, <1>10, <2>1, <2>2, StillKeepsSceneInv DEF KillAndRestart
<1>11. CASE BumpRaises
  <2>1. faults' = faults + 1 /\ faults < MaxFaults /\ kills' = kills
    BY <1>11 DEF BumpRaises
  <2>2. faults' \in 0 .. MaxFaults /\ kills' + faults' >= kills + faults + 1
    BY <1>0, <2>1
  <2> QED BY <1>0, <1>11, <2>1, <2>2, StillKeepsSceneInv DEF BumpRaises
<1>12. CASE UNCHANGED vars
  BY <1>0, <1>12, StillKeepsSceneInv DEF vars, sceneVars
<1> QED
  BY <1>1, <1>2, <1>3, <1>4, <1>5, <1>6, <1>7, <1>8, <1>9, <1>10, <1>11, <1>12 DEF Next

-----------------------------------------------------------------------------
(* The theorems. *)

(* SceneInv is an invariant of the scene runner, whatever turns fail,      *)
(* whatever appends or metrics raise and whenever the process is killed.   *)
THEOREM SceneInvariant == Spec => []SceneInv
  BY SceneInvInit, SceneInvStep, PTL DEF Spec

(* Every variable keeps its type: the log holds only events that the       *)
(* runner, the loop and the harvester write, and none of a scene to come.  *)
THEOREM SceneTypeCorrect == Spec => []SceneTypeOK
<1>1. SceneInv => SceneTypeOK
  BY DEF SceneInv
<1> QED BY <1>1, SceneInvariant, PTL

(* The event contract of scene.py: what the log holds of any scene is its  *)
(* open, turns 1, 2, 3 or a prefix of them by the authors of the open, and *)
(* at most one abort that counts the turns before it.                      *)
THEOREM ContractIsKept == Spec => []EventContract
<1>1. SceneInv => EventContract
  BY DEF SceneInv
<1> QED BY <1>1, SceneInvariant, PTL

(* A WIP holds exactly the contributes the log has of it since its last    *)
(* recycle, in order: no turn of a scene that died is lost or doubled.     *)
THEOREM NoTurnIsLost == Spec => []NoBlackHole
<1>1. SceneInv => NoBlackHole
  BY DEF SceneInv
<1> QED BY <1>1, SceneInvariant, PTL

(* Only a kill, an append that raises or a flush of the metrics that raises*)
(* leaves a scene open, and each of them leaves one at most.               *)
THEOREM OrphansHaveACause == Spec => []OrphansAreExplained
<1>1. SceneInv => OrphansAreExplained
  BY DEF SceneInv
<1> QED BY <1>1, SceneInvariant, PTL

(* The cast of an open, and the turns that follow it.                      *)
LEMMA ScenesAreExchanges == SceneInv => NobodyAnswersThemself
<1> SUFFICES ASSUME SceneInv, NEW s \in SceneIds,
                    NEW j \in DOMAIN Turns(s), NEW k \in DOMAIN Turns(s),
                    Turns(s)[j].actor = Turns(s)[k].actor, j # k
             PROVE  {j, k} = {1, 3} /\ Cardinality(Actors) = 2
  BY DEF NobodyAnswersThemself
<1> DEFINE evs == Of(s)
           turns == Turns(s)
<1>1. Scripted(s, evs, turns) /\ log \in Seq(SceneEvent)
  BY DEF SceneInv, EventContract, SceneTypeOK
<1>2. evs \in Seq(SceneEvent) /\ turns \in Seq(SceneEvent)
  <2>1. OfPositions(s) \in SUBSET (1 .. Len(log)) /\ TurnPositions(s) \in SUBSET (1 .. Len(log))
    BY <1>1, LenProperties DEF OfPositions, TurnPositions
  <2> QED BY <1>1, <2>1, EventsAtType DEF Of, Turns, OfPositions, TurnPositions
<1> HIDE DEF evs, turns
<1>3. evs[1].authors \in Casts
  <2>1. Len(evs) \in Nat /\ Len(turns) \in Nat /\ Len(evs) >= 1
    BY <1>1, <1>2, LenProperties DEF Scripted
  <2>2. evs[1] \in SceneEvent
    BY <1>2, <2>1
  <2>3. evs[1].kind = "scene.open"
    BY <1>1 DEF Scripted
  <2> QED BY <2>2, <2>3 DEF SceneEvent
<1>4. /\ j \in DOMAIN turns /\ k \in DOMAIN turns
      /\ turns[j].actor = turns[k].actor
  BY DEF turns
<1>5. j \in 1 .. 3 /\ k \in 1 .. 3
  <2>1. DOMAIN turns = 1 .. Len(turns) /\ Len(turns) \in Nat /\ Len(turns) <= 3
    BY <1>1, <1>2, LenProperties DEF Scripted
  <2> QED BY <1>4, <2>1
<1>6. PICK as \in Casts : as = evs[1].authors
  BY <1>3
<1>7. turns[j].actor = as[j] /\ turns[k].actor = as[k]
  BY <1>1, <1>4, <1>6 DEF Scripted, TurnEvent
<1>8. as[j] = as[k]
  BY <1>4, <1>7
<1>9. {j, k} = {1, 3} /\ as[1] = as[3]
  <2>1. as[1] # as[2] /\ as[2] # as[3]
    BY CastMembers
  <2>2. (j = 1 \/ j = 2 \/ j = 3) /\ (k = 1 \/ k = 2 \/ k = 3)
    BY <1>5
  <2>3. (j = 1 /\ k = 3) \/ (j = 3 /\ k = 1)
    BY <1>8, <2>1, <2>2
  <2> QED BY <1>8, <2>3
<1>10. as[1] # as[2] /\ Actors = {as[1], as[2]}
  BY <1>9, CastMembers
<1>11. Cardinality({as[1], as[2]}) = 2
  <2>1. IsFiniteSet({as[1]}) /\ Cardinality({as[1]}) = 1
    BY FS_Singleton
  <2>2. {as[1], as[2]} = {as[1]} \cup {as[2]} /\ as[2] \notin {as[1]}
    BY <1>10
  <2>3. Cardinality({as[1]} \cup {as[2]}) = Cardinality({as[1]}) + 1
    BY <2>1, <2>2, FS_AddElement
  <2>4. Cardinality({as[1]} \cup {as[2]}) = 2
    BY <2>1, <2>3
  <2> QED BY <2>2, <2>4, Zenon
<1> QED BY <1>9, <1>10, <1>11

(* No turn answers its own author, and with three agents or more nobody    *)
(* speaks twice in a scene.                                                *)
THEOREM ScenesAnswerOthers == Spec => []NobodyAnswersThemself
  BY SceneInvariant, ScenesAreExchanges, PTL
=============================================================================
