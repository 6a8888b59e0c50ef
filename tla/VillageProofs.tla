---------------------------- MODULE VillageProofs ----------------------------
(***************************************************************************)
(* What the agents are told of one another, for any roster, any number of  *)
(* Strangers and a log of any length: VillageInv of Village is inductive.  *)
(* First what the readers see of a log that grows, then the three kinds of *)
(* step (a prompt, an answer, an event that answers nothing), then one     *)
(* step per action.                                                        *)
(***************************************************************************)
EXTENDS Village, FiniteSetTheorems, TLAPS

USE VillageAssumption

(* The log is only ever appended to. *)
Grows ==
  /\ log \in Seq(EventType) /\ log' \in Seq(EventType)
  /\ Len(log) <= Len(log')
  /\ \A i \in 1 .. Len(log) : log'[i] = log[i]

(* Old and new positions are positions.                                    *)
LEMMA LogGrows ==
  ASSUME Grows
  PROVE  1 .. Len(log) \subseteq 1 .. Len(log') /\ Len(log) + 1 .. Len(log') \subseteq 1 .. Len(log')
  BY DEF Grows

(* One event more.                                                         *)
LEMMA AppendGrows ==
  ASSUME log \in Seq(EventType), NEW e \in EventType, log' = Append(log, e)
  PROVE  Grows /\ Len(log') = Len(log) + 1 /\ log'[Len(log) + 1] = e
  BY DEF Grows

(* The weather and a recycle.                                              *)
LEMMA EndOfTickGrows ==
  ASSUME log \in Seq(EventType),
         NEW w \in {<<>>, <<Weather>>}, NEW r \in {<<>>, <<Recycle>>}, log' = log \o w \o r
  PROVE  /\ Grows
         /\ \A i \in Len(log) + 1 .. Len(log') : log'[i] \in {Weather, Recycle}
<1>1. Weather \in EventType /\ Recycle \in EventType
  BY DEF Weather, Recycle, Event, EventType
<1> HIDE DEF Weather, Recycle
<1>2. CASE w = <<>> /\ r = <<>>
  BY <1>2 DEF Grows
<1>3. CASE w = <<Weather>> /\ r = <<>>
  BY <1>1, <1>3 DEF Grows
<1>4. CASE w = <<>> /\ r = <<Recycle>>
  BY <1>1, <1>4 DEF Grows
<1>5. CASE w = <<Weather>> /\ r = <<Recycle>>
  BY <1>1, <1>5 DEF Grows
<1> QED BY <1>2, <1>3, <1>4, <1>5

(* What is for an agent since its mark is what was, and what is new.       *)
LEMMA SinceGrows ==
  ASSUME Grows, NEW a \in Names, NEW ts \in Int, ts <= Len(log)
  PROVE  Since(a, ts)' =
           Since(a, ts) \cup {i \in Len(log) + 1 .. Len(log') : Concerns(a, log'[i])}
  BY DEF Grows, Since

(* Nothing is behind a mark at the end of the log.                         *)
LEMMA NothingSinceEnd ==
  ASSUME NEW a \in Names, log \in Seq(EventType)
  PROVE  Since(a, Len(log)) = {}
  BY DEF Since

(* No later event changes what an event says of its agent's company.       *)
LEMMA CompanyKept ==
  ASSUME Grows, NEW i \in 1 .. Len(log), KeepsCompany(i)
  PROVE  KeepsCompany(i)'
<1>1. log'[i] = log[i] /\ \A j \in 1 .. i - 1 : log'[j] = log[j]
  BY DEF Grows
<1>2. OwnBefore(i)' = OwnBefore(i)
  <2>1. \A j \in 1 .. i - 1 : log'[j].actor = log'[i].actor <=> log[j].actor = log[i].actor
    BY <1>1
  <2> QED BY <2>1 DEF OwnBefore
<1>3. Stretch(i)' = Stretch(i) /\ Stretch(i) \subseteq 1 .. i - 1
  BY <1>2 DEF Stretch, OwnBefore
<1>4. (\E j \in Stretch(i) : Targeted(log[j])) => \E j \in Stretch(i) : Targeted(log'[j])
  BY <1>1, <1>3
<1> QED BY <1>1, <1>3, <1>4 DEF KeepsCompany

(* Before the next event of an agent lies what the gate looked at.         *)
LEMMA StretchIsRecent ==
  ASSUME Grows, NEW a \in Names, NEW n \in Nat, n = Len(log) + 1, Len(log') = n,
         log'[n].actor = a
  PROVE  Stretch(n)' = OwnRecent(a)
<1> DEFINE own == {i \in Last(GateLookback) : log[i].actor = a}
<1>1. \A j \in 1 .. n - 1 : log'[j] = log[j]
  BY DEF Grows
<1>2. OwnBefore(n)' = {j \in 1 .. n - 1 : j >= n - GateLookback /\ log[j].actor = a}
  BY <1>1 DEF OwnBefore
<1>3. OwnBefore(n)' = own
  BY <1>2 DEF Last, Grows
<1> QED BY <1>3 DEF Stretch, OwnRecent

(* The peers of an agent are agents.                                       *)
LEMMA PeersType ==
  ASSUME VillageTypeOK, NEW a \in Names
  PROVE  Peers(a) \subseteq Names
<1>1. roster \subseteq Names
  BY DEF VillageTypeOK, Names
<1>2. \A i \in Last(PeerLookback) : log[i].action = "speak" => log[i].actor \in Names
  BY DEF VillageTypeOK, Last
<1> QED BY <1>1, <1>2 DEF Peers

(* In a village of two or more, everybody has a peer.                      *)
LEMMA HasPeer ==
  ASSUME VillageTypeOK, Cardinality(Residents) > 1, NEW a
  PROVE  Peers(a) # {}
<1>1. SUFFICES ASSUME Peers(a) = {} PROVE FALSE
  OBVIOUS
<1>2. Residents \subseteq {a}
  BY <1>1 DEF Peers, VillageTypeOK
<1>3. Cardinality(Residents) <= Cardinality({a}) /\ Cardinality({a}) = 1
      /\ Cardinality(Residents) \in Nat
  BY <1>2, FS_Subset, FS_Singleton, FS_CardinalityType
<1> QED BY <1>3

-----------------------------------------------------------------------------
(* What the kinds of step keep of the properties.                          *)

(* A state without a prompt, in which marks are right, owes nothing amiss. *)
Heard(a) == mark[a] # Unseeded => Since(a, mark[a]) = owed[a]

(* An event that answers no prompt is owed to whom it concerns.            *)
LEMMA OtherKeepsHeard ==
  ASSUME VillageInv, Grows, mark' = mark, owed' = Owe(log')
  PROVE  /\ \A a \in Names : Heard(a)'
         /\ \A a \in Names : mark'[a] = Unseeded => owed'[a] = {}
         /\ owed' \in [Names -> SUBSET (1 .. Len(log'))]
<1> USE DEF VillageInv, VillageTypeOK
<1>1. \A a \in Names : owed'[a] =
        IF mark[a] = Unseeded THEN {}
        ELSE owed[a] \cup {i \in Len(log) + 1 .. Len(log') : Concerns(a, log'[i])}
  BY DEF Owe
<1>2. ASSUME NEW a \in Names
      PROVE  Heard(a)'
  <2>1. CASE mark[a] = Unseeded
    BY <2>1 DEF Heard
  <2>2. CASE mark[a] # Unseeded
    <3>1. mark[a] \in Int /\ mark[a] <= Len(log)
      BY DEF Grows
    <3>2. Since(a, mark[a])' =
            Since(a, mark[a]) \cup {i \in Len(log) + 1 .. Len(log') : Concerns(a, log'[i])}
      <4>1. PICK ts \in Int : ts = mark[a]
        BY <3>1
      <4>2. Since(a, ts)' =
              Since(a, ts) \cup {i \in Len(log) + 1 .. Len(log') : Concerns(a, log'[i])}
        BY <3>1, <4>1, SinceGrows
      <4> QED BY <4>1, <4>2 DEF Since
    <3>3. Since(a, mark[a]) = owed[a]
      BY <2>2 DEF HeardExactlyOnce
    <3> QED BY <1>1, <2>2, <3>2, <3>3 DEF Heard
  <2> QED BY <2>1, <2>2
<1>3. owed' \in [Names -> SUBSET (1 .. Len(log'))]
  <2>0. \A a \in Names : owed[a] \subseteq 1 .. Len(log)
    OBVIOUS
  <2>1. \A a \in Names : owed'[a] \subseteq 1 .. Len(log')
    BY <1>1, <2>0, LogGrows DEF Grows
  <2>2. owed' = [a \in Names |-> owed'[a]]
    BY DEF Owe
  <2> QED BY <2>1, <2>2
<1> QED BY <1>1, <1>2, <1>3

(* An answer settles all that its prompt showed.                           *)
LEMMA AnswerKeepsHeard ==
  ASSUME VillageInv, Prompted, NEW e \in EventType, e.actor = cur, Answer(cur, e)
  PROVE  /\ Grows /\ Len(log') = Len(log) + 1 /\ log'[Len(log) + 1] = e /\ Len(log') <= MaxLog
         /\ \A a \in Names : Heard(a)'
         /\ \A a \in Names : mark'[a] = Unseeded => owed'[a] = {}
         /\ owed' \in [Names -> SUBSET (1 .. Len(log'))]
         /\ mark' \in [Names -> Unseeded .. Len(log')]
<1> USE DEF VillageInv, VillageTypeOK
<1>1. /\ Grows /\ Len(log') = Len(log) + 1 /\ log'[Len(log) + 1] = e /\ Len(log') <= MaxLog
  BY AppendGrows DEF Answer, LogIs
<1>2. cur \in Names /\ cur # World
  BY DEF Names
<1>3. mark' = [mark EXCEPT ![cur] = Len(log')] /\ Len(log') \in Nat
  BY <1>1 DEF Answer, Grows
<1>4. mark' \in [Names -> Unseeded .. Len(log')]
  <2>1. Len(log') \in Unseeded .. Len(log')
    BY <1>3 DEF Unseeded
  <2>2. \A a \in Names : mark[a] \in Unseeded .. Len(log')
    BY <1>1 DEF Grows
  <2> QED BY <1>3, <2>1, <2>2
<1>5. owed' = [Owe(log') EXCEPT ![cur] = @ \ inbox]
  BY DEF Answer
<1>6. \A a \in Names : Owe(log')[a] =
        IF mark[a] = Unseeded THEN {}
        ELSE owed[a] \cup {i \in Len(log) + 1 .. Len(log') : Concerns(a, log'[i])}
  BY DEF Owe
<1>7. ~Concerns(cur, log'[Len(log) + 1])
  BY <1>1, <1>2 DEF Concerns
<1>8. owed'[cur] = {}
  <2>1. {i \in Len(log) + 1 .. Len(log') : Concerns(cur, log'[i])} = {}
    BY <1>1, <1>7 DEF Grows
  <2>2. inbox = owed[cur]
    BY DEF HeardExactlyOnce
  <2>3. owed'[cur] = Owe(log')[cur] \ inbox
    BY <1>2, <1>5 DEF Owe
  <2> QED BY <1>2, <1>6, <2>1, <2>2, <2>3
<1>9. ASSUME NEW a \in Names, a = cur
      PROVE  Heard(a)'
  <2>1. Since(a, Len(log))' = {}
    BY <1>1 DEF Since, Grows
  <2>2. mark'[a] = Len(log') /\ owed'[a] = {}
    BY <1>3, <1>8, <1>9
  <2> QED BY <2>1, <2>2 DEF Heard, Since
<1>10. ASSUME NEW a \in Names, a # cur
       PROVE  Heard(a)'
  <2>1. mark'[a] = mark[a] /\ owed'[a] = Owe(log')[a]
    BY <1>3, <1>5, <1>10 DEF Owe
  <2>2. CASE mark[a] = Unseeded
    BY <2>1, <2>2 DEF Heard
  <2>3. CASE mark[a] # Unseeded
    <3>1. PICK ts \in Int : ts = mark[a] /\ ts <= Len(log)
      BY DEF Grows
    <3>2. Since(a, ts)' =
            Since(a, ts) \cup {i \in Len(log) + 1 .. Len(log') : Concerns(a, log'[i])}
      BY <1>1, <3>1, SinceGrows
    <3>3. Since(a, ts) = owed[a]
      BY <2>3, <3>1 DEF HeardExactlyOnce
    <3>4. Since(a, ts)' = owed'[a]
      BY <1>6, <2>1, <2>3, <3>2, <3>3
    <3> QED BY <2>1, <3>1, <3>4 DEF Heard, Since
  <2> QED BY <2>2, <2>3
<1>11. owed' \in [Names -> SUBSET (1 .. Len(log'))]
  <2>0. \A a \in Names : owed[a] \subseteq 1 .. Len(log)
    OBVIOUS
  <2>1. \A a \in Names : Owe(log')[a] \subseteq 1 .. Len(log')
    BY <1>1, <1>6, <2>0, LogGrows
  <2>2. Owe(log') \in [Names -> SUBSET (1 .. Len(log'))]
    BY <2>1 DEF Owe
  <2> QED BY <1>2, <1>5, <1>8, <2>2
<1>12. \A a \in Names : mark'[a] = Unseeded => owed'[a] = {}
  <2>1. \A a \in Names : a # cur => mark'[a] = mark[a] /\ owed'[a] = Owe(log')[a]
    BY <1>3, <1>5 DEF Owe
  <2> QED BY <1>6, <1>8, <2>1
<1> QED BY <1>1, <1>4, <1>9, <1>10, <1>11, <1>12

(* A prompt shows what its agent is owed, and seeds its mark.              *)
LEMMA PromptKeepsHeard ==
  ASSUME VillageInv, NEW a \in Names, BuildPrompt(a)
  PROVE  /\ \A b \in Names : Heard(b)'
         /\ \A b \in Names : mark'[b] = Unseeded => owed'[b] = {}
         /\ mark'[a] # Unseeded /\ inbox' = owed'[a] /\ inbox' \subseteq 1 .. Len(log')
         /\ mark' \in [Names -> Unseeded .. Len(log')]
         /\ cache'.upto \in Unseeded .. Len(log') /\ cache'.peers \subseteq Names
<1> USE DEF VillageInv, VillageTypeOK
<1>1. log' = log /\ owed' = owed /\ Len(log) \in Nat
  BY DEF BuildPrompt
<1>2. mark' = Seed(a) /\ inbox' = Since(a, mark'[a])
  BY DEF BuildPrompt
<1>3. /\ mark'[a] # Unseeded /\ mark'[a] \in 0 .. Len(log)
      /\ \A b \in Names : b # a => mark'[b] = mark[b]
      /\ mark' \in [Names -> Unseeded .. Len(log)]
  BY <1>1, <1>2 DEF Seed, Unseeded
<1>4. Since(a, mark'[a]) = owed[a]
  <2>1. CASE mark[a] = Unseeded
    <3>1. mark'[a] = Len(log)
      BY <1>2, <2>1 DEF Seed
    <3> QED BY <2>1, <3>1, NothingSinceEnd
  <2>2. CASE mark[a] # Unseeded
    <3>1. mark'[a] = mark[a]
      BY <1>2, <2>2 DEF Seed
    <3> QED BY <2>2, <3>1 DEF HeardExactlyOnce
  <2> QED BY <2>1, <2>2
<1>5. \A b \in Names : Heard(b)'
  <2>1. ASSUME NEW b \in Names
        PROVE  mark'[b] # Unseeded => Since(b, mark'[b]) = owed[b]
    BY <1>3, <1>4 DEF HeardExactlyOnce
  <2> QED BY <1>1, <2>1 DEF Heard, Since, Concerns
<1>6. \A b \in Names : mark'[b] = Unseeded => owed'[b] = {}
  BY <1>1, <1>3
<1>7. inbox' \subseteq 1 .. Len(log')
  BY <1>1, <1>2 DEF Since
<1>8. cache'.upto \in Unseeded .. Len(log') /\ cache'.peers \subseteq Names
  <2>1. roster \subseteq Names
    BY DEF Names
  <2>2. CASE Stale
    <3>1. cache' = [upto |-> Len(log), peers |-> roster]
      BY <2>2 DEF BuildPrompt
    <3>2. Len(log) \in Unseeded .. Len(log)
      BY <1>1 DEF Unseeded
    <3> QED BY <1>1, <2>1, <3>1, <3>2
  <2>3. CASE ~Stale
    BY <1>1, <2>3 DEF BuildPrompt
  <2> QED BY <2>2, <2>3
<1> QED BY <1>1, <1>2, <1>3, <1>4, <1>5, <1>6, <1>7, <1>8

(* Who may be silent among the new events decides for all.                 *)
LEMMA CompanyAfter ==
  ASSUME VillageInv, Grows,
         Cardinality(Residents) > 1 =>
           \A i \in Len(log) + 1 .. Len(log') : KeepsCompany(i)'
  PROVE  NobodyGoesSilent'
<1>1. SUFFICES ASSUME Cardinality(Residents) > 1, NEW i \in 1 .. Len(log')
               PROVE  KeepsCompany(i)'
  BY DEF NobodyGoesSilent
<1>2. CASE i <= Len(log)
  <2>1. i \in 1 .. Len(log)
    BY <1>2 DEF Grows
  <2>2. KeepsCompany(i)
    BY <1>1, <2>1 DEF VillageInv, NobodyGoesSilent
  <2> QED BY <2>1, <2>2, CompanyKept
<1>3. CASE i > Len(log)
  <2>1. i \in Len(log) + 1 .. Len(log')
    BY <1>3 DEF Grows
  <2> QED BY <1>1, <2>1
<1> QED BY <1>2, <1>3 DEF Grows

(* Nobody goes silent while nothing is logged.                             *)
LEMMA CompanyUnchanged ==
  ASSUME VillageInv, log' = log
  PROVE  NobodyGoesSilent'
<1>1. Grows /\ Len(log) + 1 .. Len(log') = {}
  BY DEF Grows, VillageInv, VillageTypeOK
<1> QED BY <1>1, CompanyAfter

(* The part of the type invariant that is about the log.                   *)
LogOK ==
  /\ log \in Seq(EventType) /\ Len(log) <= MaxLog
  /\ \A i \in 1 .. Len(log) :
       /\ log[i].actor \in Residents \cup spawned \cup {World, Harvester, SceneActor}
       /\ log[i].action = "speak" => log[i].actor \in Names
       /\ log[i].scene < i

(* New events of known authors keep the log in order.                      *)
LEMMA LogAfter ==
  ASSUME VillageInv, Grows, Len(log') <= MaxLog, spawned \subseteq spawned',
         \A i \in Len(log) + 1 .. Len(log') :
           /\ log'[i].actor \in Residents \cup spawned' \cup {World, Harvester, SceneActor}
           /\ log'[i].action = "speak" => log'[i].actor \in Names
           /\ log'[i].scene < i
  PROVE  LogOK'
<1>1. SUFFICES ASSUME NEW i \in 1 .. Len(log')
               PROVE  /\ log'[i].actor \in Residents \cup spawned' \cup {World, Harvester, SceneActor}
                      /\ log'[i].action = "speak" => log'[i].actor \in Names
                      /\ log'[i].scene < i
  BY DEF LogOK, Grows
<1>2. CASE i <= Len(log)
  <2>1. i \in 1 .. Len(log) /\ log'[i] = log[i]
    BY <1>2 DEF Grows
  <2> QED BY <2>1 DEF VillageInv, VillageTypeOK
<1>3. CASE i > Len(log)
  <2>1. i \in Len(log) + 1 .. Len(log')
    BY <1>3 DEF Grows
  <2> QED BY <2>1
<1> QED BY <1>2, <1>3 DEF Grows

-----------------------------------------------------------------------------
(* The actions. *)

(* A prompt that the gate reached is answered by a word to somebody, or by *)
(* the fallback of the parser.                                             *)
LEMMA AnswersType ==
  ASSUME VillageInv, pc = "prompted", NEW e \in Answers(cur)
  PROVE  /\ e \in EventType /\ e.actor = cur /\ e.scene = 0 /\ cur \in Names
         /\ GateFires(cur) => Fallback(e) \/ Targeted(e)
<1>1. cur \in Names /\ cur \in roster /\ roster \cup spawned \subseteq Names
  BY DEF VillageInv, VillageTypeOK, Prompted, Names
<1>2. GateFires(cur) => required \in Names
  BY <1>1, PeersType DEF VillageInv
<1>3. required \in Names \cup {NoOne} /\ NoOne \notin Names
  BY DEF VillageInv, VillageTypeOK
<1>4. CASE e = ParseFallback(cur)
  BY <1>1, <1>4 DEF ParseFallback, Event, EventType, Fallback
<1>5. CASE required # NoOne /\ e \in GatedAnswers(cur)
  <2>1. PICK c \in BOOLEAN : e = Event(cur, "speak", required, c, 0)
    BY <1>5 DEF GatedAnswers
  <2> QED BY <1>1, <1>3, <1>5, <2>1 DEF Event, EventType, Targeted
<1>6. CASE required = NoOne /\ e \in FreeAnswers(cur)
  <2>1. ~GateFires(cur)
    BY <1>2, <1>3, <1>6
  <2>2. PICK v \in {"rest", "speak"}, b \in Names \cup {NoOne}, c \in BOOLEAN :
          e = Event(cur, v, b, c, 0)
    <3> DEFINE said == {Event(cur, "speak", b, c, 0) :
                          b \in (roster \cup spawned) \ {cur}, c \in BOOLEAN}
    <3>1. \/ e \in {Event(cur, "rest", NoOne, TRUE, 0), Event(cur, "speak", NoOne, TRUE, 0)}
          \/ e \in said
      <4>1. FreeAnswers(cur) =
              {Event(cur, "rest", NoOne, TRUE, 0), Event(cur, "speak", NoOne, TRUE, 0)} \cup said
        BY DEF FreeAnswers
      <4> HIDE DEF said
      <4> QED BY <1>6, <4>1
    <3>2. CASE e \in said
      <4>1. PICK b \in (roster \cup spawned) \ {cur}, c \in BOOLEAN : e = Event(cur, "speak", b, c, 0)
        BY <3>2
      <4>2. b \in Names \cup {NoOne}
        BY <1>1, <4>1
      <4> QED BY <4>1, <4>2
    <3> HIDE DEF said
    <3> QED BY <1>1, <3>1, <3>2
  <2> QED BY <1>1, <2>1, <2>2 DEF Event, EventType
<1> QED BY <1>4, <1>5, <1>6 DEF Answers

(* The next event of an agent whose gate did not fire is in company.       *)
LEMMA CompanyOfAnswer ==
  ASSUME VillageInv, Grows, Len(log') = Len(log) + 1, NEW a \in Names, NEW e,
         log'[Len(log) + 1] = e, e.actor = a,
         GateFires(a) => Fallback(e) \/ Targeted(e),
         Cardinality(Residents) > 1,
         NEW i \in Len(log) + 1 .. Len(log')
  PROVE  KeepsCompany(i)'
<1>1. i = Len(log) + 1 /\ i \in Nat /\ log'[i] = e
  BY DEF Grows
<1>2. Stretch(i)' = OwnRecent(a)
  BY <1>1, StretchIsRecent
<1>3. CASE GateFires(a)
  BY <1>1, <1>3 DEF KeepsCompany, Fallback, Targeted
<1>4. CASE ~GateFires(a)
  <2>1. \/ Cardinality(OwnRecent(a)) # EngageEvery
        \/ \E j \in OwnRecent(a) : Targeted(log[j])
    BY <1>4, HasPeer DEF GateFires, VillageInv
  <2>2. \A j \in OwnRecent(a) : log'[j] = log[j]
    BY DEF OwnRecent, Last, Grows
  <2>3. \/ Cardinality(OwnRecent(a)) # EngageEvery
        \/ \E j \in OwnRecent(a) : Targeted(log'[j])
    BY <2>1, <2>2
  <2> QED BY <1>2, <2>3 DEF KeepsCompany
<1> QED BY <1>3, <1>4

(* The tick of one agent. *)
LEMMA CommitStep ==
  ASSUME VillageInv, Commit
  PROVE  VillageInv'
<1>1. PICK e \in Answers(cur) : Answer(cur, e)
  BY DEF Commit
<1>2. pc = "prompted" /\ Prompted
  BY DEF Commit, Prompted
<1>3. /\ e \in EventType /\ e.actor = cur /\ e.scene = 0 /\ cur \in Names
      /\ GateFires(cur) => Fallback(e) \/ Targeted(e)
  BY <1>2, AnswersType
<1>4. /\ Grows /\ Len(log') = Len(log) + 1 /\ log'[Len(log) + 1] = e /\ Len(log') <= MaxLog
      /\ \A a \in Names : Heard(a)'
      /\ \A a \in Names : mark'[a] = Unseeded => owed'[a] = {}
      /\ owed' \in [Names -> SUBSET (1 .. Len(log'))]
      /\ mark' \in [Names -> Unseeded .. Len(log')]
  BY <1>1, <1>2, <1>3, AnswerKeepsHeard
<1>5. /\ pc' = "end" /\ inbox' = {} /\ required' = NoOne
      /\ UNCHANGED <<roster, spawned, cache, authors, scene>>
  BY DEF Commit, NoPrompt, turns
<1>6. NobodyGoesSilent'
  <2>1. PICK a \in Names : a = cur
    BY <1>3
  <2> QED BY <1>3, <1>4, <2>1, CompanyOfAnswer, CompanyAfter
<1>7. LogOK'
  <2>1. cur \in Residents \cup spawned
    BY <1>2 DEF VillageInv, VillageTypeOK
  <2>2. \A i \in Len(log) + 1 .. Len(log') : log'[i] = e /\ 0 < i
    BY <1>4 DEF Grows
  <2> QED BY <1>3, <1>4, <1>5, <2>1, <2>2, LogAfter
<1>8. cache.upto \in Unseeded .. Len(log') /\ scene \in 0 .. Len(log')
  BY <1>4 DEF VillageInv, VillageTypeOK, Grows, Unseeded
<1>9. VillageTypeOK'
  BY <1>4, <1>5, <1>7, <1>8 DEF VillageInv, VillageTypeOK, LogOK, Prompted
<1> QED BY <1>4, <1>5, <1>6, <1>9 DEF VillageInv, HeardExactlyOnce, Heard, Prompted

(* A turn of a scene is a contribution, which the gate does not ask about. *)
LEMMA SceneTurnStep ==
  ASSUME VillageInv, SceneTurn
  PROVE  VillageInv'
<1> DEFINE e == Event(cur, "contribute", NoOne, TRUE, scene)
<1>1. Answer(cur, e) /\ Prompted
  BY DEF SceneTurn, Prompted
<1>2. /\ e \in EventType /\ e.actor = cur /\ e.scene = scene /\ e.action = "contribute"
      /\ cur \in Names /\ cur \in roster /\ scene \in Nat /\ scene # 0 /\ scene <= Len(log)
  BY <1>1 DEF SceneTurn, Event, EventType, VillageInv, VillageTypeOK, Prompted, Names
<1> HIDE DEF e
<1>4. /\ Grows /\ Len(log') = Len(log) + 1 /\ log'[Len(log) + 1] = e /\ Len(log') <= MaxLog
      /\ \A a \in Names : Heard(a)'
      /\ \A a \in Names : mark'[a] = Unseeded => owed'[a] = {}
      /\ owed' \in [Names -> SUBSET (1 .. Len(log'))]
      /\ mark' \in [Names -> Unseeded .. Len(log')]
  BY <1>1, <1>2, AnswerKeepsHeard
<1>5. /\ pc' \in {"end", "scene"} /\ inbox' = {} /\ required' = NoOne
      /\ UNCHANGED <<roster, spawned, cache>>
      /\ authors' = Tail(authors)
      /\ pc' = "end" => scene' = 0
      /\ pc' = "scene" => scene' = scene /\ Len(authors) # 1
  BY DEF SceneTurn, NoPrompt
<1>6. \A i \in Len(log) + 1 .. Len(log') : log'[i] = e /\ scene < i
  BY <1>2, <1>4 DEF Grows
<1>7. NobodyGoesSilent'
  <2>1. \A i \in Len(log) + 1 .. Len(log') : KeepsCompany(i)'
    BY <1>2, <1>6 DEF KeepsCompany
  <2> QED BY <1>4, <2>1, CompanyAfter
<1>8. LogOK'
  <2>1. cur \in Residents \cup spawned
    BY <1>2 DEF VillageInv, VillageTypeOK
  <2> QED BY <1>2, <1>4, <1>5, <1>6, <2>1, LogAfter
<1>9. cache.upto \in Unseeded .. Len(log') /\ scene' \in 0 .. Len(log')
  <2>1. cache.upto \in Unseeded .. Len(log) /\ Len(log) \in Nat
    BY DEF VillageInv, VillageTypeOK
  <2>2. cache.upto \in Unseeded .. Len(log')
    BY <1>4, <2>1 DEF Unseeded
  <2>3. scene' \in 0 .. Len(log')
    BY <1>2, <1>4, <1>5, <2>1
  <2> QED BY <2>2, <2>3
<1>10. authors' \in Seq(roster) /\ (pc' = "scene" => authors' # <<>> /\ scene' # 0)
  <2>1. authors \in Seq(roster) /\ authors # <<>>
    BY DEF SceneTurn, VillageInv, VillageTypeOK
  <2>2. Tail(authors) \in Seq(roster) /\ (Len(authors) # 1 => Tail(authors) # <<>>)
    <3>1. Len(authors) \in Nat /\ Len(authors) # 0
      BY <2>1
    <3>2. Tail(authors) \in Seq(roster) /\ Len(Tail(authors)) = Len(authors) - 1
      BY <2>1
    <3> QED BY <3>1, <3>2
  <2> QED BY <1>2, <1>5, <2>2
<1>11. VillageTypeOK'
  BY <1>4, <1>5, <1>8, <1>9, <1>10 DEF VillageInv, VillageTypeOK, LogOK, Prompted
<1> QED
  BY <1>4, <1>5, <1>7, <1>10, <1>11 DEF VillageInv, HeardExactlyOnce, Heard, Prompted

(* Nothing has happened. *)
LEMMA VillageInit ==
  ASSUME Init
  PROVE  VillageInv
<1> USE DEF Init
<1>1. log \in Seq(EventType) /\ Len(log) = 0
  OBVIOUS
<1>2. roster \cap Strangers = {} /\ Cardinality(roster \cap Strangers) = 0
      /\ IsFiniteSet(roster \cap Strangers)
  BY FS_EmptySet
<1>3. VillageTypeOK
  BY <1>1, <1>2 DEF VillageTypeOK, Prompted, NoCache, Unseeded, Names
<1>4. HeardExactlyOnce
  BY DEF HeardExactlyOnce, Prompted
<1>5. NobodyGoesSilent
  BY <1>1 DEF NobodyGoesSilent
<1> QED BY <1>2, <1>3, <1>4, <1>5 DEF VillageInv, Prompted

(* A prompt changes neither the log nor who is in the village.             *)
LEMMA PromptedInv ==
  ASSUME VillageInv, NEW a \in Names, a \in roster, BuildPrompt(a), UNCHANGED turns,
         pc' \in {"prompted", "turn"}, required' \in Names \cup {NoOne},
         pc' = "turn" => authors # <<>> /\ scene # 0,
         pc' = "prompted" /\ GateFires(a) => required' \in Peers(a)
  PROVE  VillageInv'
<1>1. /\ UNCHANGED <<log, roster, spawned, owed, authors, scene>> /\ cur' = a
  BY DEF BuildPrompt, turns
<1>2. /\ \A b \in Names : Heard(b)'
      /\ \A b \in Names : mark'[b] = Unseeded => owed'[b] = {}
      /\ mark'[a] # Unseeded /\ inbox' = owed'[a] /\ inbox' \subseteq 1 .. Len(log')
      /\ mark' \in [Names -> Unseeded .. Len(log')]
      /\ cache'.upto \in Unseeded .. Len(log') /\ cache'.peers \subseteq Names
  BY PromptKeepsHeard
<1>3. VillageTypeOK'
  BY <1>1, <1>2 DEF VillageInv, VillageTypeOK, Prompted
<1>4. HeardExactlyOnce'
  BY <1>1, <1>2 DEF HeardExactlyOnce, Heard
<1>5. NobodyGoesSilent'
  BY <1>1, CompanyUnchanged
<1>6. GateFires(a)' = GateFires(a) /\ Peers(a)' = Peers(a)
  BY <1>1 DEF GateFires, Peers, OwnRecent, Last
<1> QED BY <1>1, <1>2, <1>3, <1>4, <1>5, <1>6 DEF VillageInv

(* The prompt of a tick. *)
LEMMA PromptStep ==
  ASSUME VillageInv, NEW a \in Names, Prompt(a)
  PROVE  VillageInv'
<1>1. Peers(a) \subseteq Names
  BY PeersType DEF VillageInv
<1>2. required' \in Names \cup {NoOne} /\ (GateFires(a) => required' \in Peers(a))
  BY <1>1 DEF Prompt
<1> QED BY <1>2, PromptedInv DEF Prompt

(* The prompt of a turn. *)
LEMMA ScenePromptStep ==
  ASSUME VillageInv, ScenePrompt
  PROVE  VillageInv'
<1>1. authors \in Seq(roster) /\ authors # <<>> /\ scene # 0 /\ roster \subseteq Names
  BY DEF ScenePrompt, VillageInv, VillageTypeOK, Names
<1>2. PICK a \in roster : a = Head(authors)
  BY <1>1
<1>3. a \in Names /\ BuildPrompt(a)
  BY <1>1, <1>2 DEF ScenePrompt
<1> QED BY <1>1, <1>3, PromptedInv DEF ScenePrompt

(* A thought that raises leaves no trace.                                  *)
LEMMA ThinkRaisesStep ==
  ASSUME VillageInv, ThinkRaises
  PROVE  VillageInv'
<1>1. /\ UNCHANGED <<log, roster, spawned, mark, owed, cache, authors, scene>>
      /\ pc' = "idle" /\ inbox' = {} /\ required' = NoOne
  BY DEF ThinkRaises, NoPrompt, memory, turns
<1>2. VillageTypeOK'
  BY <1>1 DEF VillageInv, VillageTypeOK, Prompted
<1>3. HeardExactlyOnce'
  BY <1>1 DEF VillageInv, HeardExactlyOnce, Prompted, Since, Concerns
<1>4. NobodyGoesSilent'
  BY <1>1, CompanyUnchanged
<1> QED BY <1>1, <1>2, <1>3, <1>4 DEF VillageInv, Prompted

(* Events of the village itself end the prompt they interrupt.             *)
LEMMA OtherStep ==
  ASSUME VillageInv, Grows, Len(log') <= MaxLog, mark' = mark, owed' = Owe(log'),
         \A i \in Len(log) + 1 .. Len(log') :
           log'[i].actor \in {World, Harvester, SceneActor} /\ log'[i].action # "speak"
           /\ log'[i].scene = 0,
         spawned \subseteq spawned', spawned' \subseteq Strangers,
         roster \subseteq roster', roster' \subseteq Residents \cup spawned',
         IsFiniteSet(roster' \cap Strangers), Cardinality(roster' \cap Strangers) <= MaxStrangers,
         cache' = cache, pc' \in {"idle", "scene", "end"}, inbox' \subseteq 1 .. Len(log'),
         required' \in Names \cup {NoOne},
         scene' \in 0 .. Len(log'), authors' \in Seq(roster'),
         pc' = "scene" => authors' # <<>> /\ scene' # 0
  PROVE  VillageInv'
<1>1. /\ \A a \in Names : Heard(a)'
      /\ \A a \in Names : mark'[a] = Unseeded => owed'[a] = {}
      /\ owed' \in [Names -> SUBSET (1 .. Len(log'))]
  BY OtherKeepsHeard
<1>2. LogOK'
  <2>1. \A i \in Len(log) + 1 .. Len(log') : 0 < i
    BY DEF Grows
  <2> QED BY <2>1, LogAfter
<1>3. NobodyGoesSilent'
  <2>1. \A i \in Len(log) + 1 .. Len(log') : KeepsCompany(i)'
    BY DEF KeepsCompany
  <2> QED BY <2>1, CompanyAfter
<1>4. mark' \in [Names -> Unseeded .. Len(log')] /\ cache'.upto \in Unseeded .. Len(log')
  <2>1. \A a \in Names : mark[a] \in Unseeded .. Len(log')
    BY DEF VillageInv, VillageTypeOK, Grows, Unseeded
  <2>2. cache.upto \in Unseeded .. Len(log')
    BY DEF VillageInv, VillageTypeOK, Grows, Unseeded
  <2> QED BY <2>1, <2>2 DEF VillageInv, VillageTypeOK
<1>5. ~Prompted' /\ pc' # "turn" /\ pc' # "prompted"
  BY DEF Prompted
<1>6. VillageTypeOK'
  BY <1>1, <1>2, <1>4, <1>5 DEF VillageInv, VillageTypeOK, LogOK
<1>7. HeardExactlyOnce'
  BY <1>1, <1>5 DEF HeardExactlyOnce, Heard
<1> QED BY <1>1, <1>3, <1>5, <1>6, <1>7 DEF VillageInv

(* An event that opens or aborts a scene.                                  *)
LEMMA SceneEvent ==
  ASSUME VillageInv, NEW e \in {SceneOpen, SceneAbort}, Other(e)
  PROVE  /\ Grows /\ Len(log') = Len(log) + 1 /\ Len(log') <= MaxLog
         /\ mark' = mark /\ owed' = Owe(log')
         /\ \A i \in Len(log) + 1 .. Len(log') :
              log'[i].actor \in {World, Harvester, SceneActor} /\ log'[i].action # "speak"
              /\ log'[i].scene = 0
<1>1. /\ e \in EventType /\ e.actor = SceneActor /\ e.action # "speak" /\ e.scene = 0
  <2>1. CASE e = SceneOpen
    BY <2>1 DEF SceneOpen, Event, EventType
  <2>2. CASE e = SceneAbort
    BY <2>2 DEF SceneAbort, Event, EventType
  <2> QED BY <2>1, <2>2
<1>2. log \in Seq(EventType) /\ log' = Append(log, e)
  BY DEF Other, LogIs, VillageInv, VillageTypeOK
<1>3. Grows /\ Len(log') = Len(log) + 1 /\ log'[Len(log) + 1] = e
  BY <1>1, <1>2, AppendGrows
<1>4. \A i \in Len(log) + 1 .. Len(log') : log'[i] = e
  BY <1>3 DEF Grows
<1> QED BY <1>1, <1>3, <1>4 DEF Other, LogIs

(* The three authors of a scene are of the roster.                         *)
LEMMA OpenSceneStep ==
  ASSUME VillageInv, OpenScene
  PROVE  VillageInv'
<1>1. Other(SceneOpen) /\ UNCHANGED <<roster, spawned, cache>> /\ pc' = "scene" /\ NoPrompt
      /\ scene' = Len(log') /\ pc = "prompted"
  BY DEF OpenScene
<1>2. cur \in roster
  BY <1>1 DEF VillageInv, VillageTypeOK, Prompted
<1>3. authors' \in Seq(roster) /\ authors' # <<>>
  <2>1. PICK b \in roster, c \in roster : authors' = <<cur, b, c>>
    BY <1>2 DEF OpenScene
  <2> QED BY <1>2, <2>1
<1>4. scene' \in 0 .. Len(log') /\ scene' # 0
  BY <1>1, SceneEvent DEF VillageInv, VillageTypeOK
<1> QED BY <1>1, <1>3, <1>4, SceneEvent, OtherStep DEF VillageInv, VillageTypeOK, NoPrompt

(* What is left of an aborted scene is dropped.                            *)
LEMMA SceneAbortsStep ==
  ASSUME VillageInv, SceneAborts
  PROVE  VillageInv'
<1>1. Other(SceneAbort) /\ UNCHANGED <<roster, spawned, cache>> /\ pc' = "end" /\ NoPrompt
      /\ scene' = 0 /\ authors' = <<>>
  BY DEF SceneAborts
<1>2. scene' \in 0 .. Len(log') /\ authors' \in Seq(roster)
  BY <1>1, SceneEvent DEF VillageInv, VillageTypeOK
<1> QED BY <1>1, <1>2, SceneEvent, OtherStep DEF VillageInv, VillageTypeOK, NoPrompt

(* One Stranger more, where the cap allows it.                             *)
LEMMA EchoChamberStep ==
  ASSUME VillageInv, NEW l, EchoChamber(l)
  PROVE  /\ spawned \subseteq spawned' /\ spawned' \subseteq Strangers
         /\ roster \subseteq roster' /\ roster' \subseteq Residents \cup spawned'
         /\ IsFiniteSet(roster' \cap Strangers)
         /\ Cardinality(roster' \cap Strangers) <= MaxStrangers
<1>1. PICK s \in Strangers \ spawned : roster' = roster \cup {s} /\ spawned' = spawned \cup {s}
  BY DEF EchoChamber
<1>2. s \notin roster
  BY <1>1 DEF VillageInv, VillageTypeOK
<1>3. roster' \cap Strangers = (roster \cap Strangers) \cup {s} /\ s \notin roster \cap Strangers
  BY <1>1, <1>2
<1>4. IsFiniteSet(roster' \cap Strangers)
      /\ Cardinality(roster' \cap Strangers) = Cardinality(roster \cap Strangers) + 1
  BY <1>3, FS_AddElement DEF VillageInv
<1>5. Cardinality(roster \cap Strangers) \in Nat /\ MaxStrangers \in Nat
  BY FS_CardinalityType DEF VillageInv
<1>6. Cardinality(roster' \cap Strangers) <= MaxStrangers
  BY <1>4, <1>5 DEF EchoChamber
<1> QED BY <1>1, <1>4, <1>6 DEF VillageInv, VillageTypeOK

(* Weather, a Stranger and the recycles.                                   *)
LEMMA EndTickStep ==
  ASSUME VillageInv, EndTick
  PROVE  VillageInv'
<1>1. PICK w \in {<<>>, <<Weather>>}, r \in {<<>>, <<Recycle>>} :
        /\ LogIs(log \o w \o r)
        /\ owed' = Owe(log')
        /\ EchoChamber(log \o w) \/ UNCHANGED <<roster, spawned>>
  BY DEF EndTick
<1>2. log \in Seq(EventType) /\ log' = log \o w \o r /\ Len(log') <= MaxLog
  BY <1>1 DEF LogIs, VillageInv, VillageTypeOK
<1>3. /\ Grows
      /\ \A i \in Len(log) + 1 .. Len(log') : log'[i] \in {Weather, Recycle}
  BY <1>2, EndOfTickGrows
<1>4. \A e \in {Weather, Recycle} :
        e.actor \in {World, Harvester, SceneActor} /\ e.action # "speak" /\ e.scene = 0
  BY DEF Weather, Recycle, Event
<1>5. /\ spawned \subseteq spawned' /\ spawned' \subseteq Strangers
      /\ roster \subseteq roster' /\ roster' \subseteq Residents \cup spawned'
      /\ IsFiniteSet(roster' \cap Strangers)
      /\ Cardinality(roster' \cap Strangers) <= MaxStrangers
  <2>1. CASE UNCHANGED <<roster, spawned>>
    BY <2>1 DEF VillageInv, VillageTypeOK
  <2>2. CASE EchoChamber(log \o w)
    BY <2>2, EchoChamberStep
  <2> QED BY <1>1, <2>1, <2>2
<1>6. /\ pc' = "idle" /\ UNCHANGED <<mark, cache, inbox, required, authors, scene>> /\ pc = "end"
  BY DEF EndTick, prompt, turns
<1>7. authors \in Seq(roster')
  <2>1. authors \in Seq(roster) /\ \A i \in 1 .. Len(authors) : authors[i] \in roster'
    BY <1>5 DEF VillageInv, VillageTypeOK
  <2> QED BY <2>1
<1>8. scene \in 0 .. Len(log')
  BY <1>3 DEF VillageInv, VillageTypeOK, Grows
<1>9. inbox \subseteq 1 .. Len(log') /\ required \in Names \cup {NoOne}
  <2>1. inbox \subseteq 1 .. Len(log) /\ required \in Names \cup {NoOne}
    BY DEF VillageInv, VillageTypeOK
  <2> QED BY <1>3, <2>1, LogGrows
<1>10. \A i \in Len(log) + 1 .. Len(log') :
         log'[i].actor \in {World, Harvester, SceneActor} /\ log'[i].action # "speak"
         /\ log'[i].scene = 0
  BY <1>3, <1>4
<1> QED BY <1>1, <1>2, <1>3, <1>5, <1>6, <1>7, <1>8, <1>9, <1>10, OtherStep

(* A new process knows nothing, and nothing is owed to its agents.         *)
LEMMA RestartStep ==
  ASSUME VillageInv, Restart
  PROVE  VillageInv'
<1>1. /\ roster' = Residents /\ UNCHANGED <<log, spawned>> /\ cache' = NoCache
      /\ mark' = [a \in Names |-> Unseeded] /\ owed' = [a \in Names |-> {}]
      /\ pc' = "idle" /\ inbox' = {} /\ required' = NoOne /\ authors' = <<>> /\ scene' = 0
  BY DEF Restart, NoPrompt
<1>2. Residents \cap Strangers = {} /\ Cardinality(roster' \cap Strangers) = 0
      /\ IsFiniteSet(roster' \cap Strangers)
  BY <1>1, FS_EmptySet
<1>3. VillageTypeOK'
  BY <1>1, <1>2 DEF VillageInv, VillageTypeOK, Prompted, NoCache, Unseeded, Names
<1>4. HeardExactlyOnce'
  BY <1>1 DEF HeardExactlyOnce, Prompted
<1>5. NobodyGoesSilent'
  BY <1>1, CompanyUnchanged
<1> QED BY <1>1, <1>2, <1>3, <1>4, <1>5 DEF VillageInv, Prompted

-----------------------------------------------------------------------------
(* The theorems. *)

(* Every state a village comes to satisfies the inductive invariant.       *)
THEOREM VillageInvariant == Spec => []VillageInv
<1>1. Init => VillageInv
  BY VillageInit
<1>2. VillageInv /\ [Next]_vars => VillageInv'
  <2> SUFFICES ASSUME VillageInv, [Next]_vars PROVE VillageInv'
    OBVIOUS
  <2>1. CASE \E a \in Names : Prompt(a)
    BY <2>1, PromptStep
  <2>2. CASE ThinkRaises
    BY <2>2, ThinkRaisesStep
  <2>3. CASE Commit
    BY <2>3, CommitStep
  <2>4. CASE OpenScene
    BY <2>4, OpenSceneStep
  <2>5. CASE ScenePrompt
    BY <2>5, ScenePromptStep
  <2>6. CASE SceneTurn
    BY <2>6, SceneTurnStep
  <2>7. CASE SceneAborts
    BY <2>7, SceneAbortsStep
  <2>8. CASE EndTick
    BY <2>8, EndTickStep
  <2>9. CASE Restart
    BY <2>9, RestartStep
  <2>10. CASE UNCHANGED vars
    <3>1. UNCHANGED <<log, roster, spawned, mark, cache, pc, cur, inbox, required, authors, scene, owed>>
      BY <2>10 DEF vars
    <3>2. VillageTypeOK'
      BY <3>1 DEF VillageInv, VillageTypeOK, Prompted
    <3>3. HeardExactlyOnce'
      BY <3>1 DEF VillageInv, HeardExactlyOnce, Prompted, Since, Concerns
    <3>4. NobodyGoesSilent'
      BY <3>1, CompanyUnchanged
    <3>5. (pc = "prompted" /\ GateFires(cur) => required \in Peers(cur))'
      <4>1. PICK a : a = cur
        OBVIOUS
      <4>2. Peers(a)' = Peers(a) /\ OwnRecent(a)' = OwnRecent(a)
        BY <3>1 DEF Peers, OwnRecent, Last
      <4>3. GateFires(a)' = GateFires(a)
        BY <3>1, <4>2 DEF GateFires
      <4> QED BY <3>1, <4>1, <4>2, <4>3 DEF VillageInv
    <3> QED BY <3>1, <3>2, <3>3, <3>4, <3>5 DEF VillageInv, Prompted
  <2> QED BY <2>1, <2>2, <2>3, <2>4, <2>5, <2>6, <2>7, <2>8, <2>9, <2>10 DEF Next
<1> QED BY <1>1, <1>2, PTL DEF Spec

(* Marks, cache and prompts stay in the log and in the roster, and the     *)
(* Strangers stay under their cap.                                         *)
THEOREM VillageTypeCorrect == Spec => []VillageTypeOK
<1>1. VillageInv => VillageTypeOK
  BY DEF VillageInv
<1> QED BY <1>1, VillageInvariant, PTL

(* Whatever scenes, errors and restarts come in between, what is said to   *)
(* an agent behind its first prompt is answered in exactly one prompt.     *)
THEOREM NothingIsMissed == Spec => []HeardExactlyOnce
<1>1. VillageInv => HeardExactlyOnce
  BY DEF VillageInv
<1> QED BY <1>1, VillageInvariant, PTL

(* The gate keeps every agent in company, for every interval and lookback. *)
THEOREM CompanyIsKept == Spec => []NobodyGoesSilent
<1>1. VillageInv => NobodyGoesSilent
  BY DEF VillageInv
<1> QED BY <1>1, VillageInvariant, PTL

-----------------------------------------------------------------------------
(* The relationship ledgers. *)

(* A set that grows by some of D grows by no more than D.                  *)
LEMMA GrowsBy ==
  ASSUME NEW B, IsFiniteSet(B), NEW D, IsFiniteSet(D), NEW A \in SUBSET (B \cup D)
  PROVE  Cardinality(A) - Cardinality(B) <= Cardinality(D)
<1>1. /\ IsFiniteSet(B \cup D)
      /\ Cardinality(B \cup D) = Cardinality(B) + Cardinality(D) - Cardinality(B \cap D)
  BY FS_Union
<1>2. IsFiniteSet(A) /\ Cardinality(A) <= Cardinality(B \cup D)
  BY <1>1, FS_Subset
<1>3. IsFiniteSet(B \cap D)
  BY FS_Subset
<1>4. /\ Cardinality(A) \in Nat /\ Cardinality(B) \in Nat /\ Cardinality(D) \in Nat
      /\ Cardinality(B \cap D) \in Nat
  BY <1>2, <1>3, FS_CardinalityType
<1>5. \A a, b, d, i, u \in Int : a <= u /\ u = b + d - i /\ i >= 0 => a - b <= d
  OBVIOUS
<1>6. Cardinality(B \cup D) \in Nat /\ Cardinality(B \cap D) >= 0
  BY <1>1, <1>4, FS_CardinalityType
<1> QED BY <1>1, <1>2, <1>4, <1>5, <1>6

(* The positions behind m.                                                 *)
LEMMA Behind ==
  ASSUME NEW m \in Nat, NEW n \in Nat, m <= n
  PROVE  /\ IsFiniteSet(m + 1 .. n) /\ Cardinality(m + 1 .. n) = n - m
         /\ IsFiniteSet(1 .. m)
<1>1. PICK h \in Int : h = m + 1
  OBVIOUS
<1>2. IsFiniteSet(h .. n) /\ Cardinality(h .. n) = IF h > n THEN 0 ELSE n - h + 1
  BY FS_Interval
<1>3. IsFiniteSet(1 .. m)
  BY FS_Interval
<1> QED BY <1>1, <1>2, <1>3

(* What was spoken behind the cache is at most what was logged behind it.  *)
LEMMA SpokenGrows ==
  ASSUME log \in Seq(EventType), NEW m \in 0 .. Len(log), NEW a, NEW b
  PROVE  /\ Spoken(a, b, Len(log)) \in Nat /\ Spoken(a, b, m) \in Nat
         /\ Spoken(a, b, Len(log)) - Spoken(a, b, m) <= Len(log) - m
<1> DEFINE n == Len(log)
           S(k) == {i \in 1 .. k : log[i].action = "speak" /\ log[i].actor = a /\ log[i].target = b}
<1>1. n \in Nat /\ m \in Nat /\ m <= n
  OBVIOUS
<1>2. /\ IsFiniteSet(m + 1 .. n) /\ Cardinality(m + 1 .. n) = n - m
      /\ IsFiniteSet(1 .. m)
  BY <1>1, Behind
<1>3. IsFiniteSet(S(m))
  BY <1>2, FS_Subset
<1>4. S(n) \subseteq S(m) \cup (m + 1 .. n)
  BY <1>1
<1>5. Spoken(a, b, n) = Cardinality(S(n)) /\ Spoken(a, b, m) = Cardinality(S(m))
  BY DEF Spoken
<1> HIDE DEF n, S
<1>6. Cardinality(S(n)) - Cardinality(S(m)) <= n - m
  BY <1>2, <1>3, <1>4, GrowsBy
<1>7. Cardinality(S(n)) \in Nat /\ Cardinality(S(m)) \in Nat
  <2>1. IsFiniteSet(S(m) \cup (m + 1 .. n))
    BY <1>2, <1>3, FS_Union
  <2>2. IsFiniteSet(S(n))
    BY <1>4, <2>1, FS_Subset
  <2> QED BY <1>3, <2>2, FS_CardinalityType
<1> QED BY <1>5, <1>6, <1>7 DEF n

(* A scene counts anew for a pair only with an event behind the cache, and *)
(* an event is of one scene.                                               *)
LEMMA CoAuthoredGrows ==
  ASSUME log \in Seq(EventType), \A i \in 1 .. Len(log) : log[i].scene < i,
         NEW m \in 0 .. Len(log), NEW a, NEW b
  PROVE  /\ CoAuthored(a, b, Len(log)) \in Nat /\ CoAuthored(a, b, m) \in Nat
         /\ CoAuthored(a, b, Len(log)) - CoAuthored(a, b, m) <= Len(log) - m
<1> DEFINE n == Len(log)
           By(s, k) == SceneContributors(s, k)
           C(k) == {s \in 1 .. k : log[s] = SceneOpen /\ {a, b} \subseteq By(s, k)}
           T == m + 1 .. n
           f == [i \in T |-> log[i].scene]
           D == {f[i] : i \in T}
<1>1. n \in Nat /\ m \in Nat /\ m <= n /\ \A i \in 1 .. n : log[i].scene \in Nat /\ log[i].scene < i
  <2>1. \A i \in 1 .. n : log[i] \in EventType
    OBVIOUS
  <2>2. \A e \in EventType : e.scene \in Nat
    BY DEF EventType
  <2> QED BY <2>1, <2>2
<1>2. /\ IsFiniteSet(T) /\ Cardinality(T) = n - m /\ IsFiniteSet(1 .. m)
  BY <1>1, Behind
<1>3. IsFiniteSet(C(m))
  BY <1>2, FS_Subset
<1>4. f \in Surjection(T, D)
  BY DEF Surjection
<1>5. IsFiniteSet(D) /\ Cardinality(D) <= n - m
  BY <1>2, <1>4, FS_Surjection
<1>6. ASSUME NEW s \in C(n), s \notin D PROVE s \in C(m)
  <2>1. ASSUME NEW j \in 1 .. n, log[j].scene = s PROVE j \in 1 .. m
    <3>1. j \notin T
      BY <1>6, <2>1
    <3> QED BY <1>1, <3>1
  <2>2. ASSUME NEW x \in {a, b} PROVE x \in By(s, m)
    <3>1. x \in By(s, n)
      BY <1>6, <2>2
    <3>2. PICK j \in 1 .. n : log[j].action = "contribute" /\ log[j].scene = s /\ x = log[j].actor
      BY <3>1 DEF SceneContributors
    <3>3. j \in 1 .. m
      BY <2>1, <3>2
    <3> QED BY <3>2, <3>3 DEF SceneContributors
  <2>3. s \in 1 .. m
    <3>1. a \in By(s, m)
      BY <2>2
    <3>2. PICK j \in 1 .. m : log[j].scene = s
      BY <3>1 DEF SceneContributors
    <3> QED BY <1>1, <1>6, <3>2
  <2>4. log[s] = SceneOpen
    BY <1>6
  <2> QED BY <2>2, <2>3, <2>4
<1>7. C(n) \subseteq C(m) \cup D
  BY <1>6
<1>8. CoAuthored(a, b, n) = Cardinality(C(n)) /\ CoAuthored(a, b, m) = Cardinality(C(m))
  BY DEF CoAuthored
<1> HIDE DEF n, C, D, T
<1>9. Cardinality(C(n)) - Cardinality(C(m)) <= Cardinality(D)
  BY <1>3, <1>5, <1>7, GrowsBy
<1>10. /\ Cardinality(C(n)) \in Nat /\ Cardinality(C(m)) \in Nat /\ Cardinality(D) \in Nat
  <2>1. IsFiniteSet(C(m) \cup D)
    BY <1>3, <1>5, FS_Union
  <2>2. IsFiniteSet(C(n))
    BY <1>7, <2>1, FS_Subset
  <2> QED BY <1>3, <1>5, <2>2, FS_CardinalityType
<1>11. Cardinality(C(n)) - Cardinality(C(m)) <= n - m
  BY <1>1, <1>5, <1>9, <1>10
<1> QED BY <1>8, <1>10, <1>11 DEF n

(* A count is behind by no more events than the cache is.                  *)
LEMMA YoungCacheIsFresh ==
  ASSUME VillageInv, CacheYoung
  PROVE  LedgerFresh
<1> SUFFICES ASSUME Prompted, NEW b \in roster \ {cur}
             PROVE  /\ cache.peers = roster
                    /\ Spoken(b, cur, Len(log)) - Spoken(b, cur, cache.upto) < RefreshEvents
                    /\ Spoken(cur, b, Len(log)) - Spoken(cur, b, cache.upto) < RefreshEvents
                    /\ CoAuthored(cur, b, Len(log)) - CoAuthored(cur, b, cache.upto) < RefreshEvents
  BY DEF CacheYoung, LedgerFresh
<1>1. PICK m : m = cache.upto
  OBVIOUS
<1>2. PICK a : a = cur
  OBVIOUS
<1>4. log \in Seq(EventType) /\ \A i \in 1 .. Len(log) : log[i].scene < i
  BY DEF VillageInv, VillageTypeOK
<1>5. m \in 0 .. Len(log) /\ Len(log) - m < RefreshEvents
  BY <1>1 DEF VillageInv, VillageTypeOK, CacheYoung, Unseeded
<1>6. \A x, y, k, h \in Int : x - y <= k - h /\ k - h < RefreshEvents => x - y < RefreshEvents
  OBVIOUS
<1>7. /\ Spoken(b, a, Len(log)) - Spoken(b, a, m) < RefreshEvents
      /\ Spoken(a, b, Len(log)) - Spoken(a, b, m) < RefreshEvents
  BY <1>4, <1>5, <1>6, SpokenGrows
<1>8. CoAuthored(a, b, Len(log)) - CoAuthored(a, b, m) < RefreshEvents
  BY <1>4, <1>5, <1>6, CoAuthoredGrows
<1> QED BY <1>1, <1>2, <1>7, <1>8 DEF CacheYoung

(* No event is logged while a prompt stands.                               *)
LEMMA CacheYoungStep == VillageInv /\ CacheYoung /\ [Next]_vars => CacheYoung'
<1> SUFFICES ASSUME VillageInv, CacheYoung, [Next]_vars, Prompted' PROVE
      (cache.upto # Unseeded /\ cache.peers = roster /\ Len(log) - cache.upto < RefreshEvents)'
  BY DEF CacheYoung
<1>1. ASSUME NEW a, BuildPrompt(a)
      PROVE (cache.upto # Unseeded /\ cache.peers = roster /\ Len(log) - cache.upto < RefreshEvents)'
  <2>1. Len(log) \in Nat /\ cache.upto \in Unseeded .. Len(log)
    BY DEF VillageInv, VillageTypeOK
  <2>2. log' = log /\ roster' = roster
        /\ cache' = IF Stale THEN [upto |-> Len(log), peers |-> roster] ELSE cache
    BY <1>1 DEF BuildPrompt
  <2>3. CASE Stale
    BY <2>1, <2>2, <2>3 DEF Unseeded
  <2>4. CASE ~ Stale
    BY <2>1, <2>2, <2>4 DEF Stale
  <2> QED BY <2>3, <2>4
<1>2. CASE \E a \in Names : Prompt(a)
  BY <1>1, <1>2 DEF Prompt
<1>3. CASE ScenePrompt
  BY <1>1, <1>3 DEF ScenePrompt
<1>4. CASE UNCHANGED vars
  BY <1>4 DEF vars, CacheYoung, Prompted
<1>5. CASE ThinkRaises \/ Commit \/ OpenScene \/ SceneTurn \/ SceneAborts \/ EndTick \/ Restart
  BY <1>5 DEF Prompted, ThinkRaises, Commit, OpenScene, SceneTurn, SceneAborts, EndTick, Restart
<1> QED BY <1>2, <1>3, <1>4, <1>5 DEF Next

(* A prompt tells the ties as the log has them, less fewer events than the *)
(* cache waits for, and of nobody but today's roster.                      *)
THEOREM TiesAreFresh == Spec => []LedgerFresh
<1>1. Init => CacheYoung
  BY DEF Init, CacheYoung, Prompted
<1>2. Spec => []CacheYoung
  BY <1>1, CacheYoungStep, VillageInvariant, PTL DEF Spec
<1>3. VillageInv /\ CacheYoung => LedgerFresh
  BY YoungCacheIsFresh
<1> QED BY <1>2, <1>3, VillageInvariant, PTL
=============================================================================
