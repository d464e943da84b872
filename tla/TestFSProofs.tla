----------------------------- MODULE TestFSProofs -----------------------------
(***************************************************************************)
(* Theorems about DeviceInit and TestFS, for any number of reactors,       *)
(* requests, futures, blocks and buffers: the program starts with every    *)
(* channel held, and no channel is put under a request.                    *)
(***************************************************************************)
EXTENDS TestFS, FiniteSetTheorems, TLAPS

\* AsyncIO's theorems, about the variables of TestFS.
IOP == INSTANCE AsyncIOProofs

-----------------------------------------------------------------------------
(***************************************************************************)
(* Events in a queue.                                                      *)
(***************************************************************************)

\* Where e is in the queue s.
PlacesOf(s, e) == {k \in DOMAIN s : s[k] = e}
Count(s, e)    == Cardinality(PlacesOf(s, e))

LEMMA PlacesFinite ==
  ASSUME NEW s \in Seq(Event), NEW e
  PROVE  IsFiniteSet(PlacesOf(s, e)) /\ Count(s, e) \in Nat
<1>1. IsFiniteSet(1 .. Len(s))
  BY FS_Interval
<1>2. PlacesOf(s, e) \in SUBSET (1 .. Len(s))
  BY DEF PlacesOf
<1> QED BY <1>1, <1>2, FS_Subset, FS_CardinalityType DEF Count

\* An event sent is there once more.
LEMMA CountSent ==
  ASSUME NEW s \in Seq(Event), NEW x \in Event, NEW e
  PROVE  Count(Append(s, x), e) = Count(s, e) + IF x = e THEN 1 ELSE 0
<1>1. PlacesOf(Append(s, x), e) =
        PlacesOf(s, e) \cup (IF x = e THEN {Len(s) + 1} ELSE {})
  BY DEF PlacesOf
<1>2. Len(s) + 1 \notin PlacesOf(s, e)
  BY DEF PlacesOf
<1>3. IsFiniteSet(PlacesOf(s, e)) /\ Count(s, e) \in Nat
  BY PlacesFinite
<1>4. CASE x = e
  BY <1>1, <1>2, <1>3, <1>4, FS_AddElement DEF Count
<1>5. CASE x # e
  BY <1>1, <1>3, <1>5 DEF Count
<1> QED BY <1>4, <1>5

\* An event taken is there once less; the others have moved up.
LEMMA CountTaken ==
  ASSUME NEW s \in Seq(Event), s # <<>>, NEW e
  PROVE  Count(s, e) = Count(Tail(s), e) + IF Head(s) = e THEN 1 ELSE 0
<1> DEFINE P == PlacesOf(Tail(s), e)
           Q == PlacesOf(s, e) \ {1}
           f == [k \in P |-> k + 1]
<1>1. /\ Tail(s) \in Seq(Event) /\ Head(s) = s[1]
      /\ Len(s) \in Nat \ {0} /\ Len(Tail(s)) = Len(s) - 1
      /\ \A k \in 1 .. Len(s) - 1 : Tail(s)[k] = s[k + 1]
  OBVIOUS
<1>2. f \in [P -> Q]
  BY <1>1 DEF PlacesOf
<1>3. \A k, j \in P : f[k] = f[j] => k = j
  BY <1>1 DEF PlacesOf
<1>4. \A j \in Q : \E k \in P : f[k] = j
  <2> SUFFICES ASSUME NEW j \in Q PROVE j - 1 \in P /\ f[j - 1] = j
    OBVIOUS
  <2>1. j \in 2 .. Len(s) /\ s[j] = e
    BY <1>1 DEF PlacesOf
  <2>2. j - 1 \in 1 .. Len(s) - 1 /\ Tail(s)[j - 1] = e
    BY <1>1, <2>1
  <2>3. j - 1 \in P
    BY <1>1, <2>2 DEF PlacesOf
  <2> QED BY <2>1, <2>3
<1>5. ExistsBijection(P, Q)
  <2> HIDE DEF P, Q
  <2>1. f \in Bijection(P, Q)
    BY <1>2, <1>3, <1>4 DEF Bijection, Injection, Surjection, IsInjective
  <2> QED BY <2>1 DEF ExistsBijection
<1>6. IsFiniteSet(P) /\ IsFiniteSet(PlacesOf(s, e)) /\ Count(s, e) \in Nat
  BY <1>1, PlacesFinite
<1>7. Cardinality(Q) = Cardinality(P)
  BY <1>5, <1>6, FS_Bijection
<1>8. 1 \in PlacesOf(s, e) <=> Head(s) = e
  BY <1>1 DEF PlacesOf
<1>9. Cardinality(Q) = IF 1 \in PlacesOf(s, e) THEN Count(s, e) - 1 ELSE Count(s, e)
  BY <1>6, FS_RemoveElement DEF Count
<1>10. Count(Tail(s), e) = Cardinality(P)
  BY DEF Count
<1> QED BY <1>6, <1>7, <1>8, <1>9, <1>10

\* There are as many of an event as it takes.
LEMMA CountOfNone ==
  ASSUME NEW s \in Seq(Event), NEW e
  PROVE  Count(s, e) = 0 <=> PlacesOf(s, e) = {}
BY PlacesFinite, FS_EmptySet DEF Count

-----------------------------------------------------------------------------
(***************************************************************************)
(* Starting up.                                                            *)
(***************************************************************************)

\* Every reactor that was asked holds its channel, or is still to find the
\* event that asks it; the main reactor counts one answer less than there are
\* channels held for each that is on its way.
Answering ==
  pc \in {"starting", "polling"} /\ ~freed =>
    /\ outstanding > 0
    /\ \A r \in Reactor :
         /\ PlacesOf(queue[r], "app") = {}
         /\ r # MAIN_REACTOR => PlacesOf(queue[r], "complete") = {}
         /\ \A k, j \in PlacesOf(queue[r], "acquire") : k = j
         /\ r \in channels <=> r \notin NotAsked /\ PlacesOf(queue[r], "acquire") = {}
         /\ r \in NotAsked => PlacesOf(queue[r], "acquire") = {}
    /\ outstanding + Cardinality(channels)
         = NumReactors + Count(queue[MAIN_REACTOR], "complete")

\* The last answer was counted: nothing but the program is to come.
Answered ==
  pc = "polling" /\ freed =>
    /\ channels = Reactor /\ outstanding = 0
    /\ queue = [r \in Reactor |-> IF r = MAIN_REACTOR THEN <<"app">> ELSE <<>>]

Started ==
  pc \in {"running", "stopping", "stopped"} =>
    /\ freed /\ outstanding = 0
    /\ queue = [r \in Reactor |-> <<>>]

StartInv ==
  /\ TypeOK
  /\ pc = "starting" => ~freed /\ next < NumReactors
  /\ pc = "running" => next = 0 /\ channels = Reactor
  /\ Answering /\ Answered /\ Started

LEMMA ReactorsFinite ==
  /\ NumReactors \in Nat /\ NumReactors > 1
  /\ Reactor \subseteq Nat /\ MAIN_REACTOR \in Reactor
  /\ IsFiniteSet(Reactor) /\ Cardinality(Reactor) = NumReactors
BY DeviceInitAssumption, FS_Interval DEF Reactor, MAIN_REACTOR

LEMMA ChannelsFinite ==
  ASSUME TypeOK
  PROVE  /\ IsFiniteSet(channels)
         /\ Cardinality(channels) \in 0 .. NumReactors
         /\ Cardinality(channels) = NumReactors => channels = Reactor
<1>1. channels \in SUBSET Reactor
  BY DEF TypeOK
<1>2. /\ IsFiniteSet(channels) /\ Cardinality(channels) <= NumReactors
      /\ Cardinality(channels) = NumReactors => channels = Reactor
  BY <1>1, ReactorsFinite, FS_Subset
<1> QED BY <1>2, ReactorsFinite, FS_CardinalityType

\* What is where once an event was sent, or taken.
LEMMA PlacesSent ==
  ASSUME NEW s \in Seq(Event), NEW x \in Event, NEW e
  PROVE  /\ Append(s, x) \in Seq(Event)
         /\ PlacesOf(Append(s, x), e) =
              PlacesOf(s, e) \cup (IF x = e THEN {Len(s) + 1} ELSE {})
BY DEF PlacesOf

LEMMA PlacesSentOther ==
  ASSUME NEW s \in Seq(Event), NEW x \in Event, NEW e, x # e
  PROVE  PlacesOf(Append(s, x), e) = PlacesOf(s, e)
<1>1. PlacesOf(Append(s, x), e) =
        PlacesOf(s, e) \cup (IF x = e THEN {Len(s) + 1} ELSE {})
  BY PlacesSent
<1> QED BY <1>1

LEMMA PlacesTaken ==
  ASSUME NEW s \in Seq(Event), s # <<>>, NEW e
  PROVE  /\ Tail(s) \in Seq(Event)
         /\ \A k \in PlacesOf(Tail(s), e) : k + 1 \in PlacesOf(s, e) /\ k \in Nat \ {0}
         /\ Head(s) = e <=> 1 \in PlacesOf(s, e)
         /\ \A k \in PlacesOf(s, e) \ {1} : k - 1 \in PlacesOf(Tail(s), e)
BY DEF PlacesOf

\* Taking the one event of its kind leaves none, and taking another leaves it.
LEMMA OnlyTaken ==
  ASSUME NEW s \in Seq(Event), s # <<>>, NEW e,
         \A k, j \in PlacesOf(s, e) : k = j
  PROVE  /\ Tail(s) \in Seq(Event)
         /\ \A k, j \in PlacesOf(Tail(s), e) : k = j
         /\ Head(s) = e => PlacesOf(Tail(s), e) = {}
         /\ Head(s) # e => (PlacesOf(Tail(s), e) = {} <=> PlacesOf(s, e) = {})
<1>1. \A k \in PlacesOf(Tail(s), e) : k + 1 \in PlacesOf(s, e) /\ k \in Nat \ {0}
  BY PlacesTaken
<1>2. \A k, j \in PlacesOf(Tail(s), e) : k = j
  BY <1>1
<1>3. Head(s) = e => PlacesOf(Tail(s), e) = {}
  <2> SUFFICES ASSUME Head(s) = e, NEW k \in PlacesOf(Tail(s), e) PROVE FALSE
    OBVIOUS
  <2>1. 1 \in PlacesOf(s, e) /\ k + 1 \in PlacesOf(s, e) /\ k \in Nat \ {0}
    BY <1>1, PlacesTaken
  <2> QED BY <2>1
<1>4. Head(s) # e => (PlacesOf(Tail(s), e) = {} <=> PlacesOf(s, e) = {})
  BY PlacesTaken
<1> QED BY <1>2, <1>3, <1>4, PlacesTaken

\* The queues after reactor r has taken an event and sent e.
LEMMA QueuesMoved ==
  ASSUME TypeOK, NEW r \in Reactor, queue[r] # <<>>, NEW e \in Event,
         queue' = TakenAndSent(r, e)
  PROVE  /\ queue' \in [Reactor -> Seq(Event)]
         /\ r # MAIN_REACTOR => /\ queue'[r] = Tail(queue[r])
                                /\ queue'[MAIN_REACTOR] = Append(queue[MAIN_REACTOR], e)
         /\ r = MAIN_REACTOR => queue'[MAIN_REACTOR] = Append(Tail(queue[MAIN_REACTOR]), e)
         /\ \A p \in Reactor \ {r, MAIN_REACTOR} : queue'[p] = queue[p]
<1>1. queue[r] \in Seq(Event) /\ queue[MAIN_REACTOR] \in Seq(Event)
  BY ReactorsFinite DEF TypeOK
<1>2. Tail(queue[r]) \in Seq(Event)
  BY <1>1
<1> DEFINE q == [queue EXCEPT ![r] = Tail(@)]
<1>3. /\ q \in [Reactor -> Seq(Event)] /\ q[r] = Tail(queue[r])
      /\ \A p \in Reactor \ {r} : q[p] = queue[p]
  BY <1>2 DEF TypeOK
<1>4. queue' = [q EXCEPT ![MAIN_REACTOR] = Append(@, e)]
  BY DEF TakenAndSent
<1> HIDE DEF q
<1>5. Append(q[MAIN_REACTOR], e) \in Seq(Event)
  BY <1>3, ReactorsFinite
<1>6. /\ queue' \in [Reactor -> Seq(Event)]
      /\ queue'[MAIN_REACTOR] = Append(q[MAIN_REACTOR], e)
      /\ \A p \in Reactor \ {MAIN_REACTOR} : queue'[p] = q[p]
  BY <1>3, <1>4, <1>5, ReactorsFinite
<1> QED BY <1>3, <1>6, ReactorsFinite

LEMMA StartInit == Init => StartInv
<1> SUFFICES ASSUME Init PROVE StartInv
  OBVIOUS
<1>1. TypeOK
  <2>1. <<>> \in Seq(Event)
    OBVIOUS
  <2>2. queue \in [Reactor -> Seq(Event)]
    BY <2>1 DEF Init
  <2>3. outstanding \in 0 .. NumReactors /\ next \in 0 .. NumReactors
    BY ReactorsFinite DEF Init, Expected
  <2> QED BY <2>2, <2>3 DEF Init, TypeOK
<1>2. \A r \in Reactor : \A e : PlacesOf(queue[r], e) = {}
  BY DEF Init, PlacesOf
<1>3. Count(queue[MAIN_REACTOR], "complete") = 0 /\ Cardinality(channels) = 0
  BY <1>2, ReactorsFinite, FS_EmptySet DEF Init, Count
<1>4. NotAsked = Reactor
  BY DEF Init, NotAsked, Reactor
<1>5. Answering
  BY <1>2, <1>3, <1>4, ReactorsFinite DEF Answering, Init, Expected
<1> QED BY <1>1, <1>5, ReactorsFinite DEF StartInv, Init, Answered, Started

LEMMA SendAcquireKeeps ==
  ASSUME StartInv, SendAcquire
  PROVE  StartInv'
<1>1. /\ TypeOK /\ pc = "starting" /\ ~freed /\ next \in Reactor /\ Answering
      /\ next \in Nat
  BY ReactorsFinite DEF StartInv, SendAcquire, TypeOK, Reactor
<1>2. /\ queue' = [queue EXCEPT ![next] = Append(@, "acquire")]
      /\ next' = next + 1 /\ pc' = IF next' = NumReactors THEN "polling" ELSE pc
      /\ UNCHANGED <<outstanding, freed, channels>>
  BY DEF SendAcquire
<1>3. queue[next] \in Seq(Event) /\ Append(queue[next], "acquire") \in Seq(Event)
  BY <1>1 DEF TypeOK, Event
<1>4. /\ queue' \in [Reactor -> Seq(Event)]
      /\ queue'[next] = Append(queue[next], "acquire")
      /\ \A r \in Reactor \ {next} : queue'[r] = queue[r]
  BY <1>1, <1>2, <1>3 DEF TypeOK
<1>5. TypeOK'
  BY <1>1, <1>2, <1>4, ReactorsFinite DEF TypeOK, Reactor
<1>6. NotAsked' = NotAsked \ {next} /\ next \in NotAsked
  BY <1>1, <1>2, ReactorsFinite DEF NotAsked, Reactor
<1>7. /\ PlacesOf(queue'[next], "acquire")
           = PlacesOf(queue[next], "acquire") \cup {Len(queue[next]) + 1}
      /\ PlacesOf(queue'[next], "app") = PlacesOf(queue[next], "app")
      /\ PlacesOf(queue'[next], "complete") = PlacesOf(queue[next], "complete")
  <2>1. "acquire" \in Event
    BY DEF Event
  <2>2. PlacesOf(queue'[next], "acquire")
          = PlacesOf(queue[next], "acquire") \cup {Len(queue[next]) + 1}
    BY <1>3, <1>4, <2>1, PlacesSent
  <2>3. PlacesOf(queue'[next], "app") = PlacesOf(queue[next], "app")
    BY <1>3, <1>4, <2>1, PlacesSentOther
  <2>4. PlacesOf(queue'[next], "complete") = PlacesOf(queue[next], "complete")
    BY <1>3, <1>4, <2>1, PlacesSentOther
  <2> QED BY <2>2, <2>3, <2>4
<1>8. Answering'
  <2>1. outstanding' > 0
    BY <1>1, <1>2 DEF Answering
  <2>2. ASSUME NEW r \in Reactor
        PROVE  /\ PlacesOf(queue'[r], "app") = {}
               /\ r # MAIN_REACTOR => PlacesOf(queue'[r], "complete") = {}
               /\ \A k, j \in PlacesOf(queue'[r], "acquire") : k = j
               /\ r \in channels <=> r \notin NotAsked' /\ PlacesOf(queue'[r], "acquire") = {}
               /\ r \in NotAsked' => PlacesOf(queue'[r], "acquire") = {}
    <3>1. CASE r = next
      <4>1. /\ PlacesOf(queue[r], "app") = {} /\ PlacesOf(queue[r], "acquire") = {}
            /\ r # MAIN_REACTOR => PlacesOf(queue[r], "complete") = {}
            /\ r \notin channels
        BY <1>1, <1>6, <3>1 DEF Answering
      <4>2. /\ PlacesOf(queue'[r], "app") = {}
            /\ PlacesOf(queue'[r], "acquire") = {Len(queue[next]) + 1}
            /\ PlacesOf(queue'[r], "complete") = PlacesOf(queue[r], "complete")
        <5>1. {} \cup {Len(queue[next]) + 1} = {Len(queue[next]) + 1}
          OBVIOUS
        <5> QED BY <1>7, <3>1, <4>1, <5>1
      <4>3. /\ \A k, j \in PlacesOf(queue'[r], "acquire") : k = j
            /\ PlacesOf(queue'[r], "acquire") # {} /\ r \notin NotAsked'
        BY <1>6, <3>1, <4>2
      <4> QED BY <4>1, <4>2, <4>3
    <3>2. CASE r # next
      BY <1>1, <1>4, <1>6, <3>2 DEF Answering
    <3> QED BY <3>1, <3>2
  <2>3. Count(queue'[MAIN_REACTOR], "complete") = Count(queue[MAIN_REACTOR], "complete")
    BY <1>1, <1>4, <1>7, ReactorsFinite DEF Count
  <2> QED BY <1>1, <1>2, <2>1, <2>2, <2>3 DEF Answering
<1> QED BY <1>1, <1>2, <1>5, <1>8, ReactorsFinite DEF StartInv, Answered, Started, TypeOK

\* A reactor that finds an event while none but the program's was sent is still
\* starting up.
LEMMA TakesWhile ==
  ASSUME StartInv, NEW r \in Reactor, NEW e, Takes(r, e), e # "app"
  PROVE  /\ pc \in {"starting", "polling"} /\ ~freed
         /\ 1 \in PlacesOf(queue[r], e) /\ Head(queue[r]) = e
         /\ queue[r] \in Seq(Event) /\ queue[r] # <<>>
<1>1. queue[r] # <<>> /\ Head(queue[r]) = e /\ queue[r] \in Seq(Event)
  BY DEF Takes, StartInv, TypeOK
<1>2. pc \notin {"running", "stopping", "stopped"}
  BY <1>1 DEF StartInv, Started
<1>3. ~(pc = "polling" /\ freed)
  BY <1>1 DEF StartInv, Answered
<1> QED BY <1>1, <1>2, <1>3, PlacesTaken DEF StartInv, TypeOK

LEMMA AcquireKeeps ==
  ASSUME StartInv, NEW r \in Reactor, Acquire(r)
  PROVE  StartInv'
<1>1. /\ pc \in {"starting", "polling"} /\ ~freed
      /\ 1 \in PlacesOf(queue[r], "acquire") /\ Head(queue[r]) = "acquire"
      /\ queue[r] \in Seq(Event) /\ queue[r] # <<>>
  BY TakesWhile DEF Acquire
<1>2. /\ channels' = channels \cup {r} /\ queue' = TakenAndSent(r, "complete")
      /\ UNCHANGED <<outstanding, freed, pc, next>> /\ NotAsked' = NotAsked
  BY DEF Acquire, NotAsked
<1>3. TypeOK /\ Answering
  BY DEF StartInv
<1>4. /\ queue' \in [Reactor -> Seq(Event)]
      /\ r # MAIN_REACTOR => /\ queue'[r] = Tail(queue[r])
                             /\ queue'[MAIN_REACTOR] = Append(queue[MAIN_REACTOR], "complete")
      /\ r = MAIN_REACTOR =>
           queue'[MAIN_REACTOR] = Append(Tail(queue[MAIN_REACTOR]), "complete")
      /\ \A p \in Reactor \ {r, MAIN_REACTOR} : queue'[p] = queue[p]
  BY <1>1, <1>2, <1>3, QueuesMoved DEF Event
<1>5. TypeOK'
  BY <1>2, <1>3, <1>4 DEF TypeOK
<1>6. r \notin channels /\ r \notin NotAsked
  BY <1>1, <1>3 DEF Answering
<1>7. \A k, j \in PlacesOf(queue[r], "acquire") : k = j
  BY <1>1, <1>3 DEF Answering
<1>8. PlacesOf(Tail(queue[r]), "acquire") = {} /\ Tail(queue[r]) \in Seq(Event)
  BY <1>1, <1>7, OnlyTaken
<1>. "complete" \in Event
  BY DEF Event
<1>9. PlacesOf(queue'[r], "acquire") = {}
  <2>1. PlacesOf(Append(Tail(queue[r]), "complete"), "acquire") = {}
    BY <1>8, PlacesSentOther
  <2> QED BY <1>4, <1>8, <2>1
<1>10. \A p \in Reactor \ {r} : PlacesOf(queue'[p], "acquire") = PlacesOf(queue[p], "acquire")
  <2>1. queue[MAIN_REACTOR] \in Seq(Event)
    BY <1>3, ReactorsFinite DEF TypeOK
  <2>2. PlacesOf(Append(queue[MAIN_REACTOR], "complete"), "acquire")
          = PlacesOf(queue[MAIN_REACTOR], "acquire")
    BY <2>1, PlacesSentOther
  <2> QED BY <1>4, <2>2
<1>11. \A p \in Reactor : PlacesOf(queue'[p], "app") = {}
  <2>1. PlacesOf(Tail(queue[r]), "app") = {}
    BY <1>1, <1>3, PlacesTaken DEF Answering
  <2>2. \A p \in Reactor : PlacesOf(queue[p], "app") = {} /\ queue[p] \in Seq(Event)
    BY <1>1, <1>3 DEF Answering, TypeOK
  <2>3. /\ PlacesOf(Append(queue[MAIN_REACTOR], "complete"), "app") = {}
        /\ PlacesOf(Append(Tail(queue[r]), "complete"), "app") = {}
    BY <1>8, <2>1, <2>2, ReactorsFinite, PlacesSentOther
  <2> QED BY <1>4, <2>1, <2>2, <2>3
<1>12. \A p \in Reactor \ {MAIN_REACTOR} : PlacesOf(queue'[p], "complete") = {}
  <2>1. \A p \in Reactor \ {MAIN_REACTOR} : PlacesOf(queue[p], "complete") = {}
    BY <1>1, <1>3 DEF Answering
  <2>2. r # MAIN_REACTOR => PlacesOf(Tail(queue[r]), "complete") = {}
    BY <1>1, <2>1, PlacesTaken
  <2> QED BY <1>4, <2>1, <2>2
<1>13. Count(queue'[MAIN_REACTOR], "complete") = Count(queue[MAIN_REACTOR], "complete") + 1
  <2>1. queue[MAIN_REACTOR] \in Seq(Event)
    BY <1>3, ReactorsFinite DEF TypeOK
  <2>2. CASE r = MAIN_REACTOR
    <3>1. Count(Tail(queue[r]), "complete") \in Nat
      BY <1>8, PlacesFinite
    <3>2. Count(queue[r], "complete") = Count(Tail(queue[r]), "complete") + 0
      <4>1. Head(queue[r]) # "complete"
        BY <1>1
      <4> QED BY <1>1, <4>1, CountTaken
    <3>3. Count(Append(Tail(queue[r]), "complete"), "complete")
            = Count(Tail(queue[r]), "complete") + 1
      BY <1>8, CountSent
    <3>4. queue'[r] = Append(Tail(queue[r]), "complete")
      BY <1>4, <2>2
    <3>5. Count(queue'[r], "complete") = Count(queue[r], "complete") + 1
      BY <3>1, <3>2, <3>3, <3>4
    <3> QED BY <2>2, <3>5
  <2>3. CASE r # MAIN_REACTOR
    BY <1>4, <2>1, <2>3, CountSent
  <2> QED BY <2>2, <2>3
<1>14. Cardinality(channels') = Cardinality(channels) + 1
  BY <1>2, <1>3, <1>6, ChannelsFinite, FS_AddElement
<1>15. Answering'
  <2>1. outstanding > 0 /\ outstanding \in Nat
    BY <1>1, <1>3 DEF Answering, TypeOK
  <2>2. ASSUME NEW p \in Reactor
        PROVE  /\ \A k, j \in PlacesOf(queue'[p], "acquire") : k = j
               /\ p \in channels' <=> p \notin NotAsked /\ PlacesOf(queue'[p], "acquire") = {}
               /\ p \in NotAsked => PlacesOf(queue'[p], "acquire") = {}
    <3>1. CASE p = r
      BY <1>2, <1>6, <1>9, <3>1
    <3>2. CASE p # r
      <4>1. /\ \A k, j \in PlacesOf(queue[p], "acquire") : k = j
            /\ p \in channels <=> p \notin NotAsked /\ PlacesOf(queue[p], "acquire") = {}
            /\ p \in NotAsked => PlacesOf(queue[p], "acquire") = {}
        BY <1>1, <1>3 DEF Answering
      <4>2. /\ PlacesOf(queue'[p], "acquire") = PlacesOf(queue[p], "acquire")
            /\ p \in channels' <=> p \in channels
        BY <1>2, <1>10, <3>2
      <4> QED BY <4>1, <4>2
    <3> QED BY <3>1, <3>2
  <2>3. outstanding + Cardinality(channels')
          = NumReactors + Count(queue'[MAIN_REACTOR], "complete")
    <3>1. outstanding + Cardinality(channels)
            = NumReactors + Count(queue[MAIN_REACTOR], "complete")
      BY <1>1, <1>3 DEF Answering
    <3>2. /\ Cardinality(channels) \in Nat /\ NumReactors \in Nat
          /\ Count(queue[MAIN_REACTOR], "complete") \in Nat
      BY <1>3, ReactorsFinite, ChannelsFinite, PlacesFinite DEF TypeOK
    <3> QED BY <1>13, <1>14, <2>1, <3>1, <3>2
  <2> QED BY <1>2, <1>11, <1>12, <2>1, <2>2, <2>3 DEF Answering
<1> QED BY <1>1, <1>2, <1>5, <1>15 DEF StartInv, Answered, Started

LEMMA CompleteKeeps ==
  ASSUME StartInv, Complete
  PROVE  StartInv'
<1> DEFINE s == queue[MAIN_REACTOR]
<1>1. /\ pc = "polling" /\ ~freed
      /\ 1 \in PlacesOf(s, "complete") /\ Head(s) = "complete"
      /\ s \in Seq(Event) /\ s # <<>>
  BY TakesWhile, ReactorsFinite DEF Complete, Takes
<1>2. outstanding' = outstanding - 1 /\ UNCHANGED <<channels, pc, next>>
  BY DEF Complete
<1>3. TypeOK /\ Answering /\ NotAsked = {} /\ NotAsked' = {}
  BY <1>1, <1>2 DEF StartInv, NotAsked
<1>4. /\ outstanding > 0 /\ outstanding \in Nat
      /\ Count(s, "complete") \in Nat /\ Count(Tail(s), "complete") \in Nat
      /\ Count(s, "complete") = Count(Tail(s), "complete") + 1
      /\ Cardinality(channels) \in 0 .. NumReactors /\ NumReactors \in Nat
      /\ outstanding + Cardinality(channels) = NumReactors + Count(s, "complete")
  <2>1. outstanding > 0 /\ outstanding + Cardinality(channels) = NumReactors + Count(s, "complete")
    BY <1>1, <1>3 DEF Answering
  <2>2. Tail(s) \in Seq(Event)
    BY <1>1
  <2>3. Count(s, "complete") \in Nat /\ Count(Tail(s), "complete") \in Nat
    BY <1>1, <2>2, PlacesFinite
  <2>4. Count(s, "complete") = Count(Tail(s), "complete") + 1
    BY <1>1, CountTaken
  <2> QED BY <1>3, <2>1, <2>3, <2>4, ReactorsFinite, ChannelsFinite DEF TypeOK
<1>5. CASE LastAnswer
  <2>1. outstanding = 1 /\ freed' = TRUE /\ queue' = TakenAndSent(MAIN_REACTOR, "app")
    BY <1>2, <1>5 DEF Complete, LastAnswer, AfterLastAnswer
  <2>2. channels = Reactor /\ Count(Tail(s), "complete") = 0
    BY <1>3, <1>4, <2>1, ChannelsFinite
  <2>3. ASSUME NEW p \in Reactor
        PROVE  /\ PlacesOf(queue[p], "acquire") = {}
               /\ PlacesOf(queue[p], "app") = {}
               /\ p # MAIN_REACTOR => PlacesOf(queue[p], "complete") = {}
    BY <1>1, <1>3, <2>2 DEF Answering
  <2>4. \A r \in Reactor \ {MAIN_REACTOR} : queue[r] = <<>>
    <3> SUFFICES ASSUME NEW r \in Reactor \ {MAIN_REACTOR}, queue[r] # <<>> PROVE FALSE
      OBVIOUS
    <3>1. queue[r] \in Seq(Event)
      BY <1>3 DEF TypeOK
    <3>2. 1 \in DOMAIN queue[r] /\ queue[r][1] \in Event
      BY <3>1
    <3>3. 1 \in PlacesOf(queue[r], queue[r][1])
      BY <3>2 DEF PlacesOf
    <3>4. queue[r][1] \in {"acquire", "complete", "app"}
      BY <3>2 DEF Event
    <3>5. PlacesOf(queue[r], "acquire") = {}
      BY <2>3
    <3>6. PlacesOf(queue[r], "app") = {}
      BY <2>3
    <3>7. PlacesOf(queue[r], "complete") = {}
      BY <2>3
    <3> QED BY <3>3, <3>4, <3>5, <3>6, <3>7
  <2>5. Tail(s) = <<>>
    <3> SUFFICES ASSUME Tail(s) # <<>> PROVE FALSE
      OBVIOUS
    <3>1. Tail(s) \in Seq(Event)
      BY <1>1
    <3>2. 1 \in DOMAIN Tail(s) /\ Tail(s)[1] \in Event
      BY <3>1
    <3>3. \A e : PlacesOf(s, e) = {} => PlacesOf(Tail(s), e) = {}
      BY <1>1, PlacesTaken
    <3>4. PlacesOf(Tail(s), "complete") = {}
      BY <2>2, <3>1, CountOfNone
    <3>5. 1 \in PlacesOf(Tail(s), Tail(s)[1])
      BY <3>2 DEF PlacesOf
    <3>6. Tail(s)[1] \in {"acquire", "complete", "app"}
      BY <3>2 DEF Event
    <3>7. PlacesOf(s, "acquire") = {} /\ PlacesOf(s, "app") = {}
      <4>1. MAIN_REACTOR \in Reactor
        BY ReactorsFinite
      <4> QED BY <2>3, <4>1
    <3> QED BY <3>3, <3>4, <3>5, <3>6, <3>7
  <2>6. /\ queue' \in [Reactor -> Seq(Event)]
        /\ queue'[MAIN_REACTOR] = Append(Tail(s), "app")
        /\ \A p \in Reactor \ {MAIN_REACTOR} : queue'[p] = queue[p]
    BY <1>1, <1>3, <2>1, ReactorsFinite, QueuesMoved DEF Event
  <2>7. queue' = [r \in Reactor |-> IF r = MAIN_REACTOR THEN <<"app">> ELSE <<>>]
    <3>1. Append(<<>>, "app") = <<"app">>
      OBVIOUS
    <3> QED BY <2>4, <2>5, <2>6, <3>1
  <2>8. TypeOK'
    BY <1>2, <1>3, <2>1, <2>6, ReactorsFinite DEF TypeOK
  <2> QED BY <1>1, <1>2, <2>1, <2>2, <2>7, <2>8 DEF StartInv, Answering, Answered, Started
<1>6. CASE ~LastAnswer
  <2>1. outstanding # 1 /\ freed' = freed /\ queue' = [queue EXCEPT ![MAIN_REACTOR] = Tail(@)]
    BY <1>2, <1>6 DEF Complete, LastAnswer
  <2>2. Tail(s) \in Seq(Event)
    BY <1>1
  <2>3. /\ queue' \in [Reactor -> Seq(Event)] /\ queue'[MAIN_REACTOR] = Tail(s)
        /\ \A p \in Reactor \ {MAIN_REACTOR} : queue'[p] = queue[p]
    BY <1>3, <2>1, <2>2, ReactorsFinite DEF TypeOK
  <2>4. TypeOK'
    BY <1>2, <1>3, <1>4, <2>1, <2>3 DEF TypeOK
  <2>5. ASSUME NEW r \in Reactor
        PROVE  /\ PlacesOf(queue'[r], "app") = {}
               /\ r # MAIN_REACTOR => PlacesOf(queue'[r], "complete") = {}
               /\ \A k, j \in PlacesOf(queue'[r], "acquire") : k = j
               /\ r \in channels <=> PlacesOf(queue'[r], "acquire") = {}
    <3>1. /\ PlacesOf(queue[r], "app") = {}
          /\ r # MAIN_REACTOR => PlacesOf(queue[r], "complete") = {}
          /\ \A k, j \in PlacesOf(queue[r], "acquire") : k = j
          /\ r \in channels <=> PlacesOf(queue[r], "acquire") = {}
      BY <1>1, <1>3 DEF Answering
    <3>2. CASE r = MAIN_REACTOR
      <4>1. /\ \A k, j \in PlacesOf(Tail(s), "acquire") : k = j
            /\ PlacesOf(Tail(s), "acquire") = {} <=> PlacesOf(s, "acquire") = {}
        BY <1>1, <3>1, <3>2, OnlyTaken
      <4>2. PlacesOf(Tail(s), "app") = {}
        BY <1>1, <3>1, <3>2, PlacesTaken
      <4> QED BY <2>3, <3>1, <3>2, <4>1, <4>2
    <3>3. CASE r # MAIN_REACTOR
      BY <2>3, <3>1, <3>3
    <3> QED BY <3>2, <3>3
  <2>6. outstanding' > 0 /\ outstanding' + Cardinality(channels)
                              = NumReactors + Count(Tail(s), "complete")
    BY <1>2, <1>4, <2>1
  <2>7. Answering'
    BY <1>2, <1>3, <2>3, <2>5, <2>6 DEF Answering
  <2> QED BY <1>1, <1>2, <2>1, <2>4, <2>7 DEF StartInv, Answered, Started
<1> QED BY <1>5, <1>6

LEMMA RunAppKeeps ==
  ASSUME StartInv, RunApp
  PROVE  StartInv'
<1>1. /\ pc = "polling" /\ TypeOK
      /\ queue[MAIN_REACTOR] # <<>> /\ Head(queue[MAIN_REACTOR]) = "app"
      /\ queue[MAIN_REACTOR] \in Seq(Event)
  BY ReactorsFinite DEF RunApp, Takes, StartInv, TypeOK
<1>2. freed
  <2> SUFFICES ASSUME ~freed PROVE FALSE
    OBVIOUS
  <2>1. PlacesOf(queue[MAIN_REACTOR], "app") = {}
    BY <1>1, ReactorsFinite DEF StartInv, Answering
  <2> QED BY <1>1, <2>1, PlacesTaken
<1>3. /\ channels = Reactor /\ outstanding = 0
      /\ queue = [r \in Reactor |-> IF r = MAIN_REACTOR THEN <<"app">> ELSE <<>>]
  BY <1>1, <1>2 DEF StartInv, Answered
<1>4. queue' = [queue EXCEPT ![MAIN_REACTOR] = Tail(@)] /\ pc' = "running" /\ next' = 0
      /\ UNCHANGED <<outstanding, freed, channels>>
  BY DEF RunApp
<1>5. Tail(<<"app">>) = <<>> /\ <<>> \in Seq(Event)
  OBVIOUS
<1>6. queue' = [r \in Reactor |-> <<>>]
  BY <1>3, <1>4, <1>5, ReactorsFinite
<1>7. TypeOK'
  <2>1. queue' \in [Reactor -> Seq(Event)]
    BY <1>5, <1>6
  <2> QED BY <1>1, <1>4, <2>1, ReactorsFinite DEF TypeOK
<1> QED BY <1>2, <1>3, <1>4, <1>6, <1>7 DEF StartInv, Answering, Answered, Started

LEMMA StopKeeps ==
  ASSUME StartInv, PutChannel \/ Close
  PROVE  StartInv'
<1>1. TypeOK /\ Started
  BY DEF StartInv
<1>2. pc \in {"running", "stopping"} /\ pc' \in {"stopping", "stopped"}
      /\ UNCHANGED <<queue, outstanding, freed>>
  BY DEF PutChannel, Close
<1>3. channels' \subseteq channels /\ next' \in 0 .. NumReactors
  BY <1>1, ReactorsFinite DEF PutChannel, Close, TypeOK
<1>4. TypeOK'
  BY <1>1, <1>2, <1>3 DEF TypeOK
<1> QED BY <1>1, <1>2, <1>4 DEF StartInv, Answering, Answered, Started

LEMMA StartStep == StartInv /\ [Next]_vars => StartInv'
<1> SUFFICES ASSUME StartInv, [Next]_vars PROVE StartInv'
  OBVIOUS
<1>1. CASE UNCHANGED vars
  BY <1>1 DEF vars, StartInv, TypeOK, Answering, Answered, Started, NotAsked
<1> QED BY <1>1, SendAcquireKeeps, AcquireKeeps, CompleteKeeps, RunAppKeeps, StopKeeps
       DEF Next, Booting, Poll

\* Init establishes StartInv and every step keeps it: it holds for good.
THEOREM StartInvHolds == Spec => []StartInv
<1>1. Init => StartInv
  BY StartInit
<1>2. StartInv /\ [Next]_vars => StartInv'
  BY StartStep
<1> QED BY <1>1, <1>2, PTL DEF Spec

-----------------------------------------------------------------------------
(***************************************************************************)
(* What is on its way.                                                     *)
(***************************************************************************)

Slots(e) == {at \in Reactor \X (1 .. 2 * NumReactors) :
               at[2] \in DOMAIN queue[at[1]] /\ queue[at[1]][at[2]] = e}

LEMMA SlotsFinite ==
  ASSUME NEW e
  PROVE  /\ IsFiniteSet(Slots(e)) /\ OnTheWay(e) \in Nat
         /\ OnTheWay(e) = 0 <=> Slots(e) = {}
<1>1. IsFiniteSet(1 .. 2 * NumReactors)
  BY ReactorsFinite, FS_Interval
<1>2. IsFiniteSet(Reactor \X (1 .. 2 * NumReactors))
  BY <1>1, ReactorsFinite, FS_Product
<1>3. Slots(e) \in SUBSET (Reactor \X (1 .. 2 * NumReactors))
  BY DEF Slots
<1>4. IsFiniteSet(Slots(e))
  BY <1>2, <1>3, FS_Subset
<1>5. OnTheWay(e) = Cardinality(Slots(e))
  BY DEF OnTheWay, Slots
<1> QED BY <1>4, <1>5, FS_CardinalityType, FS_EmptySet

\* A queue that is not empty has its first event on its way.
LEMMA FirstSlot ==
  ASSUME TypeOK, NEW r \in Reactor, queue[r] # <<>>
  PROVE  /\ Head(queue[r]) \in Event
         /\ <<r, 1>> \in Slots(Head(queue[r]))
<1>1. queue[r] \in Seq(Event)
  BY DEF TypeOK
<1>2. 1 \in DOMAIN queue[r] /\ queue[r][1] = Head(queue[r]) /\ Head(queue[r]) \in Event
  BY <1>1
<1>3. 1 \in 1 .. 2 * NumReactors
  BY ReactorsFinite
<1> QED BY <1>2, <1>3 DEF Slots

LEMMA NoSlot ==
  ASSUME NEW e, \A r \in Reactor : PlacesOf(queue[r], e) = {}
  PROVE  OnTheWay(e) = 0
<1>1. Slots(e) = {}
  <2> SUFFICES ASSUME NEW at \in Slots(e) PROVE FALSE
    OBVIOUS
  <2>1. at[1] \in Reactor /\ at[2] \in PlacesOf(queue[at[1]], e)
    BY DEF Slots, PlacesOf
  <2> QED BY <2>1
<1> QED BY <1>1, SlotsFinite

LEMMA NotAskedFinite ==
  ASSUME TypeOK
  PROVE  /\ Cardinality(NotAsked) \in Nat
         /\ Cardinality(NotAsked) = 0 <=> NotAsked = {}
<1>1. IsFiniteSet(next .. NumReactors - 1)
  BY ReactorsFinite, FS_Interval DEF TypeOK
<1>2. IsFiniteSet(NotAsked)
  BY <1>1, FS_EmptySet DEF NotAsked
<1> QED BY <1>2, FS_CardinalityType, FS_EmptySet

LEMMA UnansweredZero ==
  ASSUME TypeOK
  PROVE  Unanswered = 0 <=>
           NotAsked = {} /\ Slots("acquire") = {} /\ Slots("complete") = {}
<1>1. OnTheWay("acquire") \in Nat /\ (OnTheWay("acquire") = 0 <=> Slots("acquire") = {})
  BY SlotsFinite
<1>2. OnTheWay("complete") \in Nat /\ (OnTheWay("complete") = 0 <=> Slots("complete") = {})
  BY SlotsFinite
<1> QED BY <1>1, <1>2, NotAskedFinite DEF Unanswered

\* While the answers are counted one is missing, and the program's event was
\* not sent.
LEMMA WhileAnswering ==
  ASSUME StartInv, pc \in {"starting", "polling"}, ~freed
  PROVE  Unanswered # 0 /\ OnTheWay("app") = 0
<1>1. TypeOK /\ Answering
  BY DEF StartInv
<1>2. OnTheWay("app") = 0
  BY <1>1, NoSlot DEF Answering
<1>3. CASE pc = "starting"
  <2>1. next \in NotAsked
    BY <1>3, ReactorsFinite DEF StartInv, TypeOK, NotAsked
  <2> QED BY <1>1, <1>2, <2>1, UnansweredZero
<1>4. CASE pc = "polling"
  <2> SUFFICES ASSUME Unanswered = 0 PROVE FALSE
    BY <1>2
  <2>1. Slots("acquire") = {} /\ Slots("complete") = {} /\ Slots("app") = {}
    BY <1>1, <1>2, UnansweredZero, SlotsFinite
  <2>2. ASSUME NEW r \in Reactor, queue[r] # <<>> PROVE FALSE
    BY <1>1, <2>1, <2>2, FirstSlot DEF Event
  <2>3. \A r \in Reactor : \A e : PlacesOf(queue[r], e) = {}
    BY <2>2 DEF PlacesOf
  <2>4. NotAsked = {}
    BY <1>4 DEF NotAsked
  <2>5. \A r \in Reactor : r \in channels
    BY <1>1, <1>4, <2>3, <2>4 DEF Answering
  <2>6. channels = Reactor
    BY <1>1, <2>5 DEF TypeOK
  <2>7. Count(queue[MAIN_REACTOR], "complete") = 0
    BY <2>3, ReactorsFinite, FS_EmptySet DEF Count
  <2>8. outstanding > 0 /\ outstanding \in Nat /\ outstanding + NumReactors = NumReactors
    BY <1>1, <1>4, <2>6, <2>7, ReactorsFinite DEF Answering, TypeOK
  <2> QED BY <2>8, ReactorsFinite
<1> QED BY <1>3, <1>4

\* Once the last was counted none is on its way, and the program's event is
\* sent and not yet taken, or taken.
LEMMA OnceAnswered ==
  ASSUME StartInv, freed
  PROVE  /\ Unanswered = 0 /\ pc # "starting"
         /\ OnTheWay("app") = IF pc = "polling" THEN 1 ELSE 0
<1>1. TypeOK /\ NotAsked = {} /\ pc \in {"polling", "running", "stopping", "stopped"}
  BY DEF StartInv, TypeOK, NotAsked
<1>2. \A r \in Reactor : queue[r] = IF pc = "polling" /\ r = MAIN_REACTOR
                                      THEN <<"app">> ELSE <<>>
  BY <1>1 DEF StartInv, Answered, Started
<1>3. \A r \in Reactor : /\ PlacesOf(queue[r], "acquire") = {}
                          /\ PlacesOf(queue[r], "complete") = {}
  BY <1>2 DEF PlacesOf
<1>4. Slots("acquire") = {} /\ Slots("complete") = {}
  BY <1>3, NoSlot, SlotsFinite
<1>5. CASE pc = "polling"
  <2>1. Slots("app") = {<<MAIN_REACTOR, 1>>}
    <3>1. ASSUME NEW at \in Slots("app") PROVE at = <<MAIN_REACTOR, 1>>
      <4>1. /\ at \in Reactor \X (1 .. 2 * NumReactors)
            /\ at[2] \in DOMAIN queue[at[1]]
        BY DEF Slots
      <4>2. at[1] = MAIN_REACTOR /\ at[2] = 1
        BY <1>2, <1>5, <4>1
      <4> QED BY <4>1, <4>2
    <3>2. <<MAIN_REACTOR, 1>> \in Slots("app")
      <4>1. queue[MAIN_REACTOR] = <<"app">>
        BY <1>2, <1>5, ReactorsFinite
      <4>2. queue[MAIN_REACTOR] # <<>> /\ Head(queue[MAIN_REACTOR]) = "app"
        BY <4>1
      <4> QED BY <1>1, <4>2, ReactorsFinite, FirstSlot
    <3> QED BY <3>1, <3>2
  <2>2. OnTheWay("app") = Cardinality(Slots("app"))
    BY DEF OnTheWay, Slots
  <2>3. OnTheWay("app") = 1
    BY <2>1, <2>2, FS_Singleton
  <2> QED BY <1>1, <1>4, <1>5, <2>3, UnansweredZero
<1>6. CASE pc # "polling"
  <2>1. OnTheWay("app") = 0
    <3>1. \A r \in Reactor : PlacesOf(queue[r], "app") = {}
      BY <1>2, <1>6 DEF PlacesOf
    <3> QED BY <3>1, NoSlot
  <2> QED BY <1>1, <1>4, <1>6, <2>1, UnansweredZero
<1> QED BY <1>5, <1>6

LEMMA StartInvSuffices ==
  StartInv => TypeOK /\ StartsReady /\ FreedAfterLastAnswer
<1> SUFFICES ASSUME StartInv PROVE TypeOK /\ StartsReady /\ FreedAfterLastAnswer
  OBVIOUS
<1>1. TypeOK
  BY DEF StartInv
<1>2. CASE freed
  <2>1. Unanswered = 0 /\ OnTheWay("app") = IF pc = "polling" THEN 1 ELSE 0
    BY <1>2, OnceAnswered
  <2>2. pc = "polling" \/ pc = "running" => channels = Reactor
    BY <1>2 DEF StartInv, Answered
  <2> QED BY <1>1, <1>2, <2>1, <2>2 DEF StartsReady, FreedAfterLastAnswer
<1>3. CASE ~freed
  <2>1. pc \in {"starting", "polling"}
    BY <1>1, <1>3 DEF StartInv, Started, TypeOK
  <2>2. Unanswered # 0 /\ OnTheWay("app") = 0
    BY <1>3, <2>1, WhileAnswering
  <2> QED BY <1>1, <1>3, <2>1, <2>2 DEF StartsReady, FreedAfterLastAnswer
<1> QED BY <1>2, <1>3

\* The event that starts the program is sent once, after every reactor has its
\* channel, in whatever order they answer, the main one among them
\* (device.c:44-56).
THEOREM StartsReadyHolds == Spec => []StartsReady
<1>1. StartInv => StartsReady
  BY StartInvSuffices
<1> QED BY <1>1, StartInvHolds, PTL

\* The context of init_reactors is freed for the last answer and none comes
\* after it; the events, the count of answers and the loops' index stay in
\* their ranges.
THEOREM NoAnswerAfterFree == Spec => [](TypeOK /\ FreedAfterLastAnswer)
<1>1. StartInv => TypeOK /\ FreedAfterLastAnswer
  BY StartInvSuffices
<1> QED BY <1>1, StartInvHolds, PTL

-----------------------------------------------------------------------------
(***************************************************************************)
(* The program on the device.  IO and IOP are two instances of AsyncIO on  *)
(* the same variables: what IO says is said again of IOP, whose theorems   *)
(* are those of AsyncIOProofs.                                             *)
(***************************************************************************)

LEMMA SameInit == IO!Init => IOP!Init
BY DEF IO!Init, IOP!Init, IO!Zeroes, IOP!Zeroes, IO!Reactor, IOP!Reactor

LEMMA SameCalls ==
  ASSUME NEW f
  PROVE  /\ IO!FutureInit(f) => IOP!FutureInit(f)
         /\ IO!SpinWait(f) => IOP!SpinWait(f)
         /\ IO!Return(f) => IOP!Return(f)
<1>1. IO!FutureInit(f) => IOP!FutureInit(f)
  BY DEF IO!FutureInit, IOP!FutureInit, IO!ClearedCounts, IOP!ClearedCounts,
         IO!Zeroes, IOP!Zeroes, IO!Reactor, IOP!Reactor
<1>2. IO!SpinWait(f) => IOP!SpinWait(f)
  BY DEF IO!SpinWait, IOP!SpinWait, IO!InUse, IOP!InUse
<1>3. IO!Return(f) => IOP!Return(f)
  BY DEF IO!Return, IOP!Return, IO!Cardinality, IOP!Cardinality
<1> QED BY <1>1, <1>2, <1>3

LEMMA SameSpin ==
  /\ IO!SpinStep => IOP!SpinStep
  /\ IO!SpinReturn => IOP!SpinReturn
BY DEF IO!SpinStep, IOP!SpinStep, IO!SpinReturn, IOP!SpinReturn

LEMMA SameUsable ==
  ASSUME NEW d
  PROVE  IO!Usable(d) = IOP!Usable(d)
BY DEF IO!Usable, IOP!Usable, IO!ReadInto, IOP!ReadInto, IO!Allocated, IOP!Allocated

LEMMA SameStore ==
  ASSUME NEW d, NEW v, IO!Store(d, v)
  PROVE  IOP!Store(d, v)
BY SameUsable DEF IO!Store, IOP!Store

LEMMA SameIssue ==
  ASSUME NEW q, IO!Issue(q)
  PROVE  IOP!Issue(q)
<1>1. PICK op \in {"read", "write"}, f \in Frame, d \in Buf, b \in Block :
        \/ \E r \in IO!IOReactor : IO!IssueAsync(q, op, r, f, d, b)
        \/ IO!IssueAndWait(q, op, f, d, b)
  BY DEF IO!Issue
<1>2. IO!Usable(d) = IOP!Usable(d)
  BY SameUsable
<1>3. ASSUME NEW r \in IO!IOReactor, IO!IssueAsync(q, op, r, f, d, b)
      PROVE  r \in IOP!IOReactor /\ IOP!IssueAsync(q, op, r, f, d, b)
  <2>1. r \in IOP!IOReactor
    BY DEF IO!IOReactor, IOP!IOReactor, IO!Reactor, IOP!Reactor, IO!Polls, IOP!Polls,
           IO!MAIN_REACTOR, IOP!MAIN_REACTOR
  <2>2. IO!NewRequest(op, r, f, d, b) = IOP!NewRequest(op, r, f, d, b)
    BY DEF IO!NewRequest, IOP!NewRequest
  <2>3. IO!DATA_REACTOR = IOP!DATA_REACTOR /\ IO!InUse = IOP!InUse
    BY DEF IO!DATA_REACTOR, IOP!DATA_REACTOR, IO!InUse, IOP!InUse
  <2> QED BY <1>2, <1>3, <2>1, <2>2, <2>3 DEF IO!IssueAsync, IOP!IssueAsync
<1>4. ASSUME IO!IssueAndWait(q, op, f, d, b) PROVE IOP!IssueAndWait(q, op, f, d, b)
  <2>1. IO!DATA_REACTOR = IOP!DATA_REACTOR /\ IO!Zeroes = IOP!Zeroes
    BY DEF IO!DATA_REACTOR, IOP!DATA_REACTOR, IO!Zeroes, IOP!Zeroes, IO!Reactor, IOP!Reactor
  <2>2. IO!NewRequest(op, IO!DATA_REACTOR, f, d, b)
          = IOP!NewRequest(op, IOP!DATA_REACTOR, f, d, b)
    BY <2>1 DEF IO!NewRequest, IOP!NewRequest
  <2>3. /\ IO!ClearedCounts(counts, f) = IOP!ClearedCounts(counts, f)
    BY <2>1 DEF IO!ClearedCounts, IOP!ClearedCounts
  <2> QED BY <1>2, <1>4, <2>1, <2>2, <2>3 DEF IO!IssueAndWait, IOP!IssueAndWait
<1> QED BY <1>1, <1>3, <1>4 DEF IOP!Issue

LEMMA SameAdvance ==
  ASSUME NEW q, IO!Advance(q)
  PROVE  IOP!Advance(q)
<1>1. IO!Submit(q) => IOP!Submit(q)
  BY DEF IO!Submit, IOP!Submit, IO!Polls, IOP!Polls, IO!MAIN_REACTOR, IOP!MAIN_REACTOR
<1>2. IO!DeviceExec(q) => IOP!DeviceExec(q)
  BY DEF IO!DeviceExec, IOP!DeviceExec
<1>3. IO!DeviceFail(q) => IOP!DeviceFail(q)
  BY DEF IO!DeviceFail, IOP!DeviceFail
<1>4. IO!CopyOut(q) => IOP!CopyOut(q)
  BY DEF IO!CopyOut, IOP!CopyOut
<1>5. IO!CountUp(q) => IOP!CountUp(q)
  BY DEF IO!CountUp, IOP!CountUp, IO!CountStage, IOP!CountStage
<1> QED BY <1>1, <1>2, <1>3, <1>4, <1>5 DEF IO!Advance, IOP!Advance

LEMMA SameNext == IO!Next => IOP!Next
<1> SUFFICES ASSUME IO!Next PROVE IOP!Next
  OBVIOUS
<1>1. CASE \E f \in Frame : IO!FutureInit(f) \/ IO!SpinWait(f) \/ IO!Return(f)
  BY <1>1, SameCalls DEF IOP!Next
<1>2. CASE IO!SpinStep \/ IO!SpinReturn
  BY <1>2, SameSpin DEF IOP!Next
<1>3. CASE \E d \in Buf, v \in Value : IO!Store(d, v)
  BY <1>3, SameStore DEF IOP!Next
<1>4. CASE \E q \in Request : IO!Issue(q) \/ IO!Advance(q)
  BY <1>4, SameIssue, SameAdvance DEF IOP!Next
<1> QED BY <1>1, <1>2, <1>3, <1>4 DEF IO!Next

\* Requests are under way only while the program runs.
OnlyWhileRunning == pc # "running" => IO!Allocated = {}

SysInv == StartInv /\ IOP!IInv /\ OnlyWhileRunning

LEMMA SysInit_ ==
  ASSUME IOP!ConstantAssumption, SysInit
  PROVE  SysInv
<1>1. StartInv
  BY StartInit DEF SysInit
<1>2. IOP!IInv
  BY SameInit, IOP!InvInit DEF SysInit
<1>3. IO!Allocated = {}
  BY DEF SysInit, IO!Init, IO!Allocated
<1> QED BY <1>1, <1>2, <1>3 DEF SysInv, OnlyWhileRunning

LEMMA SysStep ==
  ASSUME IOP!ConstantAssumption, MaxAbandoned = 0, SysInv, [SysNext]_allVars
  PROVE  SysInv'
<1>1. StartInv'
  <2>1. [Next]_vars
    BY DEF SysNext, Boot, Serve, Stop, Running, Next, allVars
  <2> QED BY <2>1, StartStep DEF SysInv
<1>2. IOP!IInv'
  <2>1. IO!Next \/ UNCHANGED ioVars
    BY DEF SysNext, Boot, Serve, Stop, allVars
  <2>2. [IOP!Next]_(IOP!vars)
    <3>1. CASE IO!Next
      BY <3>1, SameNext
    <3>2. CASE UNCHANGED ioVars
      BY <3>2 DEF ioVars, IOP!vars
    <3> QED BY <2>1, <3>1, <3>2
  <2> QED BY <2>2, IOP!InvStep DEF SysInv
<1>3. OnlyWhileRunning'
  <2>1. CASE Boot
    BY <2>1 DEF SysInv, OnlyWhileRunning, Boot, Booting, ioVars, IO!Allocated, SendAcquire,
                Poll, Acquire, Complete, RunApp
  <2>2. CASE Serve
    BY <2>2 DEF Serve, Running, vars, OnlyWhileRunning
  <2>3. CASE Stop
    <3>1. \A f \in Frame : frame[f] = "dead"
      BY <2>3 DEF Stop, InCommandLoop
    <3>2. abandoned = {}
      BY DEF SysInv, IOP!IInv, IOP!NothingLeft
    <3>3. IO!Allocated = {}
      BY <3>1, <3>2 DEF SysInv, IOP!IInv, IOP!TypeOK, IOP!PendingFrames, IOP!PendingOn,
                  IOP!Exact, IOP!Allocated, IOP!RequestState, IO!Allocated
    <3> QED BY <2>3, <3>3 DEF Stop, ioVars, OnlyWhileRunning, IO!Allocated
  <2>4. CASE UNCHANGED allVars
    BY <2>4 DEF SysInv, OnlyWhileRunning, allVars, vars, ioVars, IO!Allocated
  <2> QED BY <2>1, <2>2, <2>3, <2>4 DEF SysNext
<1> QED BY <1>1, <1>2, <1>3 DEF SysInv

LEMMA SysInvSuffices == SysInv => ChannelHeld
<1> SUFFICES ASSUME SysInv, NEW q \in IO!Allocated PROVE req[q].reactor \in channels
  BY DEF ChannelHeld
<1>1. pc = "running" /\ channels = Reactor
  BY DEF SysInv, OnlyWhileRunning, StartInv
<1>2. req[q].reactor \in IOP!Reactor
  BY DEF SysInv, IO!Allocated, IOP!IInv, IOP!TypeOK, IOP!RequestState
<1> QED BY <1>1, <1>2 DEF Reactor, IOP!Reactor

\* If AsyncIO's constants are what it assumes and every caller waits for what
\* it issued, a request is under way only on a reactor that holds its channel,
\* from the first command to the last (block.c:91-92, device.c:105-108).
THEOREM ChannelHeldHolds ==
  ASSUME IOP!ConstantAssumption, MaxAbandoned = 0
  PROVE  SysSpec => []ChannelHeld
<1>1. SysInit => SysInv
  BY SysInit_
<1>2. SysInv /\ [SysNext]_allVars => SysInv'
  BY SysStep
<1>3. SysInv => ChannelHeld
  BY SysInvSuffices
<1> QED BY <1>1, <1>2, <1>3, PTL DEF SysSpec

\* The program finds every channel held in the composed system too
\* (device.c:52-54).
THEOREM SysStartsReady == SysSpec => []StartsReady
<1>1. SysInit => StartInv
  BY StartInit DEF SysInit
<1>2. StartInv /\ [SysNext]_allVars => StartInv'
  <2>1. [SysNext]_allVars => [Next]_vars
    BY DEF SysNext, Boot, Serve, Stop, Running, Next, allVars
  <2> QED BY <2>1, StartStep
<1>3. StartInv => StartsReady
  BY StartInvSuffices
<1> QED BY <1>1, <1>2, <1>3, PTL DEF SysSpec
=============================================================================
