-------------------------- MODULE AsyncQueueProofs --------------------------
(***************************************************************************)
(* AsyncQueue implements BoundedQueue for any threads, items and size, and *)
(* loses no wake-up, for any finite set of threads.                        *)
(***************************************************************************)
EXTENDS AsyncQueue, FiniteSetTheorems, TLAPS

(* TypeOK, and: who waits for room has an item to push. *)
Inv ==
  /\ TypeOK
  /\ \A t \in Threads :
       pc[t] \in {"push_asleep", "push_woken"} => item[t] \in Items

(* Appending an item, or taking the first one away, gives a queue again. *)
LEMMA QueueOps ==
  ASSUME NEW s \in Seq(Items), NEW x \in Items
  PROVE  /\ Append(s, x) \in Seq(Items)
         /\ s # <<>> => Head(s) \in Items /\ Tail(s) \in Seq(Items)
  OBVIOUS

(* A thread that looks at the queue leaves it, and its own state, in order. *)
LEMMA LookInv ==
  ASSUME TypeOK, NEW t \in Threads, NEW x \in Items
  PROVE  /\ EmplaceBack(t, x) => q' \in Seq(Items)
                              /\ answer' \in [Threads -> Implements!Answers]
                              /\ pc' = [pc EXCEPT ![t] = "notify_empty"]
         /\ q # <<>> /\ PopFront(t) => q' \in Seq(Items)
                              /\ answer' \in [Threads -> Implements!Answers]
                              /\ pc' = [pc EXCEPT ![t] = "notify_full"]
<1> USE DEF TypeOK, Answers, Implements!Answers, Goes
<1>1. ASSUME EmplaceBack(t, x)
      PROVE  /\ q' \in Seq(Items)
             /\ answer' \in [Threads -> Implements!Answers]
             /\ pc' = [pc EXCEPT ![t] = "notify_empty"]
  BY <1>1, QueueOps DEF EmplaceBack
<1>2. ASSUME q # <<>>, PopFront(t)
      PROVE  /\ q' \in Seq(Items)
             /\ answer' \in [Threads -> Implements!Answers]
             /\ pc' = [pc EXCEPT ![t] = "notify_full"]
  <2>1. Head(q) \in Items /\ Tail(q) \in Seq(Items)
    BY <1>2, QueueOps
  <2> QED
    BY <1>2, <2>1 DEF PopFront
<1> QED
  BY <1>1, <1>2

(* So does one that gives up. *)
LEMMA GivesUpInv ==
  ASSUME TypeOK, NEW t \in Threads, NEW x \in Items \cup {NoItem}, GivesUp(t, x)
  PROVE  /\ q' = q
         /\ answer' \in [Threads -> Implements!Answers]
         /\ pc' = [pc EXCEPT ![t] = "idle"]
  BY DEF TypeOK, GivesUp, Answers, Implements!Answers, Goes

(* Every step keeps the types and the items of the waiting threads. *)
LEMMA InvStep == Inv /\ [Next]_vars => Inv'
<1> SUFFICES ASSUME Inv, [Next]_vars PROVE Inv'
  OBVIOUS
<1> USE DEF Inv, TypeOK, Asleep, Woken, Notify, Goes, Sleeps
<1>1. ASSUME NEW t \in Threads, NEW x \in Items, PushBegin(t, x) PROVE Inv'
  <2>1. CASE ~Full /\ EmplaceBack(t, x) /\ UNCHANGED item
    BY <2>1, LookInv
  <2>2. CASE Full /\ GivesUp(t, x) /\ UNCHANGED item
    BY <2>2 DEF GivesUp, Answers, Implements!Answers
  <2>3. CASE /\ Full /\ Sleeps(t, "push_asleep")
             /\ item' = [item EXCEPT ![t] = x]
    BY <2>3
  <2> QED
    BY <1>1, <2>1, <2>2, <2>3 DEF PushBegin
<1>2. ASSUME NEW t \in Threads, PushWakes(t) PROVE Inv'
  <2>1. CASE Full
    BY <1>2, <2>1 DEF PushWakes
  <2>2. CASE ~Full
    BY <1>2, <2>2, item[t] \in Items, LookInv DEF PushWakes
  <2> QED
    BY <2>1, <2>2
<1>3. ASSUME NEW t \in Threads, PushTimeout(t) PROVE Inv'
  <2>1. item[t] \in Items
    BY <1>3 DEF PushTimeout
  <2>2. CASE Full
    BY <1>3, <2>1, <2>2, GivesUpInv DEF PushTimeout
  <2>3. CASE ~Full
    BY <1>3, <2>1, <2>3, LookInv DEF PushTimeout
  <2> QED
    BY <2>2, <2>3
<1>4. ASSUME NEW t \in Threads, PopBegin(t) \/ PopWakes(t) \/ PopTimeout(t)
      PROVE  Inv'
  <2>1. CASE q = <<>>
    <3>1. UNCHANGED item /\ (GivesUp(t, NoItem) \/ Sleeps(t, "pop_asleep"))
      BY <1>4, <2>1 DEF PopBegin, PopWakes, PopTimeout
    <3>2. CASE GivesUp(t, NoItem)
      BY <3>1, <3>2, GivesUpInv
    <3>3. CASE Sleeps(t, "pop_asleep")
      BY <3>1, <3>3
    <3> QED
      BY <3>1, <3>2, <3>3
  <2>2. CASE q # <<>>
    <3>1. PopFront(t) /\ UNCHANGED item
      BY <1>4, <2>2 DEF PopBegin, PopWakes, PopTimeout
    <3>2. q' \in Seq(Items) /\ answer' \in [Threads -> Implements!Answers]
      <4>1. Head(q) \in Items /\ Tail(q) \in Seq(Items)
        BY <2>2
      <4> QED
        BY <3>1, <4>1 DEF PopFront, Answers, Implements!Answers
    <3>3. pc' = [pc EXCEPT ![t] = "notify_full"]
      BY <3>1 DEF PopFront
    <3> QED
      BY <3>1, <3>2, <3>3
  <2> QED
    BY <2>1, <2>2
<1>5. ASSUME NEW t \in Threads, ClearBegin(t) PROVE Inv'
  BY <1>5 DEF ClearBegin, Answers, Implements!Answers
<1>6. ASSUME NEW t \in Threads, NotifyEmpty(t) PROVE Inv'
  BY <1>6 DEF NotifyEmpty, NotifyOne
<1>7. ASSUME NEW t \in Threads, NotifyFull(t) PROVE Inv'
  BY <1>7 DEF NotifyFull, NotifyOne
<1>8. CASE UNCHANGED vars
  BY <1>8 DEF vars
<1> HIDE DEF Inv
<1> QED
  BY <1>1, <1>2, <1>3, <1>4, <1>5, <1>6, <1>7, <1>8 DEF Next, Resume

(* The types hold of every reachable state. *)
LEMMA Invariance == Spec => []Inv
<1>1. Init => Inv
  BY DEF Init, Inv, TypeOK, Implements!Answers
<1> QED
  BY <1>1, InvStep, PTL DEF Spec

(* Every variable of the queue and its threads keeps its type. *)
THEOREM TypeCorrect == Spec => []TypeOK
<1>1. Inv => TypeOK
  BY DEF Inv
<1> QED
  BY <1>1, Invariance, PTL

(* However the threads interleave, and whatever times out, the queue is    *)
(* the first-in first-out queue that BoundedQueue describes: each call     *)
(* takes effect at one instant and its answer is true at that instant.     *)
THEOREM Refinement == Spec => ImplementsQueue
<1>1. Init => Implements!Init
  BY DEF Init, Implements!Init
<1>2. Inv /\ [Next]_vars => [Implements!Next]_<<q, answer>>
  <2> SUFFICES ASSUME Inv, [Next]_vars
               PROVE  Implements!Next \/ UNCHANGED <<q, answer>>
    OBVIOUS
  <2> USE DEF Full, Implements!Full, Answers, Implements!Answer
  <2>1. ASSUME NEW t \in Threads, NEW x \in Items,
               \/ ~Full /\ EmplaceBack(t, x)
               \/ Full /\ GivesUp(t, x)
        PROVE  Implements!Next
    BY <2>1 DEF EmplaceBack, GivesUp, Implements!Next, Implements!Push,
        Implements!PushFails
  <2>2. ASSUME NEW t \in Threads,
               \/ q # <<>> /\ PopFront(t)
               \/ q = <<>> /\ GivesUp(t, NoItem)
        PROVE  Implements!Next
    BY <2>2 DEF PopFront, GivesUp, Implements!Next, Implements!Pop,
        Implements!PopFails
  <2> HIDE DEF Full, Answers
  <2>3. ASSUME NEW t \in Threads, NEW x \in Items, PushBegin(t, x)
        PROVE  Implements!Next \/ UNCHANGED <<q, answer>>
    BY <2>1, <2>3 DEF PushBegin, Sleeps
  <2>4. ASSUME NEW t \in Threads, PushWakes(t) \/ PushTimeout(t)
        PROVE  Implements!Next \/ UNCHANGED <<q, answer>>
    BY <2>1, <2>4, item[t] \in Items DEF PushWakes, PushTimeout, Sleeps, Inv
  <2>5. ASSUME NEW t \in Threads, PopBegin(t) \/ PopWakes(t) \/ PopTimeout(t)
        PROVE  Implements!Next \/ UNCHANGED <<q, answer>>
    BY <2>2, <2>5 DEF PopBegin, PopWakes, PopTimeout, Sleeps
  <2>6. ASSUME NEW t \in Threads, ClearBegin(t) PROVE Implements!Next
    BY <2>6 DEF ClearBegin, Answers, Implements!Next, Implements!Clear
  <2>7. ASSUME NEW t \in Threads, NotifyEmpty(t) \/ NotifyFull(t)
        PROVE  UNCHANGED <<q, answer>>
    BY <2>7 DEF NotifyEmpty, NotifyFull, NotifyOne
  <2> QED
    BY <2>3, <2>4, <2>5, <2>6, <2>7 DEF Next, Resume, vars
<1> QED
  BY <1>1, <1>2, Invariance, PTL DEF Spec, ImplementsQueue, Implements!Spec
----------------------------------------------------------------------------
(* Wake-ups *)

Sleepers == {t \in Threads : pc[t] = "pop_asleep"}
Alert    == {t \in Threads : pc[t] \in {"pop_woken", "notify_empty"}}

(* NoLostWakeup, without the counts of the sleepers *)
WakeInv == Sleepers # {} => Len(q) <= Cardinality(Alert)

(* Counting threads: the count is a number, grows by one for a thread that *)
(* comes in, and loses one at the most for a thread that goes.             *)
LEMMA CountFacts ==
  ASSUME NEW S \in SUBSET Threads, NEW t \in Threads
  PROVE  /\ Cardinality(S) \in Nat
         /\ S = {} <=> Cardinality(S) = 0
         /\ t \notin S => Cardinality(S \cup {t}) = Cardinality(S) + 1
         /\ Cardinality(S \ {t}) \in Nat
         /\ Cardinality(S \ {t}) >= Cardinality(S) - 1
<1>1. IsFiniteSet(S)
  BY ThreadsAssumption, FS_Subset
<1>2. Cardinality(S) \in Nat /\ (S = {} <=> Cardinality(S) = 0)
  BY <1>1, FS_CardinalityType, FS_EmptySet
<1>3. t \notin S => Cardinality(S \cup {t}) = Cardinality(S) + 1
  BY <1>1, FS_AddElement
<1>4. IsFiniteSet(S \ {t}) /\ Cardinality(S \ {t}) = IF t \in S THEN Cardinality(S) - 1 ELSE Cardinality(S)
  BY <1>1, FS_RemoveElement
<1>5. Cardinality(S \ {t}) \in Nat
  BY <1>4, FS_CardinalityType
<1> QED
  BY <1>2, <1>3, <1>4, <1>5

(* A thread that pushes an item will wake somebody; one that takes an item *)
(* was woken for one at the most.                                          *)
LEMMA EmplaceBackWakes ==
  ASSUME Inv, WakeInv, NEW t \in Threads, NEW x \in Items, EmplaceBack(t, x),
         pc[t] \in {"idle", "push_asleep", "push_woken"}
  PROVE  WakeInv'
<1>1. Len(q') = Len(q) + 1 /\ Len(q) \in Nat
  BY DEF Inv, TypeOK, EmplaceBack
<1>2. Sleepers' = Sleepers /\ Alert' = Alert \cup {t} /\ t \notin Alert
  BY DEF Inv, TypeOK, EmplaceBack, Goes, Sleepers, Alert
<1> QED
  BY <1>1, <1>2, CountFacts DEF WakeInv, Alert

LEMMA PopFrontWakes ==
  ASSUME Inv, WakeInv, NEW t \in Threads, q # <<>>, PopFront(t)
  PROVE  WakeInv'
<1>1. Len(q') = Len(q) - 1 /\ Len(q) \in Nat
  BY DEF Inv, TypeOK, PopFront
<1>2. Sleepers' \subseteq Sleepers /\ Alert' = Alert \ {t}
  BY DEF Inv, TypeOK, PopFront, Goes, Sleepers, Alert
<1>3. /\ Cardinality(Alert) \in Nat /\ Cardinality(Alert \ {t}) \in Nat
      /\ Cardinality(Alert \ {t}) >= Cardinality(Alert) - 1
  <2>1. Alert \in SUBSET Threads
    BY DEF Alert
  <2> HIDE DEF Alert
  <2> QED
    BY <2>1, CountFacts
<1> QED
  BY <1>1, <1>2, <1>3 DEF WakeInv

(* With nothing in the queue nobody waits in vain. *)
LEMMA EmptyWakes ==
  ASSUME q' = <<>>
  PROVE  WakeInv'
<1>1. Alert' \in SUBSET Threads
  BY DEF Alert
<1>2. IsFiniteSet(Alert')
  BY <1>1, ThreadsAssumption, FS_Subset
<1>3. Cardinality(Alert') \in Nat
  BY <1>2, FS_CardinalityType
<1> QED
  BY <1>3 DEF WakeInv

(* Others do not matter: they neither sleep for an item nor are alert. *)
LEMMA SameWakes ==
  ASSUME WakeInv, UNCHANGED <<q, Sleepers, Alert>>
  PROVE  WakeInv'
BY DEF WakeInv

(* The thread that is woken takes the place of the one that woke it. *)
LEMMA NotifyWakes ==
  ASSUME Inv, WakeInv, NEW t \in Threads, NotifyEmpty(t)
  PROVE  WakeInv'
<1> USE DEF Inv, TypeOK, NotifyEmpty, NotifyOne, Goes, Sleepers, Alert
<1>1. CASE Sleepers = {}
  <2>1. Sleepers' = {}
    BY <1>1
  <2> QED
    BY <2>1 DEF WakeInv
<1>2. CASE Sleepers # {}
  <2>1. PICK u \in Threads :
          pc[u] = "pop_asleep" /\ pc' = [pc EXCEPT ![t] = "idle", ![u] = "pop_woken"]
    BY <1>2
  <2>2. Alert' = (Alert \ {t}) \cup {u} /\ u \notin Alert /\ t \in Alert /\ u # t
    BY <2>1
  <2> HIDE DEF Alert
  <2>3. Alert \in SUBSET Threads /\ Alert' \in SUBSET Threads /\ Alert \ {t} \in SUBSET Threads
    BY DEF Alert
  <2>4. Cardinality(Alert') >= Cardinality(Alert) /\ Cardinality(Alert') \in Nat
        /\ Cardinality(Alert) \in Nat
    <3>1. /\ Cardinality(Alert) \in Nat /\ Cardinality(Alert \ {t}) \in Nat
          /\ Cardinality(Alert \ {t}) >= Cardinality(Alert) - 1
      BY <2>3, CountFacts
    <3>2. Cardinality((Alert \ {t}) \cup {u}) = Cardinality(Alert \ {t}) + 1
      BY <2>2, <2>3, CountFacts
    <3> QED
      BY <2>2, <3>1, <3>2
  <2>5. q' = q /\ Len(q) \in Nat
    OBVIOUS
  <2> HIDE DEF Inv, TypeOK, NotifyEmpty, NotifyOne
  <2> QED
    BY <1>2, <2>4, <2>5 DEF WakeInv
<1> QED
  BY <1>1, <1>2

LEMMA WakeStep == Inv /\ WakeInv /\ [Next]_vars => WakeInv'
<1> SUFFICES ASSUME Inv, WakeInv, [Next]_vars PROVE WakeInv'
  OBVIOUS
<1>1. ASSUME NEW t \in Threads, pc[t] \in {"idle", "push_asleep", "push_woken"},
             \/ \E x \in Items \cup {NoItem} : GivesUp(t, x)
             \/ Sleeps(t, "push_asleep")
      PROVE  WakeInv'
  BY <1>1, SameWakes DEF Inv, TypeOK, GivesUp, Sleeps, Goes, Sleepers, Alert
<1>2. ASSUME NEW t \in Threads, NEW x \in Items, PushBegin(t, x) PROVE WakeInv'
  BY <1>1, <1>2, EmplaceBackWakes DEF PushBegin
<1>3. ASSUME NEW t \in Threads, PushWakes(t) \/ PushTimeout(t) PROVE WakeInv'
  BY <1>1, <1>3, EmplaceBackWakes DEF PushWakes, PushTimeout, Inv
<1>4. ASSUME NEW t \in Threads, PopBegin(t) \/ PopWakes(t) \/ PopTimeout(t)
      PROVE  WakeInv'
  <2>1. CASE q = <<>>
    <3>1. q' = <<>>
      BY <1>4, <2>1 DEF PopBegin, PopWakes, PopTimeout, GivesUp, Sleeps
    <3> QED
      BY <3>1, EmptyWakes
  <2>2. CASE q # <<>>
    BY <1>4, <2>2, PopFrontWakes DEF PopBegin, PopWakes, PopTimeout
  <2> QED
    BY <2>1, <2>2
<1>5. ASSUME NEW t \in Threads, ClearBegin(t) PROVE WakeInv'
  BY <1>5, EmptyWakes DEF ClearBegin
<1>6. ASSUME NEW t \in Threads, NotifyEmpty(t) PROVE WakeInv'
  BY <1>6, NotifyWakes
<1>7. ASSUME NEW t \in Threads, NotifyFull(t) PROVE WakeInv'
  <2>1. UNCHANGED <<q, Sleepers, Alert>>
    BY <1>7 DEF Inv, TypeOK, NotifyFull, NotifyOne, Goes, Sleepers, Alert
  <2> QED
    BY <2>1, SameWakes
<1>8. CASE UNCHANGED vars
  BY <1>8, SameWakes DEF vars, Sleepers, Alert
<1> QED
  BY <1>2, <1>3, <1>4, <1>5, <1>6, <1>7, <1>8 DEF Next, Resume

(* Whoever sleeps, times out, or takes an item that was meant for another, *)
(* there are as many threads awake, or about to wake one, as there are     *)
(* items for the sleepers to miss (push() and pop(), notify_one).          *)
THEOREM NoWakeupLost == Spec => []NoLostWakeup
<1>1. Init => WakeInv
  BY DEF Init, WakeInv, Sleepers
<1>2. WakeInv => NoLostWakeup
  <2> SUFFICES ASSUME WakeInv, Count({"pop_asleep"}) > 0
               PROVE  Len(q) <= Count({"pop_woken", "notify_empty"})
    BY DEF NoLostWakeup
  <2>1. Sleepers = {t \in Threads : pc[t] \in {"pop_asleep"}}
    BY DEF Sleepers
  <2>2. Sleepers # {}
    BY <2>1, FS_EmptySet DEF Count
  <2> QED
    BY <2>2 DEF WakeInv, Alert, Count
<1> QED
  BY <1>1, <1>2, Invariance, WakeStep, PTL DEF Spec
=============================================================================
