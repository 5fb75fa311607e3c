--------------------------- MODULE IndexerProofs ---------------------------
(***************************************************************************)
(* Theorems about Indexer, for any sets of messages and threads and any    *)
(* max_workers_.  TypeInv is inductive by itself; PoolInv says which       *)
(* threads are in workers_ and who may add one, and gives the bound on the *)
(* pool; ScanInv says when the queue, state_ and running_ may be set, and  *)
(* with PoolInv gives what stop() leaves behind.  FateInv says that every  *)
(* message ever pushed is in exactly one place, and gives the counts of    *)
(* Conservation.                                                           *)
(***************************************************************************)
EXTENDS Indexer, FiniteSetTheorems, TLAPS

USE WorkersAssumption, MsgsAssumption

(* TypeOK, and the item that the scanner and each worker has in hand. *)
TypeInv ==
  /\ TypeOK
  /\ scanner = "scan_handle" => entry \in Msgs
  /\ \A w \in Workers : wpc[w] = "add" => hand[w] \in Msgs

(* A thread of the pool is one that stop() will join; a worker in          *)
(* maybe_start_worker() holds wlock_; and start() adds its worker to an    *)
(* empty vector.                                                           *)
PoolInv ==
  /\ \A w \in Workers : w \in joinable <=> wpc[w] # "none"
  /\ \A w \in Workers : hand[w] # NoMsg => wpc[w] = "add"
  /\ \A w \in Workers : wpc[w] \in {"spawn_test", "spawn"} => wlock = w
  /\ \A w \in Workers : wpc[w] = "spawn" => Cardinality(workers) < MaxWorkers
  /\ main = "start_spawn" => workers = {}
  /\ WorkersBounded

ScanInv ==
  /\ fq # <<>> => scanner \in {"scan_loop", "scan_handle", "scan_end", "drain"}
  /\ running => scanner \in ScanSteps
  /\ scanner = "done" => state = "Idle"
  /\ scanner = "none" /\ main # "start_scanner" => state = "Idle"
  /\ main \in {"stop_join", "destroyed"} \cup StartSteps => scanner = "none"

(* The vector of threads is finite, and adding a thread makes it longer by *)
(* one at the most.                                                        *)
LEMMA PoolFacts ==
  ASSUME NEW S \in SUBSET Workers, NEW w \in Workers
  PROVE  /\ Cardinality(S) \in Nat /\ Cardinality(S \cup {w}) \in Nat
         /\ Cardinality(S \cup {w}) <= Cardinality(S) + 1
         /\ Cardinality({w}) = 1
<1>1. IsFiniteSet(S) /\ IsFiniteSet(S \cup {w})
  BY FS_Subset
<1>2. Cardinality(S) \in Nat /\ Cardinality(S \cup {w}) \in Nat
  BY <1>1, FS_CardinalityType
<1>3. \/ Cardinality(S \cup {w}) = Cardinality(S)
      \/ Cardinality(S \cup {w}) = Cardinality(S) + 1
  BY <1>1, FS_AddElement
<1>4. Cardinality({w}) = 1
  BY FS_Singleton
<1> QED
  BY <1>2, <1>3, <1>4

(* Every step of every thread keeps the types. *)
LEMMA TypeStep ==
  TypeInv /\ [Next]_vars => TypeInv'
<1> SUFFICES ASSUME TypeInv, [Next]_vars PROVE TypeInv'
  OBVIOUS
<1> USE DEF TypeInv, TypeOK, Configs, MainSteps, ScannerSteps, StopSteps,
    StartSteps, ScanSteps, WorkerSteps, vars, shared, caller, scan, pool, fate,
    ScannerGoes, WorkerGoes
<1>1. CASE CallStart
  BY <1>1 DEF CallStart
<1>2. CASE CallStop
  BY <1>2 DEF CallStop
<1>3. CASE Destroy
  BY <1>3 DEF Destroy
<1>4. CASE StopScanner
  <2>1. running' \in BOOLEAN
    BY <1>4 DEF StopScanner
  <2> QED
    BY <1>4, <2>1 DEF StopScanner
<1>5. CASE StopIdle
  BY <1>5 DEF StopIdle
<1>6. CASE StopClear
  BY <1>6 DEF StopClear, Queued
<1>7. CASE StopJoinScanner
  BY <1>7 DEF StopJoinScanner
<1>8. CASE StopClearWorkers
  BY <1>8 DEF StopClearWorkers
<1>9. ASSUME NEW w \in Workers, StopJoinWorker(w) PROVE TypeInv'
  BY <1>9 DEF StopJoinWorker
<1>10. CASE StartSpawn
  BY <1>10 DEF StartSpawn, AddThread
<1>11. CASE StartScanning
  BY <1>11 DEF StartScanning
<1>12. CASE StartScanner
  BY <1>12 DEF StartScanner
<1>13. CASE ScannerBegin
  <2>1. running' \in BOOLEAN
    BY <1>13 DEF ScannerBegin
  <2>2. scanner' \in ScannerSteps
    BY <1>13 DEF ScannerBegin
  <2> QED
    BY <1>13, <2>1, <2>2 DEF ScannerBegin
<1>14. CASE ScanFail
  BY <1>14 DEF ScanFail
<1>15. CASE ScanEnter
  BY <1>15 DEF ScanEnter
<1>16. CASE ScanHandle
  <2>1. entry \in Msgs
    BY <1>16 DEF ScanHandle
  <2>2. fq' \in Seq(Msgs)
    BY <1>16, <2>1 DEF ScanHandle
  <2>3. pushed' \subseteq Msgs
    BY <1>16, <2>1 DEF ScanHandle
  <2> QED
    BY <1>16, <2>2, <2>3 DEF ScanHandle
<1>17. CASE ScanLeave
  BY <1>17 DEF ScanLeave
<1>18. CASE ScanEnd
  BY <1>18 DEF ScanEnd
<1>19. CASE Drain
  BY <1>19 DEF Drain
<1>20. CASE CleanBegin
  BY <1>20 DEF CleanBegin
<1>21. CASE Sweep
  BY <1>21 DEF Sweep
<1>22. CASE Commit
  BY <1>22 DEF Commit
<1>23. CASE ScannerLeave
  BY <1>23 DEF ScannerLeave
<1>24. ASSUME NEW m \in Msgs, ScanRead(m) PROVE TypeInv'
  BY <1>24 DEF ScanRead
<1>25. ASSUME NEW w \in Workers, CheckState(w) PROVE TypeInv'
  BY <1>25 DEF CheckState
<1>26. ASSUME NEW w \in Workers, CheckQueue(w) PROVE TypeInv'
  BY <1>26 DEF CheckQueue
<1>27. ASSUME NEW w \in Workers, Pop(w) PROVE TypeInv'
  BY <1>27 DEF Pop
<1>28. ASSUME NEW w \in Workers, PopTimeout(w) PROVE TypeInv'
  BY <1>28 DEF PopTimeout
<1>29. ASSUME NEW w \in Workers, AddMessage(w) PROVE TypeInv'
  BY <1>29 DEF AddMessage
<1>30. ASSUME NEW w \in Workers, SpawnLock(w) PROVE TypeInv'
  BY <1>30 DEF SpawnLock
<1>31. ASSUME NEW w \in Workers, SpawnTest(w) PROVE TypeInv'
  BY <1>31 DEF SpawnTest
<1>32. ASSUME NEW w \in Workers, Spawn(w) PROVE TypeInv'
  BY <1>32 DEF Spawn
<1>33. CASE UNCHANGED vars
  BY <1>33
<1> HIDE DEF TypeInv, vars
<1> QED
  BY <1>1, <1>2, <1>3, <1>4, <1>5, <1>6, <1>7, <1>8, <1>9, <1>10, <1>11, <1>12,
      <1>13, <1>14, <1>15, <1>16, <1>17, <1>18, <1>19, <1>20, <1>21, <1>22,
      <1>23, <1>24, <1>25, <1>26, <1>27, <1>28, <1>29, <1>30, <1>31, <1>32,
      <1>33
  DEF Next, Call, MainStep, StopStep, ScannerStep, WorkerStep

(* Whoever adds a thread holds wlock_, or is start() with no worker alive. *)
LEMMA PoolStep ==
  TypeInv /\ TypeInv' /\ PoolInv /\ [Next]_vars => PoolInv'
<1> SUFFICES ASSUME TypeInv, TypeInv', PoolInv, [Next]_vars PROVE PoolInv'
  OBVIOUS
<1> USE DEF TypeInv, TypeOK, PoolInv, WorkersBounded, StopSteps, StartSteps,
    ScanSteps, WorkerSteps, vars, shared, caller, scan, pool, fate,
    ScannerGoes, WorkerGoes
<1>1. CASE CallStart
  BY <1>1, PoolFacts DEF CallStart
<1>2. CASE CallStop
  BY <1>2, PoolFacts DEF CallStop
<1>3. CASE Destroy
  BY <1>3, PoolFacts DEF Destroy
<1>4. CASE StopScanner
  BY <1>4, PoolFacts DEF StopScanner
<1>5. CASE StopIdle
  BY <1>5, PoolFacts DEF StopIdle
<1>6. CASE StopClear
  BY <1>6, PoolFacts DEF StopClear
<1>7. CASE StopJoinScanner
  BY <1>7, PoolFacts DEF StopJoinScanner
<1>8. CASE StopClearWorkers
  <2>1. CASE joinable = {}
    <3>1. workers' = {} /\ \A w \in Workers : wpc[w] = "none"
      BY <1>8, <2>1 DEF StopClearWorkers
    <3>2. WorkersBounded'
      BY <3>1, FS_EmptySet DEF PoolSize
    <3> QED
      BY <1>8, <2>1, <3>1, <3>2 DEF StopClearWorkers
  <2>2. CASE joinable # {}
    BY <1>8, <2>2 DEF StopClearWorkers
  <2> QED
    BY <2>1, <2>2
<1>9. ASSUME NEW w \in Workers, StopJoinWorker(w) PROVE PoolInv'
  BY <1>9, PoolFacts DEF StopJoinWorker
<1>10. CASE StartSpawn
  BY <1>10, PoolFacts DEF StartSpawn, AddThread, WorkersBounded, PoolSize
<1>11. CASE StartScanning
  BY <1>11, PoolFacts DEF StartScanning
<1>12. CASE StartScanner
  BY <1>12, PoolFacts DEF StartScanner
<1>13. CASE ScannerBegin
  BY <1>13, PoolFacts DEF ScannerBegin
<1>14. CASE ScanFail
  BY <1>14, PoolFacts DEF ScanFail
<1>15. CASE ScanEnter
  BY <1>15, PoolFacts DEF ScanEnter
<1>16. CASE ScanHandle
  BY <1>16, PoolFacts DEF ScanHandle
<1>17. CASE ScanLeave
  BY <1>17, PoolFacts DEF ScanLeave
<1>18. CASE ScanEnd
  BY <1>18, PoolFacts DEF ScanEnd
<1>19. CASE Drain
  BY <1>19, PoolFacts DEF Drain
<1>20. CASE CleanBegin
  BY <1>20, PoolFacts DEF CleanBegin
<1>21. CASE Sweep
  BY <1>21, PoolFacts DEF Sweep
<1>22. CASE Commit
  BY <1>22, PoolFacts DEF Commit
<1>23. CASE ScannerLeave
  BY <1>23, PoolFacts DEF ScannerLeave
<1>24. ASSUME NEW m \in Msgs, ScanRead(m) PROVE PoolInv'
  BY <1>24, PoolFacts DEF ScanRead
<1>25. ASSUME NEW w \in Workers, CheckState(w) PROVE PoolInv'
  BY <1>25, PoolFacts DEF CheckState
<1>26. ASSUME NEW w \in Workers, CheckQueue(w) PROVE PoolInv'
  BY <1>26, PoolFacts DEF CheckQueue
<1>27. ASSUME NEW w \in Workers, Pop(w) PROVE PoolInv'
  BY <1>27, PoolFacts DEF Pop
<1>28. ASSUME NEW w \in Workers, PopTimeout(w) PROVE PoolInv'
  BY <1>28, PoolFacts DEF PopTimeout
<1>29. ASSUME NEW w \in Workers, AddMessage(w) PROVE PoolInv'
  BY <1>29, PoolFacts DEF AddMessage
<1>30. ASSUME NEW w \in Workers, SpawnLock(w) PROVE PoolInv'
  BY <1>30, PoolFacts DEF SpawnLock
<1>31. ASSUME NEW w \in Workers, SpawnTest(w) PROVE PoolInv'
  BY <1>31, PoolFacts DEF SpawnTest, CanSpawn
<1>32. ASSUME NEW w \in Workers, Spawn(w) PROVE PoolInv'
  <2>1. PICK new \in Workers :
             /\ wpc[new] = "none" /\ wpc[w] = "spawn"
             /\ wpc' = [wpc EXCEPT ![w] = "check_state", ![new] =
                 "check_state"]
             /\ workers' = workers \cup {new} /\ joinable' = joinable \cup
                 {new}
    BY <1>32 DEF Spawn
  <2>2. Cardinality(workers') <= Cardinality(workers) + 1 /\
      Cardinality(workers) \in Nat /\ Cardinality(workers') \in Nat
    BY <2>1, PoolFacts
  <2>3. WorkersBounded'
    <3>1. Cardinality(workers) < MaxWorkers
      BY <2>1
    <3> QED
      BY <2>2, <3>1 DEF PoolSize
  <2>4. \A v \in Workers : wpc'[v] \notin {"spawn_test", "spawn"}
    BY <1>32, <2>1 DEF Spawn
  <2> QED
    BY <1>32, <2>1, <2>3, <2>4 DEF Spawn
<1>33. CASE UNCHANGED vars
  BY <1>33, PoolFacts
<1> HIDE DEF TypeInv, PoolInv, vars
<1> QED
  BY <1>1, <1>2, <1>3, <1>4, <1>5, <1>6, <1>7, <1>8, <1>9, <1>10, <1>11, <1>12,
      <1>13, <1>14, <1>15, <1>16, <1>17, <1>18, <1>19, <1>20, <1>21, <1>22,
      <1>23, <1>24, <1>25, <1>26, <1>27, <1>28, <1>29, <1>30, <1>31, <1>32,
      <1>33
  DEF Next, Call, MainStep, StopStep, ScannerStep, WorkerStep

(* Only the scan queues messages, and its thread outlives it in no state. *)
LEMMA ScanStep ==
  TypeInv /\ PoolInv /\ ScanInv /\ [Next]_vars => ScanInv'
<1> SUFFICES ASSUME TypeInv, PoolInv, ScanInv, [Next]_vars PROVE ScanInv'
  OBVIOUS
<1> USE DEF TypeInv, TypeOK, ScanInv, StopSteps, StartSteps, ScanSteps,
    WorkerSteps, vars, shared, caller, scan, pool, fate, ScannerGoes,
    WorkerGoes
<1>1. CASE CallStart
  BY <1>1 DEF CallStart
<1>2. CASE CallStop
  BY <1>2 DEF CallStop
<1>3. CASE Destroy
  BY <1>3 DEF Destroy
<1>4. CASE StopScanner
  BY <1>4 DEF StopScanner
<1>5. CASE StopIdle
  BY <1>5 DEF StopIdle
<1>6. CASE StopClear
  BY <1>6 DEF StopClear
<1>7. CASE StopJoinScanner
  BY <1>7 DEF StopJoinScanner
<1>8. CASE StopClearWorkers
  BY <1>8 DEF StopClearWorkers
<1>9. ASSUME NEW w \in Workers, StopJoinWorker(w) PROVE ScanInv'
  BY <1>9 DEF StopJoinWorker
<1>10. CASE StartSpawn
  BY <1>10 DEF StartSpawn
<1>11. CASE StartScanning
  BY <1>11 DEF StartScanning
<1>12. CASE StartScanner
  BY <1>12 DEF StartScanner
<1>13. CASE ScannerBegin
  BY <1>13 DEF ScannerBegin
<1>14. CASE ScanFail
  BY <1>14 DEF ScanFail
<1>15. CASE ScanEnter
  BY <1>15 DEF ScanEnter
<1>16. CASE ScanHandle
  BY <1>16 DEF ScanHandle
<1>17. CASE ScanLeave
  BY <1>17 DEF ScanLeave
<1>18. CASE ScanEnd
  BY <1>18 DEF ScanEnd
<1>19. CASE Drain
  BY <1>19 DEF Drain
<1>20. CASE CleanBegin
  BY <1>20 DEF CleanBegin
<1>21. CASE Sweep
  BY <1>21 DEF Sweep
<1>22. CASE Commit
  BY <1>22 DEF Commit
<1>23. CASE ScannerLeave
  BY <1>23 DEF ScannerLeave
<1>24. ASSUME NEW m \in Msgs, ScanRead(m) PROVE ScanInv'
  BY <1>24 DEF ScanRead
<1>25. ASSUME NEW w \in Workers, CheckState(w) PROVE ScanInv'
  BY <1>25 DEF CheckState
<1>26. ASSUME NEW w \in Workers, CheckQueue(w) PROVE ScanInv'
  BY <1>26 DEF CheckQueue
<1>27. ASSUME NEW w \in Workers, Pop(w) PROVE ScanInv'
  BY <1>27 DEF Pop
<1>28. ASSUME NEW w \in Workers, PopTimeout(w) PROVE ScanInv'
  BY <1>28 DEF PopTimeout
<1>29. ASSUME NEW w \in Workers, AddMessage(w) PROVE ScanInv'
  BY <1>29 DEF AddMessage
<1>30. ASSUME NEW w \in Workers, SpawnLock(w) PROVE ScanInv'
  BY <1>30 DEF SpawnLock
<1>31. ASSUME NEW w \in Workers, SpawnTest(w) PROVE ScanInv'
  BY <1>31 DEF SpawnTest
<1>32. ASSUME NEW w \in Workers, Spawn(w) PROVE ScanInv'
  BY <1>32 DEF Spawn
<1>33. CASE UNCHANGED vars
  BY <1>33
<1> HIDE DEF TypeInv, PoolInv, ScanInv, vars
<1> QED
  BY <1>1, <1>2, <1>3, <1>4, <1>5, <1>6, <1>7, <1>8, <1>9, <1>10, <1>11, <1>12,
      <1>13, <1>14, <1>15, <1>16, <1>17, <1>18, <1>19, <1>20, <1>21, <1>22,
      <1>23, <1>24, <1>25, <1>26, <1>27, <1>28, <1>29, <1>30, <1>31, <1>32,
      <1>33
  DEF Next, Call, MainStep, StopStep, ScannerStep, WorkerStep

----------------------------------------------------------------------------
(* What becomes of the messages *)

(* Every message that was queued is in one place, and there once. *)
Places == pushed = Queued \cup InHand \cup handled \cup dropped

Once ==
  /\ \A i, j \in DOMAIN fq : fq[i] = fq[j] => i = j
  /\ \A v, w \in Workers : hand[v] = hand[w] /\ hand[v] # NoMsg => v = w
  /\ Queued \cap (InHand \cup handled \cup dropped) = {}
  /\ InHand \cap (handled \cup dropped) = {}
  /\ handled \cap dropped = {}

(* What the scan has still to read was not queued before; and stop() drops *)
(* messages of no job but the one that it stops.                           *)
FateInv ==
  /\ Places /\ Once
  /\ main \in {"start_scanning", "start_scanner"} \/ scanner \in {"begin", "scan_enter"}
       => pushed = {}
  /\ scanner \in {"scan_loop", "scan_handle"} => todo \cap pushed = {}
  /\ scanner = "scan_handle" => entry \notin pushed \cup todo
  /\ main \in {"start_scanning", "start_scanner"} \/ (main = "idle" /\ scanner # "none")
       => dropped = {}

(* What is in a queue when an item comes in, and when one goes out *)
LEMMA QueueFacts ==
  ASSUME NEW s \in Seq(Msgs)
  PROVE  /\ \A m \in Msgs : /\ Append(s, m) \in Seq(Msgs)
                            /\ DOMAIN Append(s, m) = DOMAIN s \cup {Len(s) + 1}
                            /\ \A i \in DOMAIN s : Append(s, m)[i] = s[i]
                            /\ Append(s, m)[Len(s) + 1] = m
                            /\ Len(s) + 1 \notin DOMAIN s
         /\ s # <<>> => /\ 1 \in DOMAIN s /\ Head(s) = s[1]
                        /\ \A i \in DOMAIN Tail(s) : i + 1 \in DOMAIN s /\ i + 1 # 1
                                                   /\ Tail(s)[i] = s[i + 1]
                        /\ \A i \in DOMAIN s : i # 1 => i - 1 \in DOMAIN Tail(s)
                                                   /\ Tail(s)[i - 1] = s[i]
                        /\ \A i, j \in DOMAIN Tail(s) : i + 1 = j + 1 => i = j
  OBVIOUS

(* A message that is queued was nowhere; one that is taken out of the      *)
(* queue, or is added, goes from one place to the next.                    *)
LEMMA PushPlaces ==
  ASSUME TypeInv, Places, Once, NEW m \in Msgs, m \notin pushed,
         fq' = Append(fq, m), pushed' = pushed \cup {m},
         UNCHANGED <<hand, handled, dropped>>
  PROVE  Places' /\ Once'
<1>1. fq \in Seq(Msgs)
  BY DEF TypeInv, TypeOK
<1>2. Queued' = Queued \cup {m}
  BY <1>1, QueueFacts DEF Queued
<1>3. m \notin Queued /\ InHand' = InHand
  BY DEF Places, InHand
<1>4. \A i, j \in DOMAIN fq' : fq'[i] = fq'[j] => i = j
  BY <1>1, <1>3, QueueFacts DEF Once, Queued
<1>5. Places'
  BY <1>2, <1>3 DEF Places
<1> QED
  BY <1>2, <1>3, <1>4, <1>5 DEF Once, Places

LEMMA PopPlaces ==
  ASSUME TypeInv, Places, Once, NEW w \in Workers, fq # <<>>, hand[w] = NoMsg,
         fq' = Tail(fq), hand' = [hand EXCEPT ![w] = Head(fq)],
         UNCHANGED <<pushed, handled, dropped>>
  PROVE  Places' /\ Once'
<1>1. fq \in Seq(Msgs) /\ hand \in [Workers -> Msgs \cup {NoMsg}] /\ Head(fq) \in Msgs
  BY DEF TypeInv, TypeOK
<1>2. Queued = Queued' \cup {Head(fq)}
  <2>1. ASSUME NEW i \in DOMAIN fq PROVE fq[i] = Head(fq) \/ fq[i] \in Queued'
    <3>1. CASE i = 1
      BY <1>1, <3>1, QueueFacts
    <3>2. CASE i # 1
      <4>1. i - 1 \in DOMAIN fq' /\ fq'[i - 1] = fq[i]
        BY <1>1, <3>2, QueueFacts
      <4> QED
        BY <4>1 DEF Queued
    <3> QED
      BY <3>1, <3>2
  <2>2. Head(fq) \in Queued
    BY <1>1, QueueFacts DEF Queued
  <2>3. \A i \in DOMAIN fq' : fq'[i] \in Queued
    BY <1>1, QueueFacts DEF Queued
  <2> QED
    BY <2>1, <2>2, <2>3 DEF Queued
<1>3. Head(fq) \notin Queued'
  BY <1>1, QueueFacts DEF Queued, Once
<1>4. \A i, j \in DOMAIN fq' : fq'[i] = fq'[j] => i = j
  BY <1>1, QueueFacts DEF Once
<1>5. InHand' = InHand \cup {Head(fq)}
  BY <1>1, MsgsAssumption DEF InHand
<1>6. \A u, v \in Workers : hand'[u] = hand'[v] /\ hand'[u] # NoMsg => u = v
  <2>1. Head(fq) \notin InHand
    BY <1>2 DEF Once
  <2> QED
    BY <1>1, <2>1 DEF Once, InHand
<1>7. Places'
  BY <1>2, <1>5 DEF Places
<1> QED
  BY <1>2, <1>3, <1>4, <1>5, <1>6, <1>7 DEF Once

LEMMA AddPlaces ==
  ASSUME TypeInv, Places, Once, NEW w \in Workers, hand[w] \in Msgs,
         hand' = [hand EXCEPT ![w] = NoMsg], handled' = handled \cup {hand[w]},
         UNCHANGED <<fq, pushed, dropped>>
  PROVE  Places' /\ Once'
<1>1. hand \in [Workers -> Msgs \cup {NoMsg}] /\ hand[w] # NoMsg
  BY DEF TypeInv, TypeOK
<1>2. Queued' = Queued
  BY DEF Queued
<1>3. InHand = InHand' \cup {hand[w]} /\ hand[w] \notin InHand'
  BY <1>1 DEF InHand, Once
<1>4. \A u, v \in Workers : hand'[u] = hand'[v] /\ hand'[u] # NoMsg => u = v
  BY <1>1 DEF Once
<1>5. Places'
  BY <1>2, <1>3 DEF Places
<1> QED
  BY <1>2, <1>3, <1>4, <1>5 DEF Once

LEMMA DropPlaces ==
  ASSUME Places, Once, fq' = <<>>, dropped' = dropped \cup Queued,
         UNCHANGED <<hand, pushed, handled>>
  PROVE  Places' /\ Once'
<1>1. Queued' = {} /\ InHand' = InHand
  BY DEF Queued, InHand
<1> QED
  BY <1>1 DEF Places, Once

LEMMA SamePlaces ==
  ASSUME Places, Once, UNCHANGED <<fq, hand, pushed, handled, dropped>>
  PROVE  Places' /\ Once'
<1>1. Queued' = Queued /\ InHand' = InHand
  BY DEF Queued, InHand
<1> QED
  BY <1>1 DEF Places, Once

(* start() finds nothing left of the job before. *)
LEMMA NewPlaces ==
  ASSUME TypeInv, PoolInv, ScanInv, StartSpawn
  PROVE  Places' /\ Once'
<1>1. fq' = <<>>
  BY DEF StartSpawn, ScanInv, StartSteps
<1>2. \A w \in Workers : hand'[w] = NoMsg
  BY DEF StartSpawn, PoolInv, TypeInv, TypeOK
<1>3. Queued' = {} /\ InHand' = {}
  BY <1>1, <1>2 DEF Queued, InHand
<1>4. pushed' = {} /\ handled' = {} /\ dropped' = {}
  BY DEF StartSpawn
<1> QED
  BY <1>1, <1>2, <1>3, <1>4 DEF Places, Once

LEMMA FateStep ==
  TypeInv /\ PoolInv /\ ScanInv /\ FateInv /\ [Next]_vars => FateInv'
<1> SUFFICES ASSUME TypeInv, PoolInv, ScanInv, FateInv, [Next]_vars PROVE FateInv'
  OBVIOUS
<1> USE DEF FateInv, vars, shared, caller, scan, pool, fate, ScannerGoes, WorkerGoes
<1>1. CASE StopClear
  BY <1>1, DropPlaces DEF StopClear
<1>2. CASE StartSpawn
  BY <1>2, NewPlaces DEF StartSpawn, ScanInv, StartSteps
<1>3. CASE ScanHandle
  <2>1. entry \in Msgs /\ entry \notin pushed \cup todo
    BY <1>3 DEF ScanHandle, TypeInv
  <2>2. CASE fq' = Append(fq, entry) /\ pushed' = pushed \cup {entry}
    <3>1. Places' /\ Once'
      BY <1>3, <2>1, <2>2, PushPlaces DEF ScanHandle
    <3> HIDE DEF Places, Once
    <3> QED
      BY <1>3, <2>1, <2>2, <3>1 DEF ScanHandle, ScanInv, StartSteps
  <2>3. CASE UNCHANGED <<fq, pushed>>
    BY <1>3, <2>3, SamePlaces DEF ScanHandle
  <2> QED
    BY <1>3, <2>2, <2>3 DEF ScanHandle
<1>4. ASSUME NEW w \in Workers, Pop(w) PROVE FateInv'
  <2>1. hand[w] = NoMsg
    BY <1>4 DEF Pop, PoolInv
  <2> QED
    BY <1>4, <2>1, PopPlaces DEF Pop
<1>5. ASSUME NEW w \in Workers, AddMessage(w) PROVE FateInv'
  <2>1. hand[w] \in Msgs
    BY <1>5 DEF AddMessage, TypeInv
  <2> QED
    BY <1>5, <2>1, AddPlaces DEF AddMessage
<1>6. ASSUME NEW m \in Msgs, ScanRead(m) PROVE FateInv'
  BY <1>6, SamePlaces DEF ScanRead
<1>7. CASE ScanEnter
  BY <1>7, SamePlaces DEF ScanEnter
<1>8. CASE CallStart \/ CallStop \/ Destroy \/ StopScanner \/ StopIdle
  BY <1>8, SamePlaces DEF CallStart, CallStop, Destroy, StopScanner, StopIdle
<1>9. CASE StopJoinScanner \/ StopClearWorkers \/ \E w \in Workers : StopJoinWorker(w)
  BY <1>9, SamePlaces DEF StopJoinScanner, StopClearWorkers, StopJoinWorker, ScanInv,
      TypeInv, TypeOK
<1>10. CASE StartScanning \/ StartScanner
  BY <1>10, SamePlaces DEF StartScanning, StartScanner
<1>11. CASE ScannerBegin \/ ScanFail \/ ScanLeave \/ ScanEnd
  BY <1>11, SamePlaces DEF ScannerBegin, ScanFail, ScanLeave, ScanEnd
<1>12. CASE Drain \/ CleanBegin \/ Sweep \/ Commit \/ ScannerLeave
  BY <1>12, SamePlaces DEF Drain, CleanBegin, Sweep, Commit, ScannerLeave
<1>13. ASSUME NEW w \in Workers, CheckState(w) \/ CheckQueue(w) \/ PopTimeout(w)
       PROVE  FateInv'
  BY <1>13, SamePlaces DEF CheckState, CheckQueue, PopTimeout
<1>14. ASSUME NEW w \in Workers, SpawnLock(w) \/ SpawnTest(w) \/ Spawn(w)
       PROVE  FateInv'
  BY <1>14, SamePlaces DEF SpawnLock, SpawnTest, Spawn
<1>15. CASE UNCHANGED vars
  BY <1>15, SamePlaces
<1> HIDE DEF FateInv, vars
<1> QED
  BY <1>1, <1>2, <1>3, <1>4, <1>5, <1>6, <1>7, <1>8, <1>9, <1>10, <1>11, <1>12,
      <1>13, <1>14, <1>15
  DEF Next, Call, MainStep, StopStep, ScannerStep, WorkerStep

(* The size of a union of sets that have nothing in common. *)
LEMMA DisjointUnion ==
  ASSUME NEW S, IsFiniteSet(S), NEW T, IsFiniteSet(T), S \cap T = {}
  PROVE  IsFiniteSet(S \cup T) /\ Cardinality(S \cup T) = Cardinality(S) + Cardinality(T)
<1>1. /\ IsFiniteSet(S \cup T)
      /\ Cardinality(S \cup T) = Cardinality(S) + Cardinality(T) - Cardinality(S \cap T)
  BY FS_Union
<1>2. Cardinality(S \cap T) = 0
  BY FS_EmptySet
<1>3. Cardinality(S) \in Nat /\ Cardinality(T) \in Nat
  BY FS_CardinalityType
<1> QED
  BY <1>1, <1>2, <1>3

(* The places are finite, and their sizes add up when nothing is in two of *)
(* them: a queue without repetitions is as long as the set of its items,   *)
(* and as many workers have an item in hand as there are items in hand.    *)
LEMMA QueueSize ==
  ASSUME TypeInv, Once
  PROVE  IsFiniteSet(Queued) /\ Cardinality(Queued) = Len(fq)
<1>1. fq \in Seq(Msgs) /\ DOMAIN fq = 1..Len(fq) /\ Len(fq) \in Nat
  BY DEF TypeInv, TypeOK
<1>2. fq \in Bijection(1..Len(fq), Queued)
  BY <1>1 DEF Queued, Once, Bijection, Injection, IsInjective, Surjection
<1>3. IsFiniteSet(1..Len(fq)) /\ Cardinality(1..Len(fq)) = Len(fq)
  <2> DEFINE n == Len(fq)
  <2>1. n \in Nat
    BY <1>1
  <2> HIDE DEF n
  <2>2. 1 \in Int /\ n \in Int
    BY <2>1
  <2>3. /\ IsFiniteSet(1..n)
        /\ Cardinality(1..n) = IF 1 > n THEN 0 ELSE n - 1 + 1
    BY <2>2, FS_Interval
  <2>4. Cardinality(1..n) = n
    BY <2>1, <2>3
  <2> QED
    BY <2>3, <2>4 DEF n
<1> QED
  BY <1>2, <1>3, FS_Bijection DEF ExistsBijection

LEMMA HandSize ==
  ASSUME TypeInv, Once
  PROVE  IsFiniteSet(InHand) /\ Cardinality(InHand) = Cardinality({w \in Workers : hand[w] # NoMsg})
<1> DEFINE H == {w \in Workers : hand[w] # NoMsg}
           f == [w \in H |-> hand[w]]
<1>1. f \in Bijection(H, InHand)
  BY DEF InHand, Once, Bijection, Injection, IsInjective, Surjection
<1>2. IsFiniteSet(H)
  BY FS_Subset
<1> HIDE DEF H, f
<1>3. IsFiniteSet(InHand) /\ Cardinality(InHand) = Cardinality(H)
  BY <1>1, <1>2, FS_Bijection DEF ExistsBijection
<1> QED
  BY <1>3 DEF H

LEMMA PlacesConserve == TypeInv /\ Places /\ Once => Conservation
<1> SUFFICES ASSUME TypeInv, Places, Once PROVE Conservation
  OBVIOUS
<1> DEFINE Holding == {w \in Workers : hand[w] # NoMsg}
           A == Queued \cup InHand
           B == handled \cup dropped
<1>1. IsFiniteSet(handled) /\ IsFiniteSet(dropped)
  BY FS_Subset DEF TypeInv, TypeOK
<1>2. IsFiniteSet(B) /\ Cardinality(B) = Cardinality(handled) + Cardinality(dropped)
  <2>1. handled \cap dropped = {}
    BY DEF Once
  <2> QED
    BY <1>1, <2>1, DisjointUnion
<1>3. IsFiniteSet(A) /\ Cardinality(A) = Len(fq) + Cardinality(Holding)
  <2>1. Queued \cap InHand = {}
    BY DEF Once
  <2>2. /\ IsFiniteSet(Queued) /\ Cardinality(Queued) = Len(fq)
        /\ IsFiniteSet(InHand) /\ Cardinality(InHand) = Cardinality(Holding)
    BY QueueSize, HandSize
  <2> HIDE DEF Holding
  <2> QED
    BY <2>1, <2>2, DisjointUnion
<1>4. A \cap B = {} /\ pushed = A \cup B
  BY DEF Once, Places
<1>5. Cardinality(pushed) = Cardinality(A) + Cardinality(B)
  <2> HIDE DEF A, B
  <2> QED
    BY <1>2, <1>3, <1>4, DisjointUnion
<1>6. /\ Len(fq) \in Nat /\ Cardinality(Holding) \in Nat
      /\ Cardinality(handled) \in Nat /\ Cardinality(dropped) \in Nat
  <2>1. IsFiniteSet(Holding)
    BY FS_Subset
  <2> QED
    BY <1>1, <2>1, FS_CardinalityType DEF TypeInv, TypeOK
<1>7. /\ pushed = Queued \cup InHand \cup handled \cup dropped
      /\ Cardinality(pushed) = Len(fq) + Cardinality(Holding)
                                 + Cardinality(handled) + Cardinality(dropped)
  <2> HIDE DEF Holding
  <2> QED
    BY <1>2, <1>3, <1>5, <1>6 DEF Places
<1> QED
  BY <1>7 DEF Conservation

(* The three invariants hold at the start, when no thread exists. *)
LEMMA InitInv == Init => TypeInv /\ PoolInv /\ ScanInv
<1> SUFFICES ASSUME Init PROVE TypeInv /\ PoolInv /\ ScanInv
  OBVIOUS
<1> USE DEF Init, StopSteps, StartSteps, ScanSteps, WorkerSteps
<1>1. TypeInv
  <2>1. fq \in Seq(Msgs)
    OBVIOUS
  <2>3. conf \in Configs
    BY DEF Configs
  <2>4. running \in BOOLEAN
    OBVIOUS
  <2>2. /\ wpc \in [Workers -> {"none", "exited"} \cup WorkerSteps]
        /\ hand \in [Workers -> Msgs \cup {NoMsg}]
    OBVIOUS
  <2> QED
    BY <2>1, <2>2, <2>3, <2>4 DEF TypeInv, TypeOK, MainSteps, ScannerSteps
<1>2. WorkersBounded
  BY FS_EmptySet DEF WorkersBounded, PoolSize
<1>3. PoolInv
  BY <1>2 DEF PoolInv
<1>4. ScanInv
  BY DEF ScanInv
<1> QED
  BY <1>1, <1>3, <1>4

(* All of it, of every reachable state. *)
LEMMA Invariance == Spec => [](TypeInv /\ PoolInv /\ ScanInv)
<1>1. TypeInv /\ PoolInv /\ ScanInv /\ [Next]_vars
        => (TypeInv /\ PoolInv /\ ScanInv)'
  BY TypeStep, PoolStep, ScanStep
<1> QED
  BY <1>1, InitInv, PTL DEF Spec

LEMMA FateInvariance == Spec => []FateInv
<1>1. Init => FateInv
  <2> SUFFICES ASSUME Init PROVE FateInv
    OBVIOUS
  <2>1. Queued = {} /\ InHand = {}
    BY DEF Init, Queued, InHand
  <2> QED
    BY <2>1 DEF Init, FateInv, Places, Once
<1> QED
  BY <1>1, Invariance, FateStep, PTL DEF Spec

(* Every variable of the threads keeps its type, for any number of         *)
(* messages and workers.                                                   *)
THEOREM TypeCorrect == Spec => []TypeOK
<1>1. TypeInv => TypeOK
  BY DEF TypeInv
<1> QED
  BY <1>1, Invariance, PTL

(* maybe_start_worker() never lets the pool grow beyond max_workers_,      *)
(* whichever workers call it at the same time and whatever stop() does.    *)
THEOREM PoolBounded == Spec => []WorkersBounded
<1>1. PoolInv => WorkersBounded
  BY DEF PoolInv
<1> QED
  BY <1>1, Invariance, PTL

(* When stop() returns there is no thread, no queued message and nothing   *)
(* in hand, and the state is Idle, although the scanner and the workers    *)
(* went on changing all of these after stop() had reset them.              *)
THEOREM StopQuiesces == Spec => QuiescentAfterStop
<1>1. TypeInv /\ PoolInv /\ ScanInv /\ [Next]_vars
        => [StopReturns => Quiescent']_vars
  <2> SUFFICES ASSUME TypeInv, PoolInv, ScanInv, Next, StopReturns
               PROVE  Quiescent'
    OBVIOUS
  <2> USE DEF StopReturns, StopSteps
  <2>1. StopClearWorkers
    BY DEF Next, Call, CallStart, CallStop, Destroy, MainStep, StopStep,
        StopScanner, StopIdle, StopClear, StopJoinScanner, StopJoinWorker,
        StartSpawn, StartScanning, StartScanner, ScannerStep, ScannerBegin,
        ScanFail, ScanEnter, ScanRead, ScanHandle, ScanLeave, ScanEnd, Drain,
        CleanBegin, Sweep, Commit, ScannerLeave, WorkerStep, CheckState,
        CheckQueue, Pop, PopTimeout, AddMessage, SpawnLock, SpawnTest, Spawn,
        shared, caller, scan, pool, fate, ScannerGoes, WorkerGoes
  <2>2. joinable = {} /\ workers' = {} /\ main = "stop_join"
    BY <2>1 DEF StopClearWorkers
  <2>3. UNCHANGED <<state, running, fq, scan, pool>>
    BY <2>1 DEF StopClearWorkers
  <2>4. scanner = "none" /\ ~running /\ state = "Idle" /\ fq = <<>>
    BY <2>2 DEF ScanInv, ScanSteps, StartSteps
  <2>5. \A w \in Workers : wpc[w] = "none" /\ hand[w] = NoMsg
    BY <2>2 DEF PoolInv
  <2> QED
    BY <2>2, <2>3, <2>4, <2>5 DEF Quiescent, scan, pool
<1> QED
  BY <1>1, Invariance, PTL DEF Spec, QuiescentAfterStop

(* At every moment a message that the scan has queued is in the queue, in  *)
(* the hands of one worker, added, or dropped by stop(), and in one of     *)
(* these places only: no interleaving of pushing, popping, timing out,     *)
(* starting workers and stopping loses one or adds it twice.               *)
THEOREM Conserved == Spec => []Conservation
<1>1. TypeInv /\ FateInv => Conservation
  BY PlacesConserve DEF FateInv
<1> QED
  BY <1>1, Invariance, FateInvariance, PTL

(* When a job has ended that nobody stopped, every message it queued is    *)
(* added or in the hands of a worker.                                      *)
THEOREM NothingIsLost == Spec => []NothingLost
<1>1. ScanInv /\ FateInv => NothingLost
  <2> SUFFICES ASSUME ScanInv, FateInv, scanner = "done", main = "idle"
               PROVE  pushed = InHand \cup handled
    BY DEF NothingLost
  <2>1. fq = <<>>
    BY DEF ScanInv
  <2>2. Queued = {}
    BY <2>1 DEF Queued
  <2>3. dropped = {}
    BY DEF FateInv
  <2> QED
    BY <2>2, <2>3 DEF FateInv, Places
<1> QED
  BY <1>1, Invariance, FateInvariance, PTL
=============================================================================
