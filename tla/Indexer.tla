------------------------------ MODULE Indexer ------------------------------
(***************************************************************************)
(* The threads of Mu::Indexer (lib/index/mu-indexer.cc): the caller that   *)
(* runs start() and stop(), the scanner thread that walks the maildir      *)
(* (lib/index/mu-scanner.cc), and the pool of workers that adds the        *)
(* messages it queues to the store.                                        *)
(*                                                                         *)
(* The atomic steps are the ones the code's locks make atomic: one         *)
(* operation on the queue fq_, one store call, one read or write of        *)
(* state_ or running_.  Everything else interleaves.  state_ is a plain    *)
(* enum that several threads access; on the builds this program has, its   *)
(* reads return the last value written, and so they do here.               *)
(*                                                                         *)
(* Which messages are already in the store, the directories and their      *)
(* time stamps are the subject of LazyIndex; here the scanner may push or  *)
(* skip any file, and adding a message may succeed or throw.               *)
(***************************************************************************)
EXTENDS Naturals, Sequences, FiniteSets

CONSTANTS
  Msgs,          \* the paths of the message files below the root maildir
  ReadBefore,    \* which files readdir() gives before which, where it is known
  Workers,       \* identifiers for worker threads
  MaxWorkers,    \* max_workers_: conf.max_threads, or hardware_concurrency()
  NoMsg, NoThread

(* Enough thread identifiers for workers_, which holds MaxWorkers threads, *)
(* or the one that start() creates when MaxWorkers is 0.                   *)
ASSUME WorkersAssumption ==
  /\ IsFiniteSet(Workers)
  /\ MaxWorkers \in Nat
  /\ Cardinality(Workers) >= 1 /\ Cardinality(Workers) >= MaxWorkers
  /\ NoThread \notin Workers

ASSUME MsgsAssumption == IsFiniteSet(Msgs) /\ NoMsg \notin Msgs

VARIABLES
  (* shared by the threads *)
  state,       \* state_ : IndexState
  running,     \* scanner_.running_
  fq,          \* fq_ : the queue of paths still to be added
  conf,        \* conf_ : which phases this job has
  workers,     \* workers_ : the threads in the vector
  joinable,    \* those of workers_ that nobody has joined yet
  wlock,       \* wlock_ : the worker that holds it
  (* the threads *)
  main,        \* where the caller is
  after,       \* what the caller does when Private::stop() returns
  range,       \* the range that stop()'s loop over workers_ iterates
  scanner,     \* where the scanner thread is
  todo,        \* the directory entries the scan has not read yet
  entry,       \* the entry process_dentry() has in hand
  wpc,         \* where each worker is
  hand,        \* the item each worker has popped
  (* what became of the messages of this job *)
  pushed,      \* those the handler queued
  handled,     \* those for which add_message() returned or threw
  dropped      \* those that stop() cleared from the queue

shared == <<state, running, fq, conf, workers, joinable, wlock>>
caller == <<main, after, range>>
scan   == <<scanner, todo, entry>>
pool   == <<wpc, hand>>
fate   == <<pushed, handled, dropped>>
vars   == <<shared, caller, scan, pool, fate>>

Configs == [scan : BOOLEAN, cleanup : BOOLEAN]

StopSteps  == {"stop_scanner", "stop_idle", "stop_clear", "stop_scan_join",
               "stop_join"}
StartSteps == {"start_spawn", "start_scanning", "start_scanner"}
MainSteps  == {"idle", "destroyed", "aborted"} \cup StopSteps \cup StartSteps

(* scanner_.start() is under way *)
ScanSteps    == {"scan_enter", "scan_loop", "scan_handle", "scan_end"}
ScannerSteps == {"none", "begin", "drain", "clean", "sweep", "commit",
                 "leave", "done"} \cup ScanSteps

(* a worker's thread function is under way *)
WorkerSteps == {"check_state", "check_queue", "pop", "add", "spawn_lock",
                "spawn_test", "spawn"}

TypeOK ==
  /\ state \in {"Idle", "Scanning", "Cleaning"}
  /\ running \in BOOLEAN
  /\ fq \in Seq(Msgs)
  /\ conf \in Configs
  /\ workers \subseteq Workers
  /\ joinable \subseteq workers
  /\ wlock \in Workers \cup {NoThread}
  /\ main \in MainSteps
  /\ after \in {"idle", "start_spawn", "destroyed"}
  /\ range \subseteq Workers
  /\ scanner \in ScannerSteps
  /\ todo \subseteq Msgs
  /\ entry \in Msgs \cup {NoMsg}
  /\ wpc \in [Workers -> {"none", "exited"} \cup WorkerSteps]
  /\ hand \in [Workers -> Msgs \cup {NoMsg}]
  /\ pushed \subseteq Msgs
  /\ handled \subseteq Msgs
  /\ dropped \subseteq Msgs

Init ==
  /\ state = "Idle" /\ running = FALSE /\ fq = <<>>
  /\ conf = [scan |-> TRUE, cleanup |-> TRUE]
  /\ workers = {} /\ joinable = {} /\ wlock = NoThread
  /\ main = "idle" /\ after = "idle" /\ range = {}
  /\ scanner = "none" /\ todo = {} /\ entry = NoMsg
  /\ wpc = [w \in Workers |-> "none"] /\ hand = [w \in Workers |-> NoMsg]
  /\ pushed = {} /\ handled = {} /\ dropped = {}

Queued  == {fq[i] : i \in DOMAIN fq}
Live(w) == wpc[w] \in WorkerSteps
InHand  == {hand[w] : w \in Workers} \ {NoMsg}

(* Indexer::is_running().  The code reads state_ and then the queue; when  *)
(* state_ is Idle nobody pushes, so the two reads are one.                 *)
IsRunning == state # "Idle" \/ fq # <<>>

(* workers_.emplace_back(std::thread(...)): w starts to run worker(). *)
AddThread(w) ==
  /\ wpc[w] = "none"
  /\ wpc' = [wpc EXCEPT ![w] = "check_state"]
  /\ workers' = workers \cup {w}
  /\ joinable' = joinable \cup {w}

----------------------------------------------------------------------------
(* The caller.  mu index and mu server call start() and stop() from one    *)
(* thread, and so does ~Private(); the calls never overlap, which is why   *)
(* lock_ needs no variable.                                                *)

CallStart ==
  /\ main = "idle" /\ ~IsRunning
  /\ main' = "stop_scanner" /\ after' = "start_spawn"
  /\ UNCHANGED <<shared, range, scan, pool, fate>>

CallStop ==
  /\ main = "idle" /\ IsRunning
  /\ main' = "stop_scanner" /\ after' = "idle"
  /\ UNCHANGED <<shared, range, scan, pool, fate>>

(* ~Private() stops whether or not is_running() says so. *)
Destroy ==
  /\ main = "idle"
  /\ main' = "stop_scanner" /\ after' = "destroyed"
  /\ UNCHANGED <<shared, range, scan, pool, fate>>

(* Private::stop(), up to the joins *)
StopScanner ==
  /\ main = "stop_scanner" /\ main' = "stop_idle"
  /\ running' = FALSE
  /\ UNCHANGED <<state, fq, conf, workers, joinable, wlock, after, range,
                 scan, pool, fate>>

StopIdle ==
  /\ main = "stop_idle" /\ main' = "stop_clear"
  /\ state' = "Idle"
  /\ UNCHANGED <<running, fq, conf, workers, joinable, wlock, after, range,
                 scan, pool, fate>>

StopClear ==
  /\ main = "stop_clear" /\ main' = "stop_scan_join"
  /\ fq' = <<>>
  /\ dropped' = dropped \cup Queued
  /\ UNCHANGED <<state, running, conf, workers, joinable, wlock, after, range,
                 scan, pool, pushed, handled>>

(* Does not wait for the scanner thread. *)
Bug_StopJoinScanner ==
  /\ main = "stop_scan_join" /\ main' = "stop_join"
  /\ range' = workers
  /\ UNCHANGED <<shared, after, scan, pool, fate>>

(* scanner_worker_.join(); then the loop takes begin() and end(). *)
StopJoinScanner ==
  /\ main = "stop_scan_join" /\ main' = "stop_join"
  /\ scanner \in {"none", "done"}
  /\ scanner' = "none"
  /\ range' = workers
  /\ UNCHANGED <<shared, after, todo, entry, pool, fate>>

StopJoinWorker(w) ==
  /\ main = "stop_join"
  /\ w \in range \cap joinable
  /\ wpc[w] = "exited"
  /\ joinable' = joinable \ {w}
  /\ wpc' = [wpc EXCEPT ![w] = "none"]
  /\ UNCHANGED <<state, running, fq, conf, workers, wlock, caller, scan, hand,
                 fate>>

(* workers_.clear() destroys the thread objects; std::terminate() ends the *)
(* process when one of them is still joinable.  That is so for a thread    *)
(* added to the vector while the loop was iterating over it.  When adding  *)
(* it moved the vector's storage, the loop's iterators dangle, and it may  *)
(* end before it has joined the threads it set out to join.                *)
StopClearWorkers ==
  /\ main = "stop_join"
  /\ range \cap joinable = {} \/ workers # range
  /\ IF joinable = {} THEN workers' = {} /\ main' = after
                      ELSE UNCHANGED workers /\ main' = "aborted"
  /\ range' = {}
  /\ UNCHANGED <<state, running, fq, conf, joinable, wlock, after, scan, pool,
                 fate>>

(* The rest of Private::start(): the first worker is running before state_ *)
(* says there is something to do.                                          *)
StartSpawn ==
  /\ main = "start_spawn" /\ main' = "start_scanning"
  /\ conf' \in Configs
  /\ \E w \in Workers : AddThread(w)
  /\ pushed' = {} /\ handled' = {} /\ dropped' = {}
  /\ UNCHANGED <<state, running, fq, wlock, after, range, scan, hand>>

StartScanning ==
  /\ main = "start_scanning" /\ main' = "start_scanner"
  /\ state' = "Scanning"
  /\ UNCHANGED <<running, fq, conf, workers, joinable, wlock, after, range,
                 scan, pool, fate>>

StartScanner ==
  /\ main = "start_scanner" /\ main' = "idle"
  /\ scanner' = "begin"
  /\ UNCHANGED <<shared, after, range, todo, entry, pool, fate>>

StopStep ==
  \/ StopScanner \/ StopIdle \/ StopClear \/ StopJoinScanner
  \/ StopClearWorkers
  \/ \E w \in Workers : StopJoinWorker(w)

MainStep == StopStep \/ StartSpawn \/ StartScanning \/ StartScanner

Call == CallStart \/ CallStop \/ Destroy

----------------------------------------------------------------------------
(* The scanner thread: the lambda in Private::start(), with Scanner::start *)
(* and its Private::start(), process_dir() and process_dentry() inlined.   *)

(* The scanner thread is at "from" and goes on to "to".  No thread moves    *)
(* once std::terminate() has ended the process.                            *)
ScannerGoes(from, to) ==
  main # "aborted" /\ scanner = from /\ scanner' = to

(* Scanner::start(), or straight on to the queue when there is no scan or  *)
(* when running_ is already set.                                           *)
ScannerBegin ==
  /\ \/ /\ conf.scan /\ ~running /\ running' = TRUE
        /\ ScannerGoes("begin", "scan_enter")
     \/ /\ ~conf.scan \/ running
        /\ ScannerGoes("begin", "drain")
        /\ UNCHANGED running
  /\ UNCHANGED <<state, fq, conf, workers, joinable, wlock, caller, todo, entry,
                 pool, fate>>

(* The root maildir is not a readable directory: no commit. *)
ScanFail ==
  /\ ScannerGoes("scan_enter", "leave")
  /\ running' = FALSE
  /\ UNCHANGED <<state, fq, conf, workers, joinable, wlock, caller, todo, entry,
                 pool, fate>>

(* running_ is set a second time, now without the lock. *)
ScanEnter ==
  /\ ScannerGoes("scan_enter", "scan_loop")
  /\ running' = TRUE
  /\ todo' = Msgs
  /\ UNCHANGED <<state, fq, conf, workers, joinable, wlock, caller, entry, pool,
                 fate>>

(* while (running_) readdir() ... *)
ScanRead(m) ==
  /\ ScannerGoes("scan_loop", "scan_handle")
  /\ running /\ m \in todo
  /\ \A n \in todo : <<n, m>> \notin ReadBefore
  /\ entry' = m /\ todo' = todo \ {m}
  /\ UNCHANGED <<shared, caller, pool, fate>>

(* handler() for a file, or for a directory that it does not descend into: *)
(* queue it, or skip it because it is up to date or too big.               *)
ScanHandle ==
  /\ ScannerGoes("scan_handle", "scan_loop")
  /\ entry' = NoMsg
  /\ \/ fq' = Append(fq, entry) /\ pushed' = pushed \cup {entry}
     \/ UNCHANGED <<fq, pushed>>
  /\ UNCHANGED <<state, running, conf, workers, joinable, wlock, caller, todo,
                 pool, handled, dropped>>

ScanLeave ==
  /\ ScannerGoes("scan_loop", "scan_end")
  /\ ~running \/ todo = {}
  /\ todo' = {}
  /\ UNCHANGED <<shared, caller, entry, pool, fate>>

ScanEnd ==
  /\ ScannerGoes("scan_end", "drain")
  /\ running' = FALSE
  /\ UNCHANGED <<state, fq, conf, workers, joinable, wlock, caller, todo, entry,
                 pool, fate>>

(* Does not wait for the workers to empty the queue. *)
Bug_Drain ==
  /\ ScannerGoes("drain", IF conf.cleanup THEN "clean" ELSE "commit")
  /\ UNCHANGED <<shared, caller, todo, entry, pool, fate>>

(* Polls fq_ every 100 ms; nothing else ends the loop. *)
Drain ==
  /\ fq = <<>>
  /\ ScannerGoes("drain", IF conf.cleanup THEN "clean" ELSE "commit")
  /\ UNCHANGED <<shared, caller, todo, entry, pool, fate>>

CleanBegin ==
  /\ ScannerGoes("clean", "sweep")
  /\ state' = "Cleaning"
  /\ UNCHANGED <<running, fq, conf, workers, joinable, wlock, caller, todo,
                 entry, pool, fate>>

(* cleanup(): looks for files that are gone until the store has no more    *)
(* paths or state_ is no longer Cleaning, then removes the messages.       *)
Sweep ==
  /\ ScannerGoes("sweep", "commit")
  /\ UNCHANGED <<shared, caller, todo, entry, pool, fate>>

Commit ==
  /\ ScannerGoes("commit", "leave")
  /\ UNCHANGED <<shared, caller, todo, entry, pool, fate>>

ScannerLeave ==
  /\ ScannerGoes("leave", "done")
  /\ state' = "Idle"
  /\ UNCHANGED <<running, fq, conf, workers, joinable, wlock, caller, todo,
                 entry, pool, fate>>

ScannerStep ==
  \/ ScannerBegin \/ ScanFail \/ ScanEnter \/ ScanHandle \/ ScanLeave
  \/ ScanEnd \/ Drain \/ CleanBegin \/ Sweep \/ Commit \/ ScannerLeave
  \/ \E m \in Msgs : ScanRead(m)

----------------------------------------------------------------------------
(* The workers: Private::worker() and maybe_start_worker(). *)

(* Worker w is at "from" and goes on to "to". *)
WorkerGoes(w, from, to) ==
  main # "aborted" /\ wpc[w] = from /\ wpc' = [wpc EXCEPT ![w] = to]

(* while (state_ == IndexState::Scanning || !fq_.empty()) *)
CheckState(w) ==
  /\ WorkerGoes(w, "check_state",
                IF state = "Scanning" THEN "pop" ELSE "check_queue")
  /\ UNCHANGED <<shared, caller, scan, hand, fate>>

CheckQueue(w) ==
  /\ WorkerGoes(w, "check_queue", IF fq = <<>> THEN "exited" ELSE "pop")
  /\ UNCHANGED <<shared, caller, scan, hand, fate>>

(* Leaves the item at the front of the queue. *)
Bug_Pop(w) ==
  /\ fq # <<>>
  /\ WorkerGoes(w, "pop", "add")
  /\ hand' = [hand EXCEPT ![w] = Head(fq)]
  /\ UNCHANGED <<shared, caller, scan, fate>>

(* fq_.pop(item, 250ms) returns an item *)
Pop(w) ==
  /\ fq # <<>>
  /\ WorkerGoes(w, "pop", "add")
  /\ hand' = [hand EXCEPT ![w] = Head(fq)]
  /\ fq' = Tail(fq)
  /\ UNCHANGED <<state, running, conf, workers, joinable, wlock, caller, scan,
                 fate>>

(* Gives up at the first timeout. *)
Bug_PopTimeout(w) ==
  /\ fq = <<>>
  /\ WorkerGoes(w, "pop", "exited")
  /\ UNCHANGED <<shared, caller, scan, hand, fate>>

(* ... or times out: it looks at the queue once more before it gives up. *)
PopTimeout(w) ==
  /\ fq = <<>>
  /\ WorkerGoes(w, "pop", "check_state")
  /\ UNCHANGED <<shared, caller, scan, hand, fate>>

(* store_.add_message(item), which may throw: the item is gone either way. *)
AddMessage(w) ==
  /\ WorkerGoes(w, "add", "spawn_lock")
  /\ handled' = handled \cup {hand[w]}
  /\ hand' = [hand EXCEPT ![w] = NoMsg]
  /\ UNCHANGED <<shared, caller, scan, pushed, dropped>>

(* Compares the sizes and adds the thread without wlock_. *)
Bug_SpawnLock(w) ==
  /\ WorkerGoes(w, "spawn_lock", "spawn_test")
  /\ UNCHANGED <<shared, caller, scan, hand, fate>>

SpawnLock(w) ==
  /\ wlock = NoThread /\ wlock' = w
  /\ WorkerGoes(w, "spawn_lock", "spawn_test")
  /\ UNCHANGED <<state, running, fq, conf, workers, joinable, caller, scan, hand,
                 fate>>

CanSpawn == /\ Len(fq) > Cardinality(workers)
            /\ Cardinality(workers) < MaxWorkers

SpawnTest(w) ==
  /\ WorkerGoes(w, "spawn_test", IF CanSpawn THEN "spawn" ELSE "check_state")
  /\ wlock' = IF CanSpawn THEN wlock ELSE NoThread
  /\ UNCHANGED <<state, running, fq, conf, workers, joinable, caller, scan, hand,
                 fate>>

(* Adds a thread without the lock that stop() and start() hold. *)
Spawn(w) ==
  /\ main # "aborted" /\ wpc[w] = "spawn"
  /\ \E new \in Workers :
       /\ wpc[new] = "none"
       /\ wpc' = [wpc EXCEPT ![w] = "check_state", ![new] = "check_state"]
       /\ workers' = workers \cup {new}
       /\ joinable' = joinable \cup {new}
  /\ wlock' = NoThread
  /\ UNCHANGED <<state, running, fq, conf, caller, scan, hand, fate>>

WorkerStep(w) ==
  \/ CheckState(w) \/ CheckQueue(w) \/ Pop(w) \/ PopTimeout(w)
  \/ AddMessage(w) \/ SpawnLock(w) \/ SpawnTest(w) \/ Spawn(w)

----------------------------------------------------------------------------
Next == Call \/ MainStep \/ ScannerStep \/ \E w \in Workers : WorkerStep(w)

Spec == Init /\ [][Next]_vars

(* The threads are scheduled, and joins and timed waits end when they can. *)
(* Nobody has to call start(), stop() or the destructor.                   *)
Fairness ==
  /\ WF_vars(MainStep)
  /\ WF_vars(ScannerStep)
  /\ \A w \in Workers : WF_vars(WorkerStep(w))

FairSpec == Spec /\ Fairness

----------------------------------------------------------------------------
(* Properties *)

(* However many workers find at the same time that the queue is long and   *)
(* that there is room for one more, there are never more threads than      *)
(* max_workers_, or the first one alone: who compares the sizes adds the   *)
(* thread before another compares them.                                    *)
PoolSize == IF MaxWorkers = 0 THEN 1 ELSE MaxWorkers
WorkersBounded == Cardinality(workers) <= PoolSize

(* When Private::stop() returns, to stop(), start() or the destructor,     *)
(* every thread is gone, nothing is queued or in hand, and no thread that  *)
(* was still busy has set the scan or the job running again.               *)
Quiescent ==
  /\ scanner = "none" /\ ~running
  /\ state = "Idle" /\ fq = <<>>
  /\ workers = {} /\ \A w \in Workers : wpc[w] = "none" /\ hand[w] = NoMsg

StopReturns == main \in StopSteps /\ main' \notin StopSteps \cup {"aborted"}

QuiescentAfterStop == [][StopReturns => Quiescent']_vars

(* Every message that the scanner queued is still queued, or in the hands  *)
(* of one worker, or was added, or was dropped by stop(): it is in one of  *)
(* these places, and there once.                                           *)
Conservation ==
  /\ pushed = Queued \cup InHand \cup handled \cup dropped
  /\ Cardinality(pushed) =
       Len(fq) + Cardinality({w \in Workers : hand[w] # NoMsg})
               + Cardinality(handled) + Cardinality(dropped)

(* A job that nobody stops ends only when every message it queued was      *)
(* handed to a worker, whichever workers were started or left meanwhile.   *)
NothingLost == scanner = "done" /\ main = "idle" => pushed = InHand \cup handled

(* While state_ is Scanning and a worker is at work that saw it so, the    *)
(* job ends, or stop() is called: no order of scanning, popping, timing    *)
(* out and starting workers leaves messages in the queue with nobody to    *)
(* take them.  (A first worker that looks before start() has set state_    *)
(* may leave, and then the job never ends.)                                *)
Attended(w) == Live(w) /\ wpc[w] # "check_queue"
JobEnds ==
  (state = "Scanning" /\ \E w \in Workers : Attended(w))
    ~> (state = "Idle" \/ main # "idle")

(* What docs say of the program, and the code does not keep.               *)

(* lib/index/mu-indexer.hh, stop(): "@return true if we stopped indexing": *)
(* stop() returns, and does not end the process.                           *)
StopDoesNotAbort == main # "aborted"

=============================================================================
