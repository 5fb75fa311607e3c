----------------------------- MODULE LazyIndex -----------------------------
(***************************************************************************)
(* Indexing jobs, one after the other, over a maildir that changes, into   *)
(* the store: the handler and the cleanup of lib/index/mu-indexer.cc, the  *)
(* walk of lib/index/mu-scanner.cc and the Store, with what they remember  *)
(* of a directory, its dirstamp, which decides what the next job looks at. *)
(*                                                                         *)
(* The threads are those of Indexer, taken together as far as the order of *)
(* their store calls allows: the scan reads, the workers add what it has   *)
(* queued at any time later.  Directories are the cur and new ones; times  *)
(* are whole seconds, as in st_mtime.                                      *)
(***************************************************************************)
EXTENDS Store

CONSTANTS
  DirOf(_),     \* the directory that a path is in
  NoMsg, NoDir,
  MaxChanges,   \* bound: changes to the maildir
  MaxJobs       \* bound: indexing jobs

ASSUME LazyIndexAssumption ==
  /\ \A p \in Paths : DirOf(p) \in Dirs
  /\ NoMsg \notin Msgs /\ NoDir \notin Dirs /\ NoDoc \notin Docs
  /\ MaxChanges \in Nat /\ MaxJobs \in Nat
  /\ Stamps \subseteq Nat /\ 1 \in Stamps

VARIABLES
  (* the maildir *)
  file, mtime,  \* what is in each file, and its st_mtime
  dirtime,      \* the st_mtime of each directory
  clock, changes,
  (* the job *)
  job, jobs,    \* where it is, and how many there were
  conf,         \* conf_ : lazy_check and cleanup
  running,      \* scanner_.running_
  unvisited,    \* directories that the scan has not come to
  here, unread, \* the one it reads, and the entries it has not read
  statbuf,      \* statbuf.st_mtime of that directory
  dirstamp,     \* dirstamp_
  fq, hand,     \* what is queued, and what workers have popped
  orphans,      \* what the cleanup is going to remove
  (* what the properties need to know of the past *)
  quiet,        \* this job was not disturbed, and nothing changed meanwhile
  cut,          \* a job was stopped, killed or failed, no whole one followed
  missed,       \* directories that changed in the second of their dirstamp
  stale         \* those with messages that may not be up-to-date

maildir == <<file, mtime, dirtime, clock, changes>>
walk    == <<running, unvisited, here, unread, statbuf, dirstamp>>
doubts  == <<quiet, cut, missed, stale>>
ivars == <<maildir, job, jobs, conf, walk, fq, hand, orphans, doubts>>
allvars == <<vars, ivars>>

Configs == [lazy : BOOLEAN, cleanup : BOOLEAN]

IndexTypeOK ==
  /\ TypeOK
  /\ file \in [Paths -> Msgs \cup {NoMsg}] /\ mtime \in [Paths -> Stamps]
  /\ dirtime \in [Dirs -> Stamps] /\ clock \in Stamps
  /\ job \in {"idle", "scan", "drain", "clean", "sweep", "remove", "commit"}
  /\ conf \in Configs /\ running \in BOOLEAN
  /\ unvisited \subseteq Dirs /\ here \in Dirs \cup {NoDir}
  /\ unread \subseteq Paths
  /\ statbuf \in Stamps /\ dirstamp \in Stamps
  /\ fq \subseteq Paths /\ hand \subseteq Paths /\ orphans \subseteq Ids
  /\ changes \in 0..MaxChanges /\ jobs \in 0..MaxJobs
  /\ quiet \in BOOLEAN /\ cut \in BOOLEAN /\ missed \subseteq Dirs /\ stale \subseteq Dirs

IndexInit ==
  /\ Init
  /\ file = [p \in Paths |-> NoMsg] /\ mtime = [p \in Paths |-> 0]
  /\ dirtime = [d \in Dirs |-> 1] /\ clock = 1
  /\ job = "idle" /\ conf = [lazy |-> FALSE, cleanup |-> TRUE]
  /\ running = FALSE /\ unvisited = {} /\ here = NoDir /\ unread = {}
  /\ statbuf = 0 /\ dirstamp = 0
  /\ fq = {} /\ hand = {} /\ orphans = {}
  /\ changes = 0 /\ jobs = 0
  /\ quiet = FALSE /\ cut = FALSE /\ missed = {} /\ stale = {}

Exists(p) == file[p] # NoMsg
Contained(p) == WithPath(work, p) # {}          \* Store::contains_message()
----------------------------------------------------------------------------
(* The maildir, which others change *)

(* At time t the dirstamp that d has, or is about to get, says "seen". *)
Covered(d, t) == t <= work.stamps[d] \/ (here = d /\ t <= statbuf)

Change(d) ==
  /\ changes < MaxChanges /\ changes' = changes + 1
  /\ dirtime' = [dirtime EXCEPT ![d] = clock]
  /\ quiet' = FALSE

(* A file appears, new or moved from elsewhere with the time it has; the   *)
(* scan may, or may not, come across it.                                   *)
Deliver(p, m, t) ==
  LET d == DirOf(p)
  IN  /\ ~Exists(p) /\ t <= clock
      /\ file' = [file EXCEPT ![p] = m] /\ mtime' = [mtime EXCEPT ![p] = t]
      /\ Change(d)
      /\ missed' = IF Covered(d, clock) THEN missed \cup {d} ELSE missed
      /\ stale' = IF Covered(d, t) THEN stale \cup {d} ELSE stale
      /\ unread' = unread \/ (here = d /\ unread' = unread \cup {p})
      /\ UNCHANGED <<vars, clock, job, jobs, conf, running, unvisited, here,
                     statbuf, dirstamp, fq, hand, orphans, cut>>

Delete(p) ==
  /\ Exists(p)
  /\ file' = [file EXCEPT ![p] = NoMsg]
  /\ Change(DirOf(p))
  /\ UNCHANGED <<vars, mtime, clock, job, jobs, conf, walk, fq, hand, orphans,
                 cut, missed, stale>>

(* A message is edited in place: the directory does not change. *)
Edit(p, m) ==
  LET d == DirOf(p)
  IN  /\ Exists(p) /\ m # file[p]
      /\ file' = [file EXCEPT ![p] = m] /\ mtime' = [mtime EXCEPT ![p] = clock]
      /\ changes < MaxChanges /\ changes' = changes + 1
      /\ quiet' = FALSE
      /\ stale' = IF Covered(d, clock) THEN stale \cup {d} ELSE stale
      /\ UNCHANGED <<vars, dirtime, clock, job, jobs, conf, walk, fq, hand,
                     orphans, cut, missed>>

Tick ==
  /\ clock + 1 \in Stamps /\ clock' = clock + 1
  /\ UNCHANGED <<vars, file, mtime, dirtime, changes, job, jobs, conf, walk, fq,
                 hand, orphans, doubts>>
----------------------------------------------------------------------------
(* A job *)

Start(c) ==
  /\ open /\ job = "idle" /\ hand = {}
  /\ jobs < MaxJobs /\ jobs' = jobs + 1
  /\ job' = "scan" /\ conf' = c
  /\ running' = TRUE /\ unvisited' = Dirs
  /\ quiet' = TRUE
  /\ UNCHANGED <<vars, maildir, here, unread, statbuf, dirstamp, fq, hand,
                 orphans, cut, missed, stale>>

(* The handler's EnterNewCur: does the dirstamp say that d is up-to-date?  *)
Skips(d) == conf.lazy /\ work.stamps[d] = dirtime[d]

EnterNewCur(d) ==
  /\ job = "scan" /\ running /\ here = NoDir /\ d \in unvisited
  /\ removing = {}
  /\ unvisited' = unvisited \ {d}
  /\ dirstamp' = work.stamps[d]
  /\ \/ Skips(d) /\ UNCHANGED <<here, unread, statbuf>>
     \/ /\ ~Skips(d)
        /\ here' = d /\ statbuf' = dirtime[d]
        /\ unread' = {p \in Paths : DirOf(p) = d /\ Exists(p)}
  /\ UNCHANGED <<vars, maildir, job, jobs, conf, running, fq, hand, orphans, doubts>>

(* Looks at the time only. *)
Bug_UpToDate(p) == mtime[p] <= dirstamp

UpToDate(p) == mtime[p] <= dirstamp /\ Contained(p)

(* The handler's File, for one entry; a file that is gone is passed over.  *)
HandleFile(p) ==
  /\ job = "scan" /\ running /\ p \in unread
  /\ unread' = unread \ {p}
  /\ fq' = IF Exists(p) /\ ~UpToDate(p) THEN fq \cup {p} ELSE fq
  /\ UNCHANGED <<vars, maildir, job, jobs, conf, running, unvisited, here, statbuf,
                 dirstamp, hand, orphans, doubts>>

(* A write or commit that fails takes others with it. *)
Doubts ==
  IF faults' = faults THEN UNCHANGED doubts
  ELSE quiet' = FALSE /\ cut' = TRUE /\ stale' = Dirs /\ UNCHANGED missed

(* Takes the time of the directory when all has been read. *)
Bug_LeaveDir ==
  /\ job = "scan" /\ here # NoDir /\ (unread = {} \/ ~running)
  /\ SetDirstamp(here, dirtime[here])
  /\ here' = NoDir /\ unread' = {}
  /\ Doubts
  /\ UNCHANGED <<maildir, job, jobs, conf, running, unvisited, statbuf, dirstamp,
                 fq, hand, orphans>>

(* The handler's LeaveDir: with the time that the directory had when the   *)
(* scan came to it, and also when the scan was stopped in the middle.      *)
LeaveDir ==
  /\ job = "scan" /\ here # NoDir /\ (unread = {} \/ ~running)
  /\ SetDirstamp(here, statbuf)
  /\ here' = NoDir /\ unread' = {}
  /\ Doubts
  /\ UNCHANGED <<maildir, job, jobs, conf, running, unvisited, statbuf, dirstamp,
                 fq, hand, orphans>>

Pop(p) ==
  /\ p \in fq
  /\ fq' = fq \ {p} /\ hand' = hand \cup {p}
  /\ UNCHANGED <<vars, maildir, job, jobs, conf, walk, orphans, doubts>>

(* A worker adds what it has popped, or fails to if the file is gone. *)
WorkerAdds(p) ==
  /\ open /\ p \in hand
  /\ hand' = hand \ {p}
  /\ IF Exists(p) THEN AddMessage(p, file[p]) ELSE UNCHANGED vars
  /\ Doubts
  /\ UNCHANGED <<maildir, job, jobs, conf, walk, fq, orphans>>

Goes(from, to) ==
  /\ job = from /\ job' = to
  /\ UNCHANGED <<maildir, jobs, conf, fq, hand>>

(* The scan is over, or was stopped. *)
ScanEnds ==
  /\ Goes("scan", "drain")
  /\ here = NoDir /\ (unvisited = {} \/ ~running)
  /\ running' = FALSE /\ unvisited' = {}
  /\ UNCHANGED <<vars, here, unread, statbuf, dirstamp, orphans, doubts>>

(* while (!fq_.empty()) sleep: workers may still have some in hand. *)
Drained ==
  /\ Goes("drain", IF conf.cleanup THEN "clean" ELSE "commit")
  /\ fq = {}
  /\ UNCHANGED <<vars, walk, orphans, doubts>>

(* cleanup(): the messages without a file ... *)
Clean ==
  /\ Goes("clean", "sweep")
  /\ removing = {}
  /\ orphans' = {i \in Ids : work.docs[i] # NoDoc /\ ~Exists(work.docs[i].path)}
  /\ UNCHANGED <<vars, walk, doubts>>

(* ... are removed, one after the other. *)
Sweep ==
  /\ Goes("sweep", "remove")
  /\ RemoveMessages(orphans)
  /\ orphans' = {}
  /\ UNCHANGED <<walk, doubts>>

Remove(i) ==
  /\ job = "remove"
  /\ RemoveNext(i)
  /\ Doubts
  /\ UNCHANGED <<maildir, job, jobs, conf, walk, fq, hand, orphans>>

Removed ==
  /\ Goes("remove", "commit")
  /\ removing = {}
  /\ UNCHANGED <<vars, walk, orphans, doubts>>

(* A whole job that found all there is to find makes good for earlier ones.*)
JobCommit ==
  /\ Goes("commit", "idle")
  /\ StoreCommit
  /\ IF quiet /\ ~conf.lazy /\ faults' = faults
     THEN missed' = {} /\ cut' = FALSE /\ UNCHANGED <<quiet, stale>>
     ELSE Doubts
  /\ UNCHANGED <<walk, orphans>>

(* stop(): the queue is dropped, the phases after the scan run all the     *)
(* same.  The one path that the scanner may still queue is left to Indexer.*)
Stop ==
  /\ open /\ job \in {"scan", "drain"}
  /\ running' = FALSE /\ fq' = {}
  /\ quiet' = FALSE
  /\ cut' = TRUE /\ stale' = Dirs
  /\ UNCHANGED <<vars, maildir, job, jobs, conf, unvisited, here, unread, statbuf,
                 dirstamp, hand, orphans, missed>>

(* The process is killed. *)
Killed ==
  /\ Crash
  /\ job' = "idle" /\ running' = FALSE
  /\ unvisited' = {} /\ here' = NoDir /\ unread' = {}
  /\ fq' = {} /\ hand' = {} /\ orphans' = {}
  /\ quiet' = FALSE
  /\ IF job = "idle" /\ hand = {} /\ disk = work THEN UNCHANGED <<cut, stale>>
     ELSE cut' = TRUE /\ stale' = Dirs
  /\ UNCHANGED <<maildir, jobs, conf, statbuf, dirstamp, missed>>

Restarted == Open /\ UNCHANGED ivars

Quits ==
  /\ job = "idle" /\ hand = {}
  /\ Close
  /\ Doubts
  /\ UNCHANGED <<maildir, job, jobs, conf, walk, fq, hand, orphans>>

IndexNext ==
  \/ \E p \in Paths, m \in Msgs, t \in Stamps : Deliver(p, m, t)
  \/ \E p \in Paths : Delete(p)
  \/ \E p \in Paths, m \in Msgs : Edit(p, m)
  \/ Tick
  \/ \E c \in Configs : Start(c)
  \/ \E d \in Dirs : EnterNewCur(d)
  \/ \E p \in Paths : HandleFile(p)
  \/ LeaveDir
  \/ \E p \in Paths : Pop(p)
  \/ \E p \in Paths : WorkerAdds(p)
  \/ ScanEnds
  \/ Drained
  \/ Clean
  \/ Sweep
  \/ \E i \in Ids : Remove(i)
  \/ Removed
  \/ JobCommit
  \/ Stop
  \/ Killed
  \/ Restarted
  \/ Quits

IndexSpec == IndexInit /\ [][IndexNext]_allvars
----------------------------------------------------------------------------
(* No job is going on, and the workers have added all that they popped. *)
AtRest == job = "idle" /\ hand = {} /\ open

(* A job that nothing disturbs finds every message, and after its cleanup  *)
(* the store has nothing else: whatever went wrong in jobs before it       *)
(* (handler() and cleanup()).                                              *)
WholeJobFindsAll ==
  AtRest /\ quiet /\ ~conf.lazy =>
    \A p \in Paths : /\ Exists(p) => Contained(p)
                     /\ conf.cleanup /\ Contained(p) => Exists(p)

(* The lazy check passes over a directory only when all its messages are   *)
(* in the store, unless a job was stopped or killed or a write failed, and *)
(* over a message that is not newer than the dirstamp only when it is      *)
(* up-to-date there; but for a directory that has changed in the very      *)
(* second for which it has its dirstamp (EnterNewCur, LeaveDir, File).     *)
LazyCheckSound ==
  AtRest => \A p \in Paths :
    LET d == DirOf(p)
    IN  Exists(p) =>
          /\ ~cut /\ d \notin missed /\ work.stamps[d] = dirtime[d] => Contained(p)
          /\ d \notin stale /\ mtime[p] <= work.stamps[d]
               => \A i \in WithPath(work, p) : work.docs[i].msg = file[p]
=============================================================================
