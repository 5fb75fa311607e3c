------------------------------- MODULE Store -------------------------------
(***************************************************************************)
(* lib/mu-store.cc: the message database.  Modifications are gathered in a *)
(* Xapian transaction that is committed when enough of them are in it; the *)
(* contacts live in memory and are written when the store is closed.       *)
(*                                                                         *)
(* A message stands for its contents and for its correspondents too: every *)
(* message has one of its own.  Xapian is modelled by what it promises: a  *)
(* commit is all or nothing, and a write that fails, or a commit that      *)
(* fails, drops what was not committed.                                    *)
(***************************************************************************)
EXTENDS Naturals

CONSTANTS
  Paths, Msgs,  \* file names, and what may be in the files
  Dirs, Stamps, \* directories, and their timestamps
  BatchSize,    \* mdata_.batch_size
  NoDoc,
  MaxId,        \* bound: document ids given out
  MaxFaults     \* bound: writes and commits that fail

ASSUME StoreAssumption ==
  /\ BatchSize \in Nat /\ MaxId \in Nat /\ MaxFaults \in Nat
  /\ 0 \in Stamps

(* A database; onto is not in the code: the paths that a message was moved *)
(* to while another document had them.                                     *)
Ids == 1..MaxId
Docs == [path : Paths, msg : Msgs]
Databases == [docs : [Ids -> Docs \cup {NoDoc}], last : 0..MaxId,
              stamps : [Dirs -> Stamps], contacts : SUBSET Msgs,
              onto : SUBSET Paths]

VARIABLES
  disk,         \* the database as of the latest commit
  work,         \* the database as the process sees it
  intrans,      \* is a transaction open?
  dirtiness,    \* dirtiness_
  contacts,     \* contacts_
  open,         \* does the process have the store open?
  removing,     \* the ids remove_messages() has to go, with lock_ held
  update,       \* the counts an unfinished update_message() has read
  unsaved,      \* how many modifications the transaction has
  raced,        \* has the store been used during an update_message()?
  faults

vars == <<disk, work, intrans, dirtiness, contacts, open, removing, update,
          unsaved, raced, faults>>

TypeOK ==
  /\ disk \in Databases /\ work \in Databases
  /\ intrans \in BOOLEAN /\ open \in BOOLEAN /\ raced \in BOOLEAN
  /\ dirtiness \in 0..BatchSize /\ unsaved \in Nat
  /\ contacts \subseteq Msgs
  /\ removing \subseteq Ids
  /\ update \subseteq 0..BatchSize
  /\ faults \in 0..MaxFaults

Empty == [docs |-> [i \in Ids |-> NoDoc], last |-> 0,
          stamps |-> [d \in Dirs |-> 0], contacts |-> {}, onto |-> {}]

(* A new database, with the transaction that the constructor begins. *)
Init ==
  /\ disk = Empty /\ work = Empty
  /\ intrans = TRUE /\ dirtiness = 0 /\ unsaved = 0
  /\ contacts = {} /\ open = TRUE
  /\ removing = {} /\ update = {} /\ raced = FALSE /\ faults = 0

(* The ids of the documents with path p: those with p's uid term *)
WithPath(w, p) == {i \in Ids : w.docs[i] # NoDoc /\ w.docs[i].path = p}

Stored(w) == {w.docs[i] : i \in {j \in Ids : w.docs[j] # NoDoc}}
----------------------------------------------------------------------------
(* Xapian *)

(* Adds the document without a look at what is there. *)
Bug_ReplaceByPath(w, p, m) ==
  IF w.last = MaxId THEN w
  ELSE [w EXCEPT !.docs[w.last + 1] = [path |-> p, msg |-> m],
                 !.last = @ + 1]

(* replace_document(term): one document is left with the term, the first   *)
(* one there is, or else a new one.                                        *)
ReplaceByPath(w, p, m) ==
  LET same == WithPath(w, p)
      id == IF same = {} THEN w.last + 1
            ELSE CHOOSE i \in same : \A j \in same : i <= j
  IN  [w EXCEPT !.docs = [i \in Ids |->
                            IF i = id THEN [path |-> p, msg |-> m]
                            ELSE IF i \in same THEN NoDoc ELSE w.docs[i]],
                !.last = IF same = {} THEN id ELSE @,
                !.onto = @ \ {p}]

(* delete_document *)
Without(w, ids) ==
  [w EXCEPT !.docs = [i \in Ids |-> IF i \in ids THEN NoDoc ELSE w.docs[i]]]

(* There is no room for one more. *)
Exhausted(w, p) == WithPath(w, p) = {} /\ w.last = MaxId

(* One modification more; no one keeps count without a transaction, or     *)
(* when dirtiness_ may have missed one.                                    *)
OneMore == IF intrans /\ ~raced THEN unsaved + 1 ELSE 0

Fault == faults < MaxFaults /\ faults' = faults + 1

(* An exception in a write: Xapian drops what is not committed. *)
WriteFails == Fault /\ work' = disk /\ unsaved' = 0

(* commit_transaction() on work as w, with n modifications; without a      *)
(* transaction it throws and does nothing.                                 *)
CommitTransaction(w, n) ==
  \/ /\ intrans
     /\ work' = w /\ disk' = w /\ unsaved' = 0
     /\ UNCHANGED <<intrans, faults>>
  \/ /\ intrans
     /\ WriteFails
     /\ intrans' = FALSE
     /\ UNCHANGED disk
  \/ /\ ~intrans
     /\ work' = w /\ unsaved' = n
     /\ UNCHANGED <<disk, intrans, faults>>
----------------------------------------------------------------------------
(* Private::commit(): when commit_transaction() throws, begin_transaction()*)
(* is not reached.                                                         *)
Commit(w, n) == dirtiness' = 0 /\ CommitTransaction(w, n)

(* The count when a modification has been made, and the commit it may lead *)
(* to: count is dirtiness_ as it was read, and w the database by now.      *)
Count(count, w, n) ==
  \/ /\ count + 1 > BatchSize
     /\ Commit(w, n)
  \/ /\ count + 1 <= BatchSize
     /\ dirtiness' = count + 1
     /\ work' = w /\ unsaved' = n
     /\ UNCHANGED <<disk, intrans, faults>>

(* dirty(), for one modification that makes work into w *)
Dirty(w) == Count(dirtiness, w, OneMore)

(* Is update_message(), which does not take lock_, at work? *)
Races == raced' = (raced \/ update # {})

(* LOCKED: no one else is in a function that holds lock_. *)
Locked == open /\ removing = {} /\ Races

(* add_message(path), of a file with m in it; the contacts are noted       *)
(* before the document is written.                                         *)
AddMessage(p, m) ==
  /\ Locked
  /\ ~Exhausted(work, p)
  /\ contacts' = contacts \cup {m}
  /\ \/ Dirty(ReplaceByPath(work, p, m))
     \/ WriteFails /\ UNCHANGED <<disk, intrans, dirtiness>>
  /\ UNCHANGED <<open, removing, update>>

(* update_message(msg, docid) takes no lock.  The caller has found the     *)
(* document before.                                                        *)
UpdateMessage(i, p, m) ==
  /\ open /\ update = {}
  /\ raced' = (raced \/ removing # {})
  /\ work.docs[i] # NoDoc
  /\ contacts' = contacts \cup {m}
  /\ \/ /\ work' = [work EXCEPT !.docs[i] = [path |-> p, msg |-> m],
                                !.onto = IF WithPath(work, p) \subseteq {i}
                                         THEN @ ELSE @ \cup {p}]
        /\ unsaved' = OneMore
        /\ update' = {dirtiness}
        /\ UNCHANGED faults
     \/ /\ WriteFails
        /\ UNCHANGED update
  /\ UNCHANGED <<disk, intrans, dirtiness, open, removing>>

(* Its dirty(), which another thread's may overlap *)
UpdateCounts ==
  /\ open
  /\ \E count \in update : Count(count, work, unsaved)
  /\ update' = {}
  /\ UNCHANGED <<contacts, open, removing, raced>>

(* remove_message(path): a modification, even when there is no such path *)
RemoveMessage(p) ==
  /\ Locked
  /\ \/ Dirty(Without(work, WithPath(work, p)))
     \/ WriteFails /\ UNCHANGED <<disk, intrans, dirtiness>>
  /\ UNCHANGED <<contacts, open, removing, update>>

(* remove_messages(ids) *)
RemoveMessages(ids) ==
  /\ Locked
  /\ removing' = ids
  /\ UNCHANGED <<disk, work, intrans, dirtiness, contacts, open, update,
                 unsaved, faults>>

(* Counts when all is done instead of after every removal. *)
Bug_RemoveNext(i) ==
  /\ open /\ i \in removing /\ Races
  /\ work.docs[i] # NoDoc
  /\ removing' = removing \ {i}
  /\ work' = Without(work, {i}) /\ unsaved' = OneMore
  /\ IF removing = {i} THEN dirtiness' = dirtiness + 1 ELSE UNCHANGED dirtiness
  /\ UNCHANGED <<disk, intrans, contacts, open, update, faults>>

(* One round of its loop; the first exception ends it, and one is thrown   *)
(* for an id that is no longer there.                                      *)
RemoveNext(i) ==
  /\ open /\ i \in removing /\ Races
  /\ \/ /\ work.docs[i] # NoDoc
        /\ Dirty(Without(work, {i}))
        /\ removing' = removing \ {i}
     \/ /\ work.docs[i] # NoDoc
        /\ WriteFails
        /\ removing' = {}
        /\ UNCHANGED <<disk, intrans, dirtiness>>
     \/ /\ work.docs[i] = NoDoc
        /\ removing' = {}
        /\ UNCHANGED <<disk, work, intrans, dirtiness, unsaved, faults>>
  /\ UNCHANGED <<contacts, open, update>>

(* set_dirstamp(path, tstamp) *)
SetDirstamp(d, t) ==
  /\ Locked
  /\ Dirty([work EXCEPT !.stamps[d] = t])
  /\ UNCHANGED <<contacts, open, removing, update>>

(* Store::commit() *)
StoreCommit ==
  /\ Locked
  /\ Commit(work, unsaved)
  /\ UNCHANGED <<contacts, open, removing, update>>

(* Without a transaction, Xapian writes when it likes to. *)
Flush ==
  /\ open /\ ~intrans
  /\ disk' = work /\ unsaved' = 0
  /\ UNCHANGED <<work, intrans, dirtiness, contacts, open, removing, update,
                 raced, faults>>

(* The process no longer has the store, and what was not saved is gone. *)
Gone(saved) ==
  /\ open' = FALSE
  /\ disk' = saved /\ work' = saved
  /\ intrans' = FALSE /\ dirtiness' = 0 /\ unsaved' = 0
  /\ contacts' = {} /\ removing' = {} /\ update' = {} /\ raced' = FALSE

(* ~Private(): saves the contacts and commits, all in vain if the commit   *)
(* fails; without a transaction, closing the database writes what is left. *)
Close ==
  /\ open /\ removing = {} /\ update = {}
  /\ \/ Gone([work EXCEPT !.contacts = contacts]) /\ UNCHANGED faults
     \/ intrans /\ Gone(disk) /\ Fault

Crash == open /\ Gone(disk) /\ UNCHANGED faults

(* Private(path, readonly = false) *)
Open ==
  /\ ~open
  /\ open' = TRUE /\ intrans' = TRUE
  /\ contacts' = disk.contacts
  /\ UNCHANGED <<disk, work, dirtiness, removing, update, unsaved, raced,
                 faults>>

Next ==
  \/ \E p \in Paths, m \in Msgs : AddMessage(p, m)
  \/ \E i \in Ids, p \in Paths, m \in Msgs : UpdateMessage(i, p, m)
  \/ UpdateCounts
  \/ \E p \in Paths : RemoveMessage(p)
  \/ \E ids \in SUBSET Ids : RemoveMessages(ids)
  \/ \E i \in Ids : RemoveNext(i)
  \/ \E d \in Dirs, t \in Stamps : SetDirstamp(d, t)
  \/ StoreCommit
  \/ Flush
  \/ Close
  \/ Crash
  \/ Open

Spec == Init /\ [][Next]_vars
----------------------------------------------------------------------------
(* While its transactions work, and as long as no one uses the store       *)
(* during an update_message(), it never has more modifications at stake    *)
(* than it counts, and never more than a batch and the one being made:     *)
(* that is all a crash can take, in whatever order messages are added,     *)
(* moved and removed, one at a time or many, and whichever of these fail   *)
(* (dirty() and commit() in lib/mu-store.cc).                              *)
BoundedLoss ==
  open /\ intrans /\ ~raced =>
    /\ unsaved <= dirtiness + (IF update = {} THEN 0 ELSE 1)
    /\ dirtiness <= BatchSize

(* Two documents for one file come from a move onto a path that another    *)
(* document has, from nothing else, and they are gone when the file is     *)
(* added again, whatever fails, races, or comes back after a crash         *)
(* (replace_document by uid in add_or_update_msg).                         *)
OneDocumentPerPath ==
  \A p \in Paths \ work.onto : \A i, j \in WithPath(work, p) : i = j

=============================================================================
