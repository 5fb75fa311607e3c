--------------------------- MODULE LazyIndexProofs ---------------------------
(***************************************************************************)
(* Theorems about Store and LazyIndex, for any paths, directories,         *)
(* messages and times, any size of a batch and any number of jobs, changes *)
(* and faults: what the store promises, what a job finds, and what the     *)
(* lazy check may pass over.                                               *)
(***************************************************************************)
EXTENDS LazyIndex, WellFoundedInduction, TLAPS

-----------------------------------------------------------------------------
(* The store *)

(* The operations on a database give a database. *)
LEMMA ReplaceType ==
  ASSUME StoreAssumption, NEW w \in Databases, NEW p \in Paths, NEW m \in Msgs, ~Exhausted(w, p)
  PROVE  ReplaceByPath(w, p, m) \in Databases
  <1> DEFINE same == WithPath(w, p)
             id == IF same = {} THEN w.last + 1
                   ELSE CHOOSE i \in same : \A j \in same : i <= j
             d == [i \in Ids |-> IF i = id THEN [path |-> p, msg |-> m]
                                ELSE IF i \in same THEN NoDoc ELSE w.docs[i]]
             l == IF same = {} THEN id ELSE w.last
  <1> USE DEF Docs, Databases
  <1>1. ReplaceByPath(w, p, m) =
          [w EXCEPT !.docs = d, !.last = l, !.onto = @ \ {p}]
    BY DEF ReplaceByPath
  <1>2. d \in [Ids -> Docs \cup {NoDoc}]
    BY Zenon
  <1>3. l \in 0..MaxId
    <2>1. CASE same = {}
      BY <2>1, SMT DEF Exhausted, StoreAssumption
    <2>2. CASE same # {}
      BY <2>2
    <2> QED BY <2>1, <2>2
  <1> HIDE DEF d, l
  <1> QED BY <1>1, <1>2, <1>3

LEMMA WithoutType ==
  ASSUME NEW w \in Databases, NEW ids
  PROVE  Without(w, ids) \in Databases
  BY DEF Without, Databases

LEMMA EmptyType == StoreAssumption => Empty \in Databases
  BY DEF StoreAssumption, Empty, Databases

(* What a modification does to the variables it touches *)
LEMMA FailsType ==
  ASSUME StoreAssumption, TypeOK, WriteFails
  PROVE  work' \in Databases /\ unsaved' \in Nat /\ faults' \in 0..MaxFaults
  BY DEF StoreAssumption, TypeOK, WriteFails, Fault

LEMMA CommitType ==
  ASSUME StoreAssumption, TypeOK, NEW w \in Databases, NEW n \in Nat,
         CommitTransaction(w, n)
  PROVE  /\ disk' \in Databases /\ work' \in Databases
         /\ intrans' \in BOOLEAN /\ unsaved' \in Nat
         /\ faults' \in 0..MaxFaults
  <1>1. CASE /\ work' = w /\ disk' = w /\ unsaved' = 0
             /\ UNCHANGED <<intrans, faults>>
    BY <1>1 DEF TypeOK
  <1>2. CASE WriteFails /\ intrans' = FALSE /\ UNCHANGED disk
    BY <1>2, FailsType DEF TypeOK
  <1>3. CASE work' = w /\ unsaved' = n /\ UNCHANGED <<disk, intrans, faults>>
    BY <1>3 DEF TypeOK
  <1> QED BY <1>1, <1>2, <1>3 DEF CommitTransaction

LEMMA CountType ==
  ASSUME StoreAssumption, TypeOK, NEW w \in Databases, NEW n \in Nat,
         NEW count \in 0..BatchSize, Count(count, w, n)
  PROVE  /\ disk' \in Databases /\ work' \in Databases
         /\ intrans' \in BOOLEAN
         /\ dirtiness' \in 0..BatchSize /\ unsaved' \in Nat
         /\ faults' \in 0..MaxFaults
  <1>1. CASE /\ dirtiness' = count + 1 /\ count + 1 <= BatchSize
             /\ work' = w /\ unsaved' = n
             /\ UNCHANGED <<disk, intrans, faults>>
    BY <1>1, SMT DEF StoreAssumption, TypeOK
  <1>2. CASE dirtiness' = 0 /\ CommitTransaction(w, n)
    BY <1>2, CommitType, SMT DEF StoreAssumption
  <1> QED BY <1>1, <1>2 DEF Count, Commit

LEMMA OneMoreType == TypeOK => OneMore \in Nat
  BY DEF TypeOK, OneMore

LEMMA DirtyType ==
  ASSUME StoreAssumption, TypeOK, NEW w \in Databases, Dirty(w)
  PROVE  /\ disk' \in Databases /\ work' \in Databases
         /\ intrans' \in BOOLEAN
         /\ dirtiness' \in 0..BatchSize /\ unsaved' \in Nat
         /\ faults' \in 0..MaxFaults
  <1>1. OneMore \in Nat /\ dirtiness \in 0..BatchSize
    BY OneMoreType DEF TypeOK
  <1>2. Count(dirtiness, w, OneMore)
    BY DEF Dirty
  <1> QED BY <1>1, <1>2, CountType

LEMMA GoneType ==
  ASSUME StoreAssumption, NEW saved \in Databases, Gone(saved),
         faults' \in 0..MaxFaults
  PROVE  TypeOK'
  <1>1. dirtiness' \in 0..BatchSize
    BY DEF Gone, StoreAssumption
  <1> QED BY <1>1 DEF Gone, TypeOK

LEMMA TypeStep == StoreAssumption /\ TypeOK /\ [Next]_vars => TypeOK'
  <1> SUFFICES ASSUME StoreAssumption, TypeOK, [Next]_vars PROVE TypeOK'
    OBVIOUS
  <1>1. ASSUME NEW p \in Paths, NEW m \in Msgs, AddMessage(p, m) PROVE TypeOK'
    <2>1. ReplaceByPath(work, p, m) \in Databases
      BY <1>1, ReplaceType DEF AddMessage, Races, Locked, TypeOK
    <2>2. CASE Dirty(ReplaceByPath(work, p, m))
      BY <1>1, <2>1, <2>2, DirtyType DEF AddMessage, Races, Locked, TypeOK
    <2>3. CASE WriteFails /\ UNCHANGED <<disk, intrans, dirtiness>>
      BY <1>1, <2>3, FailsType DEF AddMessage, Races, Locked, TypeOK
    <2> QED BY <1>1, <2>2, <2>3 DEF AddMessage
  <1>2. ASSUME NEW i \in Ids, NEW p \in Paths, NEW m \in Msgs,
               UpdateMessage(i, p, m)
        PROVE TypeOK'
    <2>1. CASE WriteFails /\ UNCHANGED update
      BY <1>2, <2>1, FailsType DEF UpdateMessage, TypeOK
    <2>2. CASE /\ work' = [work EXCEPT !.docs[i] = [path |-> p, msg |-> m],
                                       !.onto = IF WithPath(work, p) \subseteq {i}
                                                THEN @ ELSE @ \cup {p}]
               /\ unsaved' = OneMore
               /\ update' = {dirtiness}
               /\ UNCHANGED faults
      <3>1. work' \in Databases
        BY <1>2, <2>2 DEF TypeOK, Databases, Docs
      <3> QED BY <1>2, <2>2, <3>1, OneMoreType DEF UpdateMessage, TypeOK
    <2> QED BY <1>2, <2>1, <2>2 DEF UpdateMessage
  <1>3. ASSUME UpdateCounts PROVE TypeOK'
    BY <1>3, CountType DEF UpdateCounts, TypeOK
  <1>4. ASSUME NEW p \in Paths, RemoveMessage(p) PROVE TypeOK'
    <2>1. Without(work, WithPath(work, p)) \in Databases
      BY WithoutType DEF TypeOK
    <2>2. CASE Dirty(Without(work, WithPath(work, p)))
      BY <1>4, <2>1, <2>2, DirtyType DEF RemoveMessage, Races, Locked, TypeOK
    <2>3. CASE WriteFails /\ UNCHANGED <<disk, intrans, dirtiness>>
      BY <1>4, <2>3, FailsType DEF RemoveMessage, Races, Locked, TypeOK
    <2> QED BY <1>4, <2>2, <2>3 DEF RemoveMessage
  <1>5. ASSUME NEW ids \in SUBSET Ids, RemoveMessages(ids) PROVE TypeOK'
    BY <1>5 DEF RemoveMessages, Races, Locked, TypeOK
  <1>6. ASSUME NEW i \in Ids, RemoveNext(i) PROVE TypeOK'
    <2>1. Without(work, {i}) \in Databases
      BY WithoutType DEF TypeOK
    <2>2. CASE Dirty(Without(work, {i})) /\ removing' = removing \ {i}
      BY <1>6, <2>1, <2>2, DirtyType DEF RemoveNext, Races, TypeOK
    <2>3. CASE WriteFails /\ removing' = {} /\ UNCHANGED <<disk, intrans, dirtiness>>
      BY <1>6, <2>3, FailsType DEF RemoveNext, Races, TypeOK
    <2>4. CASE /\ removing' = {}
               /\ UNCHANGED <<disk, work, intrans, dirtiness, unsaved, faults>>
      BY <1>6, <2>4 DEF RemoveNext, Races, TypeOK
    <2> QED BY <1>6, <2>2, <2>3, <2>4 DEF RemoveNext
  <1>7. ASSUME NEW d \in Dirs, NEW t \in Stamps, SetDirstamp(d, t) PROVE TypeOK'
    <2>1. [work EXCEPT !.stamps[d] = t] \in Databases
      BY DEF TypeOK, Databases
    <2> QED BY <1>7, <2>1, DirtyType DEF SetDirstamp, Races, Locked, TypeOK
  <1>8. ASSUME StoreCommit PROVE TypeOK'
    <2>1. CommitTransaction(work, unsaved) /\ dirtiness' = 0
      BY <1>8 DEF StoreCommit, Commit
    <2>2. dirtiness' \in 0..BatchSize
      BY <2>1 DEF StoreAssumption
    <2> QED BY <1>8, <2>1, <2>2, CommitType DEF StoreCommit, Races, Locked, TypeOK
  <1>9. ASSUME Flush PROVE TypeOK'
    BY <1>9 DEF Flush, TypeOK
  <1>10. ASSUME Close PROVE TypeOK'
    <2>1. [work EXCEPT !.contacts = contacts] \in Databases
      BY DEF TypeOK, Databases
    <2>2. faults' \in 0..MaxFaults
      BY <1>10 DEF Close, Fault, TypeOK, StoreAssumption
    <2>3. PICK saved \in Databases : Gone(saved)
      BY <1>10, <2>1 DEF Close, TypeOK
    <2> QED BY <2>2, <2>3, GoneType
  <1>11. ASSUME Crash PROVE TypeOK'
    BY <1>11, GoneType DEF Crash, TypeOK
  <1>12. ASSUME Open PROVE TypeOK'
    BY <1>12 DEF Open, TypeOK, Databases
  <1>13. CASE UNCHANGED vars
    BY <1>13 DEF vars, TypeOK
  <1> QED BY <1>1, <1>2, <1>3, <1>4, <1>5, <1>6, <1>7, <1>8, <1>9, <1>10,
             <1>11, <1>12, <1>13 DEF Next

LEMMA TypeInit == StoreAssumption /\ Init => TypeOK
  <1>1. StoreAssumption => 0 \in 0..BatchSize /\ 0 \in 0..MaxFaults
    BY DEF StoreAssumption
  <1> SUFFICES ASSUME StoreAssumption, Init PROVE TypeOK
    OBVIOUS
  <1>2. disk \in Databases /\ work \in Databases
    BY EmptyType DEF Init
  <1>3. /\ intrans \in BOOLEAN /\ open \in BOOLEAN /\ raced \in BOOLEAN
        /\ contacts \subseteq Msgs /\ removing \subseteq Ids
        /\ update \subseteq 0..BatchSize
    BY DEF Init
  <1>4. dirtiness \in 0..BatchSize /\ unsaved \in Nat /\ faults \in 0..MaxFaults
    BY <1>1 DEF Init
  <1> QED BY <1>2, <1>3, <1>4 DEF TypeOK

(* The variables of the store always hold what they should: the count of   *)
(* modifications stays in its range whoever counts (lib/mu-store.cc).      *)
THEOREM TypeCorrect == Spec => []TypeOK
  <1> USE StoreAssumption
  <1>1. Init => TypeOK
    BY TypeInit
  <1>2. TypeOK /\ [Next]_vars => TypeOK'
    BY TypeStep
  <1> QED BY <1>1, <1>2, PTL DEF Spec

----------------------------------------------------------------------------
(* A crash takes a batch at most.  The count is right because an update    *)
(* that has not been counted yet keeps the others out, so that it counts   *)
(* on from where it began.                                                 *)

LossInv ==
  /\ BoundedLoss
  /\ update # {} /\ ~raced => removing = {} /\ update = {dirtiness}
  /\ ~open => unsaved = 0 /\ update = {}

(* One modification, properly counted *)
LEMMA CountLoss ==
  ASSUME StoreAssumption, TypeOK, NEW w, NEW n \in Nat,
         intrans /\ ~raced => n <= dirtiness + 1,
         raced' = raced,
         Count(dirtiness, w, n), update' = {}
  PROVE  BoundedLoss'
  <1>1. CASE /\ dirtiness' = dirtiness + 1 /\ dirtiness + 1 <= BatchSize
             /\ work' = w /\ unsaved' = n
             /\ UNCHANGED <<disk, intrans, faults>>
    BY <1>1, SMT DEF BoundedLoss, StoreAssumption, TypeOK
  <1>2. CASE dirtiness' = 0 /\ CommitTransaction(w, n)
    <2>1. intrans' => unsaved' = 0
      BY <1>2 DEF CommitTransaction
    <2> QED BY <1>2, <2>1, SMT DEF BoundedLoss, StoreAssumption
  <1> QED BY <1>1, <1>2 DEF Count, Commit

LEMMA DirtyLoss ==
  ASSUME StoreAssumption, TypeOK, LossInv, open, update = {}, NEW w,
         Dirty(w), update' = {}, UNCHANGED <<open, raced>>
  PROVE  LossInv'
  <1>1. OneMore \in Nat /\ (intrans /\ ~raced => OneMore <= dirtiness + 1)
    BY OneMoreType, SMT DEF OneMore, LossInv, BoundedLoss, TypeOK
  <1>2. BoundedLoss'
    BY <1>1, CountLoss DEF Dirty
  <1> QED BY <1>2 DEF LossInv

LEMMA FailsLoss ==
  ASSUME StoreAssumption, TypeOK, LossInv, WriteFails,
         UNCHANGED <<intrans, dirtiness, open, update>>,
         removing' \subseteq removing, raced => raced'
  PROVE  LossInv'
  BY SMT DEF LossInv, BoundedLoss, WriteFails, TypeOK, StoreAssumption

LEMMA GoneLoss == ASSUME NEW saved, Gone(saved) PROVE LossInv'
  BY DEF Gone, LossInv, BoundedLoss

(* Once someone has used the store during an update, nothing is promised. *)
LEMMA RacedLoss == raced' /\ open' => LossInv'
  BY DEF LossInv, BoundedLoss

LEMMA LossStep == StoreAssumption /\ TypeOK /\ LossInv /\ [Next]_vars => LossInv'
  <1> SUFFICES ASSUME StoreAssumption, TypeOK, LossInv, [Next]_vars,
                      ~(raced' /\ open')
               PROVE  LossInv'
    BY RacedLoss
  <1>a. ASSUME Locked, open' = open PROVE open /\ update = {} /\ raced' = raced
    BY <1>a DEF Locked, Races, TypeOK
  <1>1. ASSUME NEW p \in Paths, NEW m \in Msgs, AddMessage(p, m) PROVE LossInv'
    <2>1. open /\ update = {} /\ update' = {} /\ UNCHANGED <<open, raced, removing>>
      BY <1>1, <1>a DEF AddMessage
    <2> QED BY <1>1, <2>1, DirtyLoss, FailsLoss DEF AddMessage
  <1>2. ASSUME NEW i \in Ids, NEW p \in Paths, NEW m \in Msgs,
               UpdateMessage(i, p, m)
        PROVE LossInv'
    <2>1. ~raced /\ removing = {} /\ open /\ update = {}
          /\ UNCHANGED <<intrans, dirtiness, open, removing>>
      BY <1>2 DEF UpdateMessage
    <2>2. CASE WriteFails /\ UNCHANGED update
      BY <2>1, <2>2, FailsLoss
    <2>3. CASE unsaved' = OneMore /\ update' = {dirtiness}
      <3>1. BoundedLoss'
        BY <2>1, <2>3, SMT DEF OneMore, LossInv, BoundedLoss, TypeOK, StoreAssumption
      <3> QED BY <2>1, <2>3, <3>1 DEF LossInv
    <2> QED BY <1>2, <2>2, <2>3 DEF UpdateMessage
  <1>3. ASSUME UpdateCounts PROVE LossInv'
    <2>1. open /\ update' = {} /\ ~raced /\ update # {}
          /\ UNCHANGED <<open, removing, raced>>
      BY <1>3 DEF UpdateCounts
    <2>2. Count(dirtiness, work, unsaved)
      BY <1>3, <2>1 DEF UpdateCounts, LossInv
    <2>3. unsaved \in Nat /\ (intrans /\ ~raced => unsaved <= dirtiness + 1)
      BY <2>1, SMT DEF LossInv, BoundedLoss, TypeOK
    <2>4. BoundedLoss'
      BY <2>1, <2>2, <2>3, CountLoss
    <2> QED BY <2>1, <2>4 DEF LossInv
  <1>4. ASSUME NEW p \in Paths, RemoveMessage(p) PROVE LossInv'
    <2>1. open /\ update = {} /\ update' = {} /\ UNCHANGED <<open, raced, removing>>
      BY <1>4, <1>a DEF RemoveMessage
    <2> QED BY <1>4, <2>1, DirtyLoss, FailsLoss DEF RemoveMessage
  <1>5. ASSUME NEW ids \in SUBSET Ids, RemoveMessages(ids) PROVE LossInv'
    <2>1. update = {} /\ UNCHANGED <<intrans, dirtiness, unsaved, open, raced, update>>
      BY <1>5, <1>a DEF RemoveMessages
    <2> QED BY <2>1 DEF LossInv, BoundedLoss
  <1>6. ASSUME NEW i \in Ids, RemoveNext(i) PROVE LossInv'
    <2>1. open /\ update = {} /\ update' = {} /\ UNCHANGED <<open, raced>>
      BY <1>6 DEF RemoveNext, Races, LossInv, TypeOK
    <2>2. CASE Dirty(Without(work, {i}))
      BY <2>1, <2>2, DirtyLoss
    <2>3. CASE WriteFails /\ removing' = {} /\ UNCHANGED <<disk, intrans, dirtiness>>
      BY <2>1, <2>3, FailsLoss
    <2>4. CASE UNCHANGED <<disk, work, intrans, dirtiness, unsaved, faults>>
      BY <2>1, <2>4 DEF LossInv, BoundedLoss
    <2> QED BY <1>6, <2>2, <2>3, <2>4 DEF RemoveNext
  <1>7. ASSUME NEW d \in Dirs, NEW t \in Stamps, SetDirstamp(d, t) PROVE LossInv'
    <2>1. open /\ update = {} /\ update' = {} /\ UNCHANGED <<open, raced>>
      BY <1>7, <1>a DEF SetDirstamp
    <2> QED BY <1>7, <2>1, DirtyLoss DEF SetDirstamp
  <1>8. ASSUME StoreCommit PROVE LossInv'
    <2>1. open /\ update = {} /\ update' = {} /\ UNCHANGED <<open, raced>>
      BY <1>8, <1>a DEF StoreCommit
    <2>2. dirtiness' = 0 /\ (intrans' => unsaved' = 0)
      BY <1>8 DEF StoreCommit, Commit, CommitTransaction
    <2> QED BY <2>1, <2>2, SMT DEF LossInv, BoundedLoss, StoreAssumption
  <1>9. ASSUME Flush PROVE LossInv'
    BY <1>9 DEF Flush, LossInv, BoundedLoss
  <1>10. ASSUME Close PROVE LossInv'
    BY <1>10, GoneLoss DEF Close
  <1>11. ASSUME Crash PROVE LossInv'
    BY <1>11, GoneLoss DEF Crash
  <1>12. ASSUME Open PROVE LossInv'
    <2>1. update' = {} /\ open' /\ unsaved' = 0 /\ dirtiness' = dirtiness
      BY <1>12 DEF Open, LossInv
    <2>2. 0 <= dirtiness + 0 /\ dirtiness <= BatchSize
      <3>1. dirtiness \in 0..BatchSize /\ BatchSize \in Nat
        BY DEF TypeOK, StoreAssumption
      <3> QED BY <3>1
    <2> QED BY <2>1, <2>2 DEF LossInv, BoundedLoss
  <1>13. CASE UNCHANGED vars
    BY <1>13 DEF vars, LossInv, BoundedLoss
  <1> QED BY <1>1, <1>2, <1>3, <1>4, <1>5, <1>6, <1>7, <1>8, <1>9, <1>10,
             <1>11, <1>12, <1>13 DEF Next

(* As long as no thread uses the store during an update_message(), a crash *)
(* takes no more than a batch of modifications and the one being made, for *)
(* every batch size and any order of calls (dirty(), commit()).            *)
THEOREM LossBounded == Spec => []BoundedLoss
  <1> USE StoreAssumption
  <1>1. Init => TypeOK /\ LossInv
    BY TypeInit, SMT DEF Init, LossInv, BoundedLoss
  <1>2. TypeOK /\ LossInv /\ [Next]_vars => (TypeOK /\ LossInv)'
    BY TypeStep, LossStep
  <1>3. LossInv => BoundedLoss
    BY DEF LossInv
  <1> QED BY <1>1, <1>2, <1>3, PTL DEF Spec

----------------------------------------------------------------------------
(* One document per file: every write replaces what has its path, and all  *)
(* that can come back from the disk has once been in work.                 *)

Unique(w) == \A p \in Paths \ w.onto : \A i, j \in WithPath(w, p) : i = j

UniqueInv == Unique(work) /\ Unique(disk)

LEMMA ReplaceUnique ==
  ASSUME NEW w \in Databases, Unique(w), NEW p \in Paths, NEW m \in Msgs
  PROVE  Unique(ReplaceByPath(w, p, m))
  <1> DEFINE same == WithPath(w, p)
             id == IF same = {} THEN w.last + 1
                   ELSE CHOOSE i \in same : \A j \in same : i <= j
             d == [i \in Ids |-> IF i = id THEN [path |-> p, msg |-> m]
                                ELSE IF i \in same THEN NoDoc ELSE w.docs[i]]
             r == ReplaceByPath(w, p, m)
  <1>1. r.docs = d /\ r.onto = w.onto \ {p}
    BY DEF ReplaceByPath, Databases
  <1>2. ASSUME NEW q \in Paths \ r.onto, NEW i \in WithPath(r, q), NEW j \in WithPath(r, q)
        PROVE  i = j
    <2>1. i \in Ids /\ j \in Ids /\ d[i] # NoDoc /\ d[j] # NoDoc
          /\ d[i].path = q /\ d[j].path = q
      BY <1>1, <1>2 DEF WithPath
    <2>2. ASSUME NEW k \in Ids, d[k] # NoDoc, d[k].path = q
          PROVE  IF k = id THEN q = p ELSE q # p /\ k \in WithPath(w, q)
      BY <2>2 DEF WithPath
    <2> HIDE DEF d, id, r
    <2>3. CASE q = p
      BY <2>1, <2>2, <2>3
    <2>4. CASE q # p
      <3>1. i \in WithPath(w, q) /\ j \in WithPath(w, q)
        BY <2>1, <2>2, <2>4
      <3> QED BY <1>1, <2>4, <3>1 DEF Unique
    <2> QED BY <2>3, <2>4
  <1> HIDE DEF r
  <1>3. Unique(r)
    BY <1>2 DEF Unique
  <1> QED BY <1>3 DEF r

LEMMA WithoutUnique ==
  ASSUME NEW w \in Databases, Unique(w), NEW ids
  PROVE  Unique(Without(w, ids))
  <1>1. \A q \in Paths : WithPath(Without(w, ids), q) \subseteq WithPath(w, q)
    BY DEF WithPath, Without, Databases
  <1>2. Without(w, ids).onto = w.onto
    BY DEF Without, Databases
  <1> QED BY <1>1, <1>2 DEF Unique

(* The other parts of a database do not matter. *)
LEMMA SameDocs ==
  ASSUME NEW v, NEW w, v.docs = w.docs, v.onto = w.onto, Unique(w)
  PROVE  Unique(v)
  BY DEF Unique, WithPath

LEMMA CommitUnique ==
  ASSUME UniqueInv, NEW w, Unique(w), NEW n, CommitTransaction(w, n)
  PROVE  UniqueInv'
  BY DEF CommitTransaction, WriteFails, UniqueInv, Unique, WithPath

LEMMA CountUnique ==
  ASSUME UniqueInv, NEW w, Unique(w), NEW n, NEW count, Count(count, w, n)
  PROVE  UniqueInv'
  <1>1. CASE work' = w /\ disk' = disk
    BY <1>1 DEF UniqueInv, Unique, WithPath
  <1>2. CASE CommitTransaction(w, n)
    BY <1>2, CommitUnique
  <1> QED BY <1>1, <1>2 DEF Count, Commit

LEMMA FailsUnique ==
  ASSUME UniqueInv, WriteFails, UNCHANGED disk PROVE UniqueInv'
  BY DEF WriteFails, UniqueInv, Unique, WithPath

LEMMA GoneUnique ==
  ASSUME NEW w, Unique(w), Gone(w) PROVE UniqueInv'
  BY DEF Gone, UniqueInv, Unique, WithPath

LEMMA UniqueStep ==
  TypeOK /\ UniqueInv /\ [Next]_vars => UniqueInv'
  <1> SUFFICES ASSUME TypeOK, UniqueInv, [Next]_vars PROVE UniqueInv'
    OBVIOUS
  <1>a. work \in Databases /\ disk \in Databases /\ Unique(work) /\ Unique(disk)
    BY DEF TypeOK, UniqueInv
  <1>1. ASSUME NEW p \in Paths, NEW m \in Msgs, AddMessage(p, m) PROVE UniqueInv'
    <2>1. Unique(ReplaceByPath(work, p, m))
      BY <1>a, ReplaceUnique
    <2> QED BY <1>1, <2>1, CountUnique, FailsUnique DEF AddMessage, Dirty
  <1>2. ASSUME NEW i \in Ids, NEW p \in Paths, NEW m \in Msgs,
               UpdateMessage(i, p, m)
        PROVE UniqueInv'
    <2>1. CASE WriteFails
      BY <1>2, <2>1, FailsUnique DEF UpdateMessage
    <2>2. CASE work' = [work EXCEPT !.docs[i] = [path |-> p, msg |-> m],
                                    !.onto = IF WithPath(work, p) \subseteq {i}
                                             THEN @ ELSE @ \cup {p}]
      <3>1. work'.onto = IF WithPath(work, p) \subseteq {i}
                         THEN work.onto ELSE work.onto \cup {p}
        BY <1>a, <2>2 DEF Databases
      <3>2. ASSUME NEW q \in Paths \ work'.onto
            PROVE  /\ q \notin work.onto
                   /\ IF q = p THEN WithPath(work', q) \subseteq {i}
                      ELSE WithPath(work', q) \subseteq WithPath(work, q)
        <4>1. work'.docs = [work.docs EXCEPT ![i] = [path |-> p, msg |-> m]]
          BY <1>a, <2>2 DEF Databases
        <4> QED BY <1>a, <3>1, <4>1 DEF WithPath, Databases
      <3>3. Unique(work')
        BY <1>a, <3>2 DEF Unique
      <3>4. disk' = disk
        BY <1>2 DEF UpdateMessage
      <3> QED BY <1>a, <3>3, <3>4 DEF UniqueInv, Unique, WithPath
    <2> QED BY <1>2, <2>1, <2>2 DEF UpdateMessage
  <1>3. ASSUME UpdateCounts PROVE UniqueInv'
    BY <1>3, <1>a, CountUnique DEF UpdateCounts
  <1>4. ASSUME NEW p \in Paths, RemoveMessage(p) PROVE UniqueInv'
    <2>1. Unique(Without(work, WithPath(work, p)))
      BY <1>a, WithoutUnique
    <2> QED BY <1>4, <2>1, CountUnique, FailsUnique DEF RemoveMessage, Dirty
  <1>5. ASSUME NEW ids \in SUBSET Ids, RemoveMessages(ids) PROVE UniqueInv'
    BY <1>5 DEF RemoveMessages, UniqueInv, Unique, WithPath
  <1>6. ASSUME NEW i \in Ids, RemoveNext(i) PROVE UniqueInv'
    <2>1. Unique(Without(work, {i}))
      BY <1>a, WithoutUnique
    <2>2. CASE Dirty(Without(work, {i}))
      BY <2>1, <2>2, CountUnique DEF Dirty
    <2>3. CASE WriteFails /\ UNCHANGED disk
      BY <2>3, FailsUnique
    <2>4. CASE UNCHANGED <<disk, work>>
      BY <2>4 DEF UniqueInv, Unique, WithPath
    <2> QED BY <1>6, <2>2, <2>3, <2>4 DEF RemoveNext
  <1>7. ASSUME NEW d \in Dirs, NEW t \in Stamps, SetDirstamp(d, t) PROVE UniqueInv'
    <2>1. /\ [work EXCEPT !.stamps[d] = t].docs = work.docs
          /\ [work EXCEPT !.stamps[d] = t].onto = work.onto
      BY <1>a DEF Databases
    <2>2. Unique([work EXCEPT !.stamps[d] = t])
      BY <1>a, <2>1, SameDocs
    <2> QED BY <1>7, <2>2, CountUnique DEF SetDirstamp, Dirty
  <1>8. ASSUME StoreCommit PROVE UniqueInv'
    BY <1>8, <1>a, CommitUnique DEF StoreCommit, Commit
  <1>9. ASSUME Flush PROVE UniqueInv'
    BY <1>9 DEF Flush, UniqueInv, Unique, WithPath
  <1>10. ASSUME Close PROVE UniqueInv'
    <2>1. /\ [work EXCEPT !.contacts = contacts].docs = work.docs
          /\ [work EXCEPT !.contacts = contacts].onto = work.onto
      BY <1>a DEF Databases
    <2>2. Unique([work EXCEPT !.contacts = contacts])
      BY <1>a, <2>1, SameDocs
    <2> QED BY <1>10, <1>a, <2>2, GoneUnique DEF Close
  <1>11. ASSUME Crash PROVE UniqueInv'
    BY <1>11, <1>a, GoneUnique DEF Crash
  <1>12. ASSUME Open PROVE UniqueInv'
    BY <1>12 DEF Open, UniqueInv, Unique, WithPath
  <1>13. CASE UNCHANGED vars
    BY <1>13 DEF vars, UniqueInv, Unique, WithPath
  <1> QED BY <1>1, <1>2, <1>3, <1>4, <1>5, <1>6, <1>7, <1>8, <1>9, <1>10,
             <1>11, <1>12, <1>13 DEF Next

(* A file has two documents only after a move onto a path that another     *)
(* document has, and until it is added again: through failures, crashes,   *)
(* and updates that race (add_or_update_msg, update_message).              *)
THEOREM DocumentsUnique == Spec => []OneDocumentPerPath
  <1> USE StoreAssumption
  <1>1. Init => TypeOK /\ UniqueInv
    BY TypeInit DEF Init, Empty, UniqueInv, Unique, WithPath
  <1>2. TypeOK /\ UniqueInv /\ [Next]_vars => (TypeOK /\ UniqueInv)'
    BY TypeStep, UniqueStep
  <1>3. UniqueInv => OneDocumentPerPath
    BY DEF UniqueInv, Unique, OneDocumentPerPath
  <1> QED BY <1>1, <1>2, <1>3, PTL DEF Spec

-----------------------------------------------------------------------------
(* The index over time *)

(* A document for p, one that is up-to-date, and p on its way to one.      *)
Current(p) == \A i \in WithPath(work, p) : work.docs[i].msg = file[p]
Pending(p) == p \in fq \cup hand

(* The documents that a cleanup will remove *)
Doomed == orphans \cup removing

(* Where the job is says what there can be of a scan, in the queue and of  *)
(* a cleanup; and a scan that was stopped has left its mark.               *)
JobInv ==
  /\ job # "scan" => here = NoDir /\ unvisited = {}
  /\ here = NoDir => unread = {}
  /\ job \notin {"scan", "drain"} => fq = {}
  /\ job # "sweep" => orphans = {}
  /\ job # "remove" => removing = {}
  /\ job = "scan" /\ ~running => ~quiet /\ cut
  /\ cut => stale = Dirs
  /\ here # NoDir /\ ~cut => dirstamp = work.stamps[here]

(* A dirstamp is a time that the directory had. *)
TimeInv ==
  /\ \A d \in Dirs : /\ work.stamps[d] <= dirtime[d] /\ disk.stamps[d] <= dirtime[d]
                     /\ dirtime[d] <= clock
  /\ here # NoDir => statbuf <= dirtime[here]

(* Ids that were never given out have no document. *)
LastInv ==
  \A i \in Ids : /\ work.docs[i] # NoDoc => i <= work.last
                 /\ disk.docs[i] # NoDoc => i <= disk.last

(* What a cleanup will remove has no file, unless one appeared since the   *)
(* cleanup began; then the next scan will look at its directory.           *)
DoomedInv ==
  /\ ~cut => \A i \in Doomed :
       /\ i <= work.last
       /\ work.docs[i] # NoDoc /\ Exists(work.docs[i].path) =>
            LET d == DirOf(work.docs[i].path)
            IN  d \in missed \/ work.stamps[d] < dirtime[d]
  /\ quiet => \A i \in Doomed :
       work.docs[i] # NoDoc /\ ~Exists(work.docs[i].path)
  /\ quiet /\ conf.cleanup /\ job \in {"sweep", "remove", "commit", "idle"} =>
       \A i \in Ids : work.docs[i] # NoDoc /\ ~Exists(work.docs[i].path) => i \in Doomed

(* A whole job has found every file that it has gone by. *)
FoundInv ==
  quiet /\ ~conf.lazy => \A p \in Paths : Exists(p) =>
    Contained(p) \/ Pending(p) \/ (job = "scan" /\ (DirOf(p) \in unvisited \/ p \in unread))

(* The dirstamp that a directory has, or is about to get, is its time only *)
(* when its files were found.                                              *)
DirInv ==
  ~cut => \A p \in Paths : Exists(p) /\ DirOf(p) \notin missed =>
    /\ work.stamps[DirOf(p)] = dirtime[DirOf(p)] => Contained(p) \/ Pending(p)
    /\ here = DirOf(p) /\ statbuf = dirtime[DirOf(p)]
         => Contained(p) \/ Pending(p) \/ p \in unread

(* A file is not newer than that only when its document is right. *)
FileInv ==
  \A p \in Paths : Exists(p) /\ DirOf(p) \notin stale =>
    /\ mtime[p] <= work.stamps[DirOf(p)] => Current(p) \/ Pending(p)
    /\ here = DirOf(p) /\ mtime[p] <= statbuf
         => Current(p) \/ Pending(p) \/ p \in unread

LazyInv == JobInv /\ TimeInv /\ LastInv /\ DoomedInv /\ FoundInv /\ DirInv /\ FileInv

USE StoreAssumption, LazyIndexAssumption

(* Each step of a job is a step of the store, or leaves it alone. *)
LEMMA StoreStep == IndexTypeOK /\ [IndexNext]_allvars => [Next]_vars
<1> SUFFICES ASSUME IndexTypeOK, [IndexNext]_allvars PROVE [Next]_vars
  OBVIOUS
<1>1. ASSUME NEW p \in Paths, WorkerAdds(p) PROVE [Next]_vars
  <2>1. Exists(p) => file[p] \in Msgs
    BY DEF IndexTypeOK, Exists
  <2> QED
    BY <1>1, <2>1 DEF WorkerAdds, Next
<1>2. CASE LeaveDir
  <2>1. here \in Dirs /\ statbuf \in Stamps
    BY <1>2 DEF IndexTypeOK, LeaveDir
  <2> QED
    BY <1>2, <2>1 DEF LeaveDir, Next
<1>3. CASE Sweep
  BY <1>3 DEF IndexTypeOK, Sweep, Next
<1>4. ASSUME NEW i \in Ids, Remove(i) PROVE [Next]_vars
  BY <1>4 DEF Remove, Next
<1>5. CASE JobCommit \/ Killed \/ Restarted \/ Quits
  BY <1>5 DEF JobCommit, Killed, Restarted, Quits, Next
<1>6. ASSUME NEW p \in Paths, NEW m \in Msgs, NEW t \in Stamps,
             Deliver(p, m, t) \/ Delete(p) \/ Edit(p, m) \/ HandleFile(p) \/ Pop(p)
      PROVE  UNCHANGED vars
  BY <1>6 DEF Deliver, Delete, Edit, HandleFile, Pop
<1>7. ASSUME NEW c \in Configs, Start(c) PROVE UNCHANGED vars
  BY <1>7 DEF Start
<1>8. ASSUME NEW d \in Dirs, EnterNewCur(d) PROVE UNCHANGED vars
  BY <1>8 DEF EnterNewCur
<1>9. ASSUME NEW p \in Paths, Delete(p) \/ HandleFile(p) \/ Pop(p) PROVE UNCHANGED vars
  BY <1>9 DEF Delete, HandleFile, Pop
<1>10. ASSUME NEW p \in Paths, NEW m \in Msgs, Edit(p, m) PROVE UNCHANGED vars
  BY <1>10 DEF Edit
<1>11. Tick \/ ScanEnds \/ Drained \/ Clean \/ Removed \/ Stop \/ UNCHANGED allvars => UNCHANGED vars
  BY DEF Tick, ScanEnds, Drained, Clean, Removed, Stop, allvars
<1> HIDE DEF vars
<1> QED
  BY <1>1, <1>2, <1>3, <1>4, <1>5, <1>6, <1>7, <1>8, <1>9, <1>10, <1>11 DEF IndexNext

LEMMA ChangeType ==
  ASSUME IndexTypeOK, NEW d \in Dirs, Change(d)
  PROVE  dirtime' \in [Dirs -> Stamps] /\ changes' \in 0..MaxChanges /\ quiet' \in BOOLEAN
<1>1. dirtime' \in [Dirs -> Stamps] /\ quiet' \in BOOLEAN
  BY DEF IndexTypeOK, Change
<1>2. changes' \in 0..MaxChanges
  BY DEF IndexTypeOK, Change
<1> QED
  BY <1>1, <1>2

LEMMA IndexTypeStep == IndexTypeOK /\ [IndexNext]_allvars => IndexTypeOK'
<1> SUFFICES ASSUME IndexTypeOK, [IndexNext]_allvars PROVE IndexTypeOK'
  OBVIOUS
<1>0. TypeOK' /\ work \in Databases
  BY StoreStep, TypeStep DEF IndexTypeOK, TypeOK
<1> USE <1>0 DEF IndexTypeOK, maildir, walk, doubts
<1>1. ASSUME NEW p \in Paths, NEW m \in Msgs, NEW t \in Stamps, Deliver(p, m, t)
      PROVE  IndexTypeOK'
  <2>1. file' \in [Paths -> Msgs \cup {NoMsg}] /\ mtime' \in [Paths -> Stamps]
    BY <1>1 DEF Deliver
  <2>2. dirtime' \in [Dirs -> Stamps] /\ changes' \in 0..MaxChanges /\ quiet' \in BOOLEAN
    BY <1>1, ChangeType DEF Deliver
  <2>3. missed' \subseteq Dirs /\ stale' \subseteq Dirs /\ unread' \subseteq Paths
    BY <1>1 DEF Deliver
  <2> QED
    BY <1>1, <2>1, <2>2, <2>3 DEF Deliver
<1>2. ASSUME NEW p \in Paths, Delete(p) PROVE IndexTypeOK'
  <2>1. dirtime' \in [Dirs -> Stamps] /\ changes' \in 0..MaxChanges /\ quiet' \in BOOLEAN
    BY <1>2, ChangeType DEF Delete
  <2> QED
    BY <1>2, <2>1 DEF Delete
<1>3. ASSUME NEW p \in Paths, NEW m \in Msgs, Edit(p, m) PROVE IndexTypeOK'
  <2>1. file' \in [Paths -> Msgs \cup {NoMsg}] /\ mtime' \in [Paths -> Stamps]
    BY <1>3 DEF Edit
  <2>2. changes' \in 0..MaxChanges
    BY <1>3 DEF Edit
  <2>3. stale' \subseteq Dirs /\ quiet' \in BOOLEAN
    BY <1>3 DEF Edit
  <2> QED
    BY <1>3, <2>1, <2>2, <2>3 DEF Edit
<1>4. CASE Tick
  BY <1>4 DEF Tick
<1>5. ASSUME NEW c \in Configs, Start(c) PROVE IndexTypeOK'
  BY <1>5 DEF Start
<1>6. ASSUME NEW d \in Dirs, EnterNewCur(d) PROVE IndexTypeOK'
  <2>1. work.stamps[d] \in Stamps
    BY DEF Databases
  <2> QED
    BY <1>6, <2>1 DEF EnterNewCur
<1>7. ASSUME NEW p \in Paths, HandleFile(p) \/ Pop(p) \/ WorkerAdds(p) PROVE IndexTypeOK'
  BY <1>7 DEF HandleFile, Pop, WorkerAdds, Doubts
<1>8. CASE LeaveDir \/ ScanEnds \/ Drained \/ Clean \/ Sweep \/ Removed
  BY <1>8 DEF LeaveDir, ScanEnds, Drained, Clean, Sweep, Removed, Goes, Doubts
<1>9. CASE JobCommit \/ Stop \/ Killed \/ Quits
  BY <1>9 DEF JobCommit, Stop, Killed, Quits, Goes, Doubts
<1>10. ASSUME NEW i \in Ids, Remove(i) PROVE IndexTypeOK'
  BY <1>10 DEF Remove, Doubts
<1>11. CASE Restarted \/ UNCHANGED allvars
  BY <1>11 DEF Restarted, allvars, ivars
<1> HIDE DEF IndexTypeOK, ivars
<1> QED
  BY <1>1, <1>2, <1>3, <1>4, <1>5, <1>6, <1>7, <1>8, <1>9, <1>10, <1>11 DEF IndexNext

(* Times are numbers. *)
LEMMA Times ==
  ASSUME IndexTypeOK
  PROVE  /\ \A d \in Dirs : /\ work.stamps[d] \in Nat /\ disk.stamps[d] \in Nat
                           /\ dirtime[d] \in Nat
         /\ clock \in Nat /\ statbuf \in Nat
         /\ \A p \in Paths : DirOf(p) \in Dirs
<1>1. work.stamps \in [Dirs -> Stamps] /\ disk.stamps \in [Dirs -> Stamps]
  BY DEF IndexTypeOK, TypeOK, Databases
<1> QED
  BY <1>1 DEF IndexTypeOK

----------------------------------------------------------------------------
(* The steps that leave the store alone: the maildir changes, the scan     *)
(* walks on, the phases of a job follow each other.                        *)

LEMMA DeliverKeeps ==
  ASSUME IndexTypeOK, LazyInv, NEW p \in Paths, NEW m \in Msgs, NEW t \in Stamps, Deliver(p, m, t)
  PROVE  LazyInv'
<1> USE DEF LazyInv, IndexTypeOK, TypeOK, maildir, walk, doubts, vars, Deliver,
        Change, Exists, Contained, Current, Pending, Doomed, Covered
<1>1. JobInv'
  BY DEF JobInv
<1>2. TimeInv'
  BY Times DEF TimeInv
<1>3. LastInv'
  BY DEF LastInv
<1>4. DoomedInv'
  BY Times DEF TimeInv, DoomedInv
<1>5. FoundInv'
  BY DEF FoundInv
<1>6. DirInv'
  BY DEF DirInv
<1>7. FileInv'
  BY DEF FileInv
<1> QED
  BY <1>1, <1>2, <1>3, <1>4, <1>5, <1>6, <1>7

LEMMA DeleteKeeps ==
  ASSUME IndexTypeOK, LazyInv, NEW p \in Paths, Delete(p)
  PROVE  LazyInv'
<1> USE DEF LazyInv, IndexTypeOK, TypeOK, maildir, walk, doubts, vars, Delete,
        Change, Exists, Contained, Current, Pending, Doomed, Covered
<1>1. JobInv'
  BY DEF JobInv
<1>2. TimeInv'
  BY Times DEF TimeInv
<1>3. LastInv'
  BY DEF LastInv
<1>4. DoomedInv'
  BY Times DEF TimeInv, DoomedInv
<1>5. FoundInv'
  BY DEF FoundInv
<1>6. DirInv'
  BY Times DEF TimeInv, DirInv
<1>7. FileInv'
  BY DEF FileInv
<1> QED
  BY <1>1, <1>2, <1>3, <1>4, <1>5, <1>6, <1>7

LEMMA EditKeeps ==
  ASSUME IndexTypeOK, LazyInv, NEW p \in Paths, NEW m \in Msgs, Edit(p, m)
  PROVE  LazyInv'
<1> USE DEF LazyInv, IndexTypeOK, TypeOK, maildir, walk, doubts, vars, Edit, Exists,
        Contained, Current, Pending, Doomed, Covered
<1>1. JobInv'
  BY DEF JobInv
<1>2. TimeInv'
  BY DEF TimeInv
<1>3. LastInv'
  BY DEF LastInv
<1>4. DoomedInv'
  BY DEF DoomedInv
<1>5. FoundInv'
  BY DEF FoundInv
<1>6. DirInv'
  BY DEF DirInv
<1>7. FileInv'
  BY DEF FileInv
<1> QED
  BY <1>1, <1>2, <1>3, <1>4, <1>5, <1>6, <1>7

LEMMA TickKeeps ==
  ASSUME IndexTypeOK, LazyInv, Tick
  PROVE  LazyInv'
<1> USE DEF LazyInv, IndexTypeOK, TypeOK, maildir, walk, doubts, vars, Tick, Exists,
        Contained, Current, Pending, Doomed, Covered
<1>1. JobInv'
  BY DEF JobInv
<1>2. TimeInv'
  BY Times DEF TimeInv
<1>3. LastInv'
  BY DEF LastInv
<1>4. DoomedInv'
  BY DEF DoomedInv
<1>5. FoundInv'
  BY DEF FoundInv
<1>6. DirInv'
  BY DEF DirInv
<1>7. FileInv'
  BY DEF FileInv
<1> QED
  BY <1>1, <1>2, <1>3, <1>4, <1>5, <1>6, <1>7

LEMMA StartKeeps ==
  ASSUME IndexTypeOK, LazyInv, NEW c \in Configs, Start(c)
  PROVE  LazyInv'
<1> USE DEF LazyInv, IndexTypeOK, TypeOK, maildir, walk, doubts, vars, Start,
        Exists, Contained, Current, Pending, Doomed, Covered
<1>1. JobInv'
  BY DEF JobInv
<1>2. TimeInv'
  BY DEF TimeInv
<1>3. LastInv'
  BY DEF LastInv
<1>4. DoomedInv'
  BY DEF JobInv, DoomedInv
<1>5. FoundInv'
  BY DEF FoundInv
<1>6. DirInv'
  BY DEF DirInv
<1>7. FileInv'
  BY DEF FileInv
<1> QED
  BY <1>1, <1>2, <1>3, <1>4, <1>5, <1>6, <1>7

LEMMA EnterNewCurKeeps ==
  ASSUME IndexTypeOK, LazyInv, NEW d \in Dirs, EnterNewCur(d)
  PROVE  LazyInv'
<1> USE DEF LazyInv, IndexTypeOK, TypeOK, maildir, walk, doubts, vars, EnterNewCur,
        Skips, Exists, Contained, Current, Pending, Doomed, Covered
<1>1. JobInv'
  BY DEF JobInv
<1>2. TimeInv'
  BY Times DEF TimeInv
<1>3. LastInv'
  BY DEF LastInv
<1>4. DoomedInv'
  BY DEF DoomedInv
<1>5. FoundInv'
  BY DEF JobInv, FoundInv
<1>6. DirInv'
  BY DEF DirInv
<1>7. FileInv'
  BY DEF FileInv
<1> QED
  BY <1>1, <1>2, <1>3, <1>4, <1>5, <1>6, <1>7

LEMMA HandleFileKeeps ==
  ASSUME IndexTypeOK, LazyInv, NEW p \in Paths, HandleFile(p)
  PROVE  LazyInv'
<1> USE DEF LazyInv, IndexTypeOK, TypeOK, maildir, walk, doubts, vars, HandleFile,
        UpToDate, Exists, Contained, Current, Pending, Doomed, Covered
<1>1. JobInv'
  BY DEF JobInv
<1>2. TimeInv'
  BY DEF TimeInv
<1>3. LastInv'
  BY DEF LastInv
<1>4. DoomedInv'
  BY DEF DoomedInv
<1>5. FoundInv'
  BY DEF FoundInv
<1>6. DirInv'
  BY DEF DirInv
<1>7. FileInv'
  BY DEF JobInv, FileInv
<1> QED
  BY <1>1, <1>2, <1>3, <1>4, <1>5, <1>6, <1>7

LEMMA PopKeeps ==
  ASSUME IndexTypeOK, LazyInv, NEW p \in Paths, Pop(p)
  PROVE  LazyInv'
<1> USE DEF LazyInv, IndexTypeOK, TypeOK, maildir, walk, doubts, vars, Pop, Exists,
        Contained, Current, Pending, Doomed, Covered
<1>1. JobInv'
  BY DEF JobInv
<1>2. TimeInv'
  BY DEF TimeInv
<1>3. LastInv'
  BY DEF LastInv
<1>4. DoomedInv'
  BY DEF DoomedInv
<1>5. FoundInv'
  BY DEF FoundInv
<1>6. DirInv'
  BY DEF DirInv
<1>7. FileInv'
  BY DEF FileInv
<1> QED
  BY <1>1, <1>2, <1>3, <1>4, <1>5, <1>6, <1>7

LEMMA ScanEndsKeeps ==
  ASSUME IndexTypeOK, LazyInv, ScanEnds
  PROVE  LazyInv'
<1> USE DEF LazyInv, IndexTypeOK, TypeOK, maildir, walk, doubts, vars, ScanEnds,
        Goes, Exists, Contained, Current, Pending, Doomed, Covered
<1>1. JobInv'
  BY DEF JobInv
<1>2. TimeInv'
  BY DEF TimeInv
<1>3. LastInv'
  BY DEF LastInv
<1>4. DoomedInv'
  BY DEF DoomedInv
<1>5. FoundInv'
  BY DEF JobInv, FoundInv
<1>6. DirInv'
  BY DEF DirInv
<1>7. FileInv'
  BY DEF FileInv
<1> QED
  BY <1>1, <1>2, <1>3, <1>4, <1>5, <1>6, <1>7

LEMMA DrainedKeeps ==
  ASSUME IndexTypeOK, LazyInv, Drained
  PROVE  LazyInv'
<1> USE DEF LazyInv, IndexTypeOK, TypeOK, maildir, walk, doubts, vars, Drained,
        Goes, Exists, Contained, Current, Pending, Doomed, Covered
<1>1. JobInv'
  BY DEF JobInv
<1>2. TimeInv'
  BY DEF TimeInv
<1>3. LastInv'
  BY DEF LastInv
<1>4. DoomedInv'
  BY DEF DoomedInv
<1>5. FoundInv'
  BY DEF FoundInv
<1>6. DirInv'
  BY DEF DirInv
<1>7. FileInv'
  BY DEF FileInv
<1> QED
  BY <1>1, <1>2, <1>3, <1>4, <1>5, <1>6, <1>7

LEMMA CleanKeeps ==
  ASSUME IndexTypeOK, LazyInv, Clean
  PROVE  LazyInv'
<1> USE DEF LazyInv, IndexTypeOK, TypeOK, maildir, walk, doubts, vars, Clean, Goes,
        Exists, Contained, Current, Pending, Doomed, Covered
<1>1. JobInv'
  BY DEF JobInv
<1>2. TimeInv'
  BY DEF TimeInv
<1>3. LastInv'
  BY DEF LastInv
<1>4. DoomedInv'
  BY DEF JobInv, LastInv, DoomedInv
<1>5. FoundInv'
  BY DEF FoundInv
<1>6. DirInv'
  BY DEF DirInv
<1>7. FileInv'
  BY DEF FileInv
<1> QED
  BY <1>1, <1>2, <1>3, <1>4, <1>5, <1>6, <1>7

LEMMA RemovedKeeps ==
  ASSUME IndexTypeOK, LazyInv, Removed
  PROVE  LazyInv'
<1> USE DEF LazyInv, IndexTypeOK, TypeOK, maildir, walk, doubts, vars, Removed,
        Goes, Exists, Contained, Current, Pending, Doomed, Covered
<1>1. JobInv'
  BY DEF JobInv
<1>2. TimeInv'
  BY DEF TimeInv
<1>3. LastInv'
  BY DEF LastInv
<1>4. DoomedInv'
  BY DEF DoomedInv
<1>5. FoundInv'
  BY DEF FoundInv
<1>6. DirInv'
  BY DEF DirInv
<1>7. FileInv'
  BY DEF FileInv
<1> QED
  BY <1>1, <1>2, <1>3, <1>4, <1>5, <1>6, <1>7

LEMMA StopKeeps ==
  ASSUME IndexTypeOK, LazyInv, Stop
  PROVE  LazyInv'
<1> USE DEF LazyInv, IndexTypeOK, TypeOK, maildir, walk, doubts, vars, Stop, Exists,
        Contained, Current, Pending, Doomed, Covered
<1>1. JobInv'
  BY DEF JobInv
<1>2. TimeInv'
  BY DEF TimeInv
<1>3. LastInv'
  BY DEF LastInv
<1>4. DoomedInv'
  BY DEF DoomedInv
<1>5. FoundInv'
  BY DEF FoundInv
<1>6. DirInv'
  BY DEF DirInv
<1>7. FileInv'
  BY DEF FileInv
<1> QED
  BY <1>1, <1>2, <1>3, <1>4, <1>5, <1>6, <1>7

----------------------------------------------------------------------------
(* The steps that use the store *)

(* A write does its work, or else it fails and drops what is not committed.*)
LEMMA WriteWorks ==
  ASSUME TypeOK, NEW w, NEW n, NEW count, Count(count, w, n) \/ Commit(w, n)
  PROVE  IF faults' = faults THEN work' = w /\ disk' \in {disk, w}
         ELSE work' = disk /\ disk' = disk
<1>1. WriteFails => faults' # faults /\ work' = disk
  BY DEF WriteFails, Fault, TypeOK
<1> QED
  BY <1>1 DEF Count, Commit, CommitTransaction

(* Some document has the least id. *)
LEMMA FirstOfThem ==
  ASSUME NEW same, same \subseteq Ids, same # {}
  PROVE  \E i \in same : \A j \in same : i <= j
<1>1. same \subseteq Nat
  BY DEF Ids
<1>2. PICK i \in same : \A j \in same : <<j, i>> \notin OpToRel(<, Nat)
  BY <1>1, NatLessThanWellFounded, WFMin
<1>3. \A j \in same : ~(j < i)
  BY <1>1, <1>2 DEF OpToRel
<1> QED
  BY <1>1, <1>3

(* replace_document(term): p has one document then, under an id that it    *)
(* had or that is new, and no other file loses one.                        *)
LEMMA ReplaceDoes ==
  ASSUME NEW w \in Databases, NEW p \in Paths, NEW m, ~Exhausted(w, p),
         NEW r, r = ReplaceByPath(w, p, m)
  PROVE  /\ r.stamps = w.stamps
         /\ \E id \in Ids :
              /\ r.docs = [i \in Ids |-> IF i = id THEN [path |-> p, msg |-> m]
                                         ELSE IF i \in WithPath(w, p) THEN NoDoc
                                         ELSE w.docs[i]]
              /\ \/ id \in WithPath(w, p) /\ r.last = w.last
                 \/ WithPath(w, p) = {} /\ id = w.last + 1 /\ r.last = id
<1> DEFINE same == WithPath(w, p)
           id == IF same = {} THEN w.last + 1
                 ELSE CHOOSE i \in same : \A j \in same : i <= j
<1>1. /\ r.stamps = w.stamps
      /\ r.docs = [i \in Ids |-> IF i = id THEN [path |-> p, msg |-> m]
                                 ELSE IF i \in same THEN NoDoc ELSE w.docs[i]]
      /\ r.last = IF same = {} THEN id ELSE w.last
  BY DEF ReplaceByPath, Databases
<1>2. same \subseteq Ids
  BY DEF WithPath
<1>3. CASE same = {}
  <2>1. id = w.last + 1 /\ w.last \in 0..MaxId /\ w.last # MaxId
    BY <1>3 DEF Exhausted, Databases
  <2>2. id \in Ids
    BY <2>1 DEF Ids
  <2> QED
    BY <1>1, <1>3, <2>1, <2>2
<1>4. CASE same # {}
  <2>1. id \in same
    BY <1>2, <1>4, FirstOfThem
  <2> HIDE DEF id
  <2> QED
    BY <1>1, <1>2, <1>4, <2>1
<1> QED
  BY <1>3, <1>4

(* The other parts of a database do not matter to what it has of a path. *)
LEMMA SamePaths == \A v, w : v.docs = w.docs => \A p : WithPath(v, p) = WithPath(w, p)
  BY DEF WithPath

LEMMA LeaveDirKeeps ==
  ASSUME IndexTypeOK, LazyInv, LeaveDir, faults' = faults
  PROVE  LazyInv'
<1> DEFINE w == [work EXCEPT !.stamps[here] = statbuf]
<1>a. work' = w /\ disk' \in {disk, w}
  BY WriteWorks DEF LeaveDir, SetDirstamp, Dirty, IndexTypeOK
<1>b. /\ here \in Dirs
      /\ w.docs = work.docs /\ w.last = work.last
      /\ w.stamps = [work.stamps EXCEPT ![here] = statbuf]
      /\ work.stamps \in [Dirs -> Stamps]
  BY DEF LeaveDir, IndexTypeOK, TypeOK, Databases
<1>c. \A p : WithPath(w, p) = WithPath(work, p)
  BY <1>b, SamePaths
<1> HIDE DEF w
<1> USE DEF LazyInv, IndexTypeOK, TypeOK, maildir, walk, doubts, vars, LeaveDir,
        Doubts, SetDirstamp, Exists, Contained, Current, Pending, Doomed, Locked
<1>1. JobInv'
  BY <1>a, <1>b, <1>c, Times DEF JobInv
<1>2. TimeInv'
  BY <1>a, <1>b, <1>c, Times DEF TimeInv
<1>3. LastInv'
  BY <1>a, <1>b, <1>c, Times DEF LastInv
<1>4. DoomedInv'
  BY <1>a, <1>b, <1>c, Times DEF DoomedInv, JobInv
<1>5. FoundInv'
  BY <1>a, <1>b, <1>c, Times DEF FoundInv, JobInv
<1>6. DirInv'
  BY <1>a, <1>b, <1>c, Times DEF DirInv, JobInv
<1>7. FileInv'
  BY <1>a, <1>b, <1>c, Times DEF FileInv, JobInv
<1> QED
  BY <1>1, <1>2, <1>3, <1>4, <1>5, <1>6, <1>7

LEMMA WorkerAddsKeeps ==
  ASSUME IndexTypeOK, LazyInv, NEW p \in Paths, WorkerAdds(p), faults' = faults
  PROVE  LazyInv'
<1> DEFINE m == file[p]
           w == ReplaceByPath(work, p, m)
<1> SUFFICES ASSUME Exists(p), AddMessage(p, m) PROVE LazyInv'
  <2>1. CASE ~Exists(p)
    BY <2>1 DEF LazyInv, IndexTypeOK, TypeOK, maildir, walk, doubts, vars, WorkerAdds, Doubts, Exists, Contained, Current,
       Pending, Doomed, JobInv, TimeInv, LastInv, DoomedInv, FoundInv, DirInv, FileInv
  <2> QED
    BY <2>1 DEF WorkerAdds
<1>a. work' = w /\ disk' \in {disk, w} /\ removing = {} /\ removing' = {}
  BY WriteWorks DEF AddMessage, Dirty, IndexTypeOK, Locked, TypeOK, WriteFails, Fault
<1>b. PICK id \in Ids :
        /\ w.stamps = work.stamps
        /\ w.docs = [i \in Ids |-> IF i = id THEN [path |-> p, msg |-> m]
                                   ELSE IF i \in WithPath(work, p) THEN NoDoc
                                   ELSE work.docs[i]]
        /\ \/ id \in WithPath(work, p) /\ w.last = work.last
           \/ WithPath(work, p) = {} /\ id = work.last + 1 /\ w.last = id
  <2>1. work \in Databases /\ ~Exhausted(work, p) /\ w = ReplaceByPath(work, p, m)
    BY DEF AddMessage, IndexTypeOK, TypeOK
  <2> HIDE DEF w, m
  <2> QED
    BY <2>1, ReplaceDoes
<1> HIDE DEF w
<1>c. [path |-> p, msg |-> m] # NoDoc
  BY DEF IndexTypeOK, Exists, Docs
<1>d. WithPath(w, p) = {id} /\ w.docs[id].msg = m
  BY <1>b, <1>c DEF WithPath
<1>e. work.last \in Nat /\ w.last \in Nat /\ work.last <= w.last /\ id <= w.last
      /\ (id <= work.last => id \in WithPath(work, p))
  BY <1>b DEF Ids, LazyInv, LastInv, WithPath, IndexTypeOK, TypeOK, Databases
<1>g. \A i \in Ids : i <= work.last => i <= w.last
  BY <1>e DEF Ids
<1>i. id \in WithPath(work, p) \/ work.docs[id] = NoDoc
  BY <1>b, <1>e DEF LazyInv, LastInv
<1>h. \A i \in Ids : w.docs[i] # NoDoc => i = id \/ w.docs[i] = work.docs[i]
  BY <1>b
<1>f. \A q : q # p => WithPath(w, q) = WithPath(work, q)
              /\ \A i \in WithPath(w, q) : w.docs[i] = work.docs[i]
  BY <1>b, <1>c, <1>e DEF LazyInv, LastInv, WithPath
<1> USE DEF LazyInv, IndexTypeOK, TypeOK, maildir, walk, doubts, vars, WorkerAdds,
        Doubts, AddMessage, Exists, Contained, Current, Pending, Doomed, Locked
<1>1. JobInv'
  BY <1>a, <1>b, <1>c, <1>d, <1>e, <1>f DEF JobInv
<1>2. TimeInv'
  BY <1>a, <1>b, <1>c, <1>d, <1>e, <1>f DEF TimeInv
<1>3. LastInv'
  <2>1. \A i \in Ids : w.docs[i] # NoDoc => i <= w.last
    BY <1>b, <1>e DEF LastInv, Ids
  <2> QED
    BY <1>a, <2>1 DEF LastInv
<1>4. DoomedInv'
  <2>1. ~cut => \A i \in orphans :
          /\ i \in Ids /\ i <= work.last
          /\ i = id \/ i \in WithPath(work, p) => work.docs[i] # NoDoc /\ work.docs[i].path = p
    BY <1>a, <1>e DEF DoomedInv, WithPath
  <2>2. ~cut => \A i \in orphans : i <= w.last
    BY <2>1, <1>g
  <2>3. ~cut => \A i \in orphans : w.docs[i] # NoDoc =>
          work.docs[i] # NoDoc /\ w.docs[i].path = work.docs[i].path
    BY <2>1, <1>b, <1>h
  <2>4. quiet => \A i \in orphans : w.docs[i] = work.docs[i]
    BY <1>a, <1>b, <1>i DEF DoomedInv, WithPath
  <2>5. \A i \in Ids : w.docs[i] # NoDoc /\ ~Exists(w.docs[i].path) => w.docs[i] = work.docs[i]
    BY <1>b
  <2> QED
    BY <1>a, <1>b, <2>1, <2>2, <2>3, <2>4, <2>5 DEF DoomedInv
<1>5. FoundInv'
  BY <1>a, <1>b, <1>c, <1>d, <1>e, <1>f DEF FoundInv
<1>6. DirInv'
  BY <1>a, <1>b, <1>c, <1>d, <1>e, <1>f DEF DirInv
<1>7. FileInv'
  BY <1>a, <1>b, <1>c, <1>d, <1>e, <1>f DEF FileInv
<1> QED
  BY <1>1, <1>2, <1>3, <1>4, <1>5, <1>6, <1>7

LEMMA SweepKeeps ==
  ASSUME IndexTypeOK, LazyInv, Sweep
  PROVE  LazyInv'
<1> USE DEF LazyInv, IndexTypeOK, TypeOK, maildir, walk, doubts, vars, Sweep,
        RemoveMessages, Goes, Exists, Contained, Current, Pending, Doomed, Locked
<1>1. JobInv'
  BY DEF JobInv
<1>2. TimeInv'
  BY DEF TimeInv
<1>3. LastInv'
  BY DEF LastInv
<1>4. DoomedInv'
  BY DEF DoomedInv, JobInv
<1>5. FoundInv'
  BY DEF FoundInv
<1>6. DirInv'
  BY DEF DirInv
<1>7. FileInv'
  BY DEF FileInv
<1> QED
  BY <1>1, <1>2, <1>3, <1>4, <1>5, <1>6, <1>7

LEMMA RemoveKeeps ==
  ASSUME IndexTypeOK, LazyInv, NEW i \in Ids, Remove(i), faults' = faults
  PROVE  LazyInv'
<1> DEFINE w == Without(work, {i})
<1>a. \/ /\ work.docs[i] # NoDoc
         /\ work' = w /\ disk' \in {disk, w} /\ removing' = removing \ {i}
      \/ /\ work.docs[i] = NoDoc
         /\ work' = work /\ disk' = disk /\ removing' = {}
  BY WriteWorks DEF Remove, RemoveNext, Dirty, IndexTypeOK, TypeOK, WriteFails, Fault
<1>b. /\ w.stamps = work.stamps /\ w.last = work.last
      /\ w.docs = [j \in Ids |-> IF j = i THEN NoDoc ELSE work.docs[j]]
  BY DEF Without, IndexTypeOK, TypeOK, Databases
<1> HIDE DEF w
<1>c. \A q : WithPath(w, q) = WithPath(work, q) \ {i}
  BY <1>b DEF WithPath
<1>d. i \in removing /\ job = "remove" /\ here = NoDir
  BY DEF Remove, RemoveNext, LazyInv, JobInv
<1> USE DEF LazyInv, IndexTypeOK, TypeOK, maildir, walk, doubts, vars, Remove,
        Doubts, RemoveNext, ivars, Exists, Contained, Current, Pending, Doomed,
        Locked
<1>1. JobInv'
  BY <1>a, <1>b, <1>c, <1>d DEF JobInv
<1>2. TimeInv'
  BY <1>a, <1>b, <1>c, <1>d DEF TimeInv
<1>3. LastInv'
  BY <1>a, <1>b, <1>c, <1>d DEF LastInv
<1>4. DoomedInv'
  <2>1. \A j \in Ids : w.docs[j] # NoDoc => j # i /\ w.docs[j] = work.docs[j]
    BY <1>b
  <2>2. \A j \in removing : j # i => w.docs[j] = work.docs[j]
    BY <1>b
  <2>3. orphans = {} /\ i \in Doomed
    BY <1>d DEF JobInv
  <2>4. CASE work.docs[i] # NoDoc
    BY <1>a, <1>b, <1>d, <2>1, <2>2, <2>3, <2>4 DEF DoomedInv
  <2>5. CASE work.docs[i] = NoDoc
    <3>1. ~quiet
      BY <2>3, <2>5 DEF DoomedInv
    <3> QED
      BY <1>a, <2>3, <2>5, <3>1 DEF DoomedInv
  <2> QED
    BY <2>4, <2>5
<1>5. FoundInv'
  <2>1. quiet => \A q \in Paths : Exists(q) => i \notin WithPath(work, q)
    BY <1>d DEF DoomedInv, WithPath
  <2>2. \A q \in Paths : WithPath(work, q) # {} /\ i \notin WithPath(work, q) => WithPath(w, q) # {}
    BY <1>c
  <2> QED
    BY <1>a, <1>d, <2>1, <2>2 DEF FoundInv
<1>6. DirInv'
  <2>1. ASSUME NEW q \in Paths, Exists(q), DirOf(q) \notin missed, i \in WithPath(work, q)
        PROVE  cut \/ work.stamps[DirOf(q)] # dirtime[DirOf(q)]
    BY <1>d, <2>1, Times DEF DoomedInv, WithPath
  <2>2. \A q \in Paths : WithPath(work, q) # {} /\ i \notin WithPath(work, q) => WithPath(w, q) # {}
    BY <1>c
  <2> QED
    BY <1>a, <1>b, <1>d, <2>1, <2>2 DEF DirInv
<1>7. FileInv'
  <2>1. \A q : \A j \in WithPath(w, q) : j \in WithPath(work, q) /\ w.docs[j] = work.docs[j]
    BY <1>b, <1>c DEF WithPath
  <2> QED
    BY <1>a, <1>b, <1>d, <2>1 DEF FileInv
<1> QED
  BY <1>1, <1>2, <1>3, <1>4, <1>5, <1>6, <1>7

LEMMA JobCommitKeeps ==
  ASSUME IndexTypeOK, LazyInv, JobCommit, faults' = faults
  PROVE  LazyInv'
<1>a. work' = work /\ disk' \in {disk, work} /\ removing = {} /\ removing' = {}
  BY WriteWorks DEF JobCommit, StoreCommit, Locked, IndexTypeOK
<1> USE DEF LazyInv, IndexTypeOK, TypeOK, maildir, walk, doubts, vars, JobCommit,
        Doubts, StoreCommit, Goes, Exists, Contained, Current, Pending, Doomed,
        Locked
<1>1. JobInv'
  BY <1>a DEF JobInv
<1>2. TimeInv'
  BY <1>a DEF TimeInv
<1>3. LastInv'
  BY <1>a DEF LastInv
<1>4. DoomedInv'
  BY <1>a DEF DoomedInv, JobInv
<1>5. FoundInv'
  BY <1>a DEF FoundInv
<1>6. DirInv'
  BY <1>a DEF DirInv, FoundInv, JobInv
<1>7. FileInv'
  BY <1>a DEF FileInv
<1> QED
  BY <1>1, <1>2, <1>3, <1>4, <1>5, <1>6, <1>7

LEMMA KilledKeeps ==
  ASSUME IndexTypeOK, LazyInv, Killed
  PROVE  LazyInv'
<1> USE DEF LazyInv, IndexTypeOK, TypeOK, maildir, walk, doubts, vars, Killed,
        Crash, Gone, Exists, Contained, Current, Pending, Doomed, Locked
<1>1. JobInv'
  BY DEF JobInv
<1>2. TimeInv'
  BY DEF TimeInv
<1>3. LastInv'
  BY DEF LastInv
<1>4. DoomedInv'
  BY DEF DoomedInv
<1>5. FoundInv'
  BY DEF FoundInv
<1>6. DirInv'
  BY DEF DirInv, JobInv
<1>7. FileInv'
  BY DEF FileInv, JobInv
<1> QED
  BY <1>1, <1>2, <1>3, <1>4, <1>5, <1>6, <1>7

LEMMA QuitsKeeps ==
  ASSUME IndexTypeOK, LazyInv, Restarted \/ Quits, faults' = faults
  PROVE  LazyInv'
<1>a. /\ work'.docs = work.docs /\ work'.stamps = work.stamps /\ work'.last = work.last
      /\ disk' \in {disk, work'} /\ removing' = removing
  <2>1. [work EXCEPT !.contacts = contacts].docs = work.docs
        /\ [work EXCEPT !.contacts = contacts].stamps = work.stamps
        /\ [work EXCEPT !.contacts = contacts].last = work.last
    BY DEF IndexTypeOK, TypeOK, Databases
  <2>2. CASE Restarted
    BY <2>2 DEF Restarted, Open
  <2>3. CASE Quits
    <3>1. ~Fault
      BY DEF Fault, IndexTypeOK, TypeOK
    <3> QED
      BY <2>1, <2>3, <3>1 DEF Quits, Close, Gone
  <2> QED
    BY <2>2, <2>3
<1>b. \A p : WithPath(work', p) = WithPath(work, p)
  BY <1>a, SamePaths
<1>c. UNCHANGED ivars
  BY DEF Restarted, Quits, Doubts, ivars
<1> USE DEF LazyInv, IndexTypeOK, TypeOK, maildir, walk, doubts, vars, ivars,
        Exists, Contained, Current, Pending, Doomed, Locked
<1>1. JobInv'
  BY <1>a, <1>b, <1>c DEF JobInv
<1>2. TimeInv'
  BY <1>a, <1>b, <1>c DEF TimeInv
<1>3. LastInv'
  BY <1>a, <1>b, <1>c DEF LastInv
<1>4. DoomedInv'
  BY <1>a, <1>b, <1>c DEF DoomedInv
<1>5. FoundInv'
  BY <1>a, <1>b, <1>c DEF FoundInv
<1>6. DirInv'
  BY <1>a, <1>b, <1>c DEF DirInv
<1>7. FileInv'
  BY <1>a, <1>b, <1>c DEF FileInv
<1> QED
  BY <1>1, <1>2, <1>3, <1>4, <1>5, <1>6, <1>7

----------------------------------------------------------------------------
LEMMA IndexStarts == IndexInit => IndexTypeOK /\ LazyInv
<1> SUFFICES ASSUME IndexInit PROVE IndexTypeOK /\ LazyInv
  OBVIOUS
<1>1. TypeOK
  BY TypeInit DEF IndexInit
<1>3. IndexTypeOK
  <2>1. jobs \in 0..MaxJobs /\ changes \in 0..MaxChanges
    BY DEF IndexInit
  <2>2. conf \in Configs /\ quiet \in BOOLEAN /\ cut \in BOOLEAN /\ running \in BOOLEAN
    BY DEF IndexInit, Configs
  <2> QED
    BY <1>1, <2>1, <2>2 DEF IndexTypeOK, IndexInit
<1>2. LazyInv
  BY DEF IndexInit, Init, Empty, LazyInv, JobInv, TimeInv, LastInv, DoomedInv, Doomed, FoundInv, DirInv,
     FileInv, Exists
<1> QED
  BY <1>2, <1>3

(* What a failed write leaves is what the disk had, and every doubt. *)
LEMMA FailureKeeps ==
  ASSUME IndexTypeOK, LazyInv, IndexNext, faults' # faults
  PROVE  LazyInv'
<1>1. \/ LeaveDir \/ JobCommit \/ Quits
      \/ \E p \in Paths : WorkerAdds(p) /\ Exists(p)
      \/ \E i \in Ids : Remove(i)
  BY DEF IndexNext, vars, Deliver, Delete, Edit, Tick, Start, EnterNewCur, HandleFile, Pop, ScanEnds,
     Drained, Clean, Sweep, RemoveMessages, Removed, Stop, Killed, Crash, Restarted, Open, WorkerAdds
<1>2. work' = disk /\ disk' = disk
  <2>1. ASSUME NEW p \in Paths, AddMessage(p, file[p]) PROVE work' = disk /\ disk' = disk
    BY <2>1, WriteWorks DEF AddMessage, Dirty, WriteFails, IndexTypeOK
  <2>2. ASSUME NEW i \in Ids, Remove(i) PROVE work' = disk /\ disk' = disk
    BY <2>2, WriteWorks DEF Remove, RemoveNext, Dirty, WriteFails, IndexTypeOK
  <2>3. CASE LeaveDir \/ JobCommit
    BY <2>3, WriteWorks DEF LeaveDir, JobCommit, SetDirstamp, StoreCommit, Dirty, IndexTypeOK
  <2>4. CASE Quits
    BY <2>4 DEF Quits, Close, Gone
  <2> QED
    BY <1>1, <2>1, <2>2, <2>3, <2>4 DEF WorkerAdds
<1>3. ~quiet' /\ cut' /\ stale' = Dirs /\ UNCHANGED missed
  BY <1>1 DEF LeaveDir, JobCommit, Quits, WorkerAdds, Remove, Doubts
<1>4. /\ UNCHANGED maildir
      /\ here' = NoDir \/ UNCHANGED <<here, statbuf>>
  BY <1>1 DEF LeaveDir, JobCommit, Goes, Quits, WorkerAdds, Remove, walk
<1>5. JobInv'
  <2>1. CASE LeaveDir
    BY <1>3, <2>1 DEF LeaveDir, SetDirstamp, LazyInv, JobInv
  <2>2. CASE JobCommit
    BY <1>3, <2>2 DEF JobCommit, StoreCommit, Locked, Goes, walk, LazyInv, JobInv
  <2>3. CASE Quits
    BY <1>3, <2>3 DEF Quits, Close, Gone, walk, LazyInv, JobInv
  <2>4. CASE \E p \in Paths : WorkerAdds(p) /\ Exists(p)
    BY <1>3, <2>4 DEF WorkerAdds, AddMessage, walk, LazyInv, JobInv
  <2>5. CASE \E i \in Ids : Remove(i)
    BY <1>3, <2>5 DEF Remove, RemoveNext, walk, LazyInv, JobInv
  <2> QED
    BY <1>1, <2>1, <2>2, <2>3, <2>4, <2>5
<1>6. TimeInv' /\ LastInv'
  BY <1>2, <1>4 DEF maildir, LazyInv, TimeInv, LastInv
<1>7. DoomedInv' /\ FoundInv' /\ DirInv' /\ FileInv'
  <2>1. \A p \in Paths : DirOf(p) \in stale'
    BY <1>3 DEF LazyIndexAssumption
  <2> QED
    BY <1>3, <2>1 DEF DoomedInv, FoundInv, DirInv, FileInv
<1> QED
  BY <1>5, <1>6, <1>7 DEF LazyInv

LEMMA LazyStep == IndexTypeOK /\ LazyInv /\ [IndexNext]_allvars => LazyInv'
<1> SUFFICES ASSUME IndexTypeOK, LazyInv, [IndexNext]_allvars PROVE LazyInv'
  OBVIOUS
<1>1. CASE UNCHANGED allvars
  BY <1>1 DEF allvars, ivars, maildir, walk, doubts, vars, LazyInv, JobInv, TimeInv, LastInv, DoomedInv,
     Doomed, FoundInv, DirInv, FileInv, Exists, Contained, Current, Pending
<1>2. CASE IndexNext /\ faults' # faults
  BY <1>2, FailureKeeps
<1>3. CASE IndexNext /\ faults' = faults
  <2>1. ASSUME NEW p \in Paths, NEW m \in Msgs, NEW t \in Stamps, Deliver(p, m, t) PROVE LazyInv'
    BY <1>3, <2>1, DeliverKeeps
  <2>2. ASSUME NEW p \in Paths, Delete(p) PROVE LazyInv'
    BY <1>3, <2>2, DeleteKeeps
  <2>3. ASSUME NEW p \in Paths, NEW m \in Msgs, Edit(p, m) PROVE LazyInv'
    BY <1>3, <2>3, EditKeeps
  <2>4. ASSUME NEW c \in Configs, Start(c) PROVE LazyInv'
    BY <1>3, <2>4, StartKeeps
  <2>5. ASSUME NEW d \in Dirs, EnterNewCur(d) PROVE LazyInv'
    BY <1>3, <2>5, EnterNewCurKeeps
  <2>6. ASSUME NEW p \in Paths, HandleFile(p) \/ Pop(p) \/ WorkerAdds(p) PROVE LazyInv'
    BY <1>3, <2>6, HandleFileKeeps, PopKeeps, WorkerAddsKeeps
  <2>7. ASSUME NEW i \in Ids, Remove(i) PROVE LazyInv'
    BY <1>3, <2>7, RemoveKeeps
  <2>8. CASE Tick \/ LeaveDir \/ ScanEnds \/ Drained \/ Clean \/ Sweep \/ Removed
    BY <1>3, <2>8, TickKeeps, LeaveDirKeeps, ScanEndsKeeps, DrainedKeeps, CleanKeeps, SweepKeeps, RemovedKeeps
  <2>9. CASE JobCommit \/ Stop \/ Killed \/ Restarted \/ Quits
    BY <1>3, <2>9, JobCommitKeeps, StopKeeps, KilledKeeps, QuitsKeeps
  <2> QED
    BY <1>3, <2>1, <2>2, <2>3, <2>4, <2>5, <2>6, <2>7, <2>8, <2>9 DEF IndexNext
<1> QED
  BY <1>1, <1>2, <1>3

(* The variables of the jobs, the maildir and the store always hold what   *)
(* they should, whatever interleaves, stops or kills a job (mu-indexer.cc, *)
(* mu-scanner.cc).                                                         *)
THEOREM IndexTypeCorrect == IndexSpec => []IndexTypeOK
<1>1. IndexInit => IndexTypeOK
  BY IndexStarts
<1>2. IndexTypeOK /\ [IndexNext]_allvars => IndexTypeOK'
  BY IndexTypeStep
<1> QED
  BY <1>1, <1>2, PTL DEF IndexSpec

(* Indexing uses the store as Store says it is to be used, so that all that *)
(* the store promises holds while jobs run: a crash takes a batch at most,  *)
(* and no file gets two documents (mu-indexer.cc on mu-store.cc).           *)
THEOREM IndexingUsesStore == IndexSpec => Spec /\ [](BoundedLoss /\ OneDocumentPerPath)
<1>1. IndexInit => Init
  BY DEF IndexInit
<1>2. IndexTypeOK /\ [IndexNext]_allvars => [Next]_vars
  BY StoreStep
<1>3. IndexSpec => Spec
  BY <1>1, <1>2, IndexTypeCorrect, PTL DEF IndexSpec, Spec
<1> QED
  BY <1>3, LossBounded, DocumentsUnique, PTL

LEMMA IndexInvariant == IndexSpec => [](IndexTypeOK /\ LazyInv)
<1>1. IndexInit => IndexTypeOK /\ LazyInv
  BY IndexStarts
<1>2. (IndexTypeOK /\ LazyInv) /\ [IndexNext]_allvars => (IndexTypeOK /\ LazyInv)'
  BY IndexTypeStep, LazyStep
<1> QED
  BY <1>1, <1>2, PTL DEF IndexSpec

(* For any maildir and any history of jobs that were stopped, killed or    *)
(* lazy: a whole job during which nothing changes leaves in the store      *)
(* every message that there is and, with a cleanup, no other (handler()    *)
(* and cleanup()).                                                         *)
THEOREM WholeJobFinds == IndexSpec => []WholeJobFindsAll
<1>1. IndexTypeOK /\ LazyInv => WholeJobFindsAll
  <2> SUFFICES ASSUME IndexTypeOK, LazyInv, AtRest, quiet, ~conf.lazy, NEW p \in Paths
               PROVE  /\ Exists(p) => Contained(p)
                      /\ conf.cleanup /\ Contained(p) => Exists(p)
    BY DEF WholeJobFindsAll
  <2>1. job = "idle" /\ hand = {} /\ fq = {} /\ Doomed = {}
    BY DEF AtRest, LazyInv, JobInv, Doomed
  <2>2. Exists(p) => Contained(p)
    BY <2>1 DEF LazyInv, FoundInv, Pending
  <2>3. ASSUME conf.cleanup, Contained(p) PROVE Exists(p)
    BY <2>1, <2>3 DEF LazyInv, DoomedInv, Contained, WithPath
  <2> QED
    BY <2>2, <2>3
<1> QED
  BY <1>1, IndexInvariant, PTL

(* For any maildir and any history of jobs: a dirstamp that is the time of *)
(* its directory, or not before that of a message, means what the lazy     *)
(* check takes it to mean, but for the changes it cannot see (EnterNewCur, *)
(* LeaveDir and File in handler()).                                        *)
THEOREM LazyCheckIsSound == IndexSpec => []LazyCheckSound
<1>1. IndexTypeOK /\ LazyInv => LazyCheckSound
  <2> SUFFICES ASSUME LazyInv, AtRest PROVE LazyCheckSound
    BY DEF LazyCheckSound
  <2>1. \A p : ~Pending(p)
    BY DEF AtRest, LazyInv, JobInv, Pending
  <2> QED
    BY <2>1 DEF LazyInv, DirInv, FileInv, LazyCheckSound, Current
<1> QED
  BY <1>1, IndexInvariant, PTL
=============================================================================
