----------------------------- MODULE Mu4eProofs -----------------------------
(***************************************************************************)
(* Theorems about mu4e and the server behind it, for any messages, any     *)
(* number of commands and of changes by other programs: what the headers   *)
(* show, and what moving and marking do to the flags of a message.         *)
(***************************************************************************)
EXTENDS Mu4e, SequenceTheorems, FiniteSetTheorems, WellFoundedInduction, TLAPS

(* A reply about a message has its id, and its path if it has one. *)
Told == {r \in Replies :
           /\ r.is \in {"header", "update", "remove", "sent"} => r.id \in Ids
           /\ r.is \in {"header", "update", "sent"} => r.path \in Paths}

(* The messages that a command has yet to change are in the store, and     *)
(* those with the message-id of the one being viewed that it need not      *)
(* change are read.                                                        *)
TaskInv ==
  /\ task.do \in {"mark", "move"} => task.ids \subseteq Found
  /\ task.do = "mark" =>
       /\ task.id \in Found /\ task.delta = ReadDelta
       /\ \A j \in WithMsgid(MsgidOf[docs[task.id].name]) : j \in task.ids \/ IsRead(docs[j])

(* Ids that were never given out have no document. *)
LastInv == \A i \in Found : i <= last

(* Point is on a header that there is, or below the last. *)
PointInv == point = 0 \/ point \in Shown

TypeInv ==
  /\ TypeOK
  /\ buf \in Seq(Told) /\ outbox \in Seq(Told)
  /\ TaskInv /\ LastInv /\ PointInv

USE MaildirAssumption, ServerAssumption, Mu4eAssumption
----------------------------------------------------------------------------
(* Names of files *)

LEMMA NewPathIs ==
  ASSUME NEW p \in Paths, NEW dir \in Maildirs, NEW flags
  PROVE  NewPath(p, dir, flags) \in Paths /\ NewPath(p, dir, flags).name = p.name
BY DEF NewPath, Paths

(* A change of flags takes no others than it says. *)
LEMMA NewPathKeeps ==
  ASSUME NEW p \in Paths, NEW dir \in Maildirs, NEW delta \in Deltas
  PROVE  FlagsFromPath(p) \ delta.minus
           \subseteq FlagsFromPath(NewPath(p, dir, FromDelta(delta, FlagsFromPath(p))))
<1> DEFINE flags == FromDelta(delta, FlagsFromPath(p))
<1>1. CASE "N" \in flags
  <2>1. p.sub = "new"
    BY <1>1 DEF FromDelta, FlagsFromPath, Paths, Deltas
  <2> QED
    BY <1>1, <2>1 DEF FlagsFromPath, NewPath, Paths
<1>2. CASE "N" \notin flags
  <2>1. FlagsFromPath(NewPath(p, dir, flags)) = flags \cap FileFlags
    BY <1>2 DEF FlagsFromPath, NewPath, Paths
  <2>2. FlagsFromPath(p) \ delta.minus \subseteq flags \cap FileFlags
    BY <1>2 DEF FromDelta, FlagsFromPath, Paths
  <2> QED
    BY <2>1, <2>2
<1> QED
  BY <1>1, <1>2

LEMMA NewPathIsRead ==
  ASSUME NEW p \in Paths, NEW dir \in Maildirs
  PROVE  IsRead(NewPath(p, dir, FromDelta(ReadDelta, FlagsFromPath(p))))
<1> DEFINE flags == FromDelta(ReadDelta, FlagsFromPath(p))
           q == NewPath(p, dir, flags)
<1>1. "N" \notin flags /\ "S" \in flags
  BY DEF FromDelta, ReadDelta, Delta
<1>2. q.sub = "cur" /\ q.flags = flags \cap FileFlags /\ q.name \in Names
  BY <1>1 DEF NewPath, Paths
<1>3. "S" \in q.flags /\ "N" \notin q.flags /\ "u" \notin q.flags
  BY <1>1, <1>2
<1> HIDE DEF q
<1>4. "N" \notin ContentFlags[q.name] /\ "u" \notin ContentFlags[q.name]
  BY <1>2
<1>5. FlagsFromPath(q) = q.flags
  BY <1>2 DEF FlagsFromPath
<1>6. MessageFlags(q) = q.flags \cup ContentFlags[q.name]
  BY <1>3, <1>4, <1>5 DEF MessageFlags
<1>7. IsRead(q)
  BY <1>3, <1>4, <1>6 DEF IsRead
<1> QED
  BY <1>7 DEF q

LEMMA MarkedIsRead == \A i \in Found : Marked(i) => IsRead(docs[i])
BY DEF Marked, IsRead, FromDelta, ReadDelta, Delta

LEMMA TargetIs ==
  ASSUME TypeOK, NEW i \in Found, NEW dir \in Maildirs \cup {None}, NEW flags
  PROVE  /\ Target(i, dir, flags) \in Paths /\ docs[i] \in Paths
         /\ Target(i, dir, flags).name = docs[i].name
         /\ \E d \in Maildirs : Target(i, dir, flags) = NewPath(docs[i], d, flags)
<1>1. docs[i] \in Paths
  BY DEF TypeOK, ServerTypeOK, Found
<1>2. PICK d \in Maildirs : d = IF dir = None THEN docs[i].dir ELSE dir
  BY <1>1 DEF Paths
<1> QED
  BY <1>1, <1>2, NewPathIs DEF Target
----------------------------------------------------------------------------
(* What the server does keeps its variables what they should be, and it    *)
(* says nothing of headers but in answer to a find.                        *)

Silent(r) == r \in Seq(Told) /\ \A k \in 1..Len(r) : r[k].is # "header"

(* What changes of the documents when messages are moved *)
Renames ==
  /\ docs' \in [Ids -> Paths \cup {None}]
  /\ \A j \in Ids : /\ docs'[j] = None <=> docs[j] = None
                    /\ docs[j] # None => docs'[j].name = docs[j].name

LEMMA SayOne ==
  ASSUME NEW x \in Told, x.is # "header"
  PROVE  Silent(<<x>>)
BY DEF Silent

LEMMA ReplyTold == \A is \in {"erase", "found", "error", "info"} : Reply(is) \in Told /\ Reply(is).is = is
BY DEF Reply, Told, Replies

LEMMA AboutTold ==
  ASSUME NEW is \in {"header", "view", "update", "remove", "sent"}, NEW i \in Ids, NEW p \in Paths \cup {None},
         is \in {"header", "update", "sent"} => p \in Paths
  PROVE  /\ About(is, i, p) \in Told
         /\ About(is, i, p).is = is /\ About(is, i, p).id = i /\ About(is, i, p).path = p
         /\ \A moved \in BOOLEAN : /\ [About(is, i, p) EXCEPT !.moved = moved] \in Told
                                  /\ [About(is, i, p) EXCEPT !.moved = moved].is = is
                                  /\ [About(is, i, p) EXCEPT !.moved = moved].id = i
                                  /\ [About(is, i, p) EXCEPT !.moved = moved].path = p
<1>1. Reply(is) \in Replies /\ Reply(is).is = is
  BY DEF Reply, Replies
<1>2. i \in 0..MaxId
  BY DEF Ids
<1> DEFINE a == About(is, i, p)
<1>3. a \in Replies /\ a.is = is /\ a.id = i /\ a.path = p
  BY <1>1, <1>2 DEF About, Replies
<1> HIDE DEF a
<1>4. ASSUME NEW moved \in BOOLEAN
      PROVE  /\ [a EXCEPT !.moved = moved] \in Told
             /\ [a EXCEPT !.moved = moved].is = is /\ [a EXCEPT !.moved = moved].id = i
             /\ [a EXCEPT !.moved = moved].path = p
  <2> DEFINE b == [a EXCEPT !.moved = moved]
  <2>1. b \in Replies /\ b.is = is /\ b.id = i /\ b.path = p
    BY <1>3 DEF Replies
  <2> HIDE DEF b
  <2>2. b \in Told
    BY <2>1 DEF Told
  <2> QED
    BY <2>1, <2>2 DEF b
<1>5. a \in Told
  BY <1>3 DEF Told
<1> QED
  BY <1>3, <1>4, <1>5 DEF a

(* perform_move() *)
LEMMA PerformMoveDoes ==
  ASSUME TypeInv, NEW i \in Found, NEW q \in Paths, q.name = docs[i].name, NEW next,
         PerformMove(i, q, next)
  PROVE  /\ files' \subseteq Paths /\ events' \in 0..MaxEvents
         /\ Renames
         /\ \E r : Silent(r) /\ outbox' = outbox \o r
         /\ \/ task' = next /\ docs' = [docs EXCEPT ![i] = q]
            \/ task' = Idle /\ docs' = docs
<1> USE DEF TypeInv, TypeOK, ServerTypeOK
<1>0. i \in Ids /\ docs[i] # None /\ docs[i] \in Paths
  BY DEF Found
<1>1. CASE MoveFails(i, q) /\ Fails
  <2>1. files' \subseteq Paths
    BY <1>1 DEF MoveFails, Renamed
  <2>2. events' \in 0..MaxEvents
    BY <1>1 DEF MoveFails, Event
  <2>3. docs' = docs /\ task' = Idle /\ outbox' = outbox \o <<Reply("error")>>
    BY <1>1 DEF MoveFails, Fails, Say
  <2>4. Silent(<<Reply("error")>>)
    BY SayOne, ReplyTold
  <2> QED
    BY <2>1, <2>2, <2>3, <2>4 DEF Renames
<1>2. CASE Moves(i, q) /\ task' = next
           /\ Say(<<[About("update", i, q) EXCEPT !.moved = docs[i].dir # q.dir]>>)
  <2>1. files' \subseteq Paths /\ events' = events /\ docs' = [docs EXCEPT ![i] = q]
    BY <1>2 DEF Moves, Renamed
  <2>2. Renames
    BY <1>0, <2>1 DEF Renames
  <2>3. Silent(<<[About("update", i, q) EXCEPT !.moved = docs[i].dir # q.dir]>>)
    BY <1>0, SayOne, AboutTold
  <2> QED
    BY <1>2, <2>1, <2>2, <2>3 DEF Say
<1> QED
  BY <1>1, <1>2 DEF PerformMove

(* A move leaves every message its message-id. *)
LEMMA RenamesKeep ==
  ASSUME TypeOK, Renames
  PROVE  /\ Found' = Found
         /\ \A m : WithMsgid(m)' = WithMsgid(m)
<1>1. Found' = Found
  BY DEF Found, Renames
<1>2. \A i \in Found : docs'[i].name = docs[i].name
  BY DEF Found, Renames
<1> QED
  BY <1>1, <1>2 DEF WithMsgid

LEMMA TasksAre ==
  /\ Idle \in Tasks /\ Idle.do = "idle"
  /\ [Idle EXCEPT !.do = "index"] \in Tasks /\ [Idle EXCEPT !.do = "index"].do = "index"
  /\ ReadDelta \in Deltas
<1>1. Delta({}, {}) \in Deltas /\ ReadDelta \in Deltas
  BY DEF Delta, Deltas, ReadDelta
<1>2. Idle \in Tasks /\ Idle.do = "idle"
  BY <1>1 DEF Idle, Tasks
<1> HIDE DEF Idle
<1> QED
  BY <1>1, <1>2 DEF Tasks

(* maybe_mark_as_read() *)
LEMMA MarkAsReadDoes ==
  ASSUME TypeInv, NEW i \in Found, NEW next, MarkAsRead(i, next)
  PROVE  /\ files' \subseteq Paths /\ events' \in 0..MaxEvents
         /\ Renames
         /\ \E r : Silent(r) /\ outbox' = outbox \o r
         /\ \/ task' = next /\ IsRead(docs'[i]) /\ \A j \in Ids \ {i} : docs'[j] = docs[j]
            \/ task' = Idle /\ docs' = docs
<1> DEFINE q == Target(i, None, FromDelta(ReadDelta, FlagsFromPath(docs[i])))
<1>0. TypeOK /\ i \in Ids /\ docs \in [Ids -> Paths \cup {None}]
  BY DEF TypeInv, TypeOK, ServerTypeOK, Found
<1>1. CASE Marked(i) /\ task' = next /\ UNCHANGED <<files, docs, outbox, events>>
  <2>1. IsRead(docs[i])
    BY <1>1, MarkedIsRead
  <2>2. Silent(<<>>) /\ outbox' = outbox \o <<>>
    BY <1>1 DEF Silent, TypeInv, TypeOK, ServerTypeOK
  <2> QED
    BY <1>0, <1>1, <2>1, <2>2 DEF Renames, TypeInv, TypeOK, ServerTypeOK
<1>2. CASE PerformMove(i, q, next)
  <2>1. q \in Paths /\ q.name = docs[i].name /\ IsRead(q)
    <3>1. q \in Paths /\ q.name = docs[i].name /\ docs[i] \in Paths
      BY <1>0, TargetIs
    <3>2. PICK d \in Maildirs : q = NewPath(docs[i], d, FromDelta(ReadDelta, FlagsFromPath(docs[i])))
      BY <1>0, TargetIs
    <3>3. IsRead(q)
      BY <3>1, <3>2, NewPathIsRead
    <3> QED
      BY <3>1, <3>3
  <2> HIDE DEF q
  <2>2. /\ files' \subseteq Paths /\ events' \in 0..MaxEvents /\ Renames
        /\ \E r : Silent(r) /\ outbox' = outbox \o r
        /\ \/ task' = next /\ docs' = [docs EXCEPT ![i] = q]
           \/ task' = Idle /\ docs' = docs
    BY <1>2, <2>1, PerformMoveDoes
  <2>3. docs' = [docs EXCEPT ![i] = q] => IsRead(docs'[i]) /\ \A j \in Ids \ {i} : docs'[j] = docs[j]
    BY <1>0, <2>1
  <2> QED
    BY <2>2, <2>3
<1> QED
  BY <1>1, <1>2 DEF MarkAsRead

(* What a step of the server that is no find leaves *)
ServerGood ==
  /\ files' \subseteq Paths
  /\ docs' \in [Ids -> Paths \cup {None}] /\ last' \in 0..MaxId
  /\ inbox' \in Seq(Commands)
  /\ task' \in Tasks
  /\ events' \in 0..MaxEvents /\ outdated' \subseteq Ids
  /\ TaskInv' /\ LastInv'
Mute == \E r : Silent(r) /\ outbox' = outbox \o r

LEMMA TakesOne ==
  ASSUME TypeInv, NEW cmd, Takes(cmd)
  PROVE  inbox' \in Seq(Commands) /\ Head(inbox) \in Commands /\ task = Idle
BY DEF TypeInv, TypeOK, ServerTypeOK, Takes

LEMMA FailsMute == Fails => Mute /\ task' = Idle
BY SayOne, ReplyTold DEF Fails, Say, Mute

LEMMA SaysNothing == TypeInv /\ UNCHANGED outbox => Mute
<1> SUFFICES ASSUME TypeInv, UNCHANGED outbox PROVE Mute
  OBVIOUS
<1>1. Silent(<<>>)
  BY DEF Silent
<1>2. outbox' = outbox \o <<>>
  BY DEF TypeInv
<1> QED
  BY <1>1, <1>2 DEF Mute

(* A command that is over leaves nothing to do. *)
LEMMA IdleTask == task' = Idle => task' \in Tasks /\ TaskInv'
BY TasksAre DEF TaskInv

(* Where only messages move, no id is given out. *)
LEMMA LastKept ==
  ASSUME TypeInv, Renames, UNCHANGED last
  PROVE  last' \in 0..MaxId /\ LastInv'
<1>1. Found' = Found
  BY RenamesKeep DEF TypeInv
<1> QED
  BY <1>1 DEF TypeInv, TypeOK, ServerTypeOK, LastInv

LEMMA ViewGood == ASSUME TypeInv, HandleView PROVE ServerGood /\ Mute
<1> DEFINE i == Head(inbox).id
           next == [do |-> "mark", ids |-> WithMsgid(MsgidOf[docs[i].name]),
                    id |-> i, delta |-> ReadDelta]
<1>0. inbox' \in Seq(Commands) /\ UNCHANGED <<last, outdated>>
  BY TakesOne DEF HandleView
<1>1. CASE i \notin Found /\ Fails /\ UNCHANGED <<files, docs, events>>
  <2>1. ServerGood
    BY <1>0, <1>1, FailsMute, IdleTask DEF ServerGood, TypeInv, TypeOK, ServerTypeOK, LastInv, Found
  <2> QED
    BY <1>1, <2>1, FailsMute
<1>2. CASE i \in Found /\ MarkAsRead(i, next)
  <2> HIDE DEF i
  <2>1. i \in Ids
    BY <1>2 DEF Found
  <2>2. next \in Tasks /\ next.do = "mark" /\ next.id = i /\ next.delta = ReadDelta
        /\ next.ids = WithMsgid(MsgidOf[docs[i].name])
    BY <2>1, TasksAre DEF Tasks, Ids, WithMsgid, Found
  <2> HIDE DEF next
  <2>3. /\ files' \subseteq Paths /\ events' \in 0..MaxEvents
        /\ Renames /\ Mute
        /\ task' = next \/ task' = Idle
    BY <1>2, MarkAsReadDoes DEF Mute
  <2>4. Found' = Found /\ \A m : WithMsgid(m)' = WithMsgid(m)
    BY <2>3, RenamesKeep DEF TypeInv
  <2>5. task' = next => TaskInv'
    <3>1. docs'[i].name = docs[i].name
      BY <1>2, <2>1, <2>3 DEF Renames, Found
    <3>2. WithMsgid(MsgidOf[docs[i].name]) \subseteq Found
      BY DEF WithMsgid
    <3> QED
      BY <1>2, <2>2, <2>4, <3>1, <3>2 DEF TaskInv
  <2>6. task' \in Tasks /\ TaskInv'
    BY <2>2, <2>3, <2>5, IdleTask
  <2>7. outdated' \subseteq Ids
    BY <1>0 DEF TypeInv, TypeOK, ServerTypeOK
  <2> QED
    BY <1>0, <2>3, <2>6, <2>7, LastKept DEF ServerGood, Renames
<1> QED
  BY <1>1, <1>2 DEF HandleView

LEMMA MarkNextGood == ASSUME TypeInv, MarkNext PROVE ServerGood /\ Mute
<1>0. UNCHANGED <<last, inbox, outdated>> /\ task.do = "mark" /\ task \in Tasks
  BY DEF MarkNext, TypeInv, TypeOK, ServerTypeOK
<1>1. PICK i \in task.ids : MarkAsRead(i, [task EXCEPT !.ids = @ \ {i}])
  BY DEF MarkNext
<1> DEFINE next == [task EXCEPT !.ids = @ \ {i}]
<1>2. task.ids \subseteq Found /\ task.id \in Found /\ task.delta = ReadDelta
      /\ \A j \in WithMsgid(MsgidOf[docs[task.id].name]) : j \in task.ids \/ IsRead(docs[j])
  BY <1>0 DEF TypeInv, TaskInv
<1>3. next \in Tasks /\ next.do = "mark" /\ next.id = task.id /\ next.delta = task.delta
      /\ next.ids = task.ids \ {i}
  BY <1>0 DEF Tasks
<1> HIDE DEF next
<1>4. /\ files' \subseteq Paths /\ events' \in 0..MaxEvents
      /\ Renames /\ Mute
      /\ \/ task' = next /\ IsRead(docs'[i]) /\ \A j \in Ids \ {i} : docs'[j] = docs[j]
         \/ task' = Idle
  BY <1>1, <1>2, MarkAsReadDoes DEF Mute, next
<1>5. Found' = Found /\ \A m : WithMsgid(m)' = WithMsgid(m)
  BY <1>4, RenamesKeep DEF TypeInv
<1>6. ASSUME task' = next, IsRead(docs'[i]), \A j \in Ids \ {i} : docs'[j] = docs[j] PROVE TaskInv'
  <2>1. docs'[task.id].name = docs[task.id].name
    BY <1>2, <1>4 DEF Renames, Found
  <2>2. ASSUME NEW j \in WithMsgid(MsgidOf[docs[task.id].name])
        PROVE  j \in next.ids \/ IsRead(docs'[j])
    BY <1>2, <1>3, <1>6, <2>2 DEF WithMsgid, Found
  <2> QED
    BY <1>2, <1>3, <1>5, <1>6, <2>1, <2>2 DEF TaskInv
<1>7. task' \in Tasks /\ TaskInv'
  BY <1>3, <1>4, <1>6, IdleTask
<1>8. outdated' \subseteq Ids /\ inbox' \in Seq(Commands)
  BY <1>0 DEF TypeInv, TypeOK, ServerTypeOK
<1> QED
  BY <1>0, <1>4, <1>7, <1>8, LastKept DEF ServerGood, Renames

LEMMA ViewShowGood == ASSUME TypeInv, ViewShow PROVE ServerGood /\ Mute
<1>1. task.id \in Ids /\ docs[task.id] \in Paths \cup {None}
  BY DEF ViewShow, TypeInv, TaskInv, TypeOK, ServerTypeOK, Found
<1>2. Silent(<<About("view", task.id, docs[task.id])>>)
  BY <1>1, SayOne, AboutTold
<1>3. task' \in Tasks /\ TaskInv'
  BY IdleTask DEF ViewShow
<1>4. Mute
  BY <1>2 DEF ViewShow, Say, Mute
<1> QED
  BY <1>3, <1>4 DEF ViewShow, ServerGood, TypeInv, TypeOK, ServerTypeOK, LastInv, Found

LEMMA MoveGood == ASSUME TypeInv, HandleMove PROVE ServerGood /\ Mute
<1> DEFINE c == Head(inbox)
           ids == IF c.id # 0 THEN {c.id} ELSE WithMsgid(c.msgid)
<1>0. /\ inbox' \in Seq(Commands) /\ UNCHANGED <<last, outdated>>
      /\ c \in Commands /\ outdated' \subseteq Ids
  BY TakesOne DEF HandleMove, TypeInv, TypeOK, ServerTypeOK
<1>1. CASE Fails /\ UNCHANGED <<files, docs, events>>
  BY <1>0, <1>1, FailsMute, IdleTask DEF ServerGood, TypeInv, TypeOK, ServerTypeOK, LastInv, Found
<1>2. ASSUME NEW i \in Found,
             PerformMove(i, Target(i, c.dir, FromDelta(c.delta, FlagsFromPath(docs[i]))), Idle)
      PROVE  ServerGood /\ Mute
  <2> DEFINE q == Target(i, c.dir, FromDelta(c.delta, FlagsFromPath(docs[i])))
  <2>1. q \in Paths /\ q.name = docs[i].name
    BY <1>0, TargetIs DEF TypeInv, Commands
  <2> HIDE DEF q
  <2>2. /\ files' \subseteq Paths /\ events' \in 0..MaxEvents
        /\ Renames /\ Mute /\ task' = Idle
    BY <1>2, <2>1, PerformMoveDoes DEF q, Mute
  <2> QED
    BY <1>0, <2>2, IdleTask, LastKept DEF ServerGood, Renames
<1>3. CASE /\ \E i, j \in ids : i # j
           /\ task' = [do |-> "move", ids |-> ids, id |-> 0, delta |-> c.delta]
           /\ UNCHANGED <<files, docs, outbox, events>>
  <2>1. ids \subseteq Found
    BY <1>3 DEF WithMsgid
  <2>2. c.delta \in Deltas
    BY <1>0 DEF Commands
  <2> HIDE DEF ids, c
  <2>3. task' \in Tasks /\ task'.do = "move" /\ task'.ids = ids
    BY <1>3, <2>1, <2>2 DEF Tasks, Found
  <2>4. TaskInv'
    BY <1>3, <2>1, <2>3 DEF TaskInv, Found
  <2>5. Mute
    BY <1>3, SaysNothing
  <2> QED
    BY <1>0, <1>3, <2>3, <2>4, <2>5 DEF ServerGood, TypeInv, TypeOK, ServerTypeOK, LastInv, Found
<1> QED
  BY <1>1, <1>2, <1>3 DEF HandleMove

LEMMA MoveNextGood == ASSUME TypeInv, MoveNext PROVE ServerGood /\ Mute
<1>0. UNCHANGED <<last, inbox, outdated>> /\ task.do = "move" /\ task \in Tasks
  BY DEF MoveNext, TypeInv, TypeOK, ServerTypeOK
<1> DEFINE next(i) == IF task.ids = {i} THEN Idle ELSE [task EXCEPT !.ids = @ \ {i}]
           q(i) == Target(i, None, FromDelta(task.delta, FlagsFromPath(docs[i])))
<1>1. PICK i \in task.ids : PerformMove(i, q(i), next(i))
  BY DEF MoveNext
<1>2. task.ids \subseteq Found
  BY <1>0 DEF TypeInv, TaskInv
<1>3. q(i) \in Paths /\ q(i).name = docs[i].name
  BY <1>2, TargetIs DEF TypeInv
<1>4. next(i) = Idle \/ (next(i) \in Tasks /\ next(i).do = "move" /\ next(i).ids \subseteq Found)
  BY <1>0, <1>2 DEF Tasks
<1> HIDE DEF next, q
<1>5. /\ files' \subseteq Paths /\ events' \in 0..MaxEvents
      /\ Renames /\ Mute
      /\ task' = next(i) \/ task' = Idle
  BY <1>1, <1>2, <1>3, PerformMoveDoes DEF Mute
<1>6. Found' = Found
  BY <1>5, RenamesKeep DEF TypeInv
<1>7. task' \in Tasks /\ TaskInv'
  BY <1>4, <1>5, <1>6, IdleTask DEF TaskInv
<1>8. outdated' \subseteq Ids /\ inbox' \in Seq(Commands)
  BY <1>0 DEF TypeInv, TypeOK, ServerTypeOK
<1> QED
  BY <1>0, <1>5, <1>7, <1>8, LastKept DEF ServerGood, Renames

LEMMA RemoveGood == ASSUME TypeInv, HandleRemove PROVE ServerGood /\ Mute
<1> DEFINE i == Head(inbox).id
<1>0. inbox' \in Seq(Commands) /\ UNCHANGED last /\ task = Idle
  BY TakesOne DEF HandleRemove
<1>1. CASE Fails /\ UNCHANGED <<files, docs, outdated>> /\ (Event \/ UNCHANGED events)
  <2>1. events' \in 0..MaxEvents
    BY <1>1 DEF Event, TypeInv, TypeOK, ServerTypeOK
  <2> QED
    BY <1>0, <1>1, <2>1, FailsMute, IdleTask DEF ServerGood, TypeInv, TypeOK, ServerTypeOK, LastInv, Found
<1>2. CASE /\ i \in Found
           /\ files' = files \ {docs[i]}
           /\ docs' = [j \in Ids |-> IF j \in WithPath(docs[i]) THEN None ELSE docs[j]]
           /\ outdated' = outdated \cup (WithPath(docs[i]) \ {i})
           /\ Say(<<About("remove", i, None)>>)
           /\ UNCHANGED <<task, events>>
  <2> HIDE DEF i
  <2>1. i \in Ids /\ Silent(<<About("remove", i, None)>>)
    BY <1>2, SayOne, AboutTold DEF Found
  <2>2. Mute
    BY <1>2, <2>1 DEF Say, Mute
  <2>3. files' \subseteq Paths /\ docs' \in [Ids -> Paths \cup {None}] /\ outdated' \subseteq Ids
    BY <1>2 DEF TypeInv, TypeOK, ServerTypeOK, WithPath, Found
  <2>4. last' \in 0..MaxId /\ LastInv'
    BY <1>0, <1>2 DEF TypeInv, TypeOK, ServerTypeOK, LastInv, Found
  <2> QED
    BY <1>0, <1>2, <2>2, <2>3, <2>4, IdleTask DEF ServerGood, TypeInv, TypeOK, ServerTypeOK
<1> QED
  BY <1>1, <1>2 DEF HandleRemove

(* Some document has the least id. *)
LEMMA FirstOfThem ==
  ASSUME NEW same, same \subseteq Ids, same # {}
  PROVE  \E i \in same : \A j \in same : i <= j
<1>1. same \subseteq Nat
  BY DEF Ids
<1>2. PICK i \in same : \A j \in same : <<j, i>> \notin OpToRel(<, Nat)
  BY <1>1, NatLessThanWellFounded, WFMin
<1>3. \A j \in same : ~(j < i)
  BY <1>1, <1>2 DEF OpToRel
<1> QED
  BY <1>1, <1>3

(* A message that is added replaces one with its path, or gets a new id.   *)
LEMMA AddMessageDoes ==
  ASSUME TypeInv, NEW p \in Paths, AddMessage(p)
  PROVE  /\ docs' \in [Ids -> Paths \cup {None}] /\ last' \in 0..MaxId /\ LastInv'
         /\ IdFor(p) \in Ids
         /\ \A i \in Ids : docs[i] # None => docs'[i] \in {docs[i], None}
<1>0. docs \in [Ids -> Paths \cup {None}] /\ last \in 0..MaxId /\ LastInv
  BY DEF TypeInv, TypeOK, ServerTypeOK
<1>1. IdFor(p) \in Ids /\ IdFor(p) <= last' /\ last <= last' /\ last' \in 0..MaxId
      /\ (docs[IdFor(p)] # None => docs[IdFor(p)] = p)
  <2>1. CASE WithPath(p) = {}
    <3>1. IdFor(p) = last + 1 /\ last' = last + 1 /\ last + 1 <= MaxId
      BY <2>1 DEF AddMessage, IdFor
    <3>2. last + 1 \in Ids /\ last + 1 \notin Found
      BY <1>0, <3>1 DEF Ids, LastInv, Found
    <3> QED
      BY <1>0, <3>1, <3>2 DEF Found
  <2>2. CASE WithPath(p) # {}
    <3>1. WithPath(p) \subseteq Ids
      BY DEF WithPath, Found
    <3>2. IdFor(p) \in WithPath(p)
      BY <2>2, <3>1, FirstOfThem DEF IdFor
    <3>3. IdFor(p) \in Found /\ docs[IdFor(p)] = p
      BY <3>2 DEF WithPath
    <3> QED
      BY <1>0, <2>2, <3>3 DEF AddMessage, LastInv, Found
  <2> QED
    BY <2>1, <2>2
<1>2. docs' = [i \in Ids |-> IF i = IdFor(p) THEN p ELSE IF i \in WithPath(p) THEN None ELSE docs[i]]
  BY DEF AddMessage, Added
<1>3. docs' \in [Ids -> Paths \cup {None}]
  BY <1>0, <1>2
<1>4. LastInv'
  BY <1>0, <1>1, <1>2 DEF LastInv, Found, Ids
<1> QED
  BY <1>1, <1>2, <1>3, <1>4

LEMMA SentGood == ASSUME TypeInv, HandleSent PROVE ServerGood /\ Mute
<1> DEFINE p == Head(inbox).path
<1>0. inbox' \in Seq(Commands) /\ UNCHANGED <<files, events>> /\ task = Idle
  BY TakesOne DEF HandleSent
<1>1. CASE Fails /\ UNCHANGED <<docs, last, outdated>>
  BY <1>0, <1>1, FailsMute, IdleTask DEF ServerGood, TypeInv, TypeOK, ServerTypeOK, LastInv, Found
<1>2. CASE p \in files /\ AddMessage(p) /\ Untold /\ Say(<<About("sent", IdFor(p), p)>>) /\ UNCHANGED task
  <2> HIDE DEF p
  <2>1. p \in Paths
    BY <1>2 DEF TypeInv, TypeOK, ServerTypeOK
  <2>2. /\ docs' \in [Ids -> Paths \cup {None}] /\ last' \in 0..MaxId /\ LastInv'
        /\ IdFor(p) \in Ids
    BY <1>2, <2>1, AddMessageDoes
  <2>3. Silent(<<About("sent", IdFor(p), p)>>)
    BY <2>1, <2>2, SayOne, AboutTold
  <2>4. Mute
    BY <1>2, <2>3 DEF Mute, Say
  <2>5. outdated' \subseteq Ids
    BY <1>2 DEF Untold, TypeInv, TypeOK, ServerTypeOK
  <2> QED
    BY <1>0, <1>2, <2>2, <2>4, <2>5, IdleTask DEF ServerGood, TypeInv, TypeOK, ServerTypeOK
<1> QED
  BY <1>1, <1>2 DEF HandleSent

LEMMA IndexGood ==
  ASSUME TypeInv,
         \/ HandleIndex \/ IndexEnds
         \/ \E p \in files : IndexAdd(p)
         \/ \E i \in Found : IndexRemove(i)
  PROVE  ServerGood /\ Mute
<1>1. CASE HandleIndex
  <2>1. inbox' \in Seq(Commands)
    BY <1>1, TakesOne DEF HandleIndex
  <2>2. task' \in Tasks /\ TaskInv'
    BY <1>1, TasksAre DEF HandleIndex, TaskInv
  <2>3. Mute
    BY <1>1, SaysNothing DEF HandleIndex
  <2> QED
    BY <1>1, <2>1, <2>2, <2>3 DEF HandleIndex, ServerGood, TypeInv, TypeOK, ServerTypeOK, LastInv, Found
<1>2. CASE IndexEnds
  <2>1. Mute
    BY <1>2, SayOne, ReplyTold DEF IndexEnds, Mute, Say
  <2>2. task' \in Tasks /\ TaskInv'
    BY <1>2, IdleTask DEF IndexEnds
  <2> QED
    BY <1>2, <2>1, <2>2 DEF IndexEnds, ServerGood, TypeInv, TypeOK, ServerTypeOK, LastInv, Found
<1>3. ASSUME NEW p \in files, IndexAdd(p) PROVE ServerGood /\ Mute
  <2>1. p \in Paths /\ AddMessage(p)
    BY <1>3 DEF IndexAdd, TypeInv, TypeOK, ServerTypeOK
  <2>2. docs' \in [Ids -> Paths \cup {None}] /\ last' \in 0..MaxId /\ LastInv'
    BY <2>1, AddMessageDoes
  <2>3. outdated' \subseteq Ids
    BY <1>3 DEF IndexAdd, Untold, TypeInv, TypeOK, ServerTypeOK
  <2>4. Mute /\ TaskInv'
    BY <1>3, SaysNothing DEF IndexAdd, TaskInv
  <2> QED
    BY <1>3, <2>2, <2>3, <2>4 DEF IndexAdd, ServerGood, TypeInv, TypeOK, ServerTypeOK
<1>4. ASSUME NEW i \in Found, IndexRemove(i) PROVE ServerGood /\ Mute
  <2>1. docs' \in [Ids -> Paths \cup {None}] /\ LastInv'
    BY <1>4 DEF IndexRemove, LastInv, Found, TypeInv, TypeOK, ServerTypeOK
  <2>2. outdated' \subseteq Ids
    BY <1>4 DEF IndexRemove, Untold, TypeInv, TypeOK, ServerTypeOK
  <2>3. Mute /\ TaskInv'
    BY <1>4, SaysNothing DEF IndexRemove, TaskInv
  <2> QED
    BY <1>4, <2>1, <2>2, <2>3 DEF IndexRemove, ServerGood, TypeInv, TypeOK, ServerTypeOK
<1> QED
  BY <1>1, <1>2, <1>3, <1>4

LEMMA SetToSeqIs ==
  ASSUME NEW S, IsFiniteSet(S)
  PROVE  /\ SetToSeq(S) \in Seq(S) /\ Len(SetToSeq(S)) = Cardinality(S)
         /\ \A j, k \in 1..Len(SetToSeq(S)) : SetToSeq(S)[j] = SetToSeq(S)[k] => j = k
<1> DEFINE n == Cardinality(S)
<1>1. n \in Nat /\ ExistsBijection(1..n, S)
  BY FS_CardinalityType
<1>2. \E f \in [1..n -> S] : IsInjective(f)
  BY <1>1 DEF ExistsBijection, Bijection, Injection
<1> DEFINE f == CHOOSE f \in [1..n -> S] : IsInjective(f)
<1>3. f \in [1..n -> S] /\ IsInjective(f)
  BY <1>2
<1>4. SetToSeq(S) = f
  BY DEF SetToSeq
<1> HIDE DEF f, n
<1>5. f \in Seq(S) /\ Len(f) = n
  BY <1>1, <1>3
<1> QED
  BY <1>3, <1>4, <1>5 DEF IsInjective, n

LEMMA IdsFinite == \A S : S \subseteq Ids => IsFiniteSet(S)
<1>1. IsFiniteSet(Ids)
  BY FS_Interval DEF Ids
<1> QED
  BY <1>1, FS_Subset

LEMMA ConcatIs ==
  ASSUME NEW S, NEW s \in Seq(S), NEW t \in Seq(S)
  PROVE  /\ s \o t \in Seq(S) /\ Len(s \o t) = Len(s) + Len(t)
         /\ \A k \in 1..Len(s) : (s \o t)[k] = s[k]
         /\ \A k \in 1..Len(t) : (s \o t)[Len(s) + k] = t[k]
         /\ \A k \in 1..Len(s \o t) :
              k \notin 1..Len(s) => k - Len(s) \in 1..Len(t) /\ (s \o t)[k] = t[k - Len(s)]
<1>1. /\ s \o t \in Seq(S) /\ Len(s \o t) = Len(s) + Len(t) /\ Len(s) \in Nat /\ Len(t) \in Nat
      /\ \A k \in 1..Len(s) + Len(t) : (s \o t)[k] = IF k <= Len(s) THEN s[k] ELSE t[k - Len(s)]
  BY ConcatProperties
<1>2. \A k \in 1..Len(s) : (s \o t)[k] = s[k]
  BY <1>1
<1>3. ASSUME NEW k \in 1..Len(t) PROVE (s \o t)[Len(s) + k] = t[k]
  <2>1. Len(s) + k \in 1..Len(s) + Len(t) /\ ~(Len(s) + k <= Len(s)) /\ (Len(s) + k) - Len(s) = k
    BY <1>1
  <2>2. (s \o t)[Len(s) + k] = t[(Len(s) + k) - Len(s)]
    BY <1>1, <2>1
  <2> QED
    BY <2>1, <2>2
<1>4. \A k \in 1..Len(s \o t) :
       k \notin 1..Len(s) => k - Len(s) \in 1..Len(t) /\ (s \o t)[k] = t[k - Len(s)]
  BY <1>1
<1> QED
  BY <1>1, <1>2, <1>3, <1>4

(* The answer to a find: the headers shown go, and then come those of the  *)
(* messages that there are, one of each.                                   *)
Answer(r) ==
  /\ r \in Seq(Told) /\ r # <<>> /\ r[1].is = "erase"
  /\ \A j, k \in 1..Len(r) :
       r[j].is = "header" /\ r[k].is = "header" /\ r[j].id = r[k].id => j = k

(* Its headers have the paths that the messages have. *)
Truly(r) ==
  \A k \in 1..Len(r) :
    /\ r[k].is \in {"erase", "header", "found"}
    /\ r[k].is = "header" => r[k].id \in Ids /\ r[k].path = docs[r[k].id]

LEMMA FindGood ==
  ASSUME TypeInv, HandleFind
  PROVE  ServerGood /\ \E r : Answer(r) /\ Truly(r) /\ outbox' = outbox \o r
<1> DEFINE ids == SetToSeq(Found)
           h == [k \in 1..Len(ids) |-> About("header", ids[k], docs[ids[k]])]
           r == (<<Reply("erase")>> \o h) \o <<Reply("found")>>
<1>1. ServerGood
  BY TakesOne DEF HandleFind, ServerGood, TypeInv, TypeOK, ServerTypeOK, LastInv, TaskInv, Found, WithMsgid
<1>2. /\ ids \in Seq(Found)
      /\ \A j, k \in 1..Len(ids) : ids[j] = ids[k] => j = k
  <2>1. Found \subseteq Ids
    BY DEF Found
  <2> QED
    BY <2>1, IdsFinite, SetToSeqIs
<1>3. outbox' = outbox \o r
  BY DEF HandleFind, Say
<1> HIDE DEF ids
<1>4. /\ h \in Seq(Told) /\ Len(h) = Len(ids)
      /\ \A k \in 1..Len(h) : h[k].is = "header" /\ h[k].id = ids[k] /\ h[k].path = docs[ids[k]]
  <2>1. \A k \in 1..Len(ids) : ids[k] \in Ids /\ docs[ids[k]] \in Paths
    BY <1>2 DEF Found, TypeInv, TypeOK, ServerTypeOK
  <2>2. \A k \in 1..Len(ids) : /\ About("header", ids[k], docs[ids[k]]) \in Told
                               /\ About("header", ids[k], docs[ids[k]]).is = "header"
                               /\ About("header", ids[k], docs[ids[k]]).id = ids[k]
                               /\ About("header", ids[k], docs[ids[k]]).path = docs[ids[k]]
    BY <2>1, AboutTold
  <2>3. Len(ids) \in Nat
    BY <1>2
  <2> QED
    BY <2>2, <2>3
<1> HIDE DEF h
<1>5. Reply("erase") \in Told /\ Reply("found") \in Told
      /\ Reply("erase").is = "erase" /\ Reply("found").is = "found"
  BY ReplyTold
<1>6. /\ r \in Seq(Told) /\ Len(r) = Len(h) + 2 /\ r[1] = Reply("erase")
      /\ r[Len(h) + 2] = Reply("found")
      /\ \A k \in 1..Len(h) : r[1 + k] = h[k]
  <2> DEFINE a == <<Reply("erase")>>
             b == <<Reply("found")>>
  <2>1. a \in Seq(Told) /\ Len(a) = 1 /\ a[1] = Reply("erase")
        /\ b \in Seq(Told) /\ Len(b) = 1 /\ b[1] = Reply("found")
    BY <1>5
  <2> HIDE DEF a, b
  <2>2. /\ a \o h \in Seq(Told) /\ Len(a \o h) = Len(h) + 1 /\ (a \o h)[1] = Reply("erase")
        /\ \A k \in 1..Len(h) : (a \o h)[1 + k] = h[k]
    <3>1. /\ a \o h \in Seq(Told) /\ Len(a \o h) = Len(a) + Len(h)
          /\ \A k \in 1..Len(a) : (a \o h)[k] = a[k]
          /\ \A k \in 1..Len(h) : (a \o h)[Len(a) + k] = h[k]
      <4>1. a \in Seq(Told) /\ h \in Seq(Told)
        BY <1>4, <2>1
      <4> QED
        BY <4>1, ConcatIs
    <3>2. Len(h) \in Nat
      BY <1>4
    <3> QED
      BY <2>1, <3>1, <3>2
  <2> DEFINE g == a \o h
  <2> HIDE DEF g
  <2>3. /\ g \o b \in Seq(Told) /\ Len(g \o b) = Len(h) + 2 /\ (g \o b)[1] = Reply("erase")
        /\ (g \o b)[Len(h) + 2] = Reply("found")
        /\ \A k \in 1..Len(h) : (g \o b)[1 + k] = h[k]
    <3>1. g \in Seq(Told) /\ Len(g) = Len(h) + 1 /\ g[1] = Reply("erase")
          /\ \A k \in 1..Len(h) : g[1 + k] = h[k]
      BY <2>2 DEF g
    <3>2. /\ g \o b \in Seq(Told) /\ Len(g \o b) = Len(g) + Len(b)
          /\ \A k \in 1..Len(g) : (g \o b)[k] = g[k]
          /\ \A k \in 1..Len(b) : (g \o b)[Len(g) + k] = b[k]
      BY <2>1, <3>1, ConcatIs
    <3>3. Len(h) \in Nat
      BY <1>4
    <3>4. (g \o b)[Len(g) + 1] = b[1] /\ (g \o b)[1] = g[1]
      BY <2>1, <3>1, <3>2, <3>3
    <3>5. \A k \in 1..Len(h) : (g \o b)[1 + k] = g[1 + k]
      BY <3>1, <3>2, <3>3
    <3> QED
      BY <2>1, <3>1, <3>2, <3>3, <3>4, <3>5
  <2>4. r = g \o b
    BY DEF r, g, a, b
  <2> QED
    BY <2>3, <2>4
<1> HIDE DEF r
<1>7. \A k \in 1..Len(r) : r[k].is = "header" =>
        k - 1 \in 1..Len(h) /\ r[k].id = ids[k - 1] /\ r[k].path = docs[ids[k - 1]]
  <2> SUFFICES ASSUME NEW k \in 1..Len(r), r[k].is = "header"
               PROVE  k - 1 \in 1..Len(h) /\ r[k].id = ids[k - 1] /\ r[k].path = docs[ids[k - 1]]
    OBVIOUS
  <2>1. Len(h) \in Nat
    BY <1>4
  <2>2. k # 1 /\ k # Len(h) + 2
    BY <1>5, <1>6
  <2>3. k - 1 \in 1..Len(h)
    BY <1>6, <2>1, <2>2
  <2>4. r[1 + (k - 1)] = h[k - 1] /\ 1 + (k - 1) = k
    BY <1>6, <2>3
  <2> QED
    BY <1>4, <2>3, <2>4
<1>8. Answer(r)
  <2>1. r # <<>> /\ r[1].is = "erase"
    BY <1>4, <1>5, <1>6
  <2>2. ASSUME NEW j \in 1..Len(r), NEW k \in 1..Len(r),
               r[j].is = "header", r[k].is = "header", r[j].id = r[k].id
        PROVE  j = k
    <3>1. j - 1 \in 1..Len(ids) /\ k - 1 \in 1..Len(ids) /\ ids[j - 1] = ids[k - 1]
      BY <1>4, <1>7, <2>2
    <3>2. j - 1 = k - 1
      BY <1>2, <3>1
    <3> QED
      BY <3>2
  <2> QED
    BY <1>6, <2>1, <2>2 DEF Answer
<1>9. Truly(r)
  <2>1. \A k \in 1..Len(ids) : ids[k] \in Ids
    BY <1>2 DEF Found
  <2>2. ASSUME NEW k \in 1..Len(r) PROVE r[k].is \in {"erase", "header", "found"}
    <3>1. Len(h) \in Nat
      BY <1>4
    <3>2. k = 1 \/ k = Len(h) + 2 \/ (k - 1 \in 1..Len(h) /\ 1 + (k - 1) = k)
      BY <1>6, <3>1
    <3>3. CASE k = 1
      BY <1>5, <1>6, <3>3
    <3>4. CASE k = Len(h) + 2
      BY <1>5, <1>6, <3>4
    <3>5. CASE k - 1 \in 1..Len(h) /\ 1 + (k - 1) = k
      <4>1. r[1 + (k - 1)] = h[k - 1] /\ h[k - 1].is = "header"
        BY <1>4, <1>6, <3>5
      <4> QED
        BY <3>5, <4>1
    <3> QED
      BY <3>2, <3>3, <3>4, <3>5
  <2> QED
    BY <1>4, <1>7, <2>1, <2>2 DEF Truly
<1> QED
  BY <1>1, <1>3, <1>8, <1>9

LEMMA ServeGood ==
  ASSUME TypeInv, ServerStep
  PROVE  ServerGood /\ (Mute \/ \E r : Answer(r) /\ outbox' = outbox \o r)
BY ViewGood, MarkNextGood, ViewShowGood, MoveGood, MoveNextGood, RemoveGood, SentGood, IndexGood,
   FindGood DEF ServerStep
----------------------------------------------------------------------------
(* What mu4e does keeps the variables what they should be. *)

ClientGood ==
  /\ buf' \in Seq(Told) /\ filtering' \in BOOLEAN
  /\ headers' \in Seq(Headers) /\ point' \in {0} \cup Ids
  /\ DOMAIN marks' \subseteq Ids /\ \A i \in DOMAIN marks' : marks'[i] \in MarkNames
  /\ PointInv'

LEMMA BothGood == ServerGood /\ outbox' \in Seq(Told) /\ ClientGood => TypeInv'
<1>1. \A r : r \in Seq(Told) => r \in Seq(Replies)
  BY SeqMonotonic DEF Told
<1> QED
  BY <1>1 DEF ServerGood, ClientGood, TypeInv, TypeOK, ServerTypeOK

LEMMA ClientSame == TypeInv /\ UNCHANGED client => ClientGood
BY DEF TypeInv, TypeOK, ClientGood, PointInv, Shown, client

(* The server's variables, but for the files and the commands *)
LEMMA ServerSame ==
  ASSUME TypeInv, UNCHANGED <<docs, last, task>>,
         files' \subseteq Paths, inbox' \in Seq(Commands), events' \in 0..MaxEvents,
         outdated' \subseteq Ids
  PROVE  ServerGood
BY DEF TypeInv, TypeOK, ServerTypeOK, ServerGood, TaskInv, LastInv, Found, WithMsgid

LEMMA CommandsAre ==
  ASSUME NEW cmd \in {"find", "view", "move", "remove", "sent", "index"}
  PROVE  /\ Cmd(cmd) \in Commands
         /\ \A c \in Commands :
              /\ \A i \in Ids, delta \in Deltas :
                   /\ [c EXCEPT !.id = i] \in Commands
                   /\ [c EXCEPT !.id = i, !.delta = delta] \in Commands
              /\ \A m \in {MsgidOf[n] : n \in Names}, delta \in Deltas :
                   [c EXCEPT !.msgid = m, !.delta = delta] \in Commands
              /\ \A dir \in Maildirs : [c EXCEPT !.dir = dir] \in Commands
              /\ \A p \in Paths : [c EXCEPT !.path = p] \in Commands
<1>1. Delta({}, {}) \in Deltas
  BY DEF Delta, Deltas
<1>2. Cmd(cmd) \in Commands
  BY <1>1 DEF Cmd, Commands
<1>3. \A i \in Ids : i \in 0..MaxId
  BY DEF Ids
<1>4. ASSUME NEW c \in Commands
      PROVE  /\ \A i \in Ids, delta \in Deltas :
                  /\ [c EXCEPT !.id = i] \in Commands
                  /\ [c EXCEPT !.id = i, !.delta = delta] \in Commands
             /\ \A m \in {MsgidOf[n] : n \in Names}, delta \in Deltas :
                  [c EXCEPT !.msgid = m, !.delta = delta] \in Commands
             /\ \A dir \in Maildirs : [c EXCEPT !.dir = dir] \in Commands
             /\ \A p \in Paths : [c EXCEPT !.path = p] \in Commands
  <2>1. \A i \in Ids, delta \in Deltas :
                  /\ [c EXCEPT !.id = i] \in Commands
                  /\ [c EXCEPT !.id = i, !.delta = delta] \in Commands
    BY <1>3 DEF Commands
  <2>2. \A m \in {MsgidOf[n] : n \in Names}, delta \in Deltas :
                  [c EXCEPT !.msgid = m, !.delta = delta] \in Commands
    BY DEF Commands
  <2>3. \A dir \in Maildirs : [c EXCEPT !.dir = dir] \in Commands
    BY DEF Commands
  <2>4. \A p \in Paths : [c EXCEPT !.path = p] \in Commands
    BY DEF Commands
  <2> QED
    BY <2>1, <2>2, <2>3, <2>4
<1> QED
  BY <1>2, <1>4

LEMMA ActionIs ==
  ASSUME NEW mark \in MarkNames, NEW i \in Ids
  PROVE  Action(mark, i) \in Commands
<1>1. \A delta \in Deltas : Change(i, delta) \in Commands
  BY CommandsAre DEF Change
<1>2. \A dir \in Maildirs, delta \in Deltas : MoveTo(i, dir, delta) \in Commands
  BY <1>1, CommandsAre DEF MoveTo
<1>3. [Cmd("remove") EXCEPT !.id = i] \in Commands
  BY CommandsAre, TasksAre
<1>4. /\ ReadDelta \in Deltas
      /\ \A plus \in SUBSET (FileFlags \cup {"u"}), minus \in SUBSET (FileFlags \cup {"N", "u"}) :
           Delta(plus, minus) \in Deltas
  BY DEF ReadDelta, Delta, Deltas
<1>5. "F" \in FileFlags \/ mark \notin {"flag", "unflag"}
  OBVIOUS
<1>6. "T" \in FileFlags \/ mark \notin {"trash", "untrash"}
  OBVIOUS
<1>7. mark \in {"read", "unread", "flag", "unflag", "refile", "trash", "untrash", "delete"}
  OBVIOUS
<1> QED
  BY <1>1, <1>2, <1>3, <1>4, <1>5, <1>6, <1>7 DEF Action

LEMMA SentIs ==
  ASSUME TypeInv, NEW cmds \in Seq(Commands), Send(cmds)
  PROVE  inbox' \in Seq(Commands)
BY DEF Send, TypeInv, TypeOK, ServerTypeOK

LEMMA SentOne ==
  ASSUME TypeInv, NEW c \in Commands, Send(<<c>>)
  PROVE  inbox' \in Seq(Commands)
<1>1. <<c>> \in Seq(Commands)
  OBVIOUS
<1> QED
  BY <1>1, SentIs

LEMMA EventIs == TypeInv /\ Event => events' \in 0..MaxEvents
BY DEF Event, TypeInv, TypeOK, ServerTypeOK

(* The place of a header, and what is below it *)
LEMMA PositionIs ==
  ASSUME TypeInv, NEW i \in Shown
  PROVE  /\ Position(i) \in 1..Len(headers) /\ headers[Position(i)].id = i
         /\ Below(i) = 0 \/ \E k \in 1..Len(headers) : k = Position(i) + 1 /\ Below(i) = headers[k].id
<1>1. Position(i) \in 1..Len(headers) /\ headers[Position(i)].id = i
  BY DEF Position, Shown
<1>2. Len(headers) \in Nat
  BY DEF TypeInv, TypeOK
<1> QED
  BY <1>1, <1>2 DEF Below

LEMMA ShownIds == TypeInv => Shown \subseteq Ids
<1> SUFFICES ASSUME TypeInv, NEW k \in 1..Len(headers) PROVE headers[k].id \in Ids
  BY DEF Shown
<1>1. headers[k] \in Headers
  BY DEF TypeInv, TypeOK
<1> QED
  BY <1>1 DEF Headers

LEMMA NoMarksAre == NoMarks = [i \in {} |-> "read"] /\ DOMAIN NoMarks = {}
BY DEF NoMarks

LEMMA RemoveAtIs ==
  ASSUME NEW S, NEW s \in Seq(S), NEW k \in 1..Len(s)
  PROVE  /\ RemoveAt(s, k) \in Seq(S) /\ Len(RemoveAt(s, k)) = Len(s) - 1
         /\ \A j \in 1..Len(s) - 1 : RemoveAt(s, k)[j] = IF j < k THEN s[j] ELSE s[j + 1]
<1> DEFINE a == SubSeq(s, 1, k - 1)
           b == SubSeq(s, k + 1, Len(s))
<1>1. Len(s) \in Nat /\ \A j \in 1..Len(s) : s[j] \in S
  OBVIOUS
<1>2. a \in Seq(S) /\ Len(a) = k - 1 /\ \A j \in 1..k - 1 : a[j] = s[j]
  BY <1>1
<1>3. b \in Seq(S) /\ Len(b) = Len(s) - k /\ \A j \in 1..Len(s) - k : b[j] = s[j + k]
  BY <1>1
<1>4. RemoveAt(s, k) = a \o b
  BY DEF RemoveAt
<1> HIDE DEF a, b
<1>5. /\ a \o b \in Seq(S) /\ Len(a \o b) = Len(a) + Len(b)
      /\ \A j \in 1..Len(a) : (a \o b)[j] = a[j]
      /\ \A j \in 1..Len(a \o b) : j \notin 1..Len(a) => j - Len(a) \in 1..Len(b) /\ (a \o b)[j] = b[j - Len(a)]
  <2>1. a \in Seq(S) /\ b \in Seq(S)
    BY <1>2, <1>3
  <2> QED
    BY <2>1, ConcatIs
<1>6. ASSUME NEW j \in 1..Len(s) - 1 PROVE (a \o b)[j] = IF j < k THEN s[j] ELSE s[j + 1]
  <2>1. CASE j < k
    BY <1>1, <1>2, <1>5, <2>1
  <2>2. CASE ~(j < k)
    <3>1. j - (k - 1) \in 1..Len(s) - k /\ (a \o b)[j] = b[j - (k - 1)]
      BY <1>1, <1>2, <1>3, <1>5, <2>2
    <3>2. b[j - (k - 1)] = s[(j - (k - 1)) + k] /\ (j - (k - 1)) + k = j + 1
      BY <1>1, <1>3, <3>1
    <3> QED
      BY <1>1, <2>2, <3>1, <3>2
  <2> QED
    BY <2>1, <2>2
<1> QED
  BY <1>1, <1>2, <1>3, <1>4, <1>5, <1>6

(* Where the headers are when one goes, and which when one is replaced *)
LEMMA WithoutIs ==
  ASSUME TypeInv, NEW i \in Shown
  PROVE  /\ Without(i) \in Seq(Headers) /\ Len(Without(i)) = Len(headers) - 1
         /\ \A j \in 1..Len(headers) - 1 :
              Without(i)[j] = IF j < Position(i) THEN headers[j] ELSE headers[j + 1]
<1>1. headers \in Seq(Headers) /\ Position(i) \in 1..Len(headers)
  BY PositionIs DEF TypeInv, TypeOK
<1> QED
  BY <1>1, RemoveAtIs DEF Without

LEMMA WithIs ==
  ASSUME TypeInv, NEW i \in Shown, NEW p \in Paths
  PROVE  /\ With(i, p) \in Seq(Headers) /\ Len(With(i, p)) = Len(headers)
         /\ \A j \in 1..Len(headers) : With(i, p)[j].id = headers[j].id
<1> DEFINE k == Position(i)
           x == [headers[k] EXCEPT !.path = p]
<1>1. headers \in Seq(Headers) /\ k \in 1..Len(headers)
  BY PositionIs DEF TypeInv, TypeOK
<1>2. headers[k] \in Headers
  BY <1>1
<1>3. x \in Headers /\ x.id = headers[k].id
  BY <1>2 DEF Headers
<1>4. With(i, p) = [headers EXCEPT ![k] = x]
  BY DEF With
<1> HIDE DEF x, k
<1> QED
  BY <1>1, <1>3, <1>4, ExceptSeq

(* What a change of a header leaves: no header but those there were *)
LEMMA WithoutDoes ==
  ASSUME TypeInv, NEW i \in Shown, headers' = Without(i)
  PROVE  /\ headers' \in Seq(Headers) /\ Shown' \subseteq Shown /\ Shown \ {i} \subseteq Shown'
         /\ Below(i) = 0 \/ Below(i) \in Shown'
         /\ point' = Below(i) => point' \in {0} \cup Ids /\ PointInv'
<1>0. headers \in Seq(Headers) /\ Len(headers) \in Nat /\ Shown \subseteq Ids
  BY ShownIds DEF TypeInv, TypeOK
<1>1. Position(i) \in 1..Len(headers) /\ headers[Position(i)].id = i
      /\ (Below(i) = 0 \/ \E k \in 1..Len(headers) : k = Position(i) + 1 /\ Below(i) = headers[k].id)
  BY PositionIs
<1>2. /\ headers' \in Seq(Headers) /\ Len(headers') = Len(headers) - 1
      /\ \A j \in 1..Len(headers) - 1 :
           headers'[j] = IF j < Position(i) THEN headers[j] ELSE headers[j + 1]
  BY WithoutIs
<1>3. Shown' \subseteq Shown
  <2> SUFFICES ASSUME NEW j \in 1..Len(headers) - 1 PROVE headers'[j].id \in Shown
    BY <1>2 DEF Shown
  <2>1. j \in 1..Len(headers) /\ j + 1 \in 1..Len(headers)
    BY <1>0
  <2>2. headers'[j] = headers[j] \/ headers'[j] = headers[j + 1]
    BY <1>2
  <2> QED
    BY <2>1, <2>2 DEF Shown
<1>4. ASSUME NEW k \in 1..Len(headers), k # Position(i)
      PROVE  headers[k].id \in Shown'
  <2>1. CASE k < Position(i)
    BY <1>0, <1>1, <1>2, <2>1 DEF Shown
  <2>2. CASE k > Position(i)
    <3>1. k - 1 \in 1..Len(headers) - 1 /\ headers'[k - 1] = headers[(k - 1) + 1] /\ (k - 1) + 1 = k
      BY <1>0, <1>1, <1>2, <2>2
    <3> QED
      BY <1>2, <3>1 DEF Shown
  <2> QED
    BY <1>0, <1>1, <1>4, <2>1, <2>2
<1>5. Shown \ {i} \subseteq Shown'
  BY <1>1, <1>4 DEF Shown
<1>6. Below(i) = 0 \/ Below(i) \in Shown'
  BY <1>0, <1>1, <1>4
<1> QED
  BY <1>0, <1>2, <1>3, <1>5, <1>6 DEF PointInv

LEMMA UpdateHeaderDoes ==
  ASSUME TypeInv, NEW i \in Shown, NEW p \in Paths, NEW moved, UpdateHeader(i, p, moved)
  PROVE  headers' \in Seq(Headers) /\ point' \in {0} \cup Ids /\ PointInv' /\ Shown' \subseteq Shown
<1>0. headers \in Seq(Headers) /\ Len(headers) \in Nat /\ Shown \subseteq Ids
  BY ShownIds DEF TypeInv, TypeOK
<1>1. Position(i) \in 1..Len(headers) /\ headers[Position(i)].id = i
      /\ (Below(i) = 0 \/ \E k \in 1..Len(headers) : k = Position(i) + 1 /\ Below(i) = headers[k].id)
  BY PositionIs
<1>2. CASE moved
  <2>1. headers' = Without(i)
    BY <1>2 DEF UpdateHeader
  <2>2. /\ headers' \in Seq(Headers) /\ Shown' \subseteq Shown /\ Shown \ {i} \subseteq Shown'
        /\ Below(i) = 0 \/ Below(i) \in Shown'
    BY <2>1, WithoutDoes
  <2>7. point' = 0 \/ point' \in Shown'
    BY <1>2, <2>2 DEF UpdateHeader
  <2> QED
    BY <1>0, <2>2, <2>7 DEF PointInv
<1>3. CASE ~moved
  <2>1. headers' = With(i, p)
    BY <1>3 DEF UpdateHeader
  <2>2. /\ headers' \in Seq(Headers) /\ Len(headers') = Len(headers)
        /\ \A j \in 1..Len(headers) : headers'[j].id = headers[j].id
    BY <2>1, WithIs
  <2>3. Shown' = Shown
    BY <2>2 DEF Shown
  <2>4. point' \in Shown'
    BY <1>3, <2>3 DEF UpdateHeader
  <2> QED
    BY <1>0, <2>2, <2>3, <2>4 DEF PointInv
<1> QED
  BY <1>2, <1>3

(* Headers that stay, and a buffer that stays *)
LEMMA HeadersSame ==
  ASSUME TypeInv, UNCHANGED headers, point' = 0 \/ point' \in Shown
  PROVE  headers' \in Seq(Headers) /\ point' \in {0} \cup Ids /\ PointInv'
BY ShownIds DEF TypeInv, TypeOK, PointInv, Shown

LEMMA HeadersGone ==
  headers' = <<>> /\ point' = 0
    => headers' \in Seq(Headers) /\ point' \in {0} \cup Ids /\ PointInv'
BY DEF PointInv

LEMMA MarksSame ==
  TypeInv /\ (UNCHANGED marks \/ marks' = NoMarks)
    => DOMAIN marks' \subseteq Ids /\ \A i \in DOMAIN marks' : marks'[i] \in MarkNames
BY NoMarksAre DEF TypeInv, TypeOK

LEMMA UserGood ==
  ASSUME TypeInv, User
  PROVE  ServerGood /\ ClientGood /\ UNCHANGED <<outbox, buf>>
<1>0. /\ UNCHANGED outdated => outdated' \subseteq Ids
      /\ UNCHANGED files => files' \subseteq Paths
      /\ UNCHANGED events => events' \in 0..MaxEvents
      /\ UNCHANGED inbox => inbox' \in Seq(Commands)
      /\ UNCHANGED <<buf, filtering>> => buf' \in Seq(Told) /\ filtering' \in BOOLEAN
  BY DEF TypeInv, TypeOK, ServerTypeOK
<1>1. CASE Search
  <2>1. inbox' \in Seq(Commands)
    BY <1>1, CommandsAre, SentOne DEF Search
  <2> QED
    BY <1>0, <1>1, <2>1, EventIs, ServerSame, HeadersGone, MarksSame DEF Search, Free, ClientGood
<1>2. CASE ViewMessage
  <2>1. point \in Ids /\ PointInv
    BY <1>2 DEF ViewMessage, TypeInv, TypeOK
  <2>2. inbox' \in Seq(Commands)
    <3>1. [Cmd("view") EXCEPT !.id = point] \in Commands
      BY <2>1, CommandsAre, TasksAre
    <3> QED
      BY <1>2, <3>1, SentOne DEF ViewMessage
  <2> QED
    BY <1>0, <1>2, <2>1, <2>2, EventIs, ServerSame, HeadersSame, MarksSame DEF ViewMessage, Free, ClientGood, PointInv
<1>3. CASE UpdateIndex
  <2>1. inbox' \in Seq(Commands)
    BY <1>3, CommandsAre, SentOne DEF UpdateIndex
  <2>2. PointInv
    BY DEF TypeInv
  <2> QED
    BY <1>0, <1>3, <2>1, <2>2, EventIs, ServerSame, HeadersSame, MarksSame DEF UpdateIndex, Free, ClientGood, PointInv
<1>4. CASE SendDraft
  <2>1. inbox' \in Seq(Commands)
    <3>1. [Cmd("sent") EXCEPT !.path = Draft] \in Commands
      BY CommandsAre
    <3> QED
      BY <1>4, <3>1, SentOne DEF SendDraft
  <2>2. files' \subseteq Paths
    BY <1>4 DEF SendDraft, TypeInv, TypeOK, ServerTypeOK
  <2> QED
    BY <1>0, <1>4, <2>1, <2>2, EventIs, ServerSame, ClientSame DEF SendDraft, client
<1>5. ASSUME NEW i \in Ids \cup {0}, Goto(i) PROVE ServerGood /\ ClientGood /\ UNCHANGED <<outbox, buf>>
  BY <1>0, <1>5, ServerSame, HeadersSame, MarksSame DEF Goto, Free, ClientGood
<1>6. ASSUME NEW mark \in MarkNames, Mark(mark) PROVE ServerGood /\ ClientGood /\ UNCHANGED <<outbox, buf>>
  <2>1. point \in Shown /\ point \in Ids
    BY <1>6, ShownIds DEF Mark, TypeInv, PointInv
  <2>2. point' = 0 \/ point' \in Shown
    <3>1. point' = Below(point)
      BY <1>6 DEF Mark
    <3> QED
      BY <2>1, <3>1, PositionIs DEF Shown
  <2>3. DOMAIN marks' \subseteq Ids /\ \A i \in DOMAIN marks' : marks'[i] \in MarkNames
    BY <1>6, <2>1 DEF Mark, TypeInv, TypeOK
  <2> QED
    BY <1>0, <1>6, <2>2, <2>3, ServerSame, HeadersSame DEF Mark, Free, ClientGood
<1>7. ASSUME NEW ids \in SUBSET DOMAIN marks, Execute(ids)
      PROVE  ServerGood /\ ClientGood /\ UNCHANGED <<outbox, buf>>
  <2> DEFINE order == SetToSeq(ids)
             cmds == [k \in 1..Len(order) |-> Action(marks[order[k]], order[k])]
  <2>1. ids \subseteq Ids /\ \A i \in ids : marks[i] \in MarkNames
    BY DEF TypeInv, TypeOK
  <2>2. order \in Seq(ids)
    BY <2>1, IdsFinite, SetToSeqIs
  <2>3. Send(cmds)
    BY <1>7 DEF Execute
  <2> HIDE DEF order
  <2>4. \A k \in 1..Len(order) : Action(marks[order[k]], order[k]) \in Commands
    <3>1. \A k \in 1..Len(order) : order[k] \in Ids /\ marks[order[k]] \in MarkNames
      BY <2>1, <2>2
    <3> QED
      BY <3>1, ActionIs
  <2>5. cmds \in Seq(Commands)
    <3>1. Len(order) \in Nat
      BY <2>2
    <3> QED
      BY <2>4, <3>1
  <2>6. inbox' \in Seq(Commands)
    BY <2>3, <2>5, SentIs
  <2>7. PointInv
    BY DEF TypeInv
  <2>8. Free /\ Event /\ UNCHANGED <<headers, point>> /\ (UNCHANGED marks \/ marks' = NoMarks)
    BY <1>7 DEF Execute
  <2> QED
    BY <1>0, <2>6, <2>7, <2>8, EventIs, ServerSame, HeadersSame, MarksSame DEF Free, ClientGood, PointInv
<1> QED
  BY <1>1, <1>2, <1>3, <1>4, <1>5, <1>6, <1>7 DEF User

LEMMA OtherGood ==
  ASSUME TypeInv, OtherProgram
  PROVE  ServerGood /\ ClientGood /\ UNCHANGED <<outbox, buf, headers>>
<1>1. Other
  BY DEF OtherProgram, Delete, Rename, Deliver
<1>2. files' \subseteq Paths
  BY DEF OtherProgram, Delete, Rename, Deliver, Renamed, TypeInv, TypeOK, ServerTypeOK
<1>3. inbox' \in Seq(Commands) /\ outdated' \subseteq Ids
  BY <1>1 DEF Other, TypeInv, TypeOK, ServerTypeOK
<1> QED
  BY <1>1, <1>2, <1>3, EventIs, ServerSame, ClientSame DEF Other, client

(* A chunk: what has come of the replies and what has not are the same.    *)
LEMMA ReceptionGood ==
  ASSUME TypeInv, Reception
  PROVE  /\ ServerGood /\ ClientGood /\ outbox' \in Seq(Told)
         /\ buf' \o outbox' = buf \o outbox /\ UNCHANGED headers
<1>1. PICK n \in 1..Len(outbox) : Receive(n)
  BY DEF Reception
<1> DEFINE a == SubSeq(outbox, 1, n)
           b == SubSeq(outbox, n + 1, Len(outbox))
<1>2. outbox \in Seq(Told) /\ buf \in Seq(Told) /\ PointInv
  BY DEF TypeInv
<1>3. a \in Seq(Told) /\ b \in Seq(Told)
  <2>1. Len(outbox) \in Nat /\ \A k \in 1..Len(outbox) : outbox[k] \in Told
    BY <1>2
  <2> QED
    BY <2>1
<1>4. a \o b = outbox
  <2>1. 1 \in 1..Len(outbox) + 1 /\ n \in 1 - 1..Len(outbox) /\ Len(outbox) \in n..Len(outbox)
    BY <1>2
  <2>2. a \o b = SubSeq(outbox, 1, Len(outbox))
    BY <1>2, <2>1, ConcatAdjacentSubSeq
  <2> QED
    BY <1>2, <2>2, SubSeqFull
<1>5. buf' = buf \o a /\ outbox' = b
  BY <1>1 DEF Receive
<1> HIDE DEF a, b
<1>6. buf' \in Seq(Told) /\ buf' \o outbox' = buf \o outbox
  <2>1. buf \o a \in Seq(Told)
    BY <1>2, <1>3
  <2>2. (buf \o a) \o b = buf \o (a \o b)
    <3>1. buf \in Seq(Told) /\ a \in Seq(Told) /\ b \in Seq(Told)
      BY <1>2, <1>3
    <3> QED
      BY <3>1, ConcatAssociative
  <2> QED
    BY <1>4, <1>5, <2>1, <2>2
<1>7. ServerGood
  BY <1>1, ServerSame DEF Receive, TypeInv, TypeOK, ServerTypeOK
<1>8. ClientGood
  BY <1>1, <1>2, <1>6, HeadersSame, MarksSame DEF Receive, ClientGood, PointInv
<1> QED
  BY <1>1, <1>3, <1>5, <1>6, <1>7, <1>8 DEF Receive

LEMMA EatsDoes ==
  ASSUME TypeInv, NEW kinds, Eats(kinds)
  PROVE  /\ Head(buf) \in Told /\ Head(buf).is \in kinds /\ buf' \in Seq(Told)
         /\ files' \subseteq Paths /\ UNCHANGED <<files, docs, last, outbox, task>> /\ events' \in 0..MaxEvents
         /\ filtering \in BOOLEAN /\ outdated \subseteq Ids /\ inbox \in Seq(Commands)
BY DEF Eats, TypeInv, TypeOK, ServerTypeOK

(* What a handler does to the headers, the marks and the commands, when    *)
(* the rest is as it should be                                             *)
LEMMA HandlerGood ==
  ASSUME TypeInv, NEW kinds, Eats(kinds), filtering' \in BOOLEAN, outdated' \subseteq Ids,
         inbox' \in Seq(Commands),
         headers' \in Seq(Headers) /\ point' \in {0} \cup Ids /\ PointInv',
         DOMAIN marks' \subseteq Ids /\ \A i \in DOMAIN marks' : marks'[i] \in MarkNames
  PROVE  ServerGood /\ ClientGood /\ UNCHANGED outbox
BY EatsDoes, ServerSame DEF ClientGood

LEMMA QuietGood ==
  TypeInv /\ Quiet => filtering' \in BOOLEAN /\ outdated' \subseteq Ids /\ inbox' \in Seq(Commands)
BY DEF Quiet, TypeInv, TypeOK, ServerTypeOK

LEMMA HeaderGood ==
  ASSUME TypeInv, HeaderHandler
  PROVE  /\ ServerGood /\ ClientGood /\ UNCHANGED outbox
         /\ \E x \in Headers : /\ headers' = Append(headers, x)
                               /\ x.id = Head(buf).id /\ x.path = Head(buf).path
<1>1. Head(buf) \in Told /\ Head(buf).is = "header" /\ Eats({"header"})
  BY EatsDoes DEF HeaderHandler
<1> DEFINE x == [id |-> Head(buf).id, path |-> Head(buf).path]
<1>2. x \in Headers /\ x.id = Head(buf).id /\ x.path = Head(buf).path
  BY <1>1 DEF Told, Headers
<1>3. headers' = Append(headers, x) /\ Quiet /\ UNCHANGED marks
      /\ point' = IF point = 0 THEN Head(buf).id ELSE point
  BY DEF HeaderHandler
<1> HIDE DEF x
<1>4. /\ headers \in Seq(Headers) /\ Len(headers) \in Nat
      /\ headers' \in Seq(Headers) /\ Len(headers') = Len(headers) + 1
      /\ \A j \in 1..Len(headers) : headers'[j] = headers[j]
      /\ headers'[Len(headers) + 1] = x
  BY <1>2, <1>3 DEF TypeInv, TypeOK
<1>5. Shown \subseteq Shown' /\ Head(buf).id \in Shown'
  BY <1>2, <1>4 DEF Shown
<1>6. point' = 0 \/ point' \in Shown'
  BY <1>3, <1>5 DEF TypeInv, PointInv
<1>7. point' \in {0} \cup Ids
  BY <1>1, <1>3 DEF TypeInv, TypeOK, Told
<1>8. ServerGood /\ ClientGood /\ UNCHANGED outbox
  BY <1>1, <1>3, <1>4, <1>6, <1>7, HandlerGood, QuietGood, MarksSame DEF PointInv
<1> QED
  BY <1>2, <1>3, <1>8

LEMMA UpdateGood ==
  ASSUME TypeInv, UpdateHandler
  PROVE  ServerGood /\ ClientGood /\ UNCHANGED outbox /\ Shown' \subseteq Shown
<1> DEFINE i == Head(buf).id
           p == Head(buf).path
           moved == Head(buf).moved
<1>1. Head(buf) \in Told /\ Head(buf).is = "update" /\ Eats({"update"})
  BY EatsDoes DEF UpdateHandler
<1>2. i \in Ids /\ p \in Paths
  BY <1>1 DEF Told
<1>3. PointInv
  BY DEF TypeInv
<1>4. CASE i \notin Shown /\ Quiet /\ UNCHANGED <<headers, point, marks>>
  BY <1>1, <1>3, <1>4, HandlerGood, QuietGood, MarksSame, HeadersSame DEF PointInv, Shown
<1>5. CASE /\ i \in Shown \ DOMAIN marks
           /\ Quiet /\ UpdateHeader(i, p, moved) /\ UNCHANGED marks
  BY <1>1, <1>2, <1>5, HandlerGood, QuietGood, MarksSame, UpdateHeaderDoes
<1>6. CASE /\ i \in Shown \cap DOMAIN marks /\ point # 0
           /\ Quiet /\ UpdateHeader(i, p, moved)
           /\ marks' = IF point # i THEN Unmark(marks, point)
                       ELSE IF moved THEN Unmark(marks, i) ELSE marks
  <2>1. DOMAIN marks' \subseteq Ids /\ \A j \in DOMAIN marks' : marks'[j] \in MarkNames
    BY <1>6 DEF Unmark, TypeInv, TypeOK
  <2> QED
    BY <1>1, <1>2, <1>6, <2>1, HandlerGood, QuietGood, UpdateHeaderDoes
<1>7. CASE /\ i \in Shown \cap DOMAIN marks /\ point = 0
           /\ filtering' = FALSE
           /\ outdated' = outdated \cup {i}
           /\ UNCHANGED <<inbox, headers, point, marks>>
  <2>1. outdated' \subseteq Ids /\ inbox' \in Seq(Commands)
    BY <1>1, <1>2, <1>7, EatsDoes
  <2> QED
    BY <1>1, <1>7, <2>1, HandlerGood, MarksSame, HeadersSame DEF Shown
<1> QED
  BY <1>4, <1>5, <1>6, <1>7 DEF UpdateHandler

LEMMA RemoveHandlerGood ==
  ASSUME TypeInv, RemoveHandler
  PROVE  ServerGood /\ ClientGood /\ UNCHANGED outbox /\ Shown' \subseteq Shown
<1> DEFINE i == Head(buf).id
<1>1. Head(buf) \in Told /\ Head(buf).is = "remove" /\ Eats({"remove"}) /\ Quiet /\ UNCHANGED marks
  BY EatsDoes DEF RemoveHandler
<1>2. PointInv /\ Shown \subseteq Ids
  BY ShownIds DEF TypeInv
<1>3. CASE i \notin Shown /\ UNCHANGED <<headers, point>>
  BY <1>1, <1>2, <1>3, HandlerGood, QuietGood, MarksSame, HeadersSame DEF PointInv, Shown
<1>4. CASE i \in Shown /\ headers' = Without(i) /\ point' = Below(i)
  BY <1>1, <1>4, HandlerGood, QuietGood, MarksSame, WithoutDoes
<1> QED
  BY <1>3, <1>4 DEF RemoveHandler

(* The other replies *)
LEMMA OthersGood ==
  ASSUME TypeInv,
         \/ EraseHandler \/ FoundHandler \/ SentHandler \/ InfoHandler \/ ViewHandler \/ ErrorHandler
  PROVE  /\ ServerGood /\ ClientGood /\ UNCHANGED outbox
         /\ UNCHANGED headers \/ headers' = <<>>
<1>0. PointInv
  BY DEF TypeInv
<1>1. CASE EraseHandler
  BY <1>1, HandlerGood, QuietGood, MarksSame, HeadersGone DEF EraseHandler
<1>2. CASE FoundHandler
  <2>1. Eats({"found"}) /\ Quiet /\ UNCHANGED <<headers, marks>>
        /\ point' = IF headers = <<>> THEN 0 ELSE headers[1].id
    BY <1>2 DEF FoundHandler
  <2>2. point' = 0 \/ point' \in Shown
    <3>1. headers \in Seq(Headers)
      BY DEF TypeInv, TypeOK
    <3>2. headers # <<>> => 1 \in 1..Len(headers)
      BY <3>1
    <3> QED
      BY <2>1, <3>2 DEF Shown
  <2> QED
    BY <2>1, <2>2, HandlerGood, QuietGood, MarksSame, HeadersSame
<1>3. CASE SentHandler
  <2> DEFINE a == [Cmd("move") EXCEPT !.msgid = Replied, !.delta = Delta({"R"}, {"N"})]
             b == [Cmd("remove") EXCEPT !.id = Head(buf).id]
             c == IF Head(buf).path \in files THEN <<b>> ELSE <<>>
  <2>1. Head(buf) \in Told /\ Head(buf).is = "sent" /\ Eats({"sent"})
        /\ UNCHANGED <<filtering, outdated, headers, point, marks>>
    BY <1>3, EatsDoes DEF SentHandler
  <2>2. Head(buf).id \in Ids
    BY <2>1 DEF Told
  <2>3. Delta({"R"}, {"N"}) \in Deltas
    BY DEF Delta, Deltas
  <2>4. a \in Commands
    BY <2>3, CommandsAre
  <2>5. b \in Commands
    BY <2>2, CommandsAre, TasksAre
  <2>6. Send(<<a>> \o c)
    BY <1>3 DEF SentHandler
  <2> HIDE DEF a, b
  <2>7. <<a>> \o c \in Seq(Commands)
    <3>1. <<a>> \in Seq(Commands) /\ <<b>> \in Seq(Commands) /\ <<>> \in Seq(Commands)
      BY <2>4, <2>5
    <3>2. c \in Seq(Commands)
      BY <3>1
    <3> HIDE DEF c
    <3> QED
      BY <3>1, <3>2
  <2>8. inbox' \in Seq(Commands)
    BY <2>6, <2>7, SentIs
  <2> QED
    BY <1>0, <2>1, <2>8, HandlerGood, EatsDoes, MarksSame, HeadersSame DEF PointInv
<1>4. CASE InfoHandler
  <2>1. Eats({"info"}) /\ UNCHANGED <<filtering, outdated, marks>>
    BY <1>4 DEF InfoHandler
  <2>2. filtering' \in BOOLEAN /\ outdated' \subseteq Ids
    BY <2>1, EatsDoes
  <2>3. CASE UNCHANGED <<inbox, headers, point, marks>>
    BY <1>0, <2>1, <2>2, <2>3, HandlerGood, EatsDoes, MarksSame, HeadersSame DEF PointInv
  <2>4. CASE headers' = <<>> /\ point' = 0 /\ Send(<<Cmd("find")>>)
    <3>1. inbox' \in Seq(Commands)
      BY <2>4, CommandsAre, SentOne
    <3> QED
      BY <2>1, <2>2, <2>4, <3>1, HandlerGood, MarksSame, HeadersGone
  <2> QED
    BY <1>4, <2>3, <2>4 DEF InfoHandler
<1>5. CASE ViewHandler
  BY <1>0, <1>5, HandlerGood, QuietGood, MarksSame, HeadersSame DEF ViewHandler, PointInv
<1>6. CASE ErrorHandler
  <2>1. Eats({"error"}) /\ UNCHANGED <<outdated, inbox, headers, point, marks>> /\ filtering' \in BOOLEAN
    BY <1>6 DEF ErrorHandler
  <2> QED
    BY <1>0, <2>1, HandlerGood, EatsDoes, MarksSame, HeadersSame DEF PointInv
<1> QED
  BY <1>1, <1>2, <1>3, <1>4, <1>5, <1>6

LEMMA EndGood ==
  ASSUME TypeInv, FilterEnds
  PROVE  ServerGood /\ ClientGood /\ UNCHANGED <<outbox, buf, headers>>
<1>0. PointInv
  BY DEF TypeInv
<1>1. ServerGood
  BY ServerSame DEF FilterEnds, server, TypeInv, TypeOK, ServerTypeOK
<1>2. buf' \in Seq(Told)
  BY DEF FilterEnds, TypeInv
<1> QED
  BY <1>0, <1>1, <1>2, HeadersSame, MarksSame DEF FilterEnds, server, ClientGood, PointInv

LEMMA InitGood == Init => TypeInv
<1> SUFFICES ASSUME Init PROVE TypeInv
  OBVIOUS
<1> DEFINE paths == SetToSeq(files)
<1>1. files \subseteq Paths /\ IsFiniteSet(files) /\ Cardinality(files) <= MaxId
  BY DEF Init
<1>2. paths \in Seq(files) /\ Len(paths) = Cardinality(files)
  BY <1>1, SetToSeqIs
<1>3. docs = [i \in Ids |-> IF i <= Len(paths) THEN paths[i] ELSE None] /\ last = Len(paths)
  BY DEF Init
<1> HIDE DEF paths
<1>4. Len(paths) \in Nat /\ \A i \in 1..Len(paths) : paths[i] \in Paths
  BY <1>1, <1>2
<1>5. docs \in [Ids -> Paths \cup {None}]
  BY <1>3, <1>4 DEF Ids
<1>6. last \in 0..MaxId /\ LastInv
  BY <1>1, <1>2, <1>3, <1>4 DEF LastInv, Found, Ids
<1>7. task \in Tasks /\ TaskInv
  BY TasksAre DEF Init, TaskInv
<1>8. DOMAIN marks \subseteq Ids /\ \A i \in DOMAIN marks : marks[i] \in MarkNames
  BY NoMarksAre DEF Init
<1>9. inbox \in Seq(Commands) /\ outbox \in Seq(Told) /\ outbox \in Seq(Replies)
      /\ buf \in Seq(Told) /\ buf \in Seq(Replies) /\ headers \in Seq(Headers)
  BY DEF Init
<1>10. events \in 0..MaxEvents /\ outdated \subseteq Ids /\ filtering \in BOOLEAN
       /\ point \in {0} \cup Ids /\ PointInv
  <2>1. events \in 0..MaxEvents /\ outdated \subseteq Ids
    BY DEF Init
  <2>2. filtering \in BOOLEAN
    BY DEF Init
  <2> QED
    BY <2>1, <2>2 DEF Init, PointInv
<1>11. ServerTypeOK
  BY <1>1, <1>5, <1>6, <1>7, <1>9, <1>10 DEF ServerTypeOK
<1> QED
  BY <1>6, <1>7, <1>8, <1>9, <1>10, <1>11 DEF TypeInv, TypeOK

LEMMA NextGood == TypeInv /\ [Next]_vars => TypeInv'
<1> SUFFICES ASSUME TypeInv, [Next]_vars PROVE TypeInv'
  OBVIOUS
<1>0. outbox \in Seq(Told)
  BY DEF TypeInv
<1>1. CASE Serve
  <2>1. outbox' \in Seq(Told)
    <3>1. PICK r \in Seq(Told) : outbox' = outbox \o r
      BY <1>1, ServeGood DEF Serve, Mute, Silent, Answer
    <3> QED
      BY <1>0, <3>1
  <2> QED
    BY <1>1, <2>1, ServeGood, ClientSame, BothGood DEF Serve
<1>2. CASE User
  BY <1>0, <1>2, UserGood, BothGood
<1>3. CASE Reception
  BY <1>3, ReceptionGood, BothGood
<1>4. CASE Filter
  BY <1>0, <1>4, HeaderGood, UpdateGood, RemoveHandlerGood, OthersGood, EndGood, BothGood DEF Filter
<1>5. CASE OtherProgram
  BY <1>0, <1>5, OtherGood, BothGood
<1>6. CASE UNCHANGED vars
  BY <1>6 DEF vars, server, client, TypeInv, TypeOK, ServerTypeOK, TaskInv, LastInv, PointInv, Found,
              WithMsgid, Shown
<1> QED
  BY <1>1, <1>2, <1>3, <1>4, <1>5, <1>6 DEF Next

(* The variables of mu4e and the server have their types: replies are      *)
(* about messages that have ids, and point is on a header.                 *)
THEOREM TypeCorrect == Spec => []TypeOK
<1>1. TypeInv => TypeOK
  BY DEF TypeInv
<1> QED
  BY InitGood, NextGood, <1>1, PTL DEF Spec

----------------------------------------------------------------------------
(* What changes of a message's flags and path *)

LEMMA FromDeltaTarget ==
  ASSUME TypeInv, NEW i \in Found, NEW dir \in Maildirs \cup {None}, NEW delta \in Deltas
  PROVE  FlagsFromPath(docs[i]) \ delta.minus
           \subseteq FlagsFromPath(Target(i, dir, FromDelta(delta, FlagsFromPath(docs[i]))))
<1>1. TypeOK
  BY DEF TypeInv
<1> DEFINE flags == FromDelta(delta, FlagsFromPath(docs[i]))
<1>2. docs[i] \in Paths /\ \E d \in Maildirs : Target(i, dir, flags) = NewPath(docs[i], d, flags)
  BY <1>1, TargetIs
<1>3. PICK d \in Maildirs : Target(i, dir, flags) = NewPath(docs[i], d, flags)
  BY <1>2
<1> QED
  BY <1>2, <1>3, NewPathKeeps

(* A move changes the path of the message it is about and of no other, *)
(* when its file is there.                                             *)
LEMMA PerformMoveChanges ==
  ASSUME TypeInv, NEW i \in Found, NEW q \in Paths, NEW next, PerformMove(i, q, next),
         NEW j \in Ids, ChangesPath(j)
  PROVE  j = i /\ docs[i] \in files /\ docs'[i] = q /\ q \in files'
<1>1. docs \in [Ids -> Paths \cup {None}] /\ i \in Ids
  BY DEF TypeInv, TypeOK, ServerTypeOK, Found
<1>2. CASE Moves(i, q)
  BY <1>1, <1>2 DEF Moves, Renamed, ChangesPath
<1>3. CASE MoveFails(i, q)
  BY <1>3 DEF MoveFails, ChangesPath
<1> QED
  BY <1>2, <1>3 DEF PerformMove

(* What MoveKeepsFlags says of one message *)
KeepsFlags(j) ==
  /\ docs[j] \in files /\ docs'[j] \in files'
  /\ FlagsFromPath(docs[j]) \ TakenAway \subseteq FlagsFromPath(docs'[j])

LEMMA MovedKeepsFlags ==
  ASSUME TypeInv, NEW i \in Found, NEW dir \in Maildirs \cup {None}, NEW delta \in Deltas,
         TakenAway = delta.minus, NEW next,
         PerformMove(i, Target(i, dir, FromDelta(delta, FlagsFromPath(docs[i]))), next),
         NEW j \in Ids, ChangesPath(j)
  PROVE  KeepsFlags(j)
<1> DEFINE q == Target(i, dir, FromDelta(delta, FlagsFromPath(docs[i])))
<1>1. TypeOK
  BY DEF TypeInv
<1>2. q \in Paths
  BY <1>1, TargetIs
<1>3. FlagsFromPath(docs[i]) \ delta.minus \subseteq FlagsFromPath(q)
  BY FromDeltaTarget
<1>4. PerformMove(i, q, next)
  OBVIOUS
<1> HIDE DEF q
<1>5. j = i /\ docs[i] \in files /\ docs'[i] = q /\ q \in files'
  BY <1>2, <1>4, PerformMoveChanges
<1> QED
  BY <1>3, <1>5 DEF KeepsFlags

LEMMA ReadKeepsFlags ==
  ASSUME TypeInv, NEW i \in Found, NEW next, MarkAsRead(i, next), TakenAway = ReadDelta.minus,
         NEW j \in Ids, ChangesPath(j)
  PROVE  KeepsFlags(j)
<1>1. CASE UNCHANGED docs
  BY <1>1 DEF ChangesPath
<1>2. CASE PerformMove(i, Target(i, None, FromDelta(ReadDelta, FlagsFromPath(docs[i]))), next)
  BY <1>2, MovedKeepsFlags, TasksAre
<1> QED
  BY <1>1, <1>2 DEF MarkAsRead

LEMMA StepKeepsFlags ==
  ASSUME TypeInv, [Next]_vars, NEW j \in Ids, ChangesPath(j)
  PROVE  KeepsFlags(j)
<1>0. docs[j] # None /\ docs'[j] # None /\ docs'[j] # docs[j]
  BY DEF ChangesPath
<1>1. Serve
  BY <1>0 DEF Next, User, Search, ViewMessage, SendDraft, UpdateIndex, Goto, Mark, Execute, Free,
     Reception, Receive, Filter, EraseHandler, HeaderHandler, FoundHandler, UpdateHandler,
     RemoveHandler, SentHandler, InfoHandler, ViewHandler, ErrorHandler, FilterEnds, Eats,
     OtherProgram, Delete, Rename, Deliver, Other, vars, server
<1>2. ServerStep
  BY <1>1 DEF Serve
<1>3. ASSUME NEW cmd \in {"view", "move"}, Takes(cmd)
      PROVE  /\ task.do \notin {"move", "mark"} /\ Head(inbox).cmd = cmd /\ Head(inbox) \in Commands
  BY <1>3, TakesOne, TasksAre DEF Takes
<1>4. CASE HandleView
  <2>1. Head(inbox).cmd = "view" /\ task.do \notin {"move", "mark"}
    BY <1>3, <1>4 DEF HandleView
  <2>2. TakenAway = ReadDelta.minus
    BY <2>1 DEF TakenAway
  <2>3. PICK next : Head(inbox).id \in Found /\ MarkAsRead(Head(inbox).id, next)
    BY <1>0, <1>4 DEF HandleView
  <2> QED
    BY <2>2, <2>3, ReadKeepsFlags
<1>5. CASE MarkNext
  <2>1. task.do = "mark" /\ task.ids \subseteq Found /\ task.delta = ReadDelta
    BY <1>5 DEF MarkNext, TypeInv, TaskInv
  <2>2. TakenAway = ReadDelta.minus
    BY <2>1 DEF TakenAway
  <2>3. PICK i \in Found : \E next : MarkAsRead(i, next)
    BY <1>5, <2>1 DEF MarkNext
  <2> QED
    BY <2>2, <2>3, ReadKeepsFlags
<1>6. CASE HandleMove
  <2> DEFINE c == Head(inbox)
  <2>1. c.cmd = "move" /\ task.do \notin {"move", "mark"} /\ c \in Commands
    BY <1>3, <1>6 DEF HandleMove
  <2>2. TakenAway = c.delta.minus
    BY <2>1 DEF TakenAway
  <2>3. c.dir \in Maildirs \cup {None} /\ c.delta \in Deltas
    BY <2>1 DEF Commands
  <2>4. PICK i \in Found : PerformMove(i, Target(i, c.dir, FromDelta(c.delta, FlagsFromPath(docs[i]))), Idle)
    BY <1>0, <1>6 DEF HandleMove
  <2> QED
    BY <2>2, <2>3, <2>4, MovedKeepsFlags
<1>7. CASE MoveNext
  <2>1. task.do = "move" /\ task.ids \subseteq Found /\ task.delta \in Deltas
    BY <1>7 DEF MoveNext, TypeInv, TaskInv, TypeOK, ServerTypeOK, Tasks
  <2>2. TakenAway = task.delta.minus
    BY <2>1 DEF TakenAway
  <2>3. PICK i \in Found : \E next :
          PerformMove(i, Target(i, None, FromDelta(task.delta, FlagsFromPath(docs[i]))), next)
    BY <1>7, <2>1 DEF MoveNext
  <2> QED
    BY <2>1, <2>2, <2>3, MovedKeepsFlags
<1>8. CASE HandleRemove
  BY <1>0, <1>8 DEF HandleRemove
<1>9. ASSUME NEW p \in Paths, AddMessage(p) PROVE FALSE
  <2>1. docs'[j] \in {docs[j], None}
    BY <1>0, <1>9, AddMessageDoes
  <2> QED
    BY <1>0, <2>1
<1>10. CASE HandleSent \/ \E p \in files : IndexAdd(p)
  <2>1. files \subseteq Paths
    BY DEF TypeInv, TypeOK, ServerTypeOK
  <2>2. UNCHANGED docs \/ \E p \in files : AddMessage(p)
    BY <1>10 DEF HandleSent, IndexAdd
  <2> QED
    BY <1>0, <1>9, <2>1, <2>2
<1>11. CASE \E i \in Found : IndexRemove(i)
  BY <1>0, <1>11 DEF IndexRemove, TypeInv, TypeOK, ServerTypeOK
<1>12. CASE HandleFind \/ ViewShow \/ HandleIndex \/ IndexEnds
  BY <1>0, <1>12 DEF HandleFind, ViewShow, HandleIndex, IndexEnds
<1> QED
  BY <1>2, <1>4, <1>5, <1>6, <1>7, <1>8, <1>10, <1>11, <1>12 DEF ServerStep

(* mu_msg_move_to_maildir() and what follows it in the store: a message    *)
(* moves only from where the store says it is, and it keeps every flag     *)
(* that the command does not take away.                                    *)
THEOREM MovesKeepFlags == Spec => MoveKeepsFlags
<1>1. TypeInv /\ [Next]_vars
        => [\A i \in Ids : ChangesPath(i) =>
              /\ docs[i] \in files /\ docs'[i] \in files'
              /\ FlagsFromPath(docs[i]) \ TakenAway \subseteq FlagsFromPath(docs'[i])]_vars
  BY StepKeepsFlags DEF KeepsFlags
<1> QED
  BY InitGood, NextGood, <1>1, PTL DEF Spec, MoveKeepsFlags

(* view_handler() with maybe_mark_msgid_as_read(): when a message is       *)
(* shown, no message with its message-id is left unread.                   *)
THEOREM ViewsMarkAll == Spec => ViewMarksAll
<1>1. TypeInv /\ ViewShow => \A j \in WithMsgid(MsgidOf[docs[task.id].name]) : IsRead(docs[j])
  BY DEF TypeInv, TaskInv, ViewShow
<1>2. TypeInv /\ [Next]_vars
        => [ViewShow => \A j \in WithMsgid(MsgidOf[docs[task.id].name]) : IsRead(docs[j])]_vars
  BY <1>1
<1> QED
  BY InitGood, NextGood, <1>2, PTL DEF Spec, ViewMarksAll

----------------------------------------------------------------------------
(* No message gets two headers.  In the replies that are on their way, two *)
(* headers of one message have an erase between them, and one of a message *)
(* that has a header has an erase before it.                               *)

Erased(s, j, k) == \E m \in j..k : s[m].is = "erase"

OnlyOnce(s, shown) ==
  /\ \A j, k \in 1..Len(s) :
       (j < k /\ s[j].is = "header" /\ s[k].is = "header" /\ s[j].id = s[k].id)
         => Erased(s, j, k)
  /\ \A k \in 1..Len(s) : (s[k].is = "header" /\ s[k].id \in shown) => Erased(s, 1, k)

HeaderInv == NoHeaderTwice /\ OnlyOnce(buf \o outbox, Shown)

LEMMA FewerShown ==
  ASSUME NEW s, NEW shown, OnlyOnce(s, shown), NEW fewer \in SUBSET shown
  PROVE  OnlyOnce(s, fewer)
BY DEF OnlyOnce

(* More replies that say nothing of headers, or answer a find *)
LEMMA MoreReplies ==
  ASSUME NEW s \in Seq(Told), NEW shown, OnlyOnce(s, shown), NEW r, Silent(r) \/ Answer(r)
  PROVE  OnlyOnce(s \o r, shown)
<1>0. r \in Seq(Told)
  BY DEF Silent, Answer
<1>1. /\ s \o r \in Seq(Told) /\ Len(s \o r) = Len(s) + Len(r)
      /\ \A k \in 1..Len(s) : (s \o r)[k] = s[k]
      /\ \A k \in 1..Len(r) : (s \o r)[Len(s) + k] = r[k]
      /\ \A k \in 1..Len(s \o r) : k \notin 1..Len(s) => k - Len(s) \in 1..Len(r) /\ (s \o r)[k] = r[k - Len(s)]
  BY <1>0, ConcatIs
<1> DEFINE t == s \o r
<1> HIDE DEF t
<1>2. /\ Len(s) \in Nat /\ Len(r) \in Nat /\ Len(t) = Len(s) + Len(r)
      /\ \A k \in 1..Len(s) : t[k] = s[k]
      /\ \A k \in 1..Len(r) : t[Len(s) + k] = r[k]
      /\ \A k \in 1..Len(t) : k \notin 1..Len(s) => k - Len(s) \in 1..Len(r) /\ t[k] = r[k - Len(s)]
  BY <1>0, <1>1 DEF t
<1>3. ASSUME NEW j \in 1..Len(s), NEW k \in 1..Len(s), Erased(s, j, k)
      PROVE  Erased(t, j, k)
  BY <1>2, <1>3 DEF Erased
<1>4. ASSUME NEW k \in 1..Len(t), k \notin 1..Len(s), t[k].is = "header"
      PROVE  Answer(r) /\ Len(s) + 1 <= k /\ t[Len(s) + 1].is = "erase"
  <2>1. k - Len(s) \in 1..Len(r) /\ r[k - Len(s)].is = "header"
    BY <1>2, <1>4
  <2>2. Answer(r)
    BY <2>1 DEF Silent
  <2>3. r[1].is = "erase" /\ 1 \in 1..Len(r)
    BY <1>2, <2>1, <2>2 DEF Answer
  <2> QED
    BY <1>2, <1>4, <2>2, <2>3
<1>5. ASSUME NEW j \in 1..Len(t), NEW k \in 1..Len(t), j < k,
             t[j].is = "header", t[k].is = "header", t[j].id = t[k].id
      PROVE  Erased(t, j, k)
  <2>1. CASE k \in 1..Len(s)
    <3>1. j \in 1..Len(s)
      BY <1>2, <1>5, <2>1
    <3>2. s[j] = t[j] /\ s[k] = t[k]
      BY <1>2, <2>1, <3>1
    <3>3. Erased(s, j, k)
      BY <1>5, <2>1, <3>1, <3>2 DEF OnlyOnce
    <3> QED
      BY <1>3, <2>1, <3>1, <3>3
  <2>2. CASE k \notin 1..Len(s) /\ j \in 1..Len(s)
    <3>1. Len(s) + 1 \in j..k /\ t[Len(s) + 1].is = "erase"
      BY <1>2, <1>4, <1>5, <2>2
    <3> QED
      BY <3>1 DEF Erased
  <2>3. CASE k \notin 1..Len(s) /\ j \notin 1..Len(s)
    <3>1. Answer(r)
      BY <1>4, <1>5, <2>3
    <3>2. j - Len(s) \in 1..Len(r) /\ k - Len(s) \in 1..Len(r)
          /\ t[j] = r[j - Len(s)] /\ t[k] = r[k - Len(s)]
      BY <1>2, <2>3
    <3>3. j - Len(s) = k - Len(s)
      BY <1>5, <3>1, <3>2 DEF Answer
    <3> QED
      BY <1>2, <1>5, <3>3
  <2> QED
    BY <2>1, <2>2, <2>3
<1>6. ASSUME NEW k \in 1..Len(t), t[k].is = "header", t[k].id \in shown
      PROVE  Erased(t, 1, k)
  <2>1. CASE k \in 1..Len(s)
    <3>1. 1 \in 1..Len(s)
      BY <1>2, <2>1
    <3>2. Erased(s, 1, k)
      BY <1>2, <1>6, <2>1 DEF OnlyOnce
    <3> QED
      BY <1>3, <2>1, <3>1, <3>2
  <2>2. CASE k \notin 1..Len(s)
    <3>1. Len(s) + 1 \in 1..k /\ t[Len(s) + 1].is = "erase"
      BY <1>2, <1>4, <1>6, <2>2
    <3> QED
      BY <3>1 DEF Erased
  <2> QED
    BY <2>1, <2>2
<1>7. OnlyOnce(t, shown)
  BY <1>5, <1>6 DEF OnlyOnce
<1> QED
  BY <1>7 DEF t

(* The next reply is taken: if it is an erase, no header stays; if it is   *)
(* not, there is one more header at most, that of the reply.               *)
LEMMA ReplyTaken ==
  ASSUME NEW s \in Seq(Told), s # <<>>, NEW shown, OnlyOnce(s, shown),
         NEW after, \/ s[1].is = "erase" /\ after = {}
                    \/ s[1].is # "erase" /\ after \subseteq shown
                    \/ s[1].is = "header" /\ after \subseteq shown \cup {s[1].id}
  PROVE  /\ OnlyOnce(Tail(s), after)
         /\ s[1].is = "header" => s[1].id \notin shown
<1> DEFINE t == Tail(s)
<1>1. /\ Len(s) \in Nat /\ Len(s) >= 1 /\ Len(t) = Len(s) - 1
      /\ \A k \in 1..Len(t) : t[k] = s[k + 1]
  BY HeadTailProperties, LenProperties
<1> HIDE DEF t
<1>2. ASSUME NEW j \in 1..Len(t), NEW k \in 1..Len(t), Erased(s, j + 1, k + 1)
      PROVE  Erased(t, j, k)
  <2>1. PICK m \in j + 1..k + 1 : s[m].is = "erase"
    BY <1>2 DEF Erased
  <2>2. m - 1 \in j..k /\ m - 1 \in 1..Len(t) /\ (m - 1) + 1 = m
    BY <1>1, <2>1
  <2>3. t[m - 1] = s[m]
    BY <1>1, <2>2
  <2> QED
    BY <2>1, <2>2, <2>3 DEF Erased
<1>3. ASSUME NEW j \in 1..Len(t), NEW k \in 1..Len(t), j < k,
             t[j].is = "header", t[k].is = "header", t[j].id = t[k].id
      PROVE  Erased(t, j, k)
  <2>1. j + 1 \in 1..Len(s) /\ k + 1 \in 1..Len(s) /\ j + 1 < k + 1
        /\ t[j] = s[j + 1] /\ t[k] = s[k + 1]
    BY <1>1, <1>3
  <2>2. Erased(s, j + 1, k + 1)
    BY <1>3, <2>1 DEF OnlyOnce
  <2> QED
    BY <1>2, <2>2
<1>4. ASSUME NEW k \in 1..Len(t), t[k].is = "header", t[k].id \in after
      PROVE  Erased(t, 1, k)
  <2>1. k + 1 \in 1..Len(s) /\ 1 \in 1..Len(s) /\ 1 < k + 1 /\ t[k] = s[k + 1] /\ 1 \in 1..Len(t)
    BY <1>1
  <2>2. s[1].is # "erase"
    BY <1>4
  <2>3. t[k].id \in shown \/ (s[1].is = "header" /\ t[k].id = s[1].id)
    BY <1>4
  <2>4. Erased(s, 1, k + 1)
    BY <1>4, <2>1, <2>3 DEF OnlyOnce
  <2>5. Erased(s, 1 + 1, k + 1)
    <3>1. PICK m \in 1..k + 1 : s[m].is = "erase"
      BY <2>4 DEF Erased
    <3>2. m \in 1 + 1..k + 1
      BY <2>2, <3>1
    <3> QED
      BY <3>1, <3>2 DEF Erased
  <2> QED
    BY <1>2, <2>1, <2>5
<1>5. OnlyOnce(t, after)
  BY <1>3, <1>4 DEF OnlyOnce
<1>6. s[1].is = "header" => s[1].id \notin shown
  <2> SUFFICES ASSUME s[1].is = "header", s[1].id \in shown PROVE FALSE
    OBVIOUS
  <2>1. Erased(s, 1, 1)
    BY <1>1 DEF OnlyOnce
  <2> QED
    BY <2>1 DEF Erased
<1> QED
  BY <1>5, <1>6 DEF t

(* What is left when a handler has taken a reply *)
LEMMA EatsOne ==
  ASSUME TypeInv, NEW kinds, Eats(kinds)
  PROVE  /\ buf \o outbox \in Seq(Told) /\ buf \o outbox # <<>>
         /\ (buf \o outbox)[1] = Head(buf)
         /\ buf' \o outbox' = Tail(buf \o outbox)
<1>1. buf \in Seq(Told) /\ outbox \in Seq(Told) /\ buf # <<>> /\ buf' = Tail(buf) /\ outbox' = outbox
  BY DEF Eats, TypeInv
<1> QED
  BY <1>1

LEMMA OneHeaderLess ==
  ASSUME TypeInv, NoHeaderTwice, NEW i \in Shown, headers' = Without(i)
  PROVE  NoHeaderTwice'
<1>1. /\ Len(headers) \in Nat /\ Len(headers') = Len(headers) - 1
      /\ \A j \in 1..Len(headers) - 1 :
           headers'[j] = IF j < Position(i) THEN headers[j] ELSE headers[j + 1]
  BY WithoutIs DEF TypeInv, TypeOK
<1>2. ASSUME NEW j \in 1..Len(headers) - 1, NEW k \in 1..Len(headers) - 1,
             headers'[j].id = headers'[k].id
      PROVE  j = k
  <2> DEFINE x == IF j < Position(i) THEN j ELSE j + 1
             y == IF k < Position(i) THEN k ELSE k + 1
  <2>1. x \in 1..Len(headers) /\ y \in 1..Len(headers)
    BY <1>1
  <2>2. headers'[j] = headers[x] /\ headers'[k] = headers[y]
    BY <1>1
  <2>3. x = y
    BY <1>2, <2>1, <2>2 DEF NoHeaderTwice
  <2>4. Position(i) \in Int
    BY PositionIs
  <2> QED
    BY <2>3, <2>4
<1> QED
  BY <1>1, <1>2 DEF NoHeaderTwice

LEMMA UpdateNotTwice ==
  ASSUME TypeInv, NoHeaderTwice, NEW i \in Shown, NEW p \in Paths, NEW moved, UpdateHeader(i, p, moved)
  PROVE  NoHeaderTwice'
<1>1. CASE headers' = Without(i)
  BY <1>1, OneHeaderLess
<1>2. CASE headers' = With(i, p)
  <2>1. Len(headers') = Len(headers) /\ \A j \in 1..Len(headers) : headers'[j].id = headers[j].id
    BY <1>2, WithIs
  <2> QED
    BY <2>1 DEF NoHeaderTwice
<1> QED
  BY <1>1, <1>2 DEF UpdateHeader

LEMMA HeaderNotTwice ==
  ASSUME TypeInv, HeaderInv, HeaderHandler
  PROVE  HeaderInv'
<1>1. Eats({"header"}) /\ Head(buf).is = "header"
  BY DEF HeaderHandler, Eats
<1>2. PICK x \in Headers : headers' = Append(headers, x) /\ x.id = Head(buf).id
  BY HeaderGood
<1>3. /\ headers \in Seq(Headers) /\ Len(headers) \in Nat
      /\ Len(headers') = Len(headers) + 1
      /\ \A j \in 1..Len(headers) : headers'[j] = headers[j]
      /\ headers'[Len(headers) + 1] = x
  BY <1>2 DEF TypeInv, TypeOK
<1>4. Shown' \subseteq Shown \cup {Head(buf).id}
  BY <1>2, <1>3 DEF Shown
<1> DEFINE s == buf \o outbox
<1>5. s \in Seq(Told) /\ s # <<>> /\ s[1] = Head(buf) /\ buf' \o outbox' = Tail(s)
  BY <1>1, EatsOne
<1>6. OnlyOnce(s, Shown) /\ NoHeaderTwice
  BY DEF HeaderInv
<1> HIDE DEF s
<1>7. OnlyOnce(Tail(s), Shown') /\ Head(buf).id \notin Shown
  BY <1>1, <1>4, <1>5, <1>6, ReplyTaken
<1>8. \A k \in 1..Len(headers) : headers[k].id # x.id
  BY <1>2, <1>7 DEF Shown
<1>9. NoHeaderTwice'
  BY <1>3, <1>6, <1>8 DEF NoHeaderTwice
<1> QED
  BY <1>5, <1>7, <1>9 DEF HeaderInv

(* Any other reply: fewer headers, or the same *)
LEMMA ReplyNotTwice ==
  ASSUME TypeInv, HeaderInv, NEW kinds, Eats(kinds), "header" \notin kinds, NoHeaderTwice',
         \/ Shown' = {}
         \/ "erase" \notin kinds /\ Shown' \subseteq Shown
  PROVE  HeaderInv'
<1> DEFINE s == buf \o outbox
<1>1. s \in Seq(Told) /\ s # <<>> /\ s[1] = Head(buf) /\ buf' \o outbox' = Tail(s)
  BY EatsOne
<1>2. OnlyOnce(s, Shown)
  BY DEF HeaderInv
<1>3. Head(buf).is \in kinds
  BY DEF Eats
<1> HIDE DEF s
<1>4. OnlyOnce(Tail(s), Shown')
  BY <1>1, <1>2, <1>3, ReplyTaken
<1> QED
  BY <1>1, <1>4 DEF HeaderInv

LEMMA ShownKept ==
  /\ UNCHANGED headers => Shown' = Shown /\ (NoHeaderTwice => NoHeaderTwice')
  /\ headers' = <<>> => Shown' = {} /\ NoHeaderTwice'
BY DEF Shown, NoHeaderTwice

LEMMA FilterNotTwice ==
  ASSUME TypeInv, HeaderInv, Filter
  PROVE  HeaderInv'
<1>0. NoHeaderTwice
  BY DEF HeaderInv
<1>1. CASE HeaderHandler
  BY <1>1, HeaderNotTwice
<1>2. CASE UpdateHandler
  <2>1. Head(buf) \in Told /\ Head(buf).is = "update" /\ Eats({"update"})
    BY <1>2, EatsDoes DEF UpdateHandler
  <2>2. Head(buf).path \in Paths
    BY <2>1 DEF Told
  <2>3. UNCHANGED headers \/ (Head(buf).id \in Shown /\ UpdateHeader(Head(buf).id, Head(buf).path, Head(buf).moved))
    BY <1>2 DEF UpdateHandler
  <2>4. NoHeaderTwice'
    BY <1>0, <2>2, <2>3, UpdateNotTwice, ShownKept
  <2>5. Shown' \subseteq Shown
    BY <1>2, UpdateGood
  <2> QED
    BY <2>1, <2>4, <2>5, ReplyNotTwice
<1>3. CASE RemoveHandler
  <2>1. Eats({"remove"}) /\ (UNCHANGED headers \/ (Head(buf).id \in Shown /\ headers' = Without(Head(buf).id)))
    BY <1>3 DEF RemoveHandler
  <2>2. NoHeaderTwice'
    BY <1>0, <2>1, OneHeaderLess, ShownKept
  <2>3. Shown' \subseteq Shown
    BY <1>3, RemoveHandlerGood
  <2> QED
    BY <2>1, <2>2, <2>3, ReplyNotTwice
<1>4. CASE EraseHandler
  <2>1. Eats({"erase"}) /\ headers' = <<>>
    BY <1>4 DEF EraseHandler
  <2> QED
    BY <2>1, ShownKept, ReplyNotTwice
<1>5. CASE FoundHandler \/ SentHandler \/ InfoHandler \/ ViewHandler \/ ErrorHandler
  <2>1. PICK kinds \in {{"found"}, {"sent"}, {"info"}, {"view"}, {"error"}} : Eats(kinds)
    BY <1>5 DEF FoundHandler, SentHandler, InfoHandler, ViewHandler, ErrorHandler
  <2>2. UNCHANGED headers \/ headers' = <<>>
    BY <1>5, OthersGood
  <2>3. NoHeaderTwice' /\ Shown' \subseteq Shown
    BY <1>0, <2>2, ShownKept
  <2> QED
    BY <2>1, <2>3, ReplyNotTwice
<1>6. CASE FilterEnds
  BY <1>0, <1>6, EndGood, ShownKept DEF HeaderInv
<1> QED
  BY <1>1, <1>2, <1>3, <1>4, <1>5, <1>6 DEF Filter

LEMMA NextNotTwice == TypeInv /\ HeaderInv /\ [Next]_vars => HeaderInv'
<1> SUFFICES ASSUME TypeInv, HeaderInv, [Next]_vars PROVE HeaderInv'
  OBVIOUS
<1>0. NoHeaderTwice /\ OnlyOnce(buf \o outbox, Shown) /\ buf \in Seq(Told) /\ outbox \in Seq(Told)
  BY DEF HeaderInv, TypeInv
<1>1. CASE Serve
  <2>1. PICK r : (Silent(r) \/ Answer(r)) /\ outbox' = outbox \o r
    BY <1>1, ServeGood DEF Serve, Mute
  <2>2. buf' = buf /\ headers' = headers
    BY <1>1 DEF Serve, client
  <2>3. buf' \o outbox' = (buf \o outbox) \o r
    <3>1. r \in Seq(Told)
      BY <2>1 DEF Silent, Answer
    <3>2. (buf \o outbox) \o r = buf \o (outbox \o r)
      BY <1>0, <3>1, ConcatAssociative
    <3> QED
      BY <2>1, <2>2, <3>2
  <2>4. buf \o outbox \in Seq(Told)
    BY <1>0
  <2>5. OnlyOnce((buf \o outbox) \o r, Shown)
    BY <1>0, <2>1, <2>4, MoreReplies
  <2> QED
    BY <1>0, <2>2, <2>3, <2>5, ShownKept DEF HeaderInv
<1>2. CASE User
  <2>1. UNCHANGED <<outbox, buf>> /\ (UNCHANGED headers \/ headers' = <<>>)
    BY <1>2, UserGood DEF User, Search, ViewMessage, SendDraft, UpdateIndex, Goto, Mark, Execute, client
  <2>2. NoHeaderTwice' /\ Shown' \subseteq Shown
    BY <1>0, <2>1, ShownKept
  <2> QED
    BY <1>0, <2>1, <2>2, FewerShown DEF HeaderInv
<1>3. CASE Reception
  BY <1>0, <1>3, ReceptionGood, ShownKept DEF HeaderInv
<1>4. CASE Filter
  BY <1>4, FilterNotTwice
<1>5. CASE OtherProgram
  BY <1>0, <1>5, OtherGood, ShownKept DEF HeaderInv
<1>6. CASE UNCHANGED vars
  BY <1>0, <1>6, ShownKept DEF HeaderInv, vars, server, client
<1> QED
  BY <1>1, <1>2, <1>3, <1>4, <1>5, <1>6 DEF Next

(* The headers buffer has no message twice, whatever searches, updates and *)
(* removals are on their way when another search begins.                   *)
THEOREM HeadersOnce == Spec => []NoHeaderTwice
<1>1. Init => HeaderInv
  <2> SUFFICES ASSUME Init PROVE HeaderInv
    OBVIOUS
  <2>1. headers = <<>> /\ buf = <<>> /\ outbox = <<>>
    BY DEF Init
  <2>2. NoHeaderTwice /\ Shown = {}
    BY <2>1 DEF NoHeaderTwice, Shown
  <2>3. buf \o outbox = <<>>
    BY <2>1
  <2> QED
    BY <2>2, <2>3 DEF HeaderInv, OnlyOnce
<1>2. HeaderInv => NoHeaderTwice
  BY DEF HeaderInv
<1> QED
  BY InitGood, NextGood, NextNotTwice, <1>1, <1>2, PTL DEF Spec
----------------------------------------------------------------------------
(* What the headers show: the last word about a message, among the replies *)
(* on their way, has its path, or says that it is gone; when there is none *)
(* on its way, the header has it.                                          *)

Word(r, i) == r.is = "erase" \/ (r.is \in {"header", "update", "remove"} /\ r.id = i)

TrueOf(r, p) == r.is \in {"header", "update"} => r.path = p

Says(s, i, p) ==
  \A m \in 1..Len(s) :
    (Word(s[m], i) /\ \A n \in m + 1..Len(s) : ~Word(s[n], i)) => TrueOf(s[m], p)

Shows(hs, i, p) == \A k \in 1..Len(hs) : hs[k].id = i => hs[k].path = p

Agrees(s, hs, i, p) ==
  /\ Says(s, i, p)
  /\ (\A m \in 1..Len(s) : ~Word(s[m], i)) => Shows(hs, i, p)

FreshInv == \A i \in Ids \ outdated : Agrees(buf \o outbox, headers, i, docs[i])

(* One more reply, which is about the message and true, or not about it *)
LEMMA AgreesMore ==
  ASSUME NEW s \in Seq(Told), NEW x \in Told, NEW hs, NEW i, NEW p, NEW q, Agrees(s, hs, i, p),
         IF Word(x, i) THEN TrueOf(x, q) ELSE q = p
  PROVE  Agrees(s \o <<x>>, hs, i, q)
<1> DEFINE t == s \o <<x>>
<1>1. /\ Len(s) \in Nat /\ Len(t) = Len(s) + 1 /\ t[Len(s) + 1] = x
      /\ \A k \in 1..Len(s) : t[k] = s[k]
  OBVIOUS
<1> HIDE DEF t
<1>2. CASE Word(x, i)
  <2>1. ASSUME NEW m \in 1..Len(t), \A n \in m + 1..Len(t) : ~Word(t[n], i)
        PROVE  m = Len(s) + 1
    BY <1>1, <1>2, <2>1
  <2>2. TrueOf(x, q)
    BY <1>2
  <2>3. Len(s) + 1 \in 1..Len(t)
    BY <1>1
  <2> QED
    BY <1>1, <1>2, <2>1, <2>2, <2>3 DEF Agrees, Says, t
<1>3. CASE ~Word(x, i)
  <2>1. q = p
    BY <1>3
  <2>2. ASSUME NEW m \in 1..Len(t), Word(t[m], i), \A n \in m + 1..Len(t) : ~Word(t[n], i)
        PROVE  TrueOf(t[m], p)
    <3>1. m \in 1..Len(s)
      BY <1>1, <1>3, <2>2
    <3>2. \A n \in m + 1..Len(s) : n \in m + 1..Len(t) /\ n \in 1..Len(s)
      BY <1>1, <3>1
    <3>3. \A n \in m + 1..Len(s) : ~Word(s[n], i)
      BY <1>1, <2>2, <3>2
    <3> QED
      BY <1>1, <2>2, <3>1, <3>3 DEF Agrees, Says
  <2>3. ASSUME \A m \in 1..Len(t) : ~Word(t[m], i) PROVE Shows(hs, i, p)
    <3>1. \A m \in 1..Len(s) : m \in 1..Len(t) /\ t[m] = s[m]
      BY <1>1
    <3>2. \A m \in 1..Len(s) : ~Word(s[m], i)
      BY <2>3, <3>1
    <3> QED
      BY <3>2 DEF Agrees
  <2> QED
    BY <2>1, <2>2, <2>3 DEF Agrees, Says, t
<1> QED
  BY <1>2, <1>3

(* The answer to a find *)
LEMMA AgreesFind ==
  ASSUME NEW s \in Seq(Told), NEW r, Answer(r), Truly(r), NEW hs, NEW i \in Ids
  PROVE  Agrees(s \o r, hs, i, docs[i])
<1>0. r \in Seq(Told)
  BY DEF Answer
<1> DEFINE t == s \o r
<1>1. /\ t \in Seq(Told) /\ Len(t) = Len(s) + Len(r)
      /\ \A k \in 1..Len(r) : t[Len(s) + k] = r[k]
      /\ \A k \in 1..Len(t) : k \notin 1..Len(s) => k - Len(s) \in 1..Len(r) /\ t[k] = r[k - Len(s)]
  BY <1>0, ConcatIs
<1> HIDE DEF t
<1>2. Len(s) \in Nat /\ Len(r) \in Nat /\ 1 \in 1..Len(r) /\ r[1].is = "erase"
  BY <1>0 DEF Answer
<1>3. Len(s) + 1 \in 1..Len(t) /\ t[Len(s) + 1].is = "erase"
  BY <1>1, <1>2
<1>4. ASSUME NEW m \in 1..Len(t), Word(t[m], i), \A n \in m + 1..Len(t) : ~Word(t[n], i)
      PROVE  TrueOf(t[m], docs[i])
  <2>1. m \notin 1..Len(s)
    <3>1. m \in 1..Len(s) => Len(s) + 1 \in m + 1..Len(t)
      BY <1>3
    <3> QED
      BY <1>3, <1>4, <3>1 DEF Word
  <2>2. m - Len(s) \in 1..Len(r) /\ t[m] = r[m - Len(s)]
    BY <1>1, <2>1
  <2> QED
    BY <1>4, <2>2 DEF TrueOf, Truly, Word
<1> QED
  BY <1>3, <1>4 DEF Agrees, Says, Word, t

(* A reply is taken: if it is about the message, and true, the header has  *)
(* the path that it says, or none is left; if it is not, the header stays. *)
LEMMA AgreesLess ==
  ASSUME NEW s \in Seq(Told), s # <<>>, NEW hs, NEW after, NEW i, NEW p, Agrees(s, hs, i, p),
         IF Word(s[1], i) THEN TrueOf(s[1], p) => Shows(after, i, p)
                          ELSE Shows(hs, i, p) => Shows(after, i, p)
  PROVE  Agrees(Tail(s), after, i, p)
<1> DEFINE t == Tail(s)
<1>1. /\ Len(s) \in Nat /\ Len(s) >= 1 /\ Len(t) = Len(s) - 1
      /\ \A k \in 1..Len(t) : t[k] = s[k + 1]
  BY HeadTailProperties, LenProperties
<1> HIDE DEF t
<1>2. ASSUME NEW m \in 1..Len(t), Word(t[m], i), \A n \in m + 1..Len(t) : ~Word(t[n], i)
      PROVE  TrueOf(t[m], p)
  <2>1. m + 1 \in 1..Len(s) /\ t[m] = s[m + 1]
    BY <1>1
  <2>2. ASSUME NEW n \in (m + 1) + 1..Len(s) PROVE ~Word(s[n], i)
    <3>1. n - 1 \in m + 1..Len(t) /\ n - 1 \in 1..Len(t) /\ (n - 1) + 1 = n
      BY <1>1
    <3> QED
      BY <1>1, <1>2, <3>1
  <2> QED
    BY <1>2, <2>1, <2>2 DEF Agrees, Says
<1>3. ASSUME \A m \in 1..Len(t) : ~Word(t[m], i) PROVE Shows(after, i, p)
  <2>1. ASSUME NEW n \in 1 + 1..Len(s) PROVE ~Word(s[n], i)
    <3>1. n - 1 \in 1..Len(t) /\ (n - 1) + 1 = n
      BY <1>1
    <3> QED
      BY <1>1, <1>3, <3>1
  <2>2. CASE Word(s[1], i)
    <3>1. 1 \in 1..Len(s)
      BY <1>1
    <3>2. TrueOf(s[1], p)
      BY <2>1, <2>2, <3>1 DEF Agrees, Says
    <3> QED
      BY <2>2, <3>2
  <2>3. CASE ~Word(s[1], i)
    <3>1. \A m \in 1..Len(s) : m = 1 \/ m \in 1 + 1..Len(s)
      BY <1>1
    <3>2. \A m \in 1..Len(s) : ~Word(s[m], i)
      BY <2>1, <2>3, <3>1
    <3>3. Shows(hs, i, p)
      BY <3>2 DEF Agrees
    <3> QED
      BY <2>3, <3>3
  <2> QED
    BY <2>2, <2>3
<1> QED
  BY <1>2, <1>3 DEF Agrees, Says, t

----------------------------------------------------------------------------
(* What the server says of what it changes *)

(* It says nothing, and what changes is outdated; ...  *)
TellsNone ==
  UNCHANGED outbox /\ \A j \in Ids \ outdated' : docs'[j] = docs[j]

(* ... or it says one thing, which is true, and what else changes is. *)
TellsOne ==
  \E x \in Told : /\ outbox' = outbox \o <<x>>
                  /\ \A j \in Ids \ outdated' :
                       IF Word(x, j) THEN TrueOf(x, docs'[j]) ELSE docs'[j] = docs[j]

Tells == outdated \subseteq outdated' /\ (TellsNone \/ TellsOne)

LEMMA SaysOne ==
  ASSUME NEW x \in Told, x.is \notin {"erase", "header", "update", "remove"},
         outbox' = outbox \o <<x>>, \A j \in Ids \ outdated' : docs'[j] = docs[j]
  PROVE  TellsOne
BY DEF TellsOne, Word

LEMMA FailsTells ==
  ASSUME Fails, UNCHANGED docs
  PROVE  TellsOne
<1>1. Reply("error") \in Told /\ Reply("error").is = "error"
  BY ReplyTold
<1> QED
  BY <1>1, SaysOne DEF Fails, Say

LEMMA PerformMoveTells ==
  ASSUME TypeInv, NEW i \in Found, NEW q \in Paths, NEW next, PerformMove(i, q, next)
  PROVE  TellsOne
<1>0. i \in Ids /\ docs \in [Ids -> Paths \cup {None}]
  BY DEF Found, TypeInv, TypeOK, ServerTypeOK
<1>1. CASE MoveFails(i, q) /\ Fails
  BY <1>1, FailsTells DEF MoveFails
<1>2. CASE /\ Moves(i, q)
           /\ Say(<<[About("update", i, q) EXCEPT !.moved = docs[i].dir # q.dir]>>)
  <2> DEFINE x == [About("update", i, q) EXCEPT !.moved = docs[i].dir # q.dir]
  <2>1. x \in Told /\ x.is = "update" /\ x.id = i /\ x.path = q
    <3>1. \A moved \in BOOLEAN : LET a == [About("update", i, q) EXCEPT !.moved = moved]
                                 IN  a \in Told /\ a.is = "update" /\ a.id = i /\ a.path = q
      BY <1>0, AboutTold
    <3>2. (docs[i].dir # q.dir) \in BOOLEAN
      OBVIOUS
    <3> QED
      BY <3>1, <3>2
  <2>2. outbox' = outbox \o <<x>> /\ docs' = [docs EXCEPT ![i] = q]
    BY <1>2 DEF Say, Moves
  <2> HIDE DEF x
  <2>3. ASSUME NEW j \in Ids
        PROVE  IF Word(x, j) THEN TrueOf(x, docs'[j]) ELSE docs'[j] = docs[j]
    BY <1>0, <2>1, <2>2 DEF Word, TrueOf
  <2> QED
    BY <2>1, <2>2, <2>3 DEF TellsOne
<1> QED
  BY <1>1, <1>2 DEF PerformMove

LEMMA MarkAsReadTells ==
  ASSUME TypeInv, NEW i \in Found, NEW next, MarkAsRead(i, next)
  PROVE  TellsNone \/ TellsOne
<1>1. TypeOK
  BY DEF TypeInv
<1>2. Target(i, None, FromDelta(ReadDelta, FlagsFromPath(docs[i]))) \in Paths
  BY <1>1, TargetIs
<1>3. CASE UNCHANGED <<docs, outbox>>
  BY <1>3 DEF TellsNone
<1>4. CASE PerformMove(i, Target(i, None, FromDelta(ReadDelta, FlagsFromPath(docs[i]))), next)
  BY <1>2, <1>4, PerformMoveTells
<1> QED
  BY <1>3, <1>4 DEF MarkAsRead

LEMMA RemoveTells ==
  ASSUME TypeInv, HandleRemove
  PROVE  Tells
<1> DEFINE i == Head(inbox).id
<1>1. CASE Fails /\ UNCHANGED <<docs, outdated>>
  BY <1>1, FailsTells DEF Tells
<1>2. CASE /\ i \in Found
           /\ docs' = [j \in Ids |-> IF j \in WithPath(docs[i]) THEN None ELSE docs[j]]
           /\ outdated' = outdated \cup (WithPath(docs[i]) \ {i})
           /\ Say(<<About("remove", i, None)>>)
  <2> HIDE DEF i
  <2> DEFINE x == About("remove", i, None)
  <2>1. i \in Ids
    BY <1>2 DEF Found
  <2>2. x \in Told /\ x.is = "remove" /\ x.id = i
    BY <2>1, AboutTold
  <2>3. outbox' = outbox \o <<x>>
    BY <1>2 DEF Say
  <2> HIDE DEF x
  <2>4. ASSUME NEW j \in Ids \ outdated'
        PROVE  IF Word(x, j) THEN TrueOf(x, docs'[j]) ELSE docs'[j] = docs[j]
    BY <1>2, <2>2 DEF Word, TrueOf
  <2> QED
    BY <1>2, <2>2, <2>3, <2>4 DEF Tells, TellsOne
<1> QED
  BY <1>1, <1>2 DEF HandleRemove

LEMMA SentTells ==
  ASSUME TypeInv, HandleSent
  PROVE  Tells
<1> DEFINE p == Head(inbox).path
<1>1. CASE Fails /\ UNCHANGED <<docs, outdated>>
  BY <1>1, FailsTells DEF Tells
<1>2. CASE p \in files /\ AddMessage(p) /\ Untold /\ Say(<<About("sent", IdFor(p), p)>>)
  <2> HIDE DEF p
  <2>1. p \in Paths
    BY <1>2 DEF TypeInv, TypeOK, ServerTypeOK
  <2>2. IdFor(p) \in Ids
    BY <1>2, <2>1, AddMessageDoes
  <2> DEFINE x == About("sent", IdFor(p), p)
  <2>3. x \in Told /\ x.is = "sent"
    BY <2>1, <2>2, AboutTold
  <2>4. outbox' = outbox \o <<x>>
    BY <1>2 DEF Say
  <2> HIDE DEF x
  <2>5. outdated \subseteq outdated' /\ \A j \in Ids \ outdated' : docs'[j] = docs[j]
    BY <1>2 DEF Untold
  <2> QED
    BY <2>3, <2>4, <2>5, SaysOne DEF Tells
<1> QED
  BY <1>1, <1>2 DEF HandleSent

LEMMA ServerTells ==
  ASSUME TypeInv, ServerStep, ~HandleFind
  PROVE  Tells
<1>1. CASE HandleView
  <2>1. UNCHANGED outdated
    BY <1>1 DEF HandleView
  <2>2. CASE Fails /\ UNCHANGED docs
    BY <2>1, <2>2, FailsTells DEF Tells
  <2>3. ASSUME NEW next, Head(inbox).id \in Found, MarkAsRead(Head(inbox).id, next) PROVE Tells
    BY <2>1, <2>3, MarkAsReadTells DEF Tells
  <2> QED
    BY <1>1, <2>2, <2>3 DEF HandleView
<1>2. CASE MarkNext
  <2>1. UNCHANGED outdated /\ task.ids \subseteq Found
    BY <1>2 DEF MarkNext, TypeInv, TaskInv
  <2>2. PICK i \in Found : \E next : MarkAsRead(i, next)
    BY <1>2, <2>1 DEF MarkNext
  <2> QED
    BY <2>1, <2>2, MarkAsReadTells DEF Tells
<1>3. CASE ViewShow
  <2>1. task.id \in Ids /\ docs[task.id] \in Paths \cup {None}
    BY <1>3 DEF ViewShow, TypeInv, TaskInv, TypeOK, ServerTypeOK, Found
  <2> DEFINE x == About("view", task.id, docs[task.id])
  <2>2. x \in Told /\ x.is = "view"
    BY <2>1, AboutTold
  <2>3. outbox' = outbox \o <<x>> /\ UNCHANGED <<docs, outdated>>
    BY <1>3 DEF ViewShow, Say
  <2> HIDE DEF x
  <2> QED
    BY <2>2, <2>3, SaysOne DEF Tells
<1>4. CASE HandleMove
  <2> DEFINE c == Head(inbox)
  <2>1. UNCHANGED outdated /\ TypeOK /\ c.dir \in Maildirs \cup {None}
    <3>1. c \in Commands
      BY <1>4, TakesOne DEF HandleMove
    <3> QED
      BY <1>4, <3>1 DEF HandleMove, TypeInv, Commands
  <2>2. CASE Fails /\ UNCHANGED docs
    BY <2>1, <2>2, FailsTells DEF Tells
  <2>3. ASSUME NEW i \in Found,
               PerformMove(i, Target(i, c.dir, FromDelta(c.delta, FlagsFromPath(docs[i]))), Idle)
        PROVE  Tells
    <3>1. Target(i, c.dir, FromDelta(c.delta, FlagsFromPath(docs[i]))) \in Paths
      BY <2>1, TargetIs
    <3> QED
      BY <2>1, <2>3, <3>1, PerformMoveTells DEF Tells
  <2>4. CASE UNCHANGED <<docs, outbox>>
    BY <2>1, <2>4 DEF Tells, TellsNone
  <2> QED
    BY <1>4, <2>2, <2>3, <2>4 DEF HandleMove
<1>5. CASE MoveNext
  <2>1. UNCHANGED outdated /\ task.ids \subseteq Found /\ TypeOK
    BY <1>5 DEF MoveNext, TypeInv, TaskInv
  <2>2. PICK i \in Found : \E next :
          PerformMove(i, Target(i, None, FromDelta(task.delta, FlagsFromPath(docs[i]))), next)
    BY <1>5, <2>1 DEF MoveNext
  <2>3. Target(i, None, FromDelta(task.delta, FlagsFromPath(docs[i]))) \in Paths
    BY <2>1, TargetIs
  <2> QED
    BY <2>1, <2>2, <2>3, PerformMoveTells DEF Tells
<1>6. CASE HandleRemove
  BY <1>6, RemoveTells
<1>7. CASE HandleSent
  BY <1>7, SentTells
<1>8. CASE HandleIndex
  BY <1>8 DEF HandleIndex, Tells, TellsNone
<1>9. CASE IndexEnds
  <2>1. Reply("info") \in Told /\ Reply("info").is = "info"
    BY ReplyTold
  <2>2. outbox' = outbox \o <<Reply("info")>> /\ UNCHANGED <<docs, outdated>>
    BY <1>9 DEF IndexEnds, Say
  <2> QED
    BY <2>1, <2>2, SaysOne DEF Tells
<1>10. CASE (\E p \in files : IndexAdd(p)) \/ (\E i \in Found : IndexRemove(i))
  <2>1. UNCHANGED outbox /\ Untold
    BY <1>10 DEF IndexAdd, IndexRemove
  <2> QED
    BY <2>1 DEF Untold, Tells, TellsNone
<1> QED
  BY <1>1, <1>2, <1>3, <1>4, <1>5, <1>6, <1>7, <1>8, <1>9, <1>10 DEF ServerStep

LEMMA ServeFresh ==
  ASSUME TypeInv, FreshInv, Serve
  PROVE  FreshInv'
<1>0. /\ buf \in Seq(Told) /\ outbox \in Seq(Told) /\ buf \o outbox \in Seq(Told)
      /\ UNCHANGED <<buf, headers>>
  BY DEF TypeInv, Serve, client
<1>1. CASE HandleFind
  <2>1. PICK r : Answer(r) /\ Truly(r) /\ outbox' = outbox \o r
    BY <1>1, FindGood
  <2>2. r \in Seq(Told) /\ docs' = docs
    BY <1>1, <2>1 DEF Answer, HandleFind
  <2>3. buf' \o outbox' = (buf \o outbox) \o r
    <3>1. (buf \o outbox) \o r = buf \o (outbox \o r)
      BY <1>0, <2>2, ConcatAssociative
    <3> QED
      BY <1>0, <2>1, <3>1
  <2>4. ASSUME NEW i \in Ids PROVE Agrees((buf \o outbox) \o r, headers, i, docs[i])
    BY <1>0, <2>1, AgreesFind
  <2> QED
    BY <1>0, <2>2, <2>3, <2>4 DEF FreshInv
<1>2. CASE ServerStep /\ ~HandleFind
  <2>1. Tells
    BY <1>2, ServerTells
  <2>2. ASSUME NEW i \in Ids \ outdated' PROVE Agrees(buf' \o outbox', headers', i, docs'[i])
    <3>1. Agrees(buf \o outbox, headers, i, docs[i])
      BY <2>1, <2>2 DEF Tells, FreshInv
    <3>2. CASE TellsNone
      BY <1>0, <3>1, <3>2 DEF TellsNone
    <3>3. CASE TellsOne
      <4>1. PICK x \in Told : /\ outbox' = outbox \o <<x>>
                              /\ IF Word(x, i) THEN TrueOf(x, docs'[i]) ELSE docs'[i] = docs[i]
        BY <3>3 DEF TellsOne
      <4>2. buf' \o outbox' = (buf \o outbox) \o <<x>>
        <5>1. <<x>> \in Seq(Told)
          OBVIOUS
        <5>2. (buf \o outbox) \o <<x>> = buf \o (outbox \o <<x>>)
          BY <1>0, <5>1, ConcatAssociative
        <5> QED
          BY <1>0, <4>1, <5>2
      <4>3. Agrees((buf \o outbox) \o <<x>>, headers, i, docs'[i])
        BY <1>0, <3>1, <4>1, AgreesMore
      <4> QED
        BY <1>0, <4>2, <4>3
    <3> QED
      BY <2>1, <3>2, <3>3 DEF Tells
  <2> QED
    BY <2>2 DEF FreshInv
<1> QED
  BY <1>1, <1>2 DEF Serve

----------------------------------------------------------------------------
(* What the handlers do with what they are told *)

LEMMA ShowsGone == \A i, p : headers' = <<>> => Shows(headers', i, p)
BY DEF Shows

LEMMA ShowsNone == \A i, p : i \notin Shown => Shows(headers, i, p)
BY DEF Shows, Shown

(* The header of a message goes, and those of the others stay. *)
LEMMA WithoutShows ==
  ASSUME TypeInv, NoHeaderTwice, NEW i \in Shown, headers' = Without(i), NEW j, NEW p
  PROVE  /\ Shows(headers', i, p)
         /\ Shows(headers, j, p) => Shows(headers', j, p)
<1>0. headers \in Seq(Headers) /\ Len(headers) \in Nat
  BY DEF TypeInv, TypeOK
<1>1. Position(i) \in 1..Len(headers) /\ headers[Position(i)].id = i
  BY PositionIs
<1>2. /\ Len(headers') = Len(headers) - 1
      /\ \A k \in 1..Len(headers) - 1 :
           headers'[k] = IF k < Position(i) THEN headers[k] ELSE headers[k + 1]
  BY WithoutIs
<1>3. ASSUME NEW k \in 1..Len(headers')
      PROVE  \E m \in 1..Len(headers) : m # Position(i) /\ headers'[k] = headers[m]
  <2>1. CASE k < Position(i)
    BY <1>0, <1>1, <1>2, <2>1
  <2>2. CASE ~(k < Position(i))
    <3>1. k + 1 \in 1..Len(headers) /\ k + 1 # Position(i) /\ headers'[k] = headers[k + 1]
      BY <1>0, <1>1, <1>2, <2>2
    <3> QED
      BY <3>1
  <2> QED
    BY <2>1, <2>2
<1>4. ASSUME NEW k \in 1..Len(headers') PROVE headers'[k].id # i
  BY <1>1, <1>3 DEF NoHeaderTwice
<1>5. Shows(headers', i, p)
  BY <1>4 DEF Shows
<1>6. Shows(headers, j, p) => Shows(headers', j, p)
  BY <1>3 DEF Shows
<1> QED
  BY <1>5, <1>6

(* A header gets another path, and those of the others stay. *)
LEMMA WithShows ==
  ASSUME TypeInv, NoHeaderTwice, NEW i \in Shown, NEW q \in Paths, headers' = With(i, q), NEW j, NEW p
  PROVE  /\ Shows(headers', i, q)
         /\ (j # i /\ Shows(headers, j, p)) => Shows(headers', j, p)
<1>0. headers \in Seq(Headers) /\ Len(headers) \in Nat
  BY DEF TypeInv, TypeOK
<1>1. Position(i) \in 1..Len(headers) /\ headers[Position(i)].id = i
  BY PositionIs
<1> DEFINE k == Position(i)
<1>2. headers' = [headers EXCEPT ![k] = [headers[k] EXCEPT !.path = q]]
  BY DEF With
<1> HIDE DEF k
<1>3. Len(headers') = Len(headers) /\ DOMAIN headers = 1..Len(headers)
  BY <1>0, <1>2
<1>4. headers'[k].path = q
  <2>1. headers[k] \in Headers /\ k \in DOMAIN headers
    BY <1>0, <1>1, <1>3 DEF k
  <2> QED
    BY <1>2, <2>1 DEF Headers
<1>5. \A m \in 1..Len(headers) : m # k => headers'[m] = headers[m]
  BY <1>2, <1>3
<1>6. \A m \in 1..Len(headers) : m # k => headers[m].id # i
  BY <1>1 DEF NoHeaderTwice, k
<1>7. Shows(headers', i, q)
  BY <1>3, <1>4, <1>5, <1>6 DEF Shows
<1>8. headers'[k].id = i
  BY <1>1, WithIs DEF k
<1>9. (j # i /\ Shows(headers, j, p)) => Shows(headers', j, p)
  BY <1>3, <1>5, <1>8 DEF Shows
<1> QED
  BY <1>7, <1>9

(* What a handler must do: when the reply is about the message and true,   *)
(* the headers show what it says; when it is not, they show what they did. *)
LEMMA ReplyFresh ==
  ASSUME TypeInv, FreshInv, NEW kinds, Eats(kinds), outdated \subseteq outdated',
         \A i \in Ids \ outdated', p \in Paths \cup {None} :
           IF Word(Head(buf), i) THEN TrueOf(Head(buf), p) => Shows(headers', i, p)
                                 ELSE Shows(headers, i, p) => Shows(headers', i, p)
  PROVE  FreshInv'
<1> DEFINE s == buf \o outbox
<1>1. s \in Seq(Told) /\ s # <<>> /\ s[1] = Head(buf) /\ buf' \o outbox' = Tail(s)
  BY EatsOne
<1>2. UNCHANGED docs /\ docs \in [Ids -> Paths \cup {None}]
  BY DEF Eats, TypeInv, TypeOK, ServerTypeOK
<1>3. \A i \in Ids \ outdated' : Agrees(s, headers, i, docs[i])
  BY DEF FreshInv
<1> HIDE DEF s
<1>4. ASSUME NEW i \in Ids \ outdated' PROVE Agrees(Tail(s), headers', i, docs[i])
  <2>1. docs[i] \in Paths \cup {None}
    BY <1>2
  <2>2. IF Word(s[1], i) THEN TrueOf(s[1], docs[i]) => Shows(headers', i, docs[i])
        ELSE Shows(headers, i, docs[i]) => Shows(headers', i, docs[i])
    BY <1>1, <2>1
  <2>3. Agrees(s, headers, i, docs[i])
    BY <1>3
  <2> QED
    BY <1>1, <2>2, <2>3, AgreesLess
<1> QED
  BY <1>1, <1>2, <1>4 DEF FreshInv

LEMMA HeaderFresh ==
  ASSUME TypeInv, HeaderInv, FreshInv, HeaderHandler
  PROVE  FreshInv'
<1> DEFINE r == Head(buf)
<1>1. r \in Told /\ r.is = "header" /\ Eats({"header"}) /\ UNCHANGED outdated
  BY EatsDoes DEF HeaderHandler, Quiet
<1>2. PICK x \in Headers : headers' = Append(headers, x) /\ x.id = r.id /\ x.path = r.path
  BY HeaderGood
<1>3. /\ headers \in Seq(Headers) /\ Len(headers) \in Nat
      /\ Len(headers') = Len(headers) + 1
      /\ \A j \in 1..Len(headers) : headers'[j] = headers[j]
      /\ headers'[Len(headers) + 1] = x
  BY <1>2 DEF TypeInv, TypeOK
<1>4. r.id \notin Shown
  <2> DEFINE s == buf \o outbox
  <2>1. s \in Seq(Told) /\ s # <<>> /\ s[1] = Head(buf)
    BY <1>1, EatsOne
  <2>2. OnlyOnce(s, Shown)
    BY DEF HeaderInv
  <2> HIDE DEF s
  <2>3. s[1].is # "erase" /\ Shown \subseteq Shown
    BY <1>1, <2>1
  <2> QED
    BY <1>1, <2>1, <2>2, <2>3, ReplyTaken
<1> HIDE DEF r
<1>5. ASSUME NEW i, NEW p
      PROVE  IF Word(r, i) THEN TrueOf(r, p) => Shows(headers', i, p)
                           ELSE Shows(headers, i, p) => Shows(headers', i, p)
  <2>1. \A k \in 1..Len(headers') : k \in 1..Len(headers) \/ k = Len(headers) + 1
    BY <1>3
  <2>2. CASE r.id = i
    <3>1. \A k \in 1..Len(headers) : headers[k].id # i
      BY <1>4, <2>2 DEF Shown
    <3> QED
      BY <1>1, <1>2, <1>3, <2>1, <2>2, <3>1 DEF Word, TrueOf, Shows
  <2>3. CASE r.id # i
    BY <1>1, <1>2, <1>3, <2>1, <2>3 DEF Word, Shows
  <2> QED
    BY <2>2, <2>3
<1> QED
  BY <1>1, <1>5, ReplyFresh DEF r

LEMMA UpdateFresh ==
  ASSUME TypeInv, HeaderInv, FreshInv, UpdateHandler
  PROVE  FreshInv'
<1> DEFINE r == Head(buf)
<1>1. r \in Told /\ r.is = "update" /\ Eats({"update"}) /\ outdated \subseteq outdated'
  BY EatsDoes DEF UpdateHandler, Quiet
<1>2. r.path \in Paths /\ NoHeaderTwice
  BY <1>1 DEF Told, HeaderInv
<1>3. \/ UNCHANGED headers /\ (r.id \notin Shown \/ r.id \in outdated')
      \/ r.id \in Shown /\ headers' = Without(r.id)
      \/ r.id \in Shown /\ headers' = With(r.id, r.path)
  BY DEF UpdateHandler, UpdateHeader
<1> HIDE DEF r
<1>4. ASSUME NEW i \in Ids \ outdated', NEW p \in Paths \cup {None}
      PROVE  IF Word(r, i) THEN TrueOf(r, p) => Shows(headers', i, p)
                           ELSE Shows(headers, i, p) => Shows(headers', i, p)
  <2>0. Word(r, i) <=> r.id = i
    BY <1>1 DEF Word
  <2>1. TrueOf(r, p) <=> r.path = p
    BY <1>1 DEF TrueOf
  <2>2. CASE UNCHANGED headers /\ (r.id \notin Shown \/ r.id \in outdated')
    <3>1. r.id = i => Shows(headers, i, p)
      BY <1>4, <2>2, ShowsNone
    <3> QED
      BY <2>0, <2>2, <3>1
  <2>3. CASE r.id \in Shown /\ headers' = Without(r.id)
    <3>1. Shows(headers', r.id, p) /\ (Shows(headers, i, p) => Shows(headers', i, p))
      BY <1>2, <2>3, WithoutShows
    <3> QED
      BY <2>0, <3>1
  <2>4. CASE r.id \in Shown /\ headers' = With(r.id, r.path)
    <3>1. Shows(headers', r.id, r.path)
          /\ ((i # r.id /\ Shows(headers, i, p)) => Shows(headers', i, p))
      BY <1>2, <2>4, WithShows
    <3> QED
      BY <2>0, <2>1, <3>1
  <2> QED
    BY <1>3, <2>2, <2>3, <2>4
<1> QED
  BY <1>1, <1>4, ReplyFresh DEF r

LEMMA RemoveFresh ==
  ASSUME TypeInv, HeaderInv, FreshInv, RemoveHandler
  PROVE  FreshInv'
<1> DEFINE r == Head(buf)
<1>1. r.is = "remove" /\ Eats({"remove"}) /\ UNCHANGED outdated /\ NoHeaderTwice
  BY EatsDoes DEF RemoveHandler, Quiet, HeaderInv
<1>2. \/ UNCHANGED headers /\ r.id \notin Shown
      \/ r.id \in Shown /\ headers' = Without(r.id)
  BY DEF RemoveHandler
<1> HIDE DEF r
<1>3. ASSUME NEW i, NEW p
      PROVE  IF Word(r, i) THEN TrueOf(r, p) => Shows(headers', i, p)
                           ELSE Shows(headers, i, p) => Shows(headers', i, p)
  <2>0. Word(r, i) <=> r.id = i
    BY <1>1 DEF Word
  <2>1. CASE UNCHANGED headers /\ r.id \notin Shown
    BY <2>0, <2>1, ShowsNone
  <2>2. CASE r.id \in Shown /\ headers' = Without(r.id)
    <3>1. Shows(headers', r.id, p) /\ (Shows(headers, i, p) => Shows(headers', i, p))
      BY <1>1, <2>2, WithoutShows
    <3> QED
      BY <2>0, <3>1
  <2> QED
    BY <1>2, <2>1, <2>2
<1> QED
  BY <1>1, <1>3, ReplyFresh DEF r

LEMMA FilterFresh ==
  ASSUME TypeInv, HeaderInv, FreshInv, Filter
  PROVE  FreshInv'
<1>1. CASE HeaderHandler
  BY <1>1, HeaderFresh
<1>2. CASE UpdateHandler
  BY <1>2, UpdateFresh
<1>3. CASE RemoveHandler
  BY <1>3, RemoveFresh
<1>4. CASE EraseHandler
  <2>1. Eats({"erase"}) /\ headers' = <<>> /\ UNCHANGED outdated
    BY <1>4 DEF EraseHandler, Quiet
  <2> QED
    BY <2>1, ShowsGone, ReplyFresh
<1>5. CASE FoundHandler \/ SentHandler \/ InfoHandler \/ ViewHandler \/ ErrorHandler
  <2>1. /\ \E kinds \in {{"found"}, {"sent"}, {"info"}, {"view"}, {"error"}} : Eats(kinds)
        /\ UNCHANGED outdated
    BY <1>5 DEF FoundHandler, SentHandler, InfoHandler, ViewHandler, ErrorHandler, Quiet
  <2>2. PICK kinds \in {{"found"}, {"sent"}, {"info"}, {"view"}, {"error"}} : Eats(kinds)
    BY <2>1
  <2>3. \A i : ~Word(Head(buf), i)
    BY <2>2 DEF Eats, Word
  <2>4. UNCHANGED headers \/ headers' = <<>>
    BY <1>5, OthersGood
  <2>5. ASSUME NEW i, NEW p, Shows(headers, i, p) PROVE Shows(headers', i, p)
    BY <2>4, <2>5, ShowsGone
  <2> QED
    BY <2>1, <2>2, <2>3, <2>5, ReplyFresh
<1>6. CASE FilterEnds
  BY <1>6 DEF FilterEnds, server, FreshInv
<1> QED
  BY <1>1, <1>2, <1>3, <1>4, <1>5, <1>6 DEF Filter

(* The stream of replies, the messages and what is outdated stay, and the  *)
(* headers stay or go.                                                     *)
LEMMA SameFresh ==
  ASSUME FreshInv, buf' \o outbox' = buf \o outbox, UNCHANGED <<docs, outdated>>,
         UNCHANGED headers \/ headers' = <<>>
  PROVE  FreshInv'
<1>1. ASSUME NEW i, NEW p, Agrees(buf \o outbox, headers, i, p)
      PROVE  Agrees(buf \o outbox, headers', i, p)
  BY <1>1, ShowsGone DEF Agrees
<1> QED
  BY <1>1 DEF FreshInv

LEMMA NextFresh == TypeInv /\ HeaderInv /\ FreshInv /\ [Next]_vars => FreshInv'
<1> SUFFICES ASSUME TypeInv, HeaderInv, FreshInv, [Next]_vars PROVE FreshInv'
  OBVIOUS
<1>1. CASE Serve
  BY <1>1, ServeFresh
<1>2. CASE User
  <2>1. UNCHANGED <<outbox, buf, docs, outdated>> /\ (UNCHANGED headers \/ headers' = <<>>)
    BY <1>2 DEF User, Search, ViewMessage, SendDraft, UpdateIndex, Goto, Mark, Execute, Free, client
  <2> QED
    BY <2>1, SameFresh
<1>3. CASE Reception
  <2>1. UNCHANGED <<docs, outdated>>
    BY <1>3 DEF Reception, Receive
  <2> QED
    BY <1>3, <2>1, ReceptionGood, SameFresh
<1>4. CASE Filter
  BY <1>4, FilterFresh
<1>5. CASE OtherProgram
  <2>1. UNCHANGED <<outbox, buf, headers, docs, outdated>>
    BY <1>5 DEF OtherProgram, Delete, Rename, Deliver, Other, client
  <2> QED
    BY <2>1, SameFresh
<1>6. CASE UNCHANGED vars
  BY <1>6, SameFresh DEF vars, server, client
<1> QED
  BY <1>1, <1>2, <1>3, <1>4, <1>5, <1>6 DEF Next

(* When every command is answered and every answer is handled, the headers *)
(* have the paths that the store has, whatever came between: moves and     *)
(* removals of messages while a search was on its way, marks, commands     *)
(* that failed, other programs.  The exceptions are the ids in outdated.   *)
THEOREM HeadersAreFresh == Spec => []HeadersFresh
<1>1. Init => HeaderInv /\ FreshInv
  <2> SUFFICES ASSUME Init PROVE HeaderInv /\ FreshInv
    OBVIOUS
  <2>1. headers = <<>> /\ buf = <<>> /\ outbox = <<>>
    BY DEF Init
  <2>2. NoHeaderTwice /\ Shown = {} /\ \A i, p : Shows(headers, i, p)
    BY <2>1 DEF NoHeaderTwice, Shown, Shows
  <2>3. buf \o outbox = <<>>
    BY <2>1
  <2> QED
    BY <2>2, <2>3 DEF HeaderInv, OnlyOnce, FreshInv, Agrees, Says
<1>2. TypeInv /\ FreshInv => HeadersFresh
  <2> SUFFICES ASSUME TypeInv, FreshInv, Settled, NEW k \in 1..Len(headers),
                      headers[k].id \notin outdated
               PROVE  docs[headers[k].id] = headers[k].path
    BY DEF HeadersFresh
  <2>1. headers[k].id \in Ids
    BY ShownIds DEF Shown
  <2>2. buf \o outbox = <<>>
    BY DEF Settled
  <2>3. Agrees(<<>>, headers, headers[k].id, docs[headers[k].id])
    BY <2>1, <2>2 DEF FreshInv
  <2> QED
    BY <2>3 DEF Agrees, Shows
<1>3. TypeInv /\ HeaderInv /\ FreshInv /\ [Next]_vars => (TypeInv /\ HeaderInv /\ FreshInv)'
  BY NextGood, NextNotTwice, NextFresh
<1> QED
  BY InitGood, <1>1, <1>2, <1>3, PTL DEF Spec
=============================================================================
