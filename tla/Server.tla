------------------------------- MODULE Server -------------------------------
(***************************************************************************)
(* lib/mu-server.cc: the server reads one command after the other, changes *)
(* the maildir and the store, and writes its replies.                      *)
(*                                                                         *)
(* Commands that only read (compose, extract, contacts, ping, help) are    *)
(* left out.  The store does what it should: what happens when it fails,   *)
(* or the process does, is in Store, and what an indexing job may leave    *)
(* out is in LazyIndex, so here it adds and removes what it likes.         *)
(***************************************************************************)
EXTENDS Maildir, Sequences, SequencesExt

CONSTANTS
  None,
  MaxId,      \* bound: document ids given out
  MaxEvents   \* bound: commands of the user, changes that other programs
              \* make, and files that cannot be read or removed

ASSUME ServerAssumption == None \notin Paths /\ MaxId \in Nat /\ MaxEvents \in Nat

VARIABLES
  files,      \* the message files there are
  docs,       \* for every id, the path in its document
  last,       \* the last id given out
  inbox,      \* the commands in the pipe to the server
  outbox,     \* the replies in the pipe from the server
  task,       \* what remains of a command with more than one step
  events,     \* not in the code: how many of those there have been
  outdated    \* not in the code: the ids of documents that were changed
              \* without a reply about it since the latest find

server == <<files, docs, last, inbox, outbox, task, events, outdated>>

Ids == 1..MaxId
Deltas == [plus : SUBSET (FileFlags \cup {"u"}),
           minus : SUBSET (FileFlags \cup {"N", "u"})]

Cmd(cmd) == [cmd |-> cmd, id |-> 0, msgid |-> None, dir |-> None,
             delta |-> Delta({}, {}), path |-> None]
Commands == [cmd : {"find", "view", "move", "remove", "sent", "index"},
             id : 0..MaxId, msgid : {MsgidOf[n] : n \in Names} \cup {None},
             dir : Maildirs \cup {None}, delta : Deltas,
             path : Paths \cup {None}]

Reply(is) == [is |-> is, id |-> 0, path |-> None, moved |-> FALSE]
About(is, i, p) == [Reply(is) EXCEPT !.id = i, !.path = p]
Replies == [is : {"erase", "header", "found", "view", "update", "remove",
                  "sent", "info", "error"},
            id : 0..MaxId, path : Paths \cup {None}, moved : BOOLEAN]

Idle == [do |-> "idle", ids |-> {}, id |-> 0, delta |-> Delta({}, {})]
Tasks == [do : {"idle", "mark", "move", "index"}, ids : SUBSET Ids,
          id : 0..MaxId, delta : Deltas]

ServerTypeOK ==
  /\ files \subseteq Paths
  /\ docs \in [Ids -> Paths \cup {None}] /\ last \in 0..MaxId
  /\ inbox \in Seq(Commands) /\ outbox \in Seq(Replies)
  /\ task \in Tasks
  /\ events \in 0..MaxEvents /\ outdated \subseteq Ids

Found == {i \in Ids : docs[i] # None}
WithPath(p) == {i \in Found : docs[i] = p}

(* docids_for_msgid *)
WithMsgid(msgid) == {i \in Found : MsgidOf[docs[i].name] = msgid}

(* What a change by "+S-u-N" leaves of the flags of an old path *)
ReadDelta == Delta({"S"}, {"u", "N"})

Event == events < MaxEvents /\ events' = events + 1

Say(replies) == outbox' = outbox \o replies

(* Takes the next command, if it is cmd. *)
Takes(cmd) ==
  /\ task = Idle /\ inbox # <<>>
  /\ Head(inbox).cmd = cmd
  /\ inbox' = Tail(inbox)

Fails == Say(<<Reply("error")>>) /\ task' = Idle

(* replace_document by the uid term of p: the first document with it is    *)
(* left, or else there is a new one.                                       *)
IdFor(p) == IF WithPath(p) = {} THEN last + 1
            ELSE CHOOSE i \in WithPath(p) : \A j \in WithPath(p) : i <= j

Added(p) ==
  [i \in Ids |-> IF i = IdFor(p) THEN p
                 ELSE IF i \in WithPath(p) THEN None ELSE docs[i]]

AddMessage(p) ==
  /\ IdFor(p) <= MaxId
  /\ docs' = Added(p)
  /\ last' = IF WithPath(p) = {} THEN last + 1 ELSE last

Untold == outdated' = outdated \cup {i \in Ids : docs'[i] # docs[i]}
----------------------------------------------------------------------------
(* Moves: mu_msg_move_to_maildir() renames the file, unless the name stays *)
(* the same, and reads it; update_message() stores the new path.           *)

Target(i, dir, flags) ==
  NewPath(docs[i], IF dir = None THEN docs[i].dir ELSE dir, flags)

Renamed(p, q) == (files \ {p}) \cup {q}

Bug_Moves(i, q) ==
  /\ files' = IF docs[i] \in files THEN Renamed(docs[i], q) ELSE files
  /\ docs' = [docs EXCEPT ![i] = q]
  /\ UNCHANGED events

Moves(i, q) ==
  /\ docs[i] \in files
  /\ files' = Renamed(docs[i], q)
  /\ docs' = [docs EXCEPT ![i] = q]
  /\ UNCHANGED events

(* The file is not there any more, or it cannot be read after the rename,  *)
(* and then the store still has its old path.                              *)
MoveFails(i, q) ==
  \/ docs[i] \notin files /\ UNCHANGED <<files, docs, events>>
  \/ /\ docs[i] \in files /\ Event
     /\ files' = Renamed(docs[i], q)
     /\ UNCHANGED docs

(* perform_move() to q, and the reply; then there is only next to do. *)
PerformMove(i, q, next) ==
  \/ /\ Moves(i, q)
     /\ Say(<<[About("update", i, q) EXCEPT !.moved = docs[i].dir # q.dir]>>)
     /\ task' = next
  \/ MoveFails(i, q) /\ Fails
----------------------------------------------------------------------------
(* The commands *)

Bug_HandleFind ==
  /\ Takes("find")
  /\ LET ids == SetToSeq(Found)
     IN  Say([k \in 1..Len(ids) |-> About("header", ids[k], docs[ids[k]])]
             \o <<Reply("found")>>)
  /\ outdated' = {}
  /\ UNCHANGED <<files, docs, last, task, events>>

(* find_handler(), for a query that matches every message, in some order *)
HandleFind ==
  /\ Takes("find")
  /\ LET ids == SetToSeq(Found)
     IN  Say(<<Reply("erase")>>
             \o [k \in 1..Len(ids) |-> About("header", ids[k], docs[ids[k]])]
             \o <<Reply("found")>>)
  /\ outdated' = {}
  /\ UNCHANGED <<files, docs, last, task, events>>

(* maybe_mark_as_read(): nothing to do when the flags of the message are   *)
(* those it is to have, but those of the message have its contents' too.   *)
Marked(i) == MessageFlags(docs[i]) = FromDelta(ReadDelta, FlagsFromPath(docs[i]))

MarkAsRead(i, next) ==
  \/ /\ Marked(i)
     /\ task' = next
     /\ UNCHANGED <<files, docs, outbox, events>>
  \/ /\ ~Marked(i)
     /\ PerformMove(i, Target(i, None, FromDelta(ReadDelta, FlagsFromPath(docs[i]))),
                    next)

(* view_handler() with :mark-as-read: first the message itself, ...        *)
HandleView ==
  /\ Takes("view")
  /\ LET i == Head(inbox).id IN
     \/ i \notin Found /\ Fails /\ UNCHANGED <<files, docs, events>>
     \/ /\ i \in Found
        /\ MarkAsRead(i, [do |-> "mark", ids |-> WithMsgid(MsgidOf[docs[i].name]),
                          id |-> i, delta |-> ReadDelta])
  /\ UNCHANGED <<last, outdated>>

(* ... then all that have its message-id, and it is shown when all are.    *)
MarkNext ==
  /\ task.do = "mark"
  /\ \E i \in task.ids : MarkAsRead(i, [task EXCEPT !.ids = @ \ {i}])
  /\ UNCHANGED <<last, inbox, outdated>>

Bug_ViewShow ==
  /\ task.do = "mark"
  /\ Say(<<About("view", task.id, docs[task.id])>>)
  /\ task' = Idle
  /\ UNCHANGED <<files, docs, last, inbox, events, outdated>>

ViewShow ==
  /\ task.do = "mark" /\ task.ids = {}
  /\ Say(<<About("view", task.id, docs[task.id])>>)
  /\ task' = Idle
  /\ UNCHANGED <<files, docs, last, inbox, events, outdated>>

(* move_handler(): one message to a maildir, or the flags of one message   *)
(* or of all that have a message-id (when mu4e gives a message-id, it      *)
(* gives no maildir; several messages cannot be moved to one).             *)
HandleMove ==
  /\ Takes("move")
  /\ LET c == Head(inbox)
         ids == IF c.id # 0 THEN {c.id} ELSE WithMsgid(c.msgid)
     IN
     \/ /\ ids \cap Found = {}
        /\ Fails
        /\ UNCHANGED <<files, docs, events>>
     \/ \E i \in Found :
          /\ ids = {i}
          /\ PerformMove(i, Target(i, c.dir, FromDelta(c.delta, FlagsFromPath(docs[i]))),
                         Idle)
     \/ /\ \E i, j \in ids : i # j
        /\ task' = [do |-> "move", ids |-> ids, id |-> 0, delta |-> c.delta]
        /\ UNCHANGED <<files, docs, outbox, events>>
  /\ UNCHANGED <<last, outdated>>

(* The next of the messages that move_docid() is called for; an error ends *)
(* the loop.                                                               *)
MoveNext ==
  /\ task.do = "move"
  /\ \E i \in task.ids :
       PerformMove(i, Target(i, None, FromDelta(task.delta, FlagsFromPath(docs[i]))),
                   IF task.ids = {i} THEN Idle ELSE [task EXCEPT !.ids = @ \ {i}])
  /\ UNCHANGED <<last, inbox, outdated>>

(* remove_handler(): a file that is not there does no harm; every document *)
(* with the path goes, and the reply is about one.                         *)
HandleRemove ==
  /\ Takes("remove")
  /\ LET i == Head(inbox).id IN
     \/ /\ i \notin Found
        /\ Fails
        /\ UNCHANGED <<files, docs, events, outdated>>
     \/ /\ i \in Found
        /\ docs[i] \in files /\ Event
        /\ Fails
        /\ UNCHANGED <<files, docs, outdated>>
     \/ /\ i \in Found
        /\ files' = files \ {docs[i]}
        /\ docs' = [j \in Ids |-> IF j \in WithPath(docs[i]) THEN None ELSE docs[j]]
        /\ outdated' = outdated \cup (WithPath(docs[i]) \ {i})
        /\ Say(<<About("remove", i, None)>>)
        /\ UNCHANGED <<task, events>>
  /\ UNCHANGED last

(* sent_handler(), and add_handler(), which replies with another word *)
HandleSent ==
  /\ Takes("sent")
  /\ LET p == Head(inbox).path IN
     \/ /\ p \notin files
        /\ Fails
        /\ UNCHANGED <<docs, last, outdated>>
     \/ /\ p \in files
        /\ AddMessage(p)
        /\ Untold
        /\ Say(<<About("sent", IdFor(p), p)>>)
        /\ UNCHANGED task
  /\ UNCHANGED <<files, events>>

(* index_handler() waits for the job to end. *)
HandleIndex ==
  /\ Takes("index")
  /\ task' = [Idle EXCEPT !.do = "index"]
  /\ UNCHANGED <<files, docs, last, outbox, events, outdated>>

IndexAdd(p) ==
  /\ task.do = "index"
  /\ AddMessage(p)
  /\ Untold
  /\ UNCHANGED <<files, inbox, outbox, task, events>>

IndexRemove(i) ==
  /\ task.do = "index"
  /\ docs[i] \notin files
  /\ docs' = [docs EXCEPT ![i] = None]
  /\ Untold
  /\ UNCHANGED <<files, last, inbox, outbox, task, events>>

IndexEnds ==
  /\ task.do = "index"
  /\ Say(<<Reply("info")>>)
  /\ task' = Idle
  /\ UNCHANGED <<files, docs, last, inbox, events, outdated>>

ServerStep ==
  \/ HandleFind
  \/ HandleView \/ MarkNext \/ ViewShow
  \/ HandleMove \/ MoveNext
  \/ HandleRemove
  \/ HandleSent
  \/ HandleIndex \/ IndexEnds
  \/ \E p \in files : IndexAdd(p)
  \/ \E i \in Found : IndexRemove(i)
=============================================================================
