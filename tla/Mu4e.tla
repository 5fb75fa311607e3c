-------------------------------- MODULE Mu4e --------------------------------
(***************************************************************************)
(* mu4e: the headers buffer and its marks (mu4e-headers.el, mu4e-mark.el), *)
(* and the process filter that evaluates what the server writes            *)
(* (mu4e-proc.el), together with the server and with other programs that   *)
(* use the maildir.                                                        *)
(*                                                                         *)
(* Emacs runs one thing at a time: a command of the user or the filter.    *)
(* Replies come in chunks of any length.  A reply of which only a part has *)
(* come counts as one that has not come.                                   *)
(***************************************************************************)
EXTENDS Server

CONSTANTS
  MarkNames,    \* which of mu4e-marks the user uses
  Trash, Refile,\* the maildirs messages are moved to
  Draft,        \* the path of a reply that the user writes
  Replied,      \* the message-id that it is a reply to
  Stores,       \* the sets of files a session may start with
  MaxMarks      \* bound: messages marked at a time

ASSUME Mu4eAssumption ==
  /\ MarkNames \subseteq {"read", "unread", "flag", "unflag", "refile", "trash",
                       "untrash", "delete"}
  /\ MarkNames \cap {"flag", "unflag"} # {} => "F" \in FileFlags
  /\ MarkNames \cap {"trash", "untrash"} # {} => "T" \in FileFlags
  /\ "R" \in FileFlags
  /\ Trash \in Maildirs /\ Refile \in Maildirs /\ Draft \in Paths
  /\ Replied \in {MsgidOf[n] : n \in Names}
  /\ \A s \in Stores : s \subseteq Paths /\ IsFiniteSet(s) /\ Cardinality(s) <= MaxId
  /\ MaxMarks \in Nat

VARIABLES
  buf,        \* mu4e~proc-buf: replies that have come, and wait
  filtering,  \* is mu4e~proc-filter at work?
  headers,    \* the headers, with the path in each
  point,      \* the header that point is on, or 0: below the last
  marks       \* mu4e~mark-map

client == <<buf, filtering, headers, point, marks>>
vars == <<server, client>>

Headers == [id : Ids, path : Paths]
Shown == {headers[k].id : k \in 1..Len(headers)}

TypeOK ==
  /\ ServerTypeOK
  /\ buf \in Seq(Replies) /\ filtering \in BOOLEAN
  /\ headers \in Seq(Headers) /\ point \in {0} \cup Ids
  /\ DOMAIN marks \subseteq Ids /\ \A i \in DOMAIN marks : marks[i] \in MarkNames

NoMarks == [i \in {} |-> "read"]

(* A maildir that has been indexed, and no search yet *)
Init ==
  /\ files \in Stores
  /\ LET paths == SetToSeq(files) IN
     /\ docs = [i \in Ids |-> IF i <= Len(paths) THEN paths[i] ELSE None]
     /\ last = Len(paths)
  /\ inbox = <<>> /\ outbox = <<>> /\ task = Idle
  /\ events = 0 /\ outdated = {}
  /\ buf = <<>> /\ filtering = FALSE
  /\ headers = <<>> /\ point = 0 /\ marks = NoMarks

Position(i) == CHOOSE k \in 1..Len(headers) : headers[k].id = i
Below(i) == IF Position(i) = Len(headers) THEN 0 ELSE headers[Position(i) + 1].id
Unmark(map, i) == [j \in DOMAIN map \ {i} |-> map[j]]

Send(cmds) == inbox' = inbox \o cmds

Change(i, delta) == [Cmd("move") EXCEPT !.id = i, !.delta = delta]
MoveTo(i, dir, delta) == [Change(i, delta) EXCEPT !.dir = dir]

(* mu4e-marks: the command for a marked message *)
Action(mark, i) ==
  CASE mark = "read"   -> Change(i, ReadDelta)
    [] mark = "unread" -> Change(i, Delta({"u"}, {"S", "N"}))
    [] mark = "flag"   -> Change(i, Delta({"F"}, {"u", "N"}))
    [] mark = "unflag" -> Change(i, Delta({}, {"F", "N"}))
    [] mark = "refile" -> MoveTo(i, Refile, Delta({}, {"N"}))
    [] mark = "trash"  -> MoveTo(i, Trash, Delta({"T"}, {"N"}))
    [] mark = "untrash" -> Change(i, Delta({}, {"T"}))
    [] mark = "delete" -> [Cmd("remove") EXCEPT !.id = i]
----------------------------------------------------------------------------
(* The user *)

Free == ~filtering /\ UNCHANGED <<files, docs, last, outbox, task, outdated, buf,
                                  filtering>>

(* mu4e-headers-search, the marks ignored: a new headers buffer *)
Search ==
  /\ Free /\ Event
  /\ headers' = <<>> /\ marks' = NoMarks /\ point' = 0
  /\ Send(<<Cmd("find")>>)

(* mu4e-headers-view-message *)
ViewMessage ==
  /\ Free /\ Event
  /\ point # 0
  /\ Send(<<[Cmd("view") EXCEPT !.id = point]>>)
  /\ UNCHANGED <<headers, point, marks>>

Goto(i) ==
  /\ Free
  /\ i \in Shown \cup {0} /\ point' = i
  /\ UNCHANGED <<inbox, headers, marks, events>>

(* mu4e-headers-mark-and-next: below the last header, point is on none.    *)
Mark(mark) ==
  /\ Free
  /\ point # 0
  /\ Cardinality(DOMAIN marks \cup {point}) <= MaxMarks
  /\ marks' = [i \in DOMAIN marks \cup {point} |->
                 IF i = point THEN mark ELSE marks[i]]
  /\ point' = Below(point)
  /\ UNCHANGED <<inbox, headers, events>>

(* mu4e-mark-execute-all: one command for every mark, and then no marks.   *)
(* It looks for the header of each; when there is none, and none at point  *)
(* either, that is an error, and the marks stay.                           *)
Execute(ids) ==
  /\ Free /\ Event /\ marks # NoMarks
  /\ \/ /\ ids = DOMAIN marks
        /\ point # 0 \/ ids \subseteq Shown
        /\ marks' = NoMarks
     \/ /\ ids \subseteq DOMAIN marks \cap Shown
        /\ point = 0 /\ ~(DOMAIN marks \subseteq Shown)
        /\ UNCHANGED marks
  /\ LET order == SetToSeq(ids)
     IN  Send([k \in 1..Len(order) |-> Action(marks[order[k]], order[k])])
  /\ UNCHANGED <<headers, point>>

(* A reply to a message is written in a draft file, and sent. *)
SendDraft ==
  /\ ~filtering /\ Event
  /\ \A p \in files : p.name # Draft.name
  /\ files' = files \cup {Draft}
  /\ Send(<<[Cmd("sent") EXCEPT !.path = Draft]>>)
  /\ UNCHANGED <<docs, last, outbox, task, outdated, client>>

(* mu4e-update-index *)
UpdateIndex ==
  /\ Free /\ Event
  /\ Send(<<Cmd("index")>>)
  /\ UNCHANGED <<headers, point, marks>>
----------------------------------------------------------------------------
(* The process filter *)

(* A chunk of what the server has written *)
Receive(n) ==
  /\ ~filtering
  /\ n \in 1..Len(outbox)
  /\ buf' = buf \o SubSeq(outbox, 1, n)
  /\ outbox' = SubSeq(outbox, n + 1, Len(outbox))
  /\ filtering' = TRUE
  /\ UNCHANGED <<files, docs, last, inbox, task, events, outdated, headers,
                 point, marks>>

(* Takes the next reply from the buffer, if it is one of these. *)
Eats(kinds) ==
  /\ filtering /\ buf # <<>>
  /\ Head(buf).is \in kinds
  /\ buf' = Tail(buf)
  /\ UNCHANGED <<files, docs, last, outbox, task, events>>

Quiet == UNCHANGED <<filtering, outdated, inbox>>

(* mu4e~headers-clear *)
EraseHandler ==
  /\ Eats({"erase"}) /\ Quiet
  /\ headers' = <<>> /\ marks' = NoMarks /\ point' = 0

(* mu4e~headers-header-handler; when point is at the end, the header comes *)
(* after it.                                                               *)
HeaderHandler ==
  /\ Eats({"header"}) /\ Quiet
  /\ headers' = Append(headers, [id |-> Head(buf).id, path |-> Head(buf).path])
  /\ point' = IF point = 0 THEN Head(buf).id ELSE point
  /\ UNCHANGED marks

(* mu4e~headers-found-handler *)
FoundHandler ==
  /\ Eats({"found"}) /\ Quiet
  /\ point' = IF headers = <<>> THEN 0 ELSE headers[1].id
  /\ UNCHANGED <<headers, marks>>

(* The header of message i goes, or it is replaced by another. *)
Without(i) == RemoveAt(headers, Position(i))
With(i, p) == [headers EXCEPT ![Position(i)].path = p]

(* The header of a message that was moved goes; point stays on the header  *)
(* it is on, if that is still there.                                       *)
UpdateHeader(i, p, moved) ==
  /\ headers' = IF moved THEN Without(i) ELSE With(i, p)
  /\ point' = IF point \in Shown \ {i} THEN point
              ELSE IF moved THEN Below(i) ELSE i

(* mu4e~headers-update-handler: when the message is marked, the mark of    *)
(* the header at point goes, and then the message has its mark again, if   *)
(* it is still there.                                                      *)
UpdateHandler ==
  /\ Eats({"update"})
  /\ LET i == Head(buf).id IN
     \/ /\ i \notin Shown
        /\ Quiet
        /\ UNCHANGED <<headers, point, marks>>
     \/ /\ i \in Shown \ DOMAIN marks
        /\ Quiet
        /\ UpdateHeader(i, Head(buf).path, Head(buf).moved)
        /\ UNCHANGED marks
     \/ /\ i \in Shown \cap DOMAIN marks /\ point # 0
        /\ Quiet
        /\ UpdateHeader(i, Head(buf).path, Head(buf).moved)
        /\ marks' = IF point # i THEN Unmark(marks, point)
                    ELSE IF Head(buf).moved THEN Unmark(marks, i) ELSE marks
     \/ /\ i \in Shown \cap DOMAIN marks /\ point = 0
        /\ filtering' = FALSE
        /\ outdated' = outdated \cup {i}
        /\ UNCHANGED <<inbox, headers, point, marks>>

Bug_RemoveHandler ==
  /\ Eats({"remove"}) /\ Quiet
  /\ marks' = Unmark(marks, Head(buf).id)
  /\ UNCHANGED <<headers, point>>

(* mu4e~headers-remove-handler; point moves to the header that goes. *)
RemoveHandler ==
  /\ Eats({"remove"}) /\ Quiet
  /\ LET i == Head(buf).id IN
     \/ /\ i \notin Shown
        /\ UNCHANGED <<headers, point>>
     \/ /\ i \in Shown
        /\ headers' = Without(i)
        /\ point' = Below(i)
  /\ UNCHANGED marks

(* mu4e-sent-handler: the message replied to gets its flag, and the draft  *)
(* goes.                                                                   *)
SentHandler ==
  /\ Eats({"sent"}) /\ UNCHANGED <<filtering, outdated>>
  /\ Send(<<[Cmd("move") EXCEPT !.msgid = Replied, !.delta = Delta({"R"}, {"N"})]>>
          \o IF Head(buf).path \in files
             THEN <<[Cmd("remove") EXCEPT !.id = Head(buf).id]>> ELSE <<>>)
  /\ UNCHANGED <<headers, point, marks>>

(* mu4e-info-handler: a job that has changed something makes the search    *)
(* run again, if nothing is marked and the user is not in the minibuffer.  *)
InfoHandler ==
  /\ Eats({"info"}) /\ UNCHANGED <<filtering, outdated>>
  /\ \/ UNCHANGED <<inbox, headers, point, marks>>
     \/ /\ marks = NoMarks
        /\ headers' = <<>> /\ point' = 0 /\ UNCHANGED marks
        /\ Send(<<Cmd("find")>>)

ViewHandler == Eats({"view"}) /\ Quiet /\ UNCHANGED <<headers, point, marks>>

(* mu4e-error-handler: it raises an error itself, and that ends the filter.*)
ErrorHandler ==
  /\ Eats({"error"})
  /\ filtering' = FALSE
  /\ UNCHANGED <<outdated, inbox, headers, point, marks>>

FilterEnds ==
  /\ filtering /\ buf = <<>>
  /\ filtering' = FALSE
  /\ UNCHANGED <<server, buf, headers, point, marks>>

Filter ==
  \/ EraseHandler \/ HeaderHandler \/ FoundHandler
  \/ UpdateHandler \/ RemoveHandler
  \/ SentHandler \/ InfoHandler \/ ViewHandler \/ ErrorHandler
  \/ FilterEnds
----------------------------------------------------------------------------
(* Other programs: they keep base names unique in a maildir, and they add  *)
(* flags.                                                                  *)
Other == Event /\
         UNCHANGED <<docs, last, inbox, outbox, task, outdated, client>>

Rename(p, q) ==
  /\ Other
  /\ q \notin files
  /\ q.dir = p.dir /\ q.name = p.name
  /\ q.sub = "cur" /\ p.flags \subseteq q.flags
  /\ files' = Renamed(p, q)

Delete(p) ==
  /\ Other
  /\ files' = files \ {p}

Deliver(p) ==
  /\ Other
  /\ p.sub = "new" /\ p.name # Draft.name
  /\ \A q \in files : q.name # p.name
  /\ files' = files \cup {p}
----------------------------------------------------------------------------
User ==
  \/ Search \/ ViewMessage \/ SendDraft \/ UpdateIndex
  \/ \E i \in Ids \cup {0} : Goto(i)
  \/ \E mark \in MarkNames : Mark(mark)
  \/ \E ids \in SUBSET DOMAIN marks : Execute(ids)

OtherProgram ==
  \/ \E p \in files : Delete(p) \/ \E q \in Paths : Rename(p, q)
  \/ \E p \in Paths : Deliver(p)

Serve == ServerStep /\ UNCHANGED <<client>>

Reception == \E n \in 1..Len(outbox) : Receive(n)

Next == Serve \/ User \/ Reception \/ Filter \/ OtherProgram

Spec == Init /\ [][Next]_vars

----------------------------------------------------------------------------
(* No message has two headers, though the results of a search come one by  *)
(* one and later searches and updates come between ("otherwise, we'd have  *)
(* two headers with the same docid" in mu4e~headers-update-handler, and    *)
(* "the output of two finds will not be mixed" in find_handler).           *)
NoHeaderTwice ==
  \A j, k \in 1..Len(headers) : headers[j].id = headers[k].id => j = k

(* When all is answered and handled, the headers show the messages as they *)
(* are in the store, save those that an index job changed, that went       *)
(* because another document had the same path, or whose update broke off.  *)
Settled == inbox = <<>> /\ task = Idle /\ outbox = <<>> /\ buf = <<>>

HeadersFresh ==
  Settled => \A k \in 1..Len(headers) :
               headers[k].id \in outdated \/ docs[headers[k].id] = headers[k].path

(* A message is moved, or its flags change, only from the place where the  *)
(* store says it is, and it loses no flag but those the command takes      *)
(* away: flags that another program has set meanwhile make it fail.        *)
TakenAway == IF task.do \in {"move", "mark"} THEN task.delta.minus
             ELSE IF Head(inbox).cmd = "view" THEN ReadDelta.minus
             ELSE Head(inbox).delta.minus

ChangesPath(i) == docs[i] # None /\ docs'[i] # None /\ docs'[i] # docs[i]

MoveKeepsFlags ==
  [][\A i \in Ids : ChangesPath(i) =>
       /\ docs[i] \in files /\ docs'[i] \in files'
       /\ FlagsFromPath(docs[i]) \ TakenAway \subseteq FlagsFromPath(docs'[i])]_vars

(* When a message is shown, it and all that have its message-id are marked *)
(* as read, in the store and in the maildir, unless another program got    *)
(* there first.                                                            *)
ViewMarksAll ==
  [][ViewShow => \A j \in WithMsgid(MsgidOf[docs[task.id].name]) : IsRead(docs[j])]_vars

=============================================================================
