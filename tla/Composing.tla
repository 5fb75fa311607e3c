----------------------------- MODULE Composing ------------------------------
(***************************************************************************)
(* mu4e/mu4e-draft.el and mu4e/mu4e-compose.el, with the handlers of       *)
(* lib/mu-server.cc that they call: drafts are opened, saved, moved to     *)
(* another context's folder, sent, filed and removed, and the messages     *)
(* that they answer get their flags.                                       *)
(*                                                                         *)
(* One message, the original, is answered, forwarded, or sent again; there *)
(* may be copies of it.  A path is a folder, a random name and flags; "N"  *)
(* says that the file is in new/.  Message-ids are numbers: 0 is that of   *)
(* the original, those below are what it refers to, and a draft gets the   *)
(* number of its file's name.  An address is a mailbox, and the way it is  *)
(* written.  What else is in a message, how it is shown, signed and sent   *)
(* is left out.  The server is reached through a pipe and its replies are  *)
(* evaluated in order.                                                     *)
(***************************************************************************)
EXTENDS Integers, Sequences, SequencesExt, FiniteSets

CONSTANTS
  Contexts,     \* mu4e-contexts
  Addresses,    \* those in messages: a mailbox, and the way it is written
  Mine,         \* mailboxes of mu4e-personal-address-p
  MaxRefs,      \* mu4e~max-reference-num (21)
  Behaviors,    \* mu4e-sent-messages-behavior: "sent", "trash", "delete"
  Options,      \* those for replies: [recipients, keepSelf, dontSelf, ignore]
  MaxSteps,     \* how much the user does
  Nil

VARIABLES
  original,     \* [refs, reply, from, replyTo, to, cc, listPost, match]
  context,      \* mu4e~context-current
  disk,         \* the messages by their paths
  docs,         \* the store: documents by their ids
  lastId,       \* the highest id that was given
  pipe, replies,
  buffers,      \* those in mu4e-compose-mode, by buffer-file-name
  handlers,     \* how many message-fcc-handler-functions are nested
  names,        \* random names that are taken
  steps,        \* what the user did
  sent          \* messages that went out, for the properties

world == <<disk, docs, lastId>>
vars == <<original, context, disk, docs, lastId, pipe, replies, buffers, handlers, names,
          steps, sent>>

(* What a sequence has at some places, in order *)
Nth(I, n) == CHOOSE i \in I : Cardinality({j \in I : j <= i}) = n
Picked(s, I) == [k \in 1..Cardinality(I) |-> s[Nth(I, k)]]

Path(folder, name, flags) == [folder |-> folder, name |-> name, flags |-> flags]
Without(f, x) == Restrict(f, DOMAIN f \ {x})
With(f, x, v) == [y \in DOMAIN f \cup {x} |-> IF y = x THEN v ELSE f[y]]

-----------------------------------------------------------------------------
(* References and recipients (mu4e-draft.el) *)

(* cl-delete-duplicates leaves the last of those that are the same *)
Doubles(s, Same(_, _)) ==
  {i \in DOMAIN s : \E j \in DOMAIN s : j > i /\ Same(s[i], s[j])}
NoDoubles(s, Same(_, _)) == Picked(s, DOMAIN s \ Doubles(s, Same))

(* The old references and the message-id; what is too many is cut out      *)
(* after the first.                                                        *)
ReferencesConstruct(o) ==
  LET refs == NoDoubles(Append(o.refs, 0), LAMBDA a, b : a = b)
      surplus == Len(refs) - MaxRefs
  IN  IF surplus > 0 THEN <<refs[1]>> \o SubSeq(refs, surplus + 2, Len(refs)) ELSE refs

AddressCellEqual(a, b) == a[1] = b[1]
PersonalAddressP(a) == a[1] \in Mine

Mails(s) == {s[i][1] : i \in DOMAIN s}
Dropped(s, mails) == Picked(s, {i \in DOMAIN s : s[i][1] \notin mails})

(* The result of cl-delete-duplicates is not used. *)
CreateToLst(o, opts) ==
  LET lst == IF o.replyTo # <<>> THEN o.replyTo ELSE o.from
  IN  IF opts.dontSelf THEN Dropped(lst, Mine) ELSE lst

StripIgnored(s, opts) == Dropped(s, opts.ignore)

CreateCcLst(o, opts, all, includeFrom) ==
  IF ~all THEN <<>>
  ELSE LET lst == NoDoubles(o.to \o o.cc \o (IF includeFrom THEN o.from ELSE <<>>) \o o.listPost,
                            AddressCellEqual)
           kept == StripIgnored(Dropped(lst, Mails(CreateToLst(o, opts))), opts)
       IN  IF opts.keepSelf THEN kept ELSE Dropped(kept, Mine)

(* What the user may be asked, and answer *)
ReplyAllP(o, opts) ==
  IF Len(CreateToLst(o, opts)) + Len(CreateCcLst(o, opts, TRUE, FALSE)) < 2
  THEN {TRUE} ELSE BOOLEAN

ContactFieldMatchesMe(s) == \E i \in DOMAIN s : PersonalAddressP(s[i])

ToCc(to, cc, kind) == [to |-> to, cc |-> cc, kind |-> kind]

ReplyConstructRecipients(o, opts) ==
  LET alls == IF opts.recipients = "all" THEN {TRUE}
              ELSE IF opts.recipients = "sender" THEN {FALSE} ELSE ReplyAllP(o, opts)
      to == CreateToLst(o, opts)
      Cc(all) == CreateCcLst(o, opts, all, FALSE)
      Kind(all) == IF all THEN "all" ELSE "sender"
  IN  IF ContactFieldMatchesMe(o.from) THEN {ToCc(o.to, o.cc, "self")}
      ELSE {IF to = <<>> THEN ToCc(Cc(all), <<>>, Kind(all)) ELSE ToCc(to, Cc(all), Kind(all)) :
              all \in alls}

ReplyConstructRecipientsList(o, opts) ==
  {ToCc(CreateToLst(o, opts), CreateCcLst(o, opts, TRUE, TRUE), "list-all"),
   ToCc(o.listPost, <<>>, "list-only"), ToCc(o.from, <<>>, "from-only")}

(* A message as it is in a draft.  What the user has in mind (wish), the   *)
(* kind of a reply and the options are for the properties.                 *)
Head1(wish, refs, reply, recipients, opts) ==
  [msgid |-> Nil, refs |-> refs, reply |-> reply, recipients |-> recipients, fccs |-> <<>>,
   wish |-> wish, opts |-> opts]
Nobody == ToCc(<<>>, <<>>, "none")
Empty == Head1("edit", <<>>, Nil, Nobody, Nil)

Recipients(o, opts) ==
  IF o.listPost # <<>> THEN ReplyConstructRecipientsList(o, opts)
  ELSE ReplyConstructRecipients(o, opts)
ReplyConstruct(o) ==
  UNION {{Head1("reply", ReferencesConstruct(o), 0, r, opts) : r \in Recipients(o, opts)} :
           opts \in Options}
ForwardConstruct(o) == Head1("forward", ReferencesConstruct(o), Nil, Nobody, Nil)
NewmsgConstruct == Head1("new", <<>>, Nil, Nobody, Nil)
OriginalHead(o) == [Head1("original", o.refs, o.reply, Nobody, Nil) EXCEPT !.msgid = 0]

-----------------------------------------------------------------------------
(* The server (add, sent, remove, compose and move of mu-server.cc); what  *)
(* it throws ends a command.                                               *)

With1(path) == {i \in DOMAIN docs : docs[i].path = path}

(* Store::add_message: the document of a path is replaced, with its id;    *)
(* an id is given once.                                                    *)
AddedId(path) == IF With1(path) # {} THEN Min(With1(path)) ELSE lastId + 1
Added(path) ==
  /\ docs' = With(docs, AddedId(path), [path |-> path, msgid |-> disk[path].msgid])
  /\ lastId' = Max({lastId, AddedId(path)})

AddHandler(c) ==
  /\ IF c.path \in DOMAIN disk THEN Added(c.path) ELSE UNCHANGED <<docs, lastId>>
  /\ UNCHANGED <<disk, replies>>

SentHandler(c) ==
  /\ IF c.path \in DOMAIN disk
     THEN /\ Added(c.path)
          /\ replies' = Append(replies, [is |-> "sent", path |-> c.path, docid |-> AddedId(c.path)])
     ELSE UNCHANGED <<docs, lastId, replies>>
  /\ UNCHANGED disk

RemoveHandler(c) ==
  /\ IF c.docid \in DOMAIN docs
     THEN LET path == docs[c.docid].path
          IN  /\ disk' = Without(disk, path)
              /\ docs' = Restrict(docs, DOMAIN docs \ With1(path))
     ELSE UNCHANGED <<disk, docs>>
  /\ UNCHANGED <<lastId, replies>>

ComposeHandler(c) ==
  /\ replies' = IF c.docid \in DOMAIN docs
                THEN Append(replies, [is |-> "compose", type |-> c.type, path |-> docs[c.docid].path])
                ELSE replies
  /\ UNCHANGED world

Changed(flags, delta) ==
  CASE delta = "+R-N" -> (flags \cup {"R"}) \ {"N"}
    [] delta = "+P-N" -> (flags \cup {"P"}) \ {"N"}
    [] delta = "-N" -> flags \ {"N"}
    [] OTHER -> flags

Target(path, c) ==
  Path(IF c.folder = Nil THEN path.folder ELSE c.folder, path.name, Changed(path.flags, c.delta))

DeterminedDocids(c) ==
  IF c.msgid = Nil THEN {c.docid} \cap DOMAIN docs
  ELSE {i \in DOMAIN docs : docs[i].msgid = c.msgid}

(* Several messages are not moved to another folder; one that has no file  *)
(* ends the command.                                                       *)
MoveHandler(c) ==
  LET D == DeterminedDocids(c)
      ids == {i \in D : \A j \in D : j <= i => docs[j].path \in DOMAIN disk}
      several == Cardinality(D) > 1
      moved == IF several /\ c.folder # Nil THEN {} ELSE ids
      old == {docs[i].path : i \in moved}
      new == {Target(p, c) : p \in old}
      From(p) == {q \in old : Target(q, c) = p}
      Source(p) == CHOOSE q \in From(p) : q # p \/ From(p) = {p}
  IN  /\ docs' = [i \in DOMAIN docs |->
                    IF i \in moved THEN [docs[i] EXCEPT !.path = Target(@, c)] ELSE docs[i]]
      /\ disk' = [p \in (DOMAIN disk \ old) \cup new |->
                    IF p \in new THEN disk[Source(p)] ELSE disk[p]]
      /\ UNCHANGED <<lastId, replies>>

Serve ==
  /\ pipe # <<>>
  /\ LET c == Head(pipe)
     IN  CASE c.cmd = "add" -> AddHandler(c)
           [] c.cmd = "sent" -> SentHandler(c)
           [] c.cmd = "remove" -> RemoveHandler(c)
           [] c.cmd = "compose" -> ComposeHandler(c)
           [] c.cmd = "move" -> MoveHandler(c)
  /\ pipe' = Tail(pipe)
  /\ UNCHANGED <<original, context, buffers, handlers, names, steps, sent>>

ProcAdd(path) == [cmd |-> "add", path |-> path]
ProcSent(path) == [cmd |-> "sent", path |-> path]
ProcRemove(docid) == [cmd |-> "remove", docid |-> docid]
ProcCompose(type, docid) == [cmd |-> "compose", type |-> type, docid |-> docid]
ProcMove(docid, msgid, folder, delta) ==
  [cmd |-> "move", docid |-> docid, msgid |-> msgid, folder |-> folder, delta |-> delta]
Calls(cs) == pipe' = pipe \o cs

-----------------------------------------------------------------------------
(* Drafts (mu4e-compose.el) *)

(* mu4e-context-determine with the policy that asks, and without one *)
Determined(o) == IF o.match # Nil THEN {o.match} ELSE Contexts
Within(o) == IF o.match # Nil THEN o.match ELSE context

Folder(kind, c) == <<kind, c>>
NewDraft(c) == Path(Folder("drafts", c), names + 1, {"D", "S"})
NoMatch == [match |-> Nil]
Parent(b) == IF b.parent = "original" THEN original ELSE NoMatch

Buffer(type, parent, head) ==
  [type |-> type, parent |-> parent, head |-> head,
   stale |-> \E k \in DOMAIN pipe : pipe[k].cmd = "move" /\ pipe[k].msgid = head.msgid]

(* Each thing once, and not too many *)
Step(kind) ==
  /\ kind \notin steps /\ Cardinality(steps) < MaxSteps
  /\ steps' = steps \cup {kind}

(* A new draft has no file before it is saved. *)
ComposeNew ==
  /\ Step("new")
  /\ \E c \in Contexts :
       /\ context' = c
       /\ buffers' = With(buffers, NewDraft(c), Buffer("new", "none", NewmsgConstruct))
  /\ names' = names + 1
  /\ UNCHANGED <<original, disk, docs, lastId, pipe, replies, handlers, sent>>

IsDraft(i) == "D" \in docs[i].path.flags

(* For the message at point, of which the headers show what is in the      *)
(* store.                                                                  *)
Compose(type, i) ==
  /\ Step(type)
  /\ type = "edit" => IsDraft(i)
  /\ type # "edit" => docs[i].msgid = 0 /\ ~IsDraft(i)
  /\ Calls(<<ProcCompose(type, i)>>)
  /\ UNCHANGED <<original, context, disk, docs, lastId, replies, buffers, handlers, names, sent>>

Opened(type, c, head) ==
  /\ context' = c
  /\ buffers' = With(buffers, NewDraft(c), Buffer(type, "original", head))
  /\ names' = names + 1
  /\ UNCHANGED <<disk, sent>>

(* A message that is sent again is copied, with its message-id, to a draft *)
(* in its own folder.                                                      *)
OpenResent(path) ==
  /\ IF path \in DOMAIN disk
     THEN LET draft == [path EXCEPT !.name = names + 1, !.flags = {"D", "S"}]
              head == [disk[path] EXCEPT !.wish = "resend"]
          IN  /\ disk' = With(disk, draft, head)
              /\ buffers' = With(buffers, draft, Buffer("resend", "original", head))
              /\ names' = names + 1
     ELSE UNCHANGED <<disk, buffers, names>>
  /\ context' \in Determined(original)
  /\ UNCHANGED sent

(* find-file: the buffer that visits the file, or a new one; an empty one  *)
(* when the file is not there any more                                     *)
Visited(path) ==
  IF path \in DOMAIN buffers THEN buffers[path].head
  ELSE IF path \in DOMAIN disk THEN disk[path] ELSE Empty

OpenEdited(path) ==
  /\ buffers' = With(buffers, path, Buffer("edit", "draft", Visited(path)))
  /\ sent' = {[m EXCEPT !.late = @ \/ m.path = path] : m \in sent}
  /\ context' \in Contexts
  /\ UNCHANGED <<disk, names>>

DraftOpen(r) ==
  CASE r.type = "reply" ->
         \E c \in Determined(original), head \in ReplyConstruct(original) : Opened("reply", c, head)
    [] r.type = "forward" ->
         \E c \in Determined(original) : Opened("forward", c, ForwardConstruct(original))
    [] r.type = "resend" -> OpenResent(r.path)
    [] r.type = "edit" -> OpenEdited(r.path)

Bug_ForwardedFrom(refs) == Head(refs)
ForwardedFrom(refs) == Last(refs)

(* In-reply-to says which message was answered, or else the last of the    *)
(* references which one was forwarded.                                     *)
SetParentFlag(path) ==
  LET head == Visited(path)
  IN  IF head.reply # Nil THEN <<ProcMove(Nil, head.reply, Nil, "+R-N")>>
      ELSE IF head.refs # <<>> THEN <<ProcMove(Nil, ForwardedFrom(head.refs), Nil, "+P-N")>>
      ELSE <<>>

(* mu4e-sent-handler, with message-kill-buffer-on-exit *)
Sent(r) ==
  /\ Calls(SetParentFlag(r.path) \o
           (IF r.path \in DOMAIN disk THEN <<ProcRemove(r.docid)>> ELSE <<>>))
  /\ buffers' = Without(buffers, r.path)
  /\ UNCHANGED <<context, disk, names, sent>>

Evaluate ==
  /\ replies # <<>>
  /\ LET r == Head(replies)
     IN  \/ r.is = "compose" /\ DraftOpen(r) /\ UNCHANGED pipe
         \/ r.is = "sent" /\ Sent(r)
  /\ replies' = Tail(replies)
  /\ UNCHANGED <<original, docs, lastId, handlers, steps>>

-----------------------------------------------------------------------------
(* before-save-hook: the message-id is made when there is none *)
Saved(path, head) == IF head.msgid = Nil THEN [head EXCEPT !.msgid = path.name] ELSE head

Save(path) ==
  LET head == Saved(path, buffers[path].head)
  IN  /\ Step("save")
      /\ disk' = With(disk, path, head)
      /\ buffers' = [buffers EXCEPT ![path].head = head]
      /\ Calls(<<ProcAdd(path)>>)
      /\ UNCHANGED <<original, context, docs, lastId, replies, handlers, names, sent>>

(* The user removes In-reply-to. *)
Detach(path) ==
  /\ Step("detach")
  /\ buffers[path].head.reply # Nil
  /\ buffers' = [buffers EXCEPT ![path].head.reply = Nil,
                                ![path].head.wish = IF @ = "reply" THEN "detached" ELSE @]
  /\ UNCHANGED <<original, context, disk, docs, lastId, pipe, replies, handlers, names, sent>>

KillBuffer(path) ==
  /\ Step("kill")
  /\ buffers' = Without(buffers, path)
  /\ UNCHANGED <<original, context, disk, docs, lastId, pipe, replies, handlers, names, sent>>

Bug_RemoveRefsMaybe(b) == b.head
RemoveRefsMaybe(b) ==
  IF b.type = "reply" /\ b.head.reply = Nil THEN [b.head EXCEPT !.refs = <<>>] ELSE b.head

Fcc(b, behavior) ==
  IF behavior = "delete" THEN <<>>
  ELSE <<Path(Folder(behavior, Within(Parent(b))), names + 1, {"S"})>>

(* message-do-fcc calls, for each Fcc, the function that is set at that    *)
(* time, and each puts back the one before it.  With none left,            *)
(* message-mode appends to the file as to an mbox, and the store is not    *)
(* told.                                                                   *)
Bug_FccCalls(fccs, nested) == [k \in 1..Min({Len(fccs), 1}) |-> ProcAdd(fccs[k])]
FccCalls(fccs, nested) ==
  [k \in 1..Min({Len(fccs), nested}) |-> ProcAdd(fccs[k])]

(* The draft is saved, gets its Fcc, and then goes out or not.  It keeps   *)
(* the Fcc and the function when it does not.                              *)
Send(path, goes, behavior) ==
  LET b == buffers[path]
      head == Saved(path, RemoveRefsMaybe(b))
      fcc == Fcc(b, behavior)
      fccs == head.fccs \o fcc
      nested == handlers + Len(fcc)
      copy == [head EXCEPT !.fccs = <<>>]
      draft == With(disk, path, head)
  IN  /\ Step(IF goes THEN "send " \o b.head.wish ELSE "fail")
      /\ names' = names + Len(fcc)
      /\ \/ /\ ~goes
            /\ disk' = draft
            /\ buffers' = [buffers EXCEPT ![path].head = [head EXCEPT !.fccs = fccs]]
            /\ handlers' = nested
            /\ Calls(<<ProcAdd(path)>>)
            /\ UNCHANGED sent
         \/ /\ goes
            /\ disk' = [p \in DOMAIN draft \cup Range(fccs) |->
                          IF p \in Range(fccs) THEN copy ELSE draft[p]]
            /\ buffers' = Without(buffers, path)
            /\ handlers' = Max({0, nested - Len(fccs)})
            /\ Calls(<<ProcAdd(path)>> \o FccCalls(fccs, nested) \o <<ProcSent(path)>>)
            /\ sent' = sent \cup {[path |-> path, type |-> b.type, head |-> copy,
                                   fccs |-> fccs, kept |-> behavior # "delete", late |-> b.stale]}
      /\ UNCHANGED <<original, context, docs, lastId, replies>>

(* A draft that has a file goes to the drafts of the new context, and its  *)
(* buffer is killed; the file of one that has none gets another name.      *)
ContextSwitch(path, c) ==
  LET head == Saved(path, buffers[path].head)
      folder == Folder("drafts", c)
  IN  /\ Step("switch")
      /\ context' = c
      /\ \/ c = context /\ UNCHANGED <<disk, buffers, pipe>>
         \/ /\ c # context /\ path \in DOMAIN disk
            /\ disk' = With(disk, path, head)
            /\ buffers' = Without(buffers, path)
            /\ Calls(<<ProcAdd(path), ProcMove(Nil, head.msgid, folder, "none")>>)
         \/ /\ c # context /\ path \notin DOMAIN disk
            /\ buffers' = With(Without(buffers, path), [path EXCEPT !.folder = folder], buffers[path])
            /\ UNCHANGED <<disk, pipe>>
      /\ UNCHANGED <<original, docs, lastId, replies, handlers, names, sent>>

(* The message that is answered is filed elsewhere meanwhile. *)
RefileIt(i) ==
  /\ Step("refile")
  /\ docs[i].path.folder = Folder("inbox", Nil)
  /\ Calls(<<ProcMove(i, Nil, Folder("archive", Nil), "-N")>>)
  /\ UNCHANGED <<original, context, disk, docs, lastId, replies, buffers, handlers, names, sent>>

Types == {"reply", "forward", "resend", "edit"}

UserActs ==
  \/ ComposeNew
  \/ \E i \in DOMAIN docs : RefileIt(i) \/ \E type \in Types : Compose(type, i)
  \/ \E path \in DOMAIN buffers :
       \/ Save(path) \/ Detach(path) \/ KillBuffer(path)
       \/ \E goes \in BOOLEAN, behavior \in Behaviors : Send(path, goes, behavior)
       \/ \E c \in Contexts : ContextSwitch(path, c)

Next == Serve \/ Evaluate \/ UserActs

(* The original, and maybe a copy that was not seen yet *)
InitWith(o, copies) ==
  LET Copy(k) == Path(Folder("inbox", Nil), -k, IF k = 0 THEN {"S"} ELSE {"N"})
      paths == {Copy(k) : k \in 0..copies}
  IN  /\ original = o
      /\ context \in Contexts
      /\ disk = [p \in paths |-> OriginalHead(o)]
      /\ docs = [i \in 1..(copies + 1) |-> [path |-> Copy(i - 1), msgid |-> 0]]
      /\ lastId = copies + 1
      /\ pipe = <<>> /\ replies = <<>>
      /\ buffers = [p \in {} |-> Empty]
      /\ handlers = 0 /\ names = 0 /\ steps = {} /\ sent = {}

(* Messages as get_references() and the server give them: no reference     *)
(* comes twice.                                                            *)
Lists == Seq(Addresses)
Messages ==
  {o \in [refs : Seq(Int), reply : Int \cup {Nil}, from : Lists, replyTo : Lists, to : Lists,
          cc : Lists, listPost : Lists, match : Contexts \cup {Nil}] : IsInjective(o.refs)}

Init == \E o \in Messages, copies \in Nat : InitWith(o, copies)
Spec == Init /\ [][Next]_vars

-----------------------------------------------------------------------------
(* Types *)

(* What the constants have to be; a reference is left out after the first  *)
(* and before the last.                                                    *)
ASSUME ComposingAssumption ==
  /\ MaxRefs \in Nat /\ MaxRefs >= 2
  /\ Nil \notin Int /\ Nil \notin Contexts
  /\ Behaviors \subseteq {"sent", "trash", "delete"}
  /\ \A opts \in Options : opts.keepSelf \in BOOLEAN /\ opts.dontSelf \in BOOLEAN

Msgids   == Int \cup {Nil}
Folders  == {"inbox", "archive", "drafts", "sent", "trash"} \X (Contexts \cup {Nil})
Paths    == [folder : Folders, name : Int, flags : SUBSET {"D", "S", "N", "R", "P"}]
Wishes   == {"original", "new", "reply", "detached", "forward", "resend", "edit"}
ToCcs    == [to : Lists, cc : Lists,
             kind : {"all", "sender", "self", "list-all", "list-only", "from-only", "none"}]
Heads    == [msgid : Msgids, refs : Seq(Int), reply : Msgids, recipients : ToCcs,
             fccs : Seq(Paths), wish : Wishes, opts : Options \cup {Nil}]
Docs     == [path : Paths, msgid : Msgids]
Drafts   == [type : Types \cup {"new"}, parent : {"none", "original", "draft"}, head : Heads,
             stale : BOOLEAN]
Cmds     == [cmd : {"add", "sent"}, path : Paths] \cup [cmd : {"remove"}, docid : Nat]
            \cup [cmd : {"compose"}, type : Types, docid : Nat]
            \cup [cmd : {"move"}, docid : Nat \cup {Nil}, msgid : Msgids,
                  folder : Folders \cup {Nil}, delta : {"+R-N", "+P-N", "-N", "none"}]
Answers  == [is : {"sent"}, path : Paths, docid : Nat]
            \cup [is : {"compose"}, type : Types, path : Paths]
Outgoing == [path : Paths, type : Types \cup {"new"}, head : Heads, fccs : Seq(Paths),
             kept : BOOLEAN, late : BOOLEAN]

TypeOK ==
  /\ original \in Messages /\ context \in Contexts
  /\ DOMAIN disk \subseteq Paths /\ disk \in [DOMAIN disk -> Heads]
  /\ DOMAIN docs \subseteq Nat /\ docs \in [DOMAIN docs -> Docs]
  /\ lastId \in Nat /\ handlers \in Nat /\ names \in Nat
  /\ pipe \in Seq(Cmds) /\ replies \in Seq(Answers)
  /\ DOMAIN buffers \subseteq Paths /\ buffers \in [DOMAIN buffers -> Drafts]
  /\ sent \subseteq Outgoing

-----------------------------------------------------------------------------
(* Properties *)

Settled == pipe = <<>> /\ replies = <<>>
Originals == {i \in DOMAIN docs : docs[i].path.name <= 0}
Wished(wish) == {m \in sent : m.head.wish = wish}

(* "set the 'replied' "R" flag on messages we replied to, and the 'passed' *)
(* "F" flag on message we have forwarded": on every copy of the original,  *)
(* wherever it was filed meanwhile, and on none that was not answered.     *)
(* An edited draft that lost its In-reply-to keeps its references, and is  *)
(* taken for a forward; and a draft that is opened again while it is being *)
(* sent may be changed before it is looked at (mu4e~compose-set-parent-    *)
(* flag).                                                                  *)
ParentFlagged ==
  Settled => \A i \in Originals :
    LET flags == docs[i].path.flags
        surely == {m \in Wished("reply") \cup Wished("forward") : ~m.late}
    IN  /\ \A m \in surely :
             (IF m.head.wish = "reply" THEN "R" ELSE "P") \in flags /\ "N" \notin flags
        /\ "R" \in flags => Wished("reply") # {}
        /\ "P" \in flags =>
             \/ Wished("forward") # {}
             \/ \E m \in Wished("detached") \cup Wished("reply") : m.type = "edit" \/ m.late

(* When all is done a message that went out is where the user wants to     *)
(* have it, in the store too, as it was sent; it is no draft any more,     *)
(* neither a file nor a document (mu4e~compose-setup-fcc-maybe,            *)
(* mu4e-sent-handler).  But one that is sent again shares its message-id   *)
(* with the original, and both are renamed when that is flagged; and of    *)
(* one that is opened again while it is being sent a draft may be left, or *)
(* its copy goes to the drafts when the context is switched.               *)
SentIsFiled ==
  Settled => \A m \in sent : m.head.wish # "resend" /\ ~m.late =>
    /\ m.kept => m.fccs # <<>>
    /\ \A p \in Range(m.fccs) :
         /\ p \in DOMAIN disk /\ disk[p] = m.head
         /\ \E i \in DOMAIN docs : docs[i] = [path |-> p, msgid |-> m.head.msgid]
    /\ m.path \notin DOMAIN disk /\ With1(m.path) = {}

Unique1(s) == Cardinality(Mails(s)) = Len(s)

(* Everybody who is to get a reply is among its recipients, once, and      *)
(* nobody else is (mu4e~draft-create-cc-lst).  That somebody is twice in   *)
(* Reply-To is not looked for.                                             *)
ReachesAll(r, o, opts) ==
  LET from == Mails(o.from)
      answered == IF o.replyTo # <<>> THEN Mails(o.replyTo) ELSE from
      others == Mails(o.to) \cup Mails(o.cc)
      to == Mails(r.to)
      cc == Mails(r.cc)
      Meant(S, listed) ==
        /\ to \cup cc \subseteq S /\ S \ (to \cup cc) \subseteq Mine \cup opts.ignore
        /\ to \cap cc = {} /\ Unique1(r.cc)
        /\ ~opts.keepSelf => cc \cap Mine = {}
        /\ opts.dontSelf /\ ~opts.keepSelf => to \cap Mine = {}
        /\ ~listed /\ to = {} => cc = {}
  IN  CASE r.kind = "all" -> Meant(answered \cup others, FALSE)
        [] r.kind = "list-all" -> Meant(answered \cup from \cup others \cup Mails(o.listPost), TRUE)
        [] r.kind = "sender" -> to \subseteq answered /\ answered \ to \subseteq Mine /\ cc = {}
        [] r.kind = "self" -> to = Mails(o.to) /\ cc = Mails(o.cc)
        [] OTHER -> to = (IF r.kind = "list-only" THEN Mails(o.listPost) ELSE from) /\ cc = {}

(* A reply goes to whom it should, and it and a forwarded message come     *)
(* last in their thread, of which the first message and the latest are     *)
(* named; a message is sent to the thread that the user has in mind: of a  *)
(* reply without In-reply-to the references are removed as well, but for   *)
(* a draft that was opened again (mu4e~remove-refs-maybe).                 *)
ReplyAsWanted ==
  /\ \A p \in DOMAIN buffers :
       LET head == buffers[p].head
       IN  /\ head.wish = "reply" => ReachesAll(head.recipients, original, head.opts)
           /\ head.wish \in {"reply", "forward"} =>
                /\ Last(head.refs) = 0 /\ Len(head.refs) <= MaxRefs
                /\ IsInjective(head.refs)
                /\ Len(head.refs) > 1 =>
                     \E i \in DOMAIN original.refs :
                       /\ Head(head.refs) = original.refs[i] /\ original.refs[i] # 0
                       /\ \A j \in 1..(i - 1) : original.refs[j] = 0
  /\ \A m \in sent :
       LET head == m.head
       IN  CASE head.wish = "reply" -> head.reply = 0 /\ Last(head.refs) = 0
             [] head.wish = "forward" -> head.reply = Nil /\ Last(head.refs) = 0
             [] head.wish \in {"detached", "new"} ->
                  head.reply = Nil /\ (m.type # "edit" => head.refs = <<>>)
             [] OTHER -> TRUE
=============================================================================
