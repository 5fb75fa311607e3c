----------------------------- MODULE Attachments -----------------------------
(***************************************************************************)
(* mu4e/mu4e-view-old.el and the view, extract and compose commands of     *)
(* lib/mu-server.cc: the numbers under which a view shows the parts of a   *)
(* message, and the files that are made of parts.                          *)
(*                                                                         *)
(* A command and its reply are one step: the command has what it needs of  *)
(* the view, so that a change that comes between the two is as one that    *)
(* comes before both.  Other programs edit the files of messages, and      *)
(* decryption works or does not, as the agent has the key or has not.      *)
(***************************************************************************)
EXTENDS Mime, TLC

CONSTANTS
  Messages,     \* document ids
  Roots,        \* the MIME objects that a message may be
  Images,       \* mu4e-view-show-images
  MaxCommands,  \* commands of the user, and updates
  MaxChanges    \* edits and changes of the agent

VARIABLES
  file,         \* the file of each message: its root
  policy,       \* mu4e-decryption-policy
  agent,        \* whether decryption succeeds
  cache,        \* the files under the cache directory: path to what was saved
  view,         \* the message in the view buffer: mu4e~view-message
  embedded,     \* the message in the buffer for embedded ones
  attachMap,    \* mu4e~view-attach-map: number to index
  mapOf,        \* the message that it was made for
  draft,        \* the forwarded message: what of, and the files attached
  asked,        \* what the user asked for, and what came
  commands, changes

shown == <<view, embedded, attachMap, mapOf>>
setup == <<file, policy, agent, changes>>
vars  == <<setup, shown, cache, draft, asked, commands>>

Nothing == [path |-> <<>>, docid |-> None, root |-> Multipart(<<>>), opts |-> {}]
Nobody  == [meant |-> None, got |-> None, same |-> FALSE, map |-> FALSE]
NoDraft == [of |-> Nothing, files |-> {}]

Command == commands < MaxCommands /\ commands' = commands + 1
----------------------------------------------------------------------------
With(opts) == IF agent THEN opts \cup {"agent"} ELSE opts

ViewOptions(set, decrypt, showImages) ==
  set \cup (IF decrypt THEN {"decrypt"} ELSE {}) \cup (IF showImages THEN {"images"} ELSE {})

(* get_mime_object_at_index *)
PartsForIndex(root, opts) == Parts(root, opts \ {"verify", "images"})

(* mu_msg_part_get_cache_path, mu_msg_part_get_path: the directory is that *)
(* of the message's path and the index.                                    *)
Bug_CachePath(path, object, index) == path \o <<0, Filename(object, index)>>

CachePath(path, object, index) == path \o <<index, Filename(object, index)>>

(* What the outcome of a walk depends on, besides the kind of the call *)
Seen(root, opts) ==
  <<root, IF "encrypted" \in ContentFlags(root) /\ "decrypt" \in opts
          THEN opts \cap {"decrypt", "agent"} ELSE {}>>

(* mu_msg_part_save: what a file holds, and what it was made from *)
Saved(object, root, opts) == [object |-> object, of |-> Seen(root, opts)]

(* save_object: with MU_MSG_OPTION_USE_EXISTING a file that is there is    *)
(* left alone.                                                             *)
UseExisting(files, new) == files @@ new
Overwrite(files, new)   == new @@ files

(* mu_msg_part_save_temp, for some of the parts of a message, in order *)
FilesOf(msg, taken) ==
  LET parts == PartsForIndex(msg.root, msg.opts)
      at(i) == CachePath(msg.path, parts[i].object, i)
  IN  [p \in {at(i) : i \in taken} |->
         Saved(parts[CHOOSE i \in taken : at(i) = p].object, msg.root, msg.opts)]

(* get_temp_file_maybe *)
IsImage(entry) == entry.object.is = "part" /\ entry.object.type[1] = "image"
ImageFiles(msg) ==
  LET parts == PartsForIndex(msg.root, msg.opts)
  IN  IF "images" \in msg.opts THEN FilesOf(msg, {i \in DOMAIN parts : IsImage(parts[i])})
      ELSE << >>
----------------------------------------------------------------------------
(* make_part_types, each_part: what Emacs is told of each part of a view   *)
PartTypes(entry) ==
  entry.types \cap {"leaf", "message", "inline", "attachment", "signed", "encrypted"}
EachPart(entry) == [object |-> entry.object, types |-> PartTypes(entry)]

(* Those that have "signature" in their name *)
SignatureTypes == {"pgp-signature", "pkcs7-signature"}

(* mu4e~view-construct-attachments-header *)
Bug_IsListed(entry, count) ==
  \/ "attachment" \in entry.types
  \/ entry.object.is = "message"
  \/ /\ entry.object.is = "part"
     /\ LET type == entry.object.type
        IN  \/ type[1] \in {"image", "audio"}
            \/ type = <<"text", "calendar">>
            \/ type[1] = "application" /\ type[2] \notin SignatureTypes

IsListed(entry, count) ==
  \/ "attachment" \in entry.types
  \/ entry.object.is = "message"
  \/ /\ entry.object.is = "part"
     /\ LET type == entry.object.type
        IN  \/ /\ "inline" \in entry.types
               /\ \/ count > 1 /\ entry.object.size > 256
                  \/ type # <<"text", "plain">>
            \/ type[1] \in {"image", "audio"}
            \/ type = <<"text", "calendar">>
            \/ type[1] = "application" /\ type[2] \notin SignatureTypes

Listed(msg) ==
  LET parts == Parts(msg.root, msg.opts)
  IN  SelectSeq([i \in DOMAIN parts |-> i], LAMBDA i : IsListed(EachPart(parts[i]), Len(parts)))

PartOf(msg, index) == Parts(msg.root, msg.opts)[index].object

(* The message in the document d, as a reply has it *)
Message(d, opts) == [path |-> <<d>>, docid |-> d, root |-> file[d], opts |-> With(opts)]

(* mu4e~decrypt-p *)
DecryptP(d, answer) ==
  /\ "encrypted" \in ContentFlags(file[d])
  /\ IF policy = "ask" THEN answer ELSE policy = "yes"

(* mu4e~view-old: there is one map, whatever the buffer.  The buffer of an *)
(* embedded message has the keys and links of the other, but for q; what   *)
(* a key means is the message in mu4e~view-message.                        *)
ShowMap(msg) == attachMap' = Listed(msg) /\ mapOf' = msg
Display(msg) == view' = msg /\ ShowMap(msg) /\ UNCHANGED embedded

(* mu4e-headers-view-message, view_handler *)
View(d, answer) ==
  LET msg == Message(d, ViewOptions({"verify"}, DecryptP(d, answer), Images))
  IN  /\ Command
      /\ Display(msg)
      /\ cache' = UseExisting(cache, ImageFiles(msg))
      /\ UNCHANGED <<setup, draft, asked>>

(* perform_move: the update of a message in the view is shown as it comes, *)
(* with the options of the update.                                         *)
Update(d) ==
  /\ Command
  /\ view.docid = d
  /\ Display(Message(d, {"verify"}))
  /\ UNCHANGED <<setup, cache, draft, asked>>

(* mu4e-view-refresh *)
Refresh ==
  /\ Command
  /\ view # Nothing
  /\ Display(view)
  /\ UNCHANGED <<setup, cache, draft, asked>>

(* kill-buffer-and-window, which is q there *)
QuitEmbedded ==
  /\ Command
  /\ embedded # Nothing
  /\ embedded' = Nothing
  /\ UNCHANGED <<setup, view, attachMap, mapOf, cache, draft, asked>>
----------------------------------------------------------------------------
(* mu4e~view-get-attach: 0 for none *)
GetAttach(msg, n) ==
  IF n \in DOMAIN attachMap /\ attachMap[n] \in DOMAIN Parts(msg.root, msg.opts)
  THEN attachMap[n] ELSE 0

(* extract_handler, message_options: the part at an index of the message   *)
(* as it is now.  The user is not asked again.                             *)
Bug_ExtractOpts == {}
ExtractOpts == IF policy = "no" THEN {} ELSE {"decrypt"}

Extracts(docid, index) ==
  PartsForIndex(file[docid], With(ExtractOpts))[index].object

(* The part at an index of the message in the view is asked for.  For an   *)
(* embedded message, by its link, there is no document.  Nothing comes     *)
(* either when there is no such part.                                      *)
Asks(index) ==
  /\ Command
  /\ index # 0
  /\ index \in DOMAIN PartsForIndex(file[view.docid], With(ExtractOpts))

Answer(msg, n, got, of) ==
  asked' = [meant |-> PartOf(msg, Listed(msg)[n]),
            got   |-> got,
            same  |-> of = Seen(msg.root, msg.opts),
            map   |-> mapOf = msg]

(* mu4e-view-save-attachment-single, save_part *)
SaveAttachment(n) ==
  LET index == GetAttach(view, n)
  IN  /\ Asks(index)
      /\ Answer(view, n, Extracts(view.docid, index),
                Seen(file[view.docid], With(IF policy = "no" THEN {} ELSE {"decrypt"})))
      /\ UNCHANGED <<setup, shown, cache, draft>>

(* open_part, temp_part *)
TempPart(path, docid, index) ==
  UseExisting(cache, path :> Saved(Extracts(docid, index), file[docid], With(ExtractOpts)))

(* mu4e-view-open-attachment; a message is then viewed:                    *)
(* mu4e~view-temp-handler.                                                 *)
OpenAttachment(n) ==
  LET index  == GetAttach(view, n)
      path   == CachePath(view.path, Extracts(view.docid, index), index)
      files  == TempPart(path, view.docid, index)
      inside == [path |-> path, docid |-> None, root |-> files[path].object.inside,
                 opts |-> With(ViewOptions({}, policy # "no", Images))]
  IN  /\ Asks(index)
      /\ Answer(view, n, files[path].object, files[path].of)
      /\ IF PartOf(view, index).is = "message" /\ files[path].object.is = "message"
         THEN /\ embedded' = inside
              /\ ShowMap(inside)
              /\ cache' = UseExisting(files, ImageFiles(inside))
         ELSE cache' = files /\ UNCHANGED <<embedded, attachMap, mapOf>>
      /\ UNCHANGED <<setup, view, draft>>
----------------------------------------------------------------------------
(* mu4e-compose-forward, compose_handler, each_part: what may be an        *)
(* attachment is saved in the cache, over what is there.                   *)
Forward(d, answer) ==
  LET msg   == Message(d, ViewOptions({}, DecryptP(d, answer), FALSE))
      parts == PartsForIndex(msg.root, msg.opts)
      files == FilesOf(msg, {i \in DOMAIN parts : MaybeAttachment(parts[i])})
  IN  /\ Command
      /\ cache' = Overwrite(cache, files)
      /\ draft' = [of |-> msg, files |-> DOMAIN files]
      /\ UNCHANGED <<setup, shown, asked>>

Edit(d) ==
  /\ changes < MaxChanges
  /\ changes' = changes + 1
  /\ \E root \in Roots : root # file[d] /\ file' = [file EXCEPT ![d] = root]
  /\ UNCHANGED <<policy, agent, shown, cache, draft, asked, commands>>

Agent ==
  /\ changes < MaxChanges
  /\ changes' = changes + 1
  /\ agent' = ~agent
  /\ UNCHANGED <<file, policy, shown, cache, draft, asked, commands>>

Init ==
  /\ file \in [Messages -> Roots]
  /\ policy \in {"yes", "no", "ask"} /\ agent \in BOOLEAN
  /\ cache = << >> /\ draft = NoDraft /\ asked = Nobody
  /\ view = Nothing /\ embedded = Nothing /\ attachMap = <<>> /\ mapOf = Nothing
  /\ commands = 0 /\ changes = 0

Next ==
  \/ \E d \in Messages, answer \in BOOLEAN : View(d, answer) \/ Forward(d, answer)
  \/ \E d \in Messages : Update(d) \/ Edit(d)
  \/ Refresh \/ QuitEmbedded \/ Agent
  \/ \E n \in DOMAIN Listed(view) : SaveAttachment(n) \/ OpenAttachment(n)

Spec == Init /\ [][Next]_vars
----------------------------------------------------------------------------
(* The part that is saved or opened is the one whose number the user gave, *)
(* if the numbers are of this message and the part was made from the file, *)
(* and with the decryption, that the view has: view and extraction walk    *)
(* the same way, and no two parts share a file of the cache.               *)
AskedForIsGiven == asked.map /\ asked.same => asked.got = asked.meant

(* A forwarded message has all of the original but the messages inside: a  *)
(* leaf is in the text that is cited, or it is attached, in a file that    *)
(* holds it still, as long as the message has not changed.                 *)
ForwardKeepsAll ==
  LET msg   == draft.of
      parts == Parts(msg.root, msg.opts)
      same  == \A p \in draft.files : cache[p].of = Seen(msg.root, msg.opts)
  IN  same => \A i \in DOMAIN parts : "leaf" \in parts[i].types =>
        \/ IsBody(parts[i], "text_plain") \/ IsBody(parts[i], "text_html")
        \/ \E p \in draft.files : cache[p].object = parts[i].object

WellIndexed(root) ==
  \A e \in Range(Parts(root, {"recurse"})) :
    e.object.is = "part" /\ e.object.type = <<"text", "plain">>
      => e.object.content \in BodyText(root) \cup EmbeddedText(root)

(* Nothing that is plain text is missing from the index, in whatever depth *)
(* of multiparts and messages it is, unless the message has an encrypted   *)
(* part, so that its body is not indexed.                                  *)
TextIndexed ==
  \A d \in Messages : "encrypted" \in ContentFlags(file[d]) \/ WellIndexed(file[d])

(* lib takes any disposition for one of an attachment; mu4e knows two. *)
OnlyLibKnows(part) ==
  /\ part.disposition \notin {"attachment", "inline"}
  /\ \/ part.type[1] = "text" /\ part.type[2] # "calendar"
     \/ part.type[2] \in SignatureTypes

(* A message that has the flag of attachments shows some, unless what has  *)
(* it is shown decrypted: lib and mu4e decide each for itself what looks   *)
(* like an attachment.  They do not agree on a text, or a signature that   *)
(* is not from PGP, whose disposition is neither "attachment" nor "inline" *)
(* (form-data, say): that gives the flag, and is not listed.               *)
AttachFlagListed ==
  view # Nothing /\ "attach" \in ContentFlags(view.root)
    /\ ("encrypted" \in ContentFlags(view.root) => "decrypt" \notin view.opts)
    => \/ Listed(view) # <<>>
       \/ \A e \in Range(Parts(view.root, {})) :
            e.object.is = "part" /\ LooksLikeAttachment(e.object) => OnlyLibKnows(e.object)
=============================================================================
