-------------------------------- MODULE Mime --------------------------------
(***************************************************************************)
(* The parts of a message as lib/mu-msg-part.cc walks over them, what      *)
(* becomes of each, and the flags that lib/mu-msg-file.cc and the text     *)
(* that lib/mu-msg.cc and lib/mu-store.cc make of them.                    *)
(*                                                                         *)
(* A MIME object is a part, with a type (a pair), perhaps a disposition    *)
(* and a name, its content and its size; a message part, with an object    *)
(* inside; a multipart, perhaps signed, with a sequence of objects; or an  *)
(* encrypted multipart, whose two parts are there in any case, and whose   *)
(* inside is what they decrypt to.                                         *)
(***************************************************************************)
EXTENDS Naturals, Sequences, SequencesExt, Functions

None == "none"

Part(type, disposition, name, content, size) ==
  [is |-> "part", type |-> type, disposition |-> disposition, name |-> name,
   content |-> content, size |-> size]
MessagePart(subject, disposition, root) ==
  [is |-> "message", disposition |-> disposition, subject |-> subject, inside |-> root]
Multipart(objects) == [is |-> "multipart", objects |-> objects]
Signed(objects, signatures) ==
  [is |-> "signed", objects |-> objects, signatures |-> signatures]
Encrypted(objects, inside, signatures) ==
  [is |-> "encrypted", objects |-> objects, inside |-> inside, signatures |-> signatures]

IsMultipart(object) == object.is \in {"multipart", "signed", "encrypted"}
----------------------------------------------------------------------------
(* get_status_report: each signature is good, red, or has an error *)

Verdict(signatures) ==
  CASE "error" \in Range(signatures) -> "error"
    [] "error" \notin Range(signatures) /\ "red" \in Range(signatures) -> "bad"
    [] OTHER -> "good"

(* The report that a walk leaves on an object: mu_msg_crypto_verify_part,  *)
(* check_decrypt_result.                                                   *)
Report(object, opts) ==
  CASE object.is = "signed" /\ "verify" \in opts     -> Verdict(object.signatures)
    [] object.is = "encrypted" /\ object.signatures # <<>> -> Verdict(object.signatures)
    [] OTHER -> None
----------------------------------------------------------------------------
(* handle_mime_object: the walk.  The options are a set; "agent" is among  *)
(* them if decryption succeeds.  The index of a part is its place in the   *)
(* result, from 1, since each call of the function takes the next.         *)

(* looks_like_text_body_part *)
TextType(type) ==
  CASE \/ type[1] = "text" /\ type[2] \in {"plain", "x-markdown", "x-diff", "x-patch"}
       \/ type = <<"application", "x-patch">> -> {"text_plain"}
    [] type = <<"text", "html">> -> {"text_html"}
    [] OTHER -> {}

(* get_disposition *)
Disposition(object) == {object.disposition} \cap {"attachment", "inline"}

HandlePart(object, parent, opts, decrypted) ==
  LET report == IF object.type[2] = "pgp-signature" \/ decrypted
                THEN Report(parent, opts) ELSE None
      crypt  == CASE decrypted -> {"decrypted"}
                  [] ~decrypted /\ "decrypt" \in opts /\ parent.is = "encrypted" -> {"encrypted"}
                  [] OTHER -> {}
      signed == IF report = None THEN {} ELSE {"signed"}
  IN  <<[object |-> object, report |-> report,
         types  |-> {"leaf"} \cup Disposition(object) \cup crypt
                    \cup TextType(object.type) \cup signed]>>

MessageEntry(object) ==
  <<[object |-> object, report |-> None, types |-> {"message"} \cup Disposition(object)]>>

RECURSIVE Walk(_, _, _, _), HandleMultipart(_, _, _, _)

HandleMessagePart(object, parent, opts, decrypted) ==
  MessageEntry(object) \o
    IF "recurse" \in opts THEN Walk(object.inside, parent, opts, decrypted) ELSE <<>>

HandleMultipart(objects, parent, opts, decrypted) ==
  IF objects = <<>> THEN <<>>
  ELSE Walk(Head(objects), parent, opts, decrypted)
         \o HandleMultipart(Tail(objects), parent, opts, decrypted)

(* mu_msg_crypto_decrypt_part: what is inside, or none *)
DecryptPart(object, opts) == IF "agent" \in opts THEN {object.inside} ELSE {}

(* What cannot be decrypted is a part like others, the second of the two.  *)
HandleEncryptedPart(object, opts) ==
  IF DecryptPart(object, opts) = {} THEN Walk(object.objects[2], object, opts, FALSE)
  ELSE Walk(CHOOSE inside \in DecryptPart(object, opts) : TRUE, object, opts, TRUE)

(* check_signature *)
ChecksSignature(object, opts) == object.is = "signed" /\ "verify" \in opts

Walk(object, parent, opts, decrypted) ==
  CASE object.is = "part" -> HandlePart(object, parent, opts, decrypted)
    [] object.is = "message" -> HandleMessagePart(object, parent, opts, decrypted)
    [] ChecksSignature(object, opts) -> HandleMultipart(object.objects, object, opts, decrypted)
    [] object.is = "encrypted" /\ "decrypt" \in opts -> HandleEncryptedPart(object, opts)
    [] OTHER -> HandleMultipart(object.objects, parent, opts, decrypted)

(* mu_msg_part_foreach: the parent of the root is the message *)
Parts(root, opts) == Walk(root, MessagePart(None, None, root), opts, FALSE)
----------------------------------------------------------------------------
(* mime_part_get_filename, with construct_if_needed: a part's own name, or *)
(* one made from a subject or the index.                                   *)
Filename(object, index) ==
  CASE object.is = "message"   -> <<"eml", object.subject, 0>>
    [] object.is = "part" /\ object.name # None -> <<"own", object.name, 0>>
    [] object.is = "part" /\ object.name = None ->
         <<IF object.type = <<"text", "calendar">> THEN "vcs" ELSE "msgpart", None, index>>

(* mu_msg_part_maybe_attachment *)
MaybeAttachment(entry) ==
  /\ "leaf" \in entry.types
  /\ entry.types \cap {"text_plain", "text_html"} # {} => "attachment" \in entry.types

(* accumulate_body, get_body: the entries whose text is the body *)
IsBody(entry, type) ==
  "leaf" \in entry.types /\ "attachment" \notin entry.types /\ type \in entry.types

Contents(entries) == [i \in DOMAIN entries |-> entries[i].object.content]
Body(root, opts, type) ==
  Contents(SelectSeq(Parts(root, opts \ {"verify", "images"}), LAMBDA e : IsBody(e, type)))
----------------------------------------------------------------------------
(* looks_like_attachment *)
LooksLikeAttachment(part) ==
  \/ part.disposition = "attachment"
  \/ /\ part.disposition # None
     /\ part.type[1] \in {"text", "image", "audio", "application"}
     /\ part.type[2] # "pgp-signature"
     /\ part.type \notin {<<"text", "plain">>, <<"text", "html">>}

(* msg_cflags_cb, get_content_flags: of every object (g_mime_message_      *)
(* foreach) but what is inside messages and what is encrypted              *)
RECURSIVE ContentFlags(_)
ContentFlags(object) ==
  CASE IsMultipart(object) ->
         ({object.is} \cap {"signed", "encrypted"})
           \cup UNION {ContentFlags(object.objects[i]) : i \in DOMAIN object.objects}
    [] object.is = "part" /\ LooksLikeAttachment(object) -> {"attach"}
    [] OTHER -> {}
----------------------------------------------------------------------------
(* What is indexed.  accumulate_text, get_text_from_mime_msg: of a message *)
(* its plain text; what would add its subject looks for a message where    *)
(* the walk gives message parts.                                           *)
TextOfMessage(root) ==
  {e.object.content : e \in {f \in Range(Parts(root, {})) :
     f.object.is = "part" /\ f.object.type = <<"text", "plain">>}}

(* mu_msg_part_get_text *)
PartText(entry) ==
  CASE entry.object.is = "part" ->
         IF "text_plain" \in entry.types THEN {entry.object.content} ELSE {}
    [] entry.object.is = "message" -> TextOfMessage(entry.object.inside)

(* each_part, maybe_index_text_part: attachments and messages in any depth *)
Bug_EmbeddedText(root) ==
  UNION {PartText(e) : e \in {f \in Range(Parts(root, {})) :
           f.types \cap {"attachment", "message"} # {}}}

EmbeddedText(root) ==
  UNION {PartText(e) : e \in {f \in Range(Parts(root, {"recurse"})) :
           f.types \cap {"attachment", "message"} # {}}}

(* add_terms_values_body *)
BodyText(root) ==
  LET plain == Body(root, {}, "text_plain")
  IN  IF "encrypted" \in ContentFlags(root) THEN {}
      ELSE Range(IF plain # <<>> THEN plain ELSE Body(root, {}, "text_html"))
=============================================================================
