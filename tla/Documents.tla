----------------------------- MODULE Documents ------------------------------
(***************************************************************************)
(* What becomes of a message file: lib/mu-msg-file.cc and lib/mu-msg.cc    *)
(* read it, lib/mu-store.cc makes a document of it, lib/mu-msg-doc.cc      *)
(* reads that, lib/mu-msg-sexp.cc writes either for Emacs, and             *)
(* lib/mu-parser.cc looks for it.                                          *)
(*                                                                         *)
(* A text is a sequence of characters, empty if there is none.  The text   *)
(* of a list of addresses stays the list, since gmime parses what it has   *)
(* written.  Parts of messages are in Mime.                                *)
(***************************************************************************)
EXTENDS Ranges, FiniteSets, SequencesExt, Functions

CONSTANT
  MaxTermLength   \* Store::MaxTermLength (240)

VARIABLES
  file,           \* the file, or None when another program has removed it
  doc,            \* its document, or None
  shown,          \* what Emacs was told, by how it was
  asked, found    \* a range that was sought, and was the message found?

dvars == <<file, doc, shown, asked, found>>

None == [is |-> "none"]
----------------------------------------------------------------------------
(* Texts *)

Small == [A |-> "a", B |-> "b", D |-> "d", F |-> "f", P |-> "p", R |-> "r", S |-> "s",
          T |-> "t", N |-> "n"]
Lower(c)   == IF c \in DOMAIN Small THEN Small[c] ELSE c
IsBlank(c) == c \in {" ", "tab"}
InWord(c)  == c \notin {" ", "tab", ",", "@", ".", "-", "/", "<", ">"}

(* utf8_flatten *)
Flat(text) == [i \in DOMAIN text |-> Lower(text[i])]

(* mu_str_remove_ctrl_in_place, and remove_ctrl, after which there is one  *)
(* blank where there were more.                                            *)
Clean(text) == [i \in DOMAIN text |-> IF IsBlank(text[i]) THEN " " ELSE text[i]]
RemoveCtrl(text) ==
  LET Stays(i) == ~(i > 1 /\ IsBlank(text[i]) /\ IsBlank(text[i - 1]))
      kept     == SelectSeq([i \in DOMAIN text |-> i], Stays)
  IN  Clean([j \in DOMAIN kept |-> text[kept[j]]])

Split(text, Separates(_)) ==
  LET parts[n \in 0..Len(text)] ==
        CASE n = 0 -> << <<>> >>
          [] n > 0 /\ Separates(text[n]) -> Append(parts[n - 1], <<>>)
          [] OTHER -> [parts[n - 1] EXCEPT ![Len(parts[n - 1])] = Append(@, text[n])]
  IN  IF text = <<>> THEN <<>> ELSE parts[Len(text)]

Strip(text) ==
  LET solid == {i \in DOMAIN text : ~IsBlank(text[i])}
  IN  IF solid = {} THEN <<>> ELSE SubSeq(text, Min(solid), Max(solid))

(* mu_str_to_list and mu_str_from_list *)
ToList(text, separator) ==
  LET parts == Split(text, LAMBDA c : c = separator)
  IN  [i \in DOMAIN parts |-> Strip(parts[i])]
Bug_FromList(list) ==
  IF list = <<>> THEN <<>>
  ELSE FoldLeft(LAMBDA text, next : text \o <<" ">> \o next, Head(list), Tail(list))

FromList(list) ==
  IF list = <<>> THEN <<>>
  ELSE FoldLeft(LAMBDA text, next : text \o <<",">> \o next, Head(list), Tail(list))

(* What Xapian's TermGenerator takes for words *)
Words(text) ==
  SelectSeq(Split(text, LAMBDA c : ~InWord(c)), LAMBDA word : word # <<>>)
----------------------------------------------------------------------------
(* lib/mu-msg-fields.c: the fields that the sexp or a search may have.     *)

Field(type, flags) == [type |-> type, flags |-> flags]

FieldData ==
  [bcc     |-> Field("addresses", {"gmime", "contact", "value"}),
   cc      |-> Field("addresses", {"gmime", "contact", "value"}),
   date    |-> Field("number", {"gmime", "term", "value", "range"}),
   flag    |-> Field("number", {"gmime", "term", "value"}),
   from    |-> Field("addresses", {"gmime", "contact", "value"}),
   maildir |-> Field("string", {"gmime", "term", "value"}),
   list    |-> Field("string", {"gmime", "term", "value"}),
   msgid   |-> Field("string", {"gmime", "term", "value"}),
   path    |-> Field("string", {"gmime", "value"}),
   prio    |-> Field("number", {"gmime", "term", "value"}),
   refs    |-> Field("list", {"gmime", "value"}),
   size    |-> Field("number", {"gmime", "term", "value", "range"}),
   subject |-> Field("string", {"gmime", "index", "value", "term"}),
   tag     |-> Field("list", {"gmime", "term", "value"}),
   to      |-> Field("addresses", {"gmime", "contact", "value"})]

Fields == DOMAIN FieldData
Has(field, flag) == flag \in FieldData[field].flags
XapianIndex(field) == Has(field, "index") \/ Has(field, "contact")
OfType(type) == {field \in Fields : FieldData[field].type = type}

FlagInfo ==
  [draft |-> "D", flagged |-> "F", passed |-> "P", replied |-> "R", seen |-> "S",
   trashed |-> "T", new |-> "N", signed |-> "z", encrypted |-> "x", attach |-> "a",
   list |-> "l", unread |-> "u"]

PrioChar == [low |-> "l", normal |-> "n", high |-> "h"]
----------------------------------------------------------------------------
(* lib/mu-msg-file.cc.  An address has a name and an email; a group has    *)
(* only a name.                                                            *)

Recipients(f, type) ==
  [i \in DOMAIN f.addresses[type] |->
     [f.addresses[type][i] EXCEPT !.name = Clean(@), !.email = Clean(@)]]

Places(text, c) == {i \in DOMAIN text : text[i] = c}

(* get_fake_mailing_list_maybe: of feed2imap *)
FakeMailingList(f) ==
  IF f.feed /\ Places(f.msgid, "-") # {} THEN SubSeq(f.msgid, 1, Min(Places(f.msgid, "-")) - 1)
  ELSE <<>>

MailingList(f) ==
  LET b == Places(f.listid, "<")
      e == {i \in Places(f.listid, ">") : b # {} /\ i > Min(b)}
  IN  CASE f.listid = <<>> -> FakeMailingList(f)
        [] f.listid # <<>> /\ e # {} -> SubSeq(f.listid, Min(b) + 1, Min(e) - 1)
        [] OTHER -> f.listid

(* get_flags; those of the contents are in Mime. *)
FlagsOf(f) ==
  LET flags == f.flags \cup f.contents \cup (IF MailingList(f) # <<>> THEN {"list"} ELSE {})
  IN  flags \cup (IF "new" \in flags \/ "seen" \notin flags THEN {"unread"} ELSE {})

(* get_prio: of the first of three headers that is there *)
Prio(f) ==
  LET given == SelectSeq(f.prios, LAMBDA p : p # "")
  IN  CASE given = <<>> -> "normal"
        [] given # <<>> /\ Head(given) \in {"high", "1", "2"} -> "high"
        [] given # <<>> /\ Head(given) \in {"low", "list", "bulk", "4", "5"} -> "low"
        [] OTHER -> "normal"

References(f) ==
  FoldLeft(LAMBDA ids, id : IF id \in Range(ids) THEN ids ELSE Append(ids, id),
           <<>>, f.references \o f.inreplyto)

TagsOf(f) == ToList(f.xlabel, " ") \o ToList(f.xkeywords, ",") \o ToList(f.keywords, " ")

(* calculate_sha1: of the contents; get_msgid puts "@mu" behind it. *)
ShaId == <<"sha", "@", "mu">>

(* Has an id of MaxTermLength, though its term is longer. *)
Bug_MsgId(f) ==
  IF f.msgid # <<>> /\ Len(f.msgid) <= MaxTermLength THEN f.msgid ELSE ShaId

(* get_msgid: if need be, one is made of the contents. *)
MsgId(f) ==
  IF f.msgid # <<>> /\ Len(f.msgid) < MaxTermLength THEN f.msgid ELSE ShaId

FileField(f, field) ==
  CASE field \in OfType("addresses") -> Recipients(f, field)
    [] field = "flag"    -> FlagsOf(f)
    [] field = "prio"    -> Prio(f)
    [] field = "refs"    -> References(f)
    [] field = "tag"     -> TagsOf(f)
    [] field = "msgid"   -> MsgId(f)
    [] field = "list"    -> MailingList(f)
    [] field = "subject" -> Clean(f.subject)
    [] OTHER -> f[field]
----------------------------------------------------------------------------
(* lib/mu-store.cc: the document.  A term is a pair of a field and a text; *)
(* a word also has a place.                                                *)

(* add_term: the prefix is one more character. *)
Term(field, text) ==
  <<field, IF Len(text) < MaxTermLength THEN text ELSE SubSeq(text, 1, MaxTermLength - 1)>>

PlacedWords(field, text) ==
  LET words == Words(Flat(text)) IN {<<field, i, words[i]>> : i \in DOMAIN words}

(* fill_contact: a group has its name for an email; without, it is none. *)
Contacts(list) ==
  LET Fill(a) == [name |-> a.name, email |-> IF a.group THEN a.name ELSE a.email, group |-> a.group]
      Filled(a) == a.group => a.name # <<>>
      kept == SelectSeq(list, Filled)
  IN  [i \in DOMAIN kept |-> Fill(kept[i])]

(* add_address_subfields *)
Subfields(field, email) ==
  LET at == Min(Places(email, "@"))
  IN  IF Places(email, "@") = {} THEN {}
      ELSE {Term(field, SubSeq(email, 1, at - 1)), Term(field, SubSeq(email, at + 1, Len(email)))}

ContactTerms(field, c) ==
  IF c.email = <<>> THEN {} ELSE {Term(field, Flat(c.email))} \cup Subfields(field, c.email)

(* The text that is indexed besides the contacts *)
AddressText(a) == a.name \o <<" ", "<">> \o a.email \o <<">", ",">>
WholeText(list) == FoldLeft(LAMBDA text, a : text \o AddressText(a), <<>>, list)

(* add_terms_values_str *)
TextTerms(field, text) ==
  IF Has(field, "term") /\ text # <<>> THEN {Term(field, Flat(text))} ELSE {}

(* add_terms_values_string_list: terms for its elements *)
ListTerms(field, list) == UNION {TextTerms(field, x) : x \in Range(list)}

TermsOf(f, field) ==
  CASE field \in OfType("addresses") ->
         UNION {ContactTerms(field, c) : c \in Range(Contacts(f.addresses[field]))}
    [] field = "flag" -> {Term("flag", <<Lower(FlagInfo[x])>>) : x \in FlagsOf(f)}
    [] field = "prio" -> {Term("prio", <<PrioChar[Prio(f)]>>)}
    [] field \in OfType("list") -> ListTerms(field, FileField(f, field))
    [] field \in OfType("string") -> TextTerms(field, FileField(f, field))
    [] OTHER -> {}

PlacedIn(f, field) ==
  CASE field \in OfType("addresses") ->
         PlacedWords(field, WholeText(FileField(f, field)))
           \cup UNION {PlacedWords(field, c.name) : c \in Range(Contacts(f.addresses[field]))}
    [] Has(field, "index") -> PlacedWords(field, FileField(f, field))
    [] OTHER -> {}

(* The value of a field: a list is one text. *)
ValueOf(f, field) ==
  CASE field = "size" -> NumberText(f.size)
    [] field \in OfType("list") -> FromList(FileField(f, field))
    [] OTHER -> FileField(f, field)

(* new_doc_from_message and update_threading_info *)
Document(f) ==
  [values |-> [field \in {x \in Fields : Has(x, "value")} |-> ValueOf(f, field)],
   terms  |-> UNION {TermsOf(f, field) : field \in Fields},
   words  |-> UNION {PlacedIn(f, field) : field \in Fields},
   thread |-> IF References(f) = <<>> THEN MsgId(f) ELSE Head(References(f))]
----------------------------------------------------------------------------
(* A MuMsg has a document, a file, or both. *)

(* mu_msg_doc_get_str_list_field and so on *)
DocField(d, field) ==
  IF field \in OfType("list") THEN ToList(d.values[field], ",") ELSE d.values[field]

(* mu_msg_file_new, init_file_metadata and init_mime_msg: what is read of  *)
(* a file, if there is one; its maildir is what the caller says it is.     *)
FileNew(maildir) == IF file = None THEN None ELSE [file EXCEPT !.maildir = maildir]

(* mu_msg_load_msg_file: without a maildir *)
Load(msg) == IF msg.file # None THEN msg ELSE [msg EXCEPT !.file = FileNew(<<>>)]

(* get_str_list_field; get_str_field and get_num_field; and the functions  *)
(* by which the others get at fields.                                      *)
HasValue(msg, field) == msg.doc # None /\ Has(field, "value")
GetListField(msg, field) ==
  IF HasValue(msg, field) THEN DocField(msg.doc, field) ELSE FileField(msg.file, field)
GetStrField(msg, field) ==
  IF HasValue(msg, field) THEN msg.doc.values[field] ELSE FileField(msg.file, field)
Get(msg, field) ==
  IF field \in OfType("list") THEN GetListField(msg, field) ELSE GetStrField(msg, field)

AddressFields == {"from", "to", "cc", "bcc", "reply-to"}

(* mu_msg_contact_foreach: the file if it is there *)
ContactsOf(msg) ==
  [type \in AddressFields |->
     Contacts(IF msg.file # None THEN msg.file.addresses[type]
              ELSE IF type = "reply-to" THEN <<>> ELSE DocField(msg.doc, type))]

(* make_contact_sexp *)
ContactSexps(msg) ==
  LET Sexp(c) == <<RemoveCtrl(c.name), RemoveCtrl(c.email)>>
  IN  [type \in AddressFields |->
         [i \in DOMAIN ContactsOf(msg)[type] |-> Sexp(ContactsOf(msg)[type][i])]]

(* msg_to_sexp_list.  For the headers the contacts come first; then        *)
(* add_list_post() loads the file if it can.  For a view the file is       *)
(* loaded, or there are none.                                              *)
Sexp(msg, headersOnly) ==
  LET loaded == Load(msg)
      people == CASE headersOnly -> ContactSexps(msg)
                  [] ~headersOnly /\ loaded.file # None -> ContactSexps(loaded)
                  [] OTHER -> [type \in AddressFields |-> <<>>]
  IN  people @@ [field \in Fields \ OfType("addresses") |-> Get(msg, field)]
        @@ ("list-post" :> IF loaded.file = None THEN <<>> ELSE loaded.file.listpost)
----------------------------------------------------------------------------
(* lib/mu-parser.cc and lib/mu-xapian.cc: what the user looks for, in one  *)
(* field.  A name of a flag is a text of one character here, and that of a *)
(* priority one of two.                                                    *)

ProcessValue(field, text) ==
  CASE field = "prio" /\ text # <<>> -> <<Head(text)>>
    [] field = "flag" /\ Len(text) = 1 /\ text[1] \in DOMAIN FlagInfo -> <<Lower(FlagInfo[text[1]])>>
    [] OTHER -> text

HasTerm(d, field, text) ==
  \/ <<field, text>> \in d.terms
  \/ \E w \in d.words : w[1] = field /\ w[3] = text

(* make_query: perhaps with a wildcard *)
HasOne(d, field, text) ==
  IF Len(text) > 1 /\ text[Len(text)] = "*"
  THEN \E t \in d.terms \cup {<<w[1], w[3]>> : w \in d.words} :
         t[1] = field /\ IsPrefix(SubSeq(text, 1, Len(text) - 1), t[2])
  ELSE HasTerm(d, field, text)

(* xapian_query_value: words one after the other, when the field is indexed *)
Finds(d, field, text) ==
  LET value == ProcessValue(field, Flat(text))
      parts == Split(value, LAMBDA c : c = " ")
  IN  CASE ~XapianIndex(field) -> HasOne(d, field, value)
        [] XapianIndex(field) /\ Len(parts) = 1 -> HasOne(d, field, parts[1])
        [] OTHER -> \E place \in 0..Cardinality(d.words) :
                      \A i \in DOMAIN parts : <<field, place + i, parts[i]>> \in d.words

(* docids_for_msgid *)
FindsMsgId(d, msgid) == Len(msgid) <= MaxTermLength /\ Finds(d, "msgid", msgid)
----------------------------------------------------------------------------
Hows == {"headers", "view", "path", "update"}
NothingShown == [how \in Hows |-> None]

Given(f) ==
  /\ file = f /\ doc = None /\ shown = NothingShown
  /\ asked = None /\ found = FALSE

(* Store::add_message *)
Add ==
  /\ file # None /\ doc = None
  /\ doc' = Document(file)
  /\ UNCHANGED <<file, shown, asked, found>>

(* The sexp for the headers, made of the document *)
ShowHeaders ==
  /\ doc # None
  /\ shown' = [shown EXCEPT !["headers"] = Sexp([doc |-> doc, file |-> None], TRUE)]
  /\ UNCHANGED <<file, doc, asked, found>>

(* view_handler: by docid, or by path, and then without a maildir *)
ShowView ==
  /\ doc # None
  /\ shown' = [shown EXCEPT !["view"] = Sexp([doc |-> doc, file |-> None], FALSE)]
  /\ UNCHANGED <<file, doc, asked, found>>

ShowPath ==
  /\ file # None
  /\ shown' = [shown EXCEPT !["path"] =
                 Sexp([doc |-> None, file |-> FileNew(<<>>)], FALSE)]
  /\ UNCHANGED <<file, doc, asked, found>>

(* perform_move: mu_msg_move_to_maildir, Store::update_message, and the    *)
(* sexp of the new file, which Emacs takes for all it had                  *)
Move(maildir, flags) ==
  /\ file # None /\ doc # None
  /\ file' = [file EXCEPT !.maildir = maildir, !.flags = flags]
  /\ doc' = Document(file')
  /\ shown' = [NothingShown EXCEPT !["update"] = Sexp([doc |-> None, file |-> file'], FALSE)]
  /\ UNCHANGED <<asked, found>>

(* Another program removes the file. *)
Unlink ==
  /\ file # None /\ doc # None
  /\ file' = None
  /\ UNCHANGED <<doc, shown, asked, found>>

(* A query for a range *)
FindRange(field, lower, upper) ==
  /\ doc # None
  /\ asked' = [is |-> "range", field |-> field, lower |-> lower, upper |-> upper]
  /\ found' = InRange(field, lower, upper, doc.values[field])
  /\ UNCHANGED <<file, doc, shown>>

----------------------------------------------------------------------------
Sexps == {shown[how] : how \in Hows} \ {None}

(* What Emacs shows of a message can be searched for: its flags, priority, *)
(* maildir, list, message-id and tags; the addresses, and the names and    *)
(* the subject as far as there are blanks between the words.  Not so texts *)
(* that are longer than a term, and tags with commas.                      *)
Short(text) == text # <<>> /\ Len(text) < MaxTermLength
OfWords(text) == \A i \in DOMAIN text : InWord(text[i]) \/ text[i] = " "
Spoken(text) == Words(text) # <<>> /\ OfWords(text) /\ InWord(text[1]) /\ InWord(text[Len(text)])

PrioName == [low |-> <<"l", "ow">>, normal |-> <<"n", "ormal">>, high |-> <<"h", "igh">>]

ShownIsFound ==
  doc # None => \A s \in Sexps :
    /\ \A flag \in s.flag : Finds(doc, "flag", <<flag>>)
    /\ Finds(doc, "prio", PrioName[s.prio])
    /\ FindsMsgId(doc, s.msgid)
    /\ \A field \in {"maildir", "list"} : Short(s[field]) => Finds(doc, field, s[field])
    /\ file # None => \A tag \in Range(s.tag) :
         Short(tag) /\ (\A t \in Range(TagsOf(file)) : "," \notin Range(t)) => Finds(doc, "tag", tag)
    /\ Spoken(s.subject) => Finds(doc, "subject", RemoveCtrl(s.subject))
    /\ \A field \in OfType("addresses"), i \in 1..2 :
         \A c \in Range(s[field]) :
           \/ i = 1 /\ ~Spoken(c[1])
           \/ i = 2 /\ ~(Short(c[2]) /\ Range(c[2]) \cap {" "} = {})
           \/ Finds(doc, field, c[i])

(* Headers and views show the same, though they read a document, a file or *)
(* both.  Only a file has addresses to reply to, and a message of a path   *)
(* has no maildir; lists with commas in their elements, and numbers that   *)
(* are too long, are not what they were.                                   *)
Kept(field) ==
  CASE field \in OfType("list") -> \A x \in Range(FileField(file, field)) : "," \notin Range(x)
    [] field = "size" -> file.size < 10 ^ Width
    [] OTHER -> TRUE

SameFromBoth ==
  file # None =>
    \A h1, h2 \in {how \in Hows : shown[how] # None} :
      \A field \in DOMAIN shown[h1] \ {"reply-to"} :
        \/ shown[h1][field] = shown[h2][field]
        \/ field = "maildir" /\ "path" \in {h1, h2}
        \/ field \in Fields /\ ~Kept(field)

Today == [is |-> "special", word |-> "today"]

(* The number is between what the manual and what the code take a bound    *)
(* for: K is 1000 bytes by man/mu-query.7, and 1024 in size_to_string.     *)
UnitsDisagree(size, text) ==
  /\ text # <<>>
  /\ LET manual == text.number * MeantUnits[text.unit]
         code   == text.number * Units[text.unit]
     IN  manual # code /\ size \in manual..code

(* A range finds the messages that it means, unless one of its bounds is   *)
(* before 1970 or after 2286, or one of the numbers is too long, or the    *)
(* size is one of those that K and M decide, since the manual says 1000    *)
(* and the code has 1024; when the bounds are in the wrong order, it finds *)
(* what it would in the right one.  The end of today is the next midnight, *)
(* with its first second.                                                  *)
RangeIsMeant ==
  asked # None /\ file # None =>
    LET l == Parts(asked.field, asked.lower)
        u == Parts(asked.field, asked.upper)
        value   == IF asked.field = "date" THEN file.date ELSE <<file.size>>
        inOrder == ~Earlier(u, l)
        meant   == IF inOrder THEN IsMeant(value, l, u) ELSE IsMeant(value, u, l)
    IN  \/ /\ asked.field = "size"
           /\ \/ file.size >= 10 ^ Width
              \/ \E text \in {asked.lower, asked.upper} : UnitsDisagree(file.size, text)
        \/ (IF inOrder THEN asked.upper ELSE asked.lower) = Today /\ (meant => found)
        \/ found = meant
=============================================================================
