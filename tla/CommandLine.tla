---------------------------- MODULE CommandLine -----------------------------
(***************************************************************************)
(* mu/mu.cc, mu/mu-config.cc, mu/mu-cmd*.cc: what mu does with a command   *)
(* line, up to its exit code.                                              *)
(*                                                                         *)
(* A command line has a word, parameters, a format and a set of options.   *)
(* What a query finds, or a signature is worth, is chosen; and while the   *)
(* command runs, files go away, and reading and writing may fail.          *)
(***************************************************************************)
EXTENDS Scripts, FiniteSets

CONSTANTS
  Files,      \* parameters that may be the names of message files
  Outside,    \* those that are not in the maildir
  Older,      \* those of messages that are older than --after
  Parts,      \* the leaf parts of the message in each file
  Signed,     \* and what gpg makes of its signed parts: "good", "bad" or,
              \* when it makes nothing of them, "none"
  Contacts,   \* in the order of their ranks
  MaxNick,    \* nicknames are numbered below it (1000)
  Guile       \* is mu built with guile?

VARIABLES
  line,       \* the word, parameters, format and options, and what is wrong with them
  disk,       \* for each file, "message", or "bad": missing or not to be read
  docs,       \* the files that have a document in the store
  open,       \* can the store be opened: "yes", "to read", or "no"
  saved,      \* in the target directory, the number of the part under each name,
              \* or 0 for a file that was not written to the end
  dirs,       \* directories that were made, in the directories that are named
  links,      \* the messages that the target directory of find has links to
  phase,      \* "start", "each" or "done"
  asked,      \* what is to be done, one after the other
  left,       \* what is left of it
  checked,    \* has the next file passed the check?
  out,        \* what was done and shown
  err, code   \* the error, and the exit code

world == <<disk, docs, open, saved, dirs, links>>
vars  == <<line, world, phase, asked, left, checked, out, err, code>>

(* enum _MuError; a GError may also have a code of glib. *)
MU_OK == 0
MU_ERROR == 1
IN_PARAMETERS == 2
NO_MATCHES == 4
SCRIPT_NOT_FOUND == 8
STORE_FAILED == 21
CANNOT_LINK == 72
ERROR_FILE == 70
CANNOT_OPEN == 73
CANNOT_READ == 74
CANNOT_MKDIR == 77
CANNOT_WRITE == 82

Error(c) == [of |-> "mu", code |-> c]
Glib(c)  == [of |-> "glib", code |-> c]
NoError  == [of |-> "none", code |-> MU_OK]

FileCommands == {"add", "remove", "tickle"}
Commands == FileCommands \cup {"cfind", "extract", "find", "help", "index", "info", "init",
                               "mkdir", "script", "server", "verify", "view"}

(* cmd_from_string: another word may be that of a script *)
CommandOf(word) ==
  IF word \in Commands THEN word
  ELSE IF word = "none" THEN "none"
  ELSE IF Guile THEN "script" ELSE "unknown"

command == CommandOf(line.word)
Option(o) == o \in line.opts
Param(i) == i \in DOMAIN line.params
Wrong(what) == what \in line.wrong
FirstIsMessage == Param(1) /\ disk[line.params[1]] = "message"
----------------------------------------------------------------------------
(* Each command refuses a command line for the first of its reasons.       *)

Unless(ok, e, c) == [refused |-> ~ok, err |-> e, code |-> c]
(* Fails with an error of its own; or throws, and mu_cmd_execute catches.  *)
Needs(ok, c) == Unless(ok, Error(c), c)
(* Store::Store: it is there, and of the schema that is expected *)
StoreOpens(ways) == open \in ways
Opens(ways) == Unless(StoreOpens(ways), Error(MU_ERROR), MU_ERROR)
Reads  == {"yes", "to read"}
Writes == {"yes"}

(* config_options_group_mu and the others; script knows all options. *)
General == {"debug", "quiet", "version", "muhome", "log-stderr", "nocolor", "verbose"}
Crypto == {"auto-retrieve", "use-agent", "decrypt"}
FindOptions ==
  {"fields", "sortfield", "maxnum", "threads", "bookmark", "reverse", "skip-dups",
   "include-related", "linksdir", "clearlinks", "summary-len", "exec", "after"}
CfindOptions   == {"personal", "after"}
MkdirOptions   == {"mode"}
ViewOptions    == {"summary-len", "terminate"} \cup Crypto
ExtractOptions ==
  {"save-attachments", "save-all", "parts", "target-dir", "overwrite", "play"} \cup Crypto
ServerOptions  == {"commands", "eval"}
InitOptions    == {"maildir", "my-address", "max-message-size", "batch-size"}
IndexOptions   == {"maildir", "my-address", "lazy-check", "nocleanup"}

(* get_option_group *)
OptionsOf ==
  General \cup
  CASE command = "find"    -> FindOptions
    [] command = "cfind"   -> CfindOptions
    [] command = "mkdir"   -> MkdirOptions
    [] command = "view"    -> ViewOptions
    [] command = "verify"  -> Crypto
    [] command = "extract" -> ExtractOptions
    [] command = "server"  -> ServerOptions
    [] command = "init"    -> InitOptions
    [] command = "index"   -> IndexOptions
    [] OTHER -> {}

ParseCmd ==
  <<Unless(command # "unknown" /\ (command = "script" => Guile),
           Error(IN_PARAMETERS), IN_PARAMETERS)>>

ParseParams ==
  <<Unless(line.opts \subseteq OptionsOf \/ command = "script", Glib(0), 0),
    Unless(~Wrong("value"), Glib(1), 1)>>

(* mu_runtime_init: a directory of mu's own cannot be made, which it does  *)
(* not call an error.                                                      *)
RuntimeInit == Unless(~Wrong("home"), NoError, MU_ERROR)

(* mu_config_init, and main before it executes a command *)
ConfigInit == ParseCmd \o ParseParams
ParseReasons ==
  ConfigInit \o
  <<Unless(~Option("version"), NoError, MU_OK),
    Unless(command # "none", NoError, MU_OK), RuntimeInit>>

FindFormats == {"plain", "sexp", "json", "links", "xml", "xquery", "mquery"}
CfindFormats == {"plain", "mutt-alias", "mutt-ab", "wl", "bbdb", "csv", "org-contact", "debug"}
Format == IF command = "find" /\ Option("exec") THEN "exec" ELSE line.format

FormatParamsValid ==
  <<Needs(Format \in FindFormats \cup {"exec"}, IN_PARAMETERS),
    Needs(Format = "links" => Option("linksdir"), IN_PARAMETERS),
    Needs(Option("linksdir") => Format = "links", IN_PARAMETERS)>>

(* Throws for an empty store. *)
GetQueryObj == Needs(docs # {}, MU_ERROR)

BookmarksNew == Needs(~Wrong("bookmarks"), CANNOT_OPEN)
BookmarksLookup == Needs(~Wrong("bookmark"), NO_MATCHES)
ResolveBookmark == <<BookmarksNew, BookmarksLookup>>
GetQuery == IF Option("bookmark") THEN ResolveBookmark ELSE <<>>

PrintsQuery == Format \in {"xquery", "mquery"}
SortField == Needs(Option("sortfield") => ~Wrong("sortfield"), IN_PARAMETERS)
RunQuery == IF PrintsQuery THEN <<>> ELSE <<SortField>>

FindReasons ==
  <<Opens(Reads), Needs(Param(1), IN_PARAMETERS)>> \o FormatParamsValid
    \o <<GetQueryObj>> \o GetQuery \o RunQuery

(* What mu extract is to do *)
Mode ==
  CASE Option("parts") -> "parts"
    [] ~Option("parts") /\ Param(2) -> "pattern"
    [] ~Option("parts") /\ ~Param(2) /\ (Option("save-attachments") \/ Option("save-all"))
         -> "certain"
    [] OTHER -> "show"

ExtractReasons ==
  <<Needs(Param(1), IN_PARAMETERS),
    Needs(Option("save-attachments") \/ Option("save-all")
            => ~Option("parts") /\ Len(line.params) # 2, IN_PARAMETERS),
    Needs(~(Option("save-attachments") /\ Option("save-all")), IN_PARAMETERS),
    Unless(Mode # "show" => ~Wrong("target"), Error(CANNOT_WRITE), MU_ERROR),
    Unless(FirstIsMessage, Error(ERROR_FILE), MU_ERROR),
    Unless(Mode = "pattern" => ~Wrong("regex"), Error(MU_ERROR), MU_ERROR)>>

(* mu_cmd_cfind throws, whatever run_cmd_cfind returns. *)
CfindReasons ==
  <<Opens(Reads), Needs(Format \in CfindFormats /\ ~Param(2), MU_ERROR),
    Unless(Param(1) => ~Wrong("regex"), Error(MU_ERROR), MU_ERROR)>>

(* A regular expression for scripts is looked at for the first of them. *)
ListsScripts == line.word = "script"
ScriptReasons ==
  <<Unless(~Wrong("scripts"), Error(CANNOT_OPEN), MU_ERROR),
    IF ListsScripts
    THEN Unless(Param(1) /\ Wrong("regex") => ScriptList = <<>>, Glib(0), MU_ERROR)
    ELSE Unless(FindScriptWithName(line.word) # 0, Error(SCRIPT_NOT_FOUND), MU_ERROR)>>

InitReasons ==
  <<Needs(~Wrong("maildir"), IN_PARAMETERS), Needs(~Wrong("size"), IN_PARAMETERS),
    Opens({"yes", "no"})>>

Reasons ==
  CASE command = "view" ->
         <<Needs(Param(1), IN_PARAMETERS), Needs(Format \in {"plain", "sexp"}, IN_PARAMETERS)>>
    [] command = "mkdir" -> <<Needs(Param(1), IN_PARAMETERS)>>
    [] command = "verify" ->
         <<Needs(Param(1), IN_PARAMETERS), Unless(FirstIsMessage, Error(ERROR_FILE), MU_ERROR)>>
    [] command = "extract" -> ExtractReasons
    [] command \in FileCommands -> <<Opens(Writes), Needs(Param(1), IN_PARAMETERS)>>
    [] command = "find" -> FindReasons
    [] command = "cfind" -> CfindReasons
    [] command = "info" -> <<Opens(Reads)>>
    [] command = "index" ->
         <<Opens(Writes), Unless(~Param(1), Error(IN_PARAMETERS), MU_ERROR),
           Unless(~Wrong("maildir"), Error(ERROR_FILE), MU_ERROR)>>
    [] command = "init" -> InitReasons
    [] command = "script" -> ScriptReasons
    [] command = "server" -> <<Unless(open = "yes", NoError, MU_OK)>>
    [] command = "help" -> <<>>

Numbers(n) == [i \in 1..n |-> i]

(* each_contact: --personal leaves out the personal ones. *)
Wanted(c) ==
  /\ Option("personal") => ~c.personal
  /\ Option("after") => c.recent
  /\ Param(1) => c.matches

(* mu_msg_find_files: the last comes first. *)
FindFiles == {SetToSortSeq(s, >) : s \in SUBSET (1..Len(Parts[line.params[1]]))}

(* cmd_help: what it is about *)
HelpOn ==
  IF ~Param(1) \/ CommandOf(line.params[1]) = "unknown" THEN "help"
  ELSE CommandOf(line.params[1])

(* What a command does one after the other.  A list of numbers, or a       *)
(* pattern, may stand for any of the parts, and a query for any documents. *)
Works ==
  CASE command \in FileCommands \cup {"view", "mkdir"} -> {line.params}
    [] command = "verify" -> {Signed[line.params[1]]}
    [] command = "cfind" -> {SelectSeq(Contacts, Wanted)}
    [] command = "find" /\ PrintsQuery -> {<<"query">>}
    [] command = "find" /\ ~PrintsQuery ->
         UNION {SetToSeqs(s) : s \in SUBSET docs}
    [] command = "extract" /\ Mode \in {"certain", "show"} -> {Numbers(Len(Parts[line.params[1]]))}
    [] command = "extract" /\ Mode = "parts" ->
         UNION {[1..n -> 1..(Len(Parts[line.params[1]]) + 1)] : n \in 0..2}
    [] command = "extract" /\ Mode = "pattern" -> FindFiles
    [] command = "script" /\ ListsScripts ->
         {SelectSeq(ScriptList, LAMBDA s : Param(1) => MatchesRegex(s))}
    [] command = "script" /\ ~ListsScripts -> {<<ScriptList[FindScriptWithName(line.word)]>>}
    [] command = "help" -> {<<HelpOn>>}
    [] OTHER -> {<<command>>}

FirstRefusal(reasons) == SelectInSeq(reasons, LAMBDA r : r.refused)

(* handle_error: what main writes of an error.  Its code alone decides, be *)
(* it of mu or of glib; and there is no help on what could not be parsed.  *)
Parsed == FirstRefusal(ConfigInit) = 0
HandleError(e) ==
  IF e = NoError THEN <<>>
  ELSE <<<<"error">>>> \o
       CASE e.code = IN_PARAMETERS /\ Parsed -> <<<<"help", command>>>>
         [] e.code = SCRIPT_NOT_FOUND -> <<<<"see mu script">>>>
         [] OTHER -> <<>>

Ends(e, c) ==
  /\ phase' = "done" /\ err' = e /\ code' = c
  /\ left' = <<>> /\ out' = HandleError(e) /\ UNCHANGED asked

(* FirstOutput and LastOutput: the brackets of a list; but exec_cmd, which *)
(* does not tell them from a message, runs its command for "(null)".       *)
Around(which) ==
  IF command = "find" /\ Format \in {"json", "xml", "exec"} THEN <<<<which>>>> ELSE <<>>

(* print_header: of cfind *)
Header ==
  IF command = "cfind" /\ Format \in {"bbdb", "mutt-ab"} THEN <<<<"header">>>> ELSE <<>>

(* create_maildir: what is there is left alone, and the first that cannot  *)
(* be made, or not be written to, ends it.                                 *)
Subdirs == <<"new", "cur", "tmp">>
CreateMaildir(path, n) == dirs \cup {<<path, Subdirs[i]>> : i \in 1..n}
CreateNoindex(path) == CreateMaildir(path, 3) \cup {<<path, ".noindex">>}

MaildirMkdir(path, noindex, ok) ==
  \/ ~ok /\ \E n \in 0..2 : dirs' = CreateMaildir(path, n)
  \/ ok = ~noindex /\ dirs' = CreateMaildir(path, 3)
  \/ ok /\ noindex /\ dirs' = CreateNoindex(path)

(* clear_links: goes on after those that cannot be removed, with a warning *)
ClearLinks(ok) ==
  /\ links' \in SUBSET links
  /\ ok <=> links' = {}

(* prepare_links, of which nobody looks at the result *)
PrepareLinks ==
  \/ /\ MaildirMkdir("links", TRUE, FALSE) /\ UNCHANGED links
     /\ out' = <<<<"not prepared">>>>
  \/ /\ MaildirMkdir("links", TRUE, TRUE)
     /\ IF Option("clearlinks")
        THEN \E ok \in BOOLEAN :
               ClearLinks(ok) /\ out' = IF ok THEN <<>> ELSE <<<<"not prepared">>>>
        ELSE UNCHANGED links /\ out' = <<>>

(* mu_config_init, main, mu_cmd_execute *)
Start ==
  LET all == ParseReasons \o IF command \in Commands THEN Reasons ELSE <<>>
      i   == FirstRefusal(all)
      Refused(e, c) == Ends(e, c) /\ UNCHANGED <<dirs, links>>
  IN  /\ phase = "start"
      /\ IF i # 0 THEN Refused(all[i].err, all[i].code)
         ELSE \E work \in Works :
                IF command = "find" /\ work = <<>> THEN Refused(Error(NO_MATCHES), NO_MATCHES)
                ELSE /\ phase' = "each" /\ asked' = work /\ left' = work
                     /\ IF command = "find" /\ Format = "links" THEN PrepareLinks
                        ELSE out' = Around("first") \o Header /\ UNCHANGED <<dirs, links>>
                     /\ UNCHANGED <<err, code>>
      /\ UNCHANGED <<line, disk, docs, saved, open, checked>>
----------------------------------------------------------------------------
(* One after the other *)

Turn(commands) == phase = "each" /\ left # <<>> /\ command \in commands
Item == Head(left)
Shown(f) == <<"item", f>>

Goes(o)  == out' = out \o o /\ left' = Tail(left) /\ UNCHANGED err
Skips(e) == err' = e /\ left' = Tail(left) /\ UNCHANGED out
Stops(e) == err' = e /\ left' = <<>> /\ UNCHANGED out
Keeps    == UNCHANGED <<line, phase, asked, code>>

(* Of what is shown of a message, only the text depends on the options.    *)
BodyOrSummary(f) == <<IF Option("summary-len") THEN "summary" ELSE "body", f>>
ViewMsgPlain(f) == <<Shown(f), BodyOrSummary(f)>>
ViewMsgSexp(f)  == <<Shown(f)>>
HandleMsg(f) == IF Format = "plain" THEN ViewMsgPlain(f) ELSE ViewMsgSexp(f)

Terminator == IF Option("terminate") THEN <<<<"\f">>>> ELSE <<>>

(* cmd_view *)
View ==
  /\ Turn({"view"})
  /\ IF disk[Item] = "message" THEN Goes(HandleMsg(Item) \o Terminator)
     ELSE Stops(Error(ERROR_FILE))
  /\ Keeps /\ UNCHANGED <<world, checked>>

(* cmd_mkdir *)
Mkdir ==
  /\ Turn({"mkdir"})
  /\ \E ok \in BOOLEAN :
       /\ MaildirMkdir(Item, FALSE, ok)
       /\ IF ok THEN Goes(<<>>) ELSE Stops(Error(CANNOT_MKDIR))
  /\ Keeps /\ UNCHANGED <<disk, docs, open, saved, links, checked>>

(* check_file_okay, also for a file that is to be removed from the store *)
CheckFile ==
  /\ Turn(FileCommands) /\ ~checked
  /\ IF disk[Item] = "message" THEN checked' = TRUE /\ UNCHANGED <<out, left, err>>
     ELSE Skips(Error(STORE_FAILED)) /\ UNCHANGED checked
  /\ Keeps /\ UNCHANGED world

(* maildir_from_path: the file is in cur or new of a maildir of the store *)
HasMaildir(f) == f \notin Outside

(* add_path_func: when add_message throws, the other files are left out. *)
AddPath ==
  /\ Turn({"add"}) /\ checked
  /\ checked' = FALSE
  /\ \/ /\ disk[Item] = "message" /\ HasMaildir(Item)
        /\ docs' = docs \cup {Item} /\ Goes(<<Shown(Item)>>)
     \/ Stops(Error(MU_ERROR)) /\ UNCHANGED docs
  /\ Keeps /\ UNCHANGED <<disk, open, saved, dirs, links>>

(* remove_path_func: it does not matter what remove_message returns. *)
RemovePath ==
  /\ Turn({"remove"}) /\ checked
  /\ checked' = FALSE
  /\ \/ docs' = docs \ {Item} /\ Goes(<<Shown(Item)>>)
     \/ Goes(<<<<"not removed", Item>>>>) /\ UNCHANGED docs
  /\ Keeps /\ UNCHANGED <<disk, open, saved, dirs, links>>

(* tickle_func: the file gets another name, which the store does not know. *)
Tickle ==
  /\ Turn({"tickle"}) /\ checked
  /\ checked' = FALSE
  /\ \/ disk[Item] = "message" /\ Goes(<<Shown(Item)>>) /\ disk' = [disk EXCEPT ![Item] = "bad"]
     \/ Skips(Error(STORE_FAILED)) /\ UNCHANGED disk
  /\ Keeps /\ UNCHANGED <<docs, open, saved, dirs, links>>

(* each_sig: a signed part without a report does not count. *)
Verify ==
  /\ Turn({"verify"})
  /\ Goes(IF Item = "none" THEN <<>> ELSE <<Shown(Item)>>)
  /\ Keeps /\ UNCHANGED <<world, checked>>

Bug_Verdict == IF out = <<>> THEN "unsigned" ELSE Last(out)[2]

Verdict == FoldLeft(LAMBDA v, o : IF v = "bad" THEN v ELSE o[2], "unsigned", out)

PrintVerdict ==
  IF command = "verify" /\ ~Option("quiet") THEN <<<<"verdict", Verdict>>>> ELSE <<>>

(* mu_util_create_writeable_fd: O_EXCL, or O_TRUNC *)
CreateWriteableFd(name) == name \notin DOMAIN saved \/ Option("overwrite")

(* write_part_to_fd and write_object_to_fd: on failure the file stays. *)
WriteToFd(part, i, ok) == saved' = (part.name :> IF ok THEN i ELSE 0) @@ saved

(* A player that is not there, or not started *)
Play == Option("play") /\ Stops(Error(MU_ERROR))

(* save_part: the path, the file, what is in it, and the player *)
PartsHere == Parts[line.params[1]]
SavePart(i) ==
  IF i \notin DOMAIN PartsHere \/ ~CreateWriteableFd(PartsHere[i].name)
  THEN Stops(Error(MU_ERROR)) /\ UNCHANGED saved
  ELSE \/ WriteToFd(PartsHere[i], i, TRUE) /\ (Goes(<<Shown(i)>>) \/ Play)
       \/ WriteToFd(PartsHere[i], i, FALSE) /\ Stops(Error(MU_ERROR))

IgnorePart(i) == ~Option("save-all") /\ ~PartsHere[i].attachment

SavePartIf ==
  /\ Mode = "certain"
  /\ IF IgnorePart(Item) THEN Goes(<<>>) /\ UNCHANGED saved ELSE SavePart(Item)

SaveNumberedPart == Mode = "parts" /\ SavePart(Item)
SavePartWithFilename == Mode = "pattern" /\ SavePart(Item)

Extract ==
  /\ Turn({"extract"}) /\ (SavePartIf \/ SaveNumberedPart \/ SavePartWithFilename)
  /\ Keeps /\ UNCHANGED <<disk, docs, open, dirs, links, checked>>

(* A message that is in cur/ gets a link in cur/, with a name of its own;  *)
(* one that is there is in the way.                                        *)
MaildirLink(f) ==
  /\ f \notin links /\ <<"links", "cur">> \in dirs
  /\ links' = links \cup {f}
OutputLink ==
  \/ MaildirLink(Item) /\ Goes(<<Shown(Item)>>)
  \/ Stops(Error(CANNOT_LINK)) /\ UNCHANGED links

ExecCmd == Goes(<<Shown(Item)>>) \/ \E c \in {0, 8} : Stops(Glib(c))

OutputJson == Goes(<<Shown(Item)>> \o IF Len(left) = 1 THEN <<>> ELSE <<<<",">>>>)

(* The fields that were asked for, and a summary of the text *)
OutputPlainFields(f) == <<Shown(f)>>
PrintSummary(f) == IF Option("summary-len") THEN <<<<"summary", f>>>> ELSE <<>>
OutputPlain == Goes(OutputPlainFields(Item) \o PrintSummary(Item))

OutputSexp == Goes(<<Shown(Item)>>)
OutputXml  == Goes(<<Shown(Item)>>)

(* get_output_func *)
Output ==
  CASE Format = "links" -> OutputLink
    [] Format = "exec"  -> ExecCmd /\ UNCHANGED links
    [] Format = "plain" -> OutputPlain /\ UNCHANGED links
    [] Format = "xml"   -> OutputXml /\ UNCHANGED links
    [] Format = "sexp"  -> OutputSexp /\ UNCHANGED links
    [] Format = "json"  -> OutputJson /\ UNCHANGED links

(* run_query has printed the query, and nothing is left. *)
PrintQuery == PrintsQuery /\ Goes(<<Shown(Item)>>) /\ UNCHANGED links

(* output_query_results: a document may be gone, or not be shown. *)
Find ==
  /\ Turn({"find"})
  /\ \/ PrintQuery
     \/ ~PrintsQuery /\ Goes(<<>>) /\ UNCHANGED links
     \/ ~PrintsQuery /\ (Option("after") => Item \notin Older) /\ Output
  /\ Keeps /\ UNCHANGED <<disk, docs, open, saved, dirs, checked>>

(* guess_first_name, guess_last_name: a name is a sequence of words. *)
FirstName(name) == FlattenSeq(IF Len(name) > 1 THEN Front(name) ELSE name)
LastName(name)  == IF Len(name) > 1 THEN Last(name) ELSE <<>>

(* cleanup_str: no punctuation *)
Cleanup(word) == SelectSeq(word, LAMBDA c : c # ".")

(* guess_nick: the first name and the initial of the last *)
Guess(name) ==
  LET first == FirstName(name)
      last  == LastName(name)
  IN  Cleanup(IF first = <<>> \/ last = <<>> THEN first ELSE Append(first, Head(last)))

(* guess_nick, uniquify_nick *)
Nicks == {o[3] : o \in {a \in Range(out) : a[1] = "alias"}}
Bug_Nick(c) ==
  LET nick == Guess(c.name) IN IF nick \notin Nicks THEN nick ELSE Append(nick, ToString(2))

Nick(c) ==
  LET nick == Guess(c.name)
      free == {u \in 2..(MaxNick - 1) : Append(nick, ToString(u)) \notin Nicks}
  IN  IF nick \notin Nicks \/ free = {} THEN nick
      ELSE Append(nick, ToString(CHOOSE u \in free : \A v \in free : u <= v))

(* each_contact: most formats have no place for one without a name. *)
Cfind ==
  /\ Turn({"cfind"})
  /\ Goes(IF Format \in {"mutt-alias", "wl", "org-contact"} /\ Item.name = <<>> THEN <<>>
          ELSE IF Format \in {"mutt-alias", "wl"} THEN <<<<"alias", Item.email, Nick(Item)>>>>
          ELSE <<Shown(Item.email)>>)
  /\ Keeps /\ UNCHANGED <<world, checked>>

(* mu_cmd_index: its work is that of Indexer, and a signal may end it. *)
Index ==
  /\ Turn({"index"})
  /\ \/ docs' = {f \in Files : HasMaildir(f) /\ disk[f] = "message"} /\ Goes(<<Shown(Item)>>)
     \/ Goes(<<>>) /\ UNCHANGED docs
  /\ Keeps /\ UNCHANGED <<disk, open, saved, dirs, links, checked>>

(* What is in the store's metadata *)
CmdInfo == <<<<"info">>>>

(* cmd_init: the addresses are only looked at when the old store is gone. *)
Initialize ==
  /\ Turn({"init"})
  /\ docs' = {}
  /\ IF Wrong("address") THEN Stops(Error(MU_ERROR))
     ELSE Goes(<<Shown(Item)>> \o IF Option("quiet") THEN <<>> ELSE CmdInfo)
  /\ Keeps /\ UNCHANGED <<disk, open, saved, dirs, links, checked>>

(* show_parts, each_part_show *)
ShowParts ==
  /\ Turn({"extract"}) /\ Mode = "show"
  /\ Goes(<<Shown(Item)>>)
  /\ Keeps /\ UNCHANGED <<world, checked>>

(* print_scripts *)
PrintScript ==
  /\ Turn({"script"}) /\ ListsScripts
  /\ Goes(<<Shown(Item)>>)
  /\ Keeps /\ UNCHANGED <<world, checked>>

(* mu_script_guile_run: mu becomes the guile that runs the script.         *)
GuileRun ==
  /\ Turn({"script"}) /\ ~ListsScripts
  /\ IF Item.readable
     THEN /\ phase' = "done" /\ code' \in {MU_OK, MU_ERROR}
          /\ out' = <<Shown(Item)>> /\ left' = <<>> /\ UNCHANGED <<line, asked, err>>
     ELSE Stops(Error(CANNOT_READ)) /\ Keeps
  /\ UNCHANGED <<world, checked>>

(* Those that do one thing *)
Once ==
  /\ Turn({"info", "server", "help"})
  /\ Goes(IF command = "info" THEN CmdInfo ELSE <<Shown(Item)>>)
  /\ Keeps /\ UNCHANGED <<world, checked>>

Each ==
  \/ View \/ Mkdir \/ CheckFile \/ AddPath \/ RemovePath \/ Tickle \/ Verify
  \/ Extract \/ ShowParts \/ Find \/ Cfind \/ Index \/ Initialize
  \/ PrintScript \/ GuileRun \/ Once

(* cmd_verify, mu_cmd_cfind, which throws, save_certain_parts,             *)
(* mu_cmd_script, and MU_G_ERROR_CODE                                      *)
ExitCode ==
  CASE command = "verify" -> IF Verdict = "good" THEN MU_OK ELSE MU_ERROR
    [] command = "cfind" /\ asked = <<>> -> MU_ERROR
    [] command = "extract" /\ Mode \in {"certain", "pattern"} /\ out = <<>> -> MU_ERROR
    [] command = "script" -> IF err = NoError THEN MU_OK ELSE MU_ERROR
    [] OTHER -> err.code

Finish ==
  /\ phase = "each" /\ left = <<>>
  /\ phase' = "done" /\ code' = ExitCode
  /\ out' = out \o Around("last") \o PrintVerdict \o HandleError(err)
  /\ UNCHANGED <<line, world, asked, left, checked, err>>

(* Another program takes a file away. *)
Lose(f) ==
  /\ phase = "each" /\ disk[f] = "message"
  /\ disk' = [disk EXCEPT ![f] = "bad"]
  /\ UNCHANGED <<line, docs, open, saved, dirs, links, phase, asked, left, checked, out, err, code>>

(* mu is started with a command line, whatever the files and the store are. *)
Given(l, d, s, o, there, made, linked) ==
  /\ line = l /\ phase = "start"
  /\ disk = d /\ docs = s /\ open = o /\ saved = there /\ dirs = made /\ links = linked
  /\ asked = <<>> /\ left = <<>> /\ checked = FALSE
  /\ out = <<>> /\ err = NoError /\ code = MU_OK

Runs == Start \/ Each \/ Finish \/ \E f \in Files : Lose(f)
----------------------------------------------------------------------------
(* Properties *)

Done(x) == Shown(x) \in Range(out)
AllDone == \A i \in DOMAIN asked : Done(asked[i])
NamesOnce == \A i, j \in Range(asked) : PartsHere[i].name = PartsHere[j].name => i = j

(* What the user may take for granted when mu ends with exit code 0        *)
Fulfilled ==
  CASE command \in {"view", "tickle", "script"} -> AllDone
    [] command = "extract" /\ Mode = "show" -> AllDone
    [] command = "mkdir" -> Range(asked) \X Range(Subdirs) \subseteq dirs
    [] command = "add" -> Range(asked) \subseteq docs
    [] command = "remove" ->
         \A f \in Range(asked) : f \in docs => <<"not removed", f>> \in Range(out)
    [] command = "verify" ->
         /\ "good" \in Range(asked)
         /\ "bad" \notin Range(asked)
    [] command = "extract" /\ Mode # "show" ->
         /\ \A i \in Range(asked) :
              \/ i \in DOMAIN PartsHere /\ PartsHere[i].name \in DOMAIN saved
              \/ Mode = "certain" /\ ~Option("save-all") /\ ~PartsHere[i].attachment
         /\ NamesOnce => \A i \in Range(asked) : Done(i) => saved[PartsHere[i].name] = i
         /\ Mode = "parts" \/ \E i \in Range(asked) : Done(i)
    [] command = "find" /\ Format = "links" ->
         LET wanted == {f \in Range(asked) : Done(f)}
         IN  /\ asked # <<>> /\ wanted \subseteq links
             /\ Option("clearlinks") /\ <<"not prepared">> \notin Range(out) => links = wanted
    [] command = "find" /\ Format # "links" -> asked # <<>>
    [] command = "cfind" -> asked # <<>>
    [] command = "init" -> docs = {}
    [] OTHER -> TRUE

(* When mu ends with exit code 0 it did what it was asked for, to every    *)
(* file and part, though others went well after one that did not           *)
(* (foreach_msg_file(), each_sig(), save_part_if()).  Not so for the codes *)
(* of glib, of which some are 0; what remove_message() could not remove,   *)
(* and that prepare_links() failed, is not told, and --overwrite puts      *)
(* parts of one name over each other.                                      *)
ExitTells ==
  phase = "done" /\ code = MU_OK /\ err.of # "glib" /\ ~Option("version") => Fulfilled

(* No nickname is given twice, though one that was made unique may be that *)
(* of another contact (uniquify_nick()), unless too many want it.          *)
Named(name) ==
  {i \in DOMAIN Contacts :
     LET nick == Guess(Contacts[i].name) IN nick # <<>> /\ Head(nick) = name}
NicksOnce ==
  \A i, j \in DOMAIN out :
    i # j /\ out[i][1] = "alias" /\ out[j][1] = "alias" /\ out[i][3] = out[j][3]
      => Cardinality(Named(Head(out[i][3]))) >= MaxNick

(* The messages of a JSON list have commas between them: output_json()     *)
(* leaves out the last, unless that is of a message that is not shown.     *)
IsItem(o) == o[1] = "item"
CommasBetween ==
  phase = "done" /\ command = "find" /\ Format = "json" /\ asked # <<>> /\ Done(Last(asked))
    => \A i \in 2..(Len(out) - 1) : (out[i] = <<",">>) = (IsItem(out[i - 1]) /\ IsItem(out[i + 1]))

OutputReadable == NicksOnce /\ CommasBetween
=============================================================================
