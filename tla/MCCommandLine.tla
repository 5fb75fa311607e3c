--------------------------- MODULE MCCommandLine ----------------------------
(* The command lines that a user writes, about files f and g.              *)
EXTENDS CommandLine

Words == Commands \cup {s.name : s \in SystemFiles \cup UserFiles} \cup {"none", "nonsense"}
ParamsFor(word) ==
  CASE word \in {"add", "remove", "tickle", "view", "mkdir"} -> SeqOf(Files, 2)
    [] word \in {"extract", "verify", "cfind"} -> SeqOf(Files, IF word = "verify" THEN 1 ELSE 2)
    [] word \in {"find", "index", "script"} -> SeqOf({"f"}, 1)
    [] word = "help" -> {<<>>, <<"find">>, <<"f">>}
    [] OTHER -> {<<>>}
FormatsFor(word) ==
  CASE word = "find" -> FindFormats \cup {"csv"}
    [] word = "cfind" -> CfindFormats \cup {"json"}
    [] word = "view" -> {"plain", "sexp", "json"}
    [] OTHER -> {"plain"}
OptionsFor(word) ==
  CASE word = "find"    -> {"exec", "linksdir", "clearlinks", "after", "bookmark", "sortfield",
                         "summary-len"}
    [] word = "cfind"   -> {"personal", "after"}
    [] word = "extract" -> {"save-attachments", "save-all", "parts", "overwrite", "play"}
    [] word = "view"    -> {"terminate", "summary-len"}
    [] word \in {"verify", "init"} -> {"quiet", "parts"}
    [] OTHER -> {"parts"}
Wrongs(word) ==
  CASE word = "find"    -> {"bookmarks", "bookmark", "sortfield"}
    [] word = "cfind"   -> {"regex"}
    [] word = "extract" -> {"target", "regex"}
    [] word = "index"   -> {"maildir"}
    [] word = "init"    -> {"maildir", "size", "address"}
    [] word = "script"  -> {"scripts", "regex"}
    [] OTHER -> {}
OptionSets(word) ==
  {s \in SUBSET OptionsFor(word) : Cardinality(s) <= 2} \cup {{"version"}}
WrongSets(word) == {{}} \cup {{w} : w \in Wrongs(word) \cup {"value", "home"}}

(* The world as far as the command looks at it *)
Intact == [f \in Files |-> "message"]
DisksFor(word) ==
  IF word \in FileCommands \cup {"view", "verify", "extract"}
  THEN {Intact, [Intact EXCEPT !["f"] = "bad"], [Intact EXCEPT !["g"] = "bad"]} ELSE {Intact}
DocsFor(word) == IF word \in {"find", "remove", "init"} THEN SUBSET Files ELSE {{"f"}}
WaysFor(word) ==
  IF word \in FileCommands \cup {"cfind", "find", "info", "index", "init", "server"}
  THEN {"yes", "to read", "no"} ELSE {"yes"}
(* The directory for links may be there, with links of an earlier search.  *)
Prepared == {<<"links", d>> : d \in {"new", "cur", "tmp", ".noindex"}}
LinkedFor(format) ==
  IF format = "links" THEN {<<{}, {}>>} \cup {<<Prepared, l>> : l \in SUBSET {"f", "old"}}
  ELSE {<<{}, {}>>}

Init ==
  \E word \in Words :
  \E params \in ParamsFor(word), format \in FormatsFor(word), opts \in OptionSets(word) :
  \E wrong \in WrongSets(word) :
  \E d \in DisksFor(word), s \in DocsFor(word), o \in WaysFor(word), l \in LinkedFor(format) :
    Given([word |-> word, params |-> params, format |-> format, opts |-> opts,
           wrong |-> wrong], d, s, o, <<>>, l[1], l[2])
=============================================================================
