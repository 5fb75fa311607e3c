------------------------------ MODULE Scripts -------------------------------
(***************************************************************************)
(* lib/mu-script.cc, and what mu/mu-cmd-script.cc makes of it: the scripts *)
(* that come with mu, and those of the user.                               *)
(*                                                                         *)
(* A file has a name, its place among the others when they are sorted,     *)
(* whether its extension is that of scripts, its lines, whether it can be  *)
(* read, and which of its name and first description the regular           *)
(* expression that the user gave matches.                                  *)
(***************************************************************************)
EXTENDS Naturals, Sequences, SequencesExt

CONSTANTS
  SystemFiles,  \* the files of MU_SCRIPTS_DIR
  UserFiles     \* those of the user's directory, none if there is none

(* get_descriptions: of the lines that begin with the prefix, the first,   *)
(* and the others together                                                 *)
Descriptions(f) ==
  LET info == SelectSeq(f.lines, LAMBDA l : l = "info")
  IN  IF f.readable /\ info # <<>> THEN [oneline |-> TRUE, descr |-> Tail(info)]
      ELSE [oneline |-> FALSE, descr |-> <<>>]

ScriptInfo(f) ==
  [name |-> f.name, readable |-> f.readable, matched |-> f.matched,
   oneline |-> Descriptions(f).oneline, descr |-> Descriptions(f).descr]

(* mu_script_get_script_info_list: by name *)
ScriptInfoList(files) ==
  LET sorted == SetToSortSeq({f \in files : f.extension}, LAMBDA f, g : f.place < g.place)
  IN  [i \in DOMAIN sorted |-> ScriptInfo(sorted[i])]

(* get_script_info_list *)
ScriptList == ScriptInfoList(SystemFiles) \o ScriptInfoList(UserFiles)

(* mu_script_info_matches_regex *)
MatchesRegex(s) == "name" \in s.matched \/ (s.oneline /\ "oneline" \in s.matched)

(* mu_script_find_script_with_name: that of mu, if the user has one too *)
FindScriptWithName(name) == SelectInSeq(ScriptList, LAMBDA s : s.name = name)
=============================================================================
