------------------------------ MODULE Maildir ------------------------------
(***************************************************************************)
(* lib/mu-maildir.cc, lib/mu-flags.cc: what the name of a message file     *)
(* says of the message, and the name that a message gets when it is moved  *)
(* or its flags change.                                                    *)
(*                                                                         *)
(* A base name stands for the contents too: base names are unique, so two  *)
(* files have one in common only when they are copies of a message.  The   *)
(* letters of a file name that are no flags are left out, and so are       *)
(* changes of flags with such letters in them.                             *)
(***************************************************************************)
EXTENDS Naturals

CONSTANTS
  Maildirs,       \* such as "/inbox"
  Names,          \* base names, up to the flags separator
  FileFlags,      \* the letters of flags that a file name may have
  ContentFlags,   \* for every name: the flags that follow from the contents
  MsgidOf         \* for every name: the message-id

ASSUME MaildirAssumption ==
  /\ "S" \in FileFlags /\ "N" \notin FileFlags /\ "u" \notin FileFlags
  /\ \A n \in Names : ContentFlags[n] \cap (FileFlags \cup {"N", "S", "u"}) = {}

(* <dir>/new/<name>, or <dir>/cur/<name>:2,<flags> *)
Paths == {p \in [dir : Maildirs, name : Names, sub : {"new", "cur"},
                 flags : SUBSET FileFlags] : p.sub = "new" => p.flags = {}}

(* A change of flags such as "+S-u-N", with no letter twice *)
Delta(plus, minus) == [plus |-> plus, minus |-> minus]

(* mu_flags_from_str_delta *)
FromDelta(delta, old) == (old \cup delta.plus) \ delta.minus

(* mu_maildir_get_flags_from_path *)
FlagsFromPath(p) == IF p.sub = "new" THEN {"N"} ELSE p.flags

(* get_flags() of a message file: new, or not seen, means unread too. *)
MessageFlags(p) ==
  LET flags == FlagsFromPath(p) \cup ContentFlags[p.name]
  IN  IF "N" \in flags \/ "S" \notin flags THEN flags \cup {"u"} ELSE flags

(* mu_maildir_get_new_path, the base name kept: in new/ there are no other *)
(* flags than being new.                                                   *)
NewPath(p, dir, flags) ==
  IF "N" \in flags
  THEN [p EXCEPT !.dir = dir, !.sub = "new", !.flags = {}]
  ELSE [p EXCEPT !.dir = dir, !.sub = "cur", !.flags = flags \cap FileFlags]

IsRead(p) == "u" \notin MessageFlags(p)
=============================================================================
