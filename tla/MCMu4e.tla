------------------------------- MODULE MCMu4e -------------------------------
(* Mu4e with one of two maildirs: a message and its copy, or a message     *)
(* with an attachment.                                                     *)
EXTENDS Mu4e

MCMsgids == [n \in Names |-> IF n = "draft" THEN "y" ELSE "x"]

(* "b" is a message with an attachment. *)
MCFlags == [n \in Names |-> IF n = "b" THEN {"a"} ELSE {}]

New(dir, name) == [dir |-> dir, name |-> name, sub |-> "new", flags |-> {}]
Cur(dir, name, flags) == [dir |-> dir, name |-> name, sub |-> "cur", flags |-> flags]

(* A message and its copy, or the one with the attachment *)
MCStores == {{New("inbox", "a"), Cur("archive", "a", {"S"})}, {Cur("inbox", "b", {})}}
MCDraft == Cur("archive", "draft", {"S"})
=============================================================================
