---------------------------- MODULE MCLanguages -----------------------------
(* The user writes the tokens of a query, a text, a call of the server, or *)
(* a command line; or mu4e makes a call.                                   *)
EXTENDS Parser, SequencesExt, TLC

CONSTANTS MaxTokens, MaxText, MaxParams

VARIABLES
  text, call, sender,
  line, disk, docs, open, saved, dirs, links, phase, asked, left, checked, out, err, code

L == {"a", "and"}
T == INSTANCE Tokenizer WITH Letters <- L \cup {"0", "1", "-"}
S == INSTANCE Sexp WITH Letters <- L, Digits <- {"0", "1"}, Others <- {}
C == INSTANCE Commands

LineFiles == {"f", "g"}
LineParts == [f \in LineFiles |->
  IF f = "f" THEN <<[name |-> "x", attachment |-> TRUE], [name |-> "y", attachment |-> FALSE]>>
  ELSE <<[name |-> "x", attachment |-> TRUE], [name |-> "x", attachment |-> TRUE]>>]
LineSigned == [f \in LineFiles |-> IF f = "f" THEN <<"bad", "none", "good">> ELSE <<"good", "none">>]

Contact(email, name, personal, recent, matches) ==
  [email |-> email, name |-> name, personal |-> personal, recent |-> recent, matches |-> matches]
LineContacts ==
  <<Contact("1", <<<<"a", ".">>>>, FALSE, TRUE, TRUE), Contact("2", <<>>, FALSE, TRUE, FALSE),
    Contact("3", <<<<"a">>>>, TRUE, TRUE, TRUE), Contact("4", <<<<"a">>, <<"2">>>>, FALSE, FALSE, TRUE),
    Contact("5", <<<<"a">>>>, FALSE, TRUE, TRUE),
    Contact("6", <<<<"b">>, <<"a">>, <<"c", "d">>>>, FALSE, TRUE, FALSE)>>

(* The user has a script of the same name as one of mu, and one without    *)
(* a description that cannot be read.                                      *)
Script(name, place, lines, matched) ==
  [name |-> name, place |-> place, extension |-> TRUE, lines |-> lines, readable |-> TRUE,
   matched |-> matched]
LineSystem ==
  {Script("s", 2, <<"info", "code", "info">>, {}), Script("r", 1, <<"info">>, {"oneline"}),
   [Script("readme", 3, <<>>, {}) EXCEPT !.extension = FALSE]}
LineUser ==
  {Script("s", 1, <<"code">>, {"name"}),
   [Script("t", 2, <<"info">>, {"oneline"}) EXCEPT !.readable = FALSE]}

CL == INSTANCE MCCommandLine
        WITH Files <- LineFiles, Outside <- {"g"}, Older <- {"g"}, Parts <- LineParts,
             Signed <- LineSigned, Contacts <- LineContacts,
             SystemFiles <- LineSystem, UserFiles <- LineUser, MaxNick <- 5, Guile <- TRUE

written == <<query, result, meaning, text, call, sender>>
program == <<line, disk, docs, open, saved, dirs, links, phase, asked, left, checked, out, err, code>>
vars == <<written, program>>

Message(terms, date) == [terms |-> terms, date |-> date]
MCMessages == {Message({<<"subject", "x">>}, 1), Message({<<"subject", "y">>, <<"to", "x">>}, 3),
               Message({<<"cc", "y">>, <<"body", "and">>}, 5), Message({<<"body", "foo:x">>}, 8)}

Text(t) == [is |-> "text", text |-> t, whole |-> t]
Op(type) == [type |-> type, field |-> "", sought |-> Text(type)]
D(field, sought) == [type |-> "data", field |-> field, sought |-> sought]
RegexOf(matching, valid) ==
  [is |-> "regex", text |-> "/", whole |-> "/", matching |-> matching, valid |-> valid]
Period(a, b) == [first |-> a, last |-> b]
RangeOf(l, u) == [is |-> "range", text |-> "..", whole |-> "..", lower |-> l, upper |-> u]

MCTokens ==
  {Op(t) : t \in Types \ {"data"}} \cup {D("", Text("x")), D("", RegexOf({"z"}, TRUE))}

Others ==
  {D("recip", Text("y")), D("date", RangeOf(Period(5, 6), Period(2, 3))),
   D("foo", [Text("x") EXCEPT !.whole = "foo:x"]), D("subject", RegexOf({"x", "y"}, TRUE)),
   D("subject", RegexOf({}, FALSE)), D("subject", RangeOf(Period(1, 1), Period(2, 2))),
   D("date", RangeOf(Period(1, 3), Period(3, 8)))}

AllTokens == MCTokens \cup Others

(* Either there is a command line, or the rest is written while there is   *)
(* none.                                                                   *)
NoLine == [word |-> "unwritten", params |-> <<>>, format |-> "plain", opts |-> {}, wrong |-> {}]
MCInit ==
  /\ Init /\ C!Init /\ text = <<>>
  /\ CL!Init \/ CL!Given(NoLine, [f \in LineFiles |-> "message"], {}, "yes", <<>>, {}, {})

(* The other values come first, and the last token is one with which a     *)
(* query may end, so that there are not too many queries.                  *)
TokensAt(i) ==
  CASE i = 1             -> AllTokens
    [] i \in 2..(MaxTokens - 1) -> MCTokens
    [] OTHER             -> {t \in MCTokens : t.type \in {"data", "close"}}

WriteToken ==
  /\ text = <<>> /\ sender = C!None /\ line = NoLine /\ Len(query) < MaxTokens
  /\ \E t \in TokensAt(Len(query) + 1) : Write(t)
  /\ UNCHANGED <<text, call, sender, program>>

(* A text has what matters to the tokenizer, or what matters in an         *)
(* s-expression, in which a colon may stand where a letter may.            *)
WriteText ==
  /\ query = <<>> /\ sender = C!None /\ line = NoLine /\ Len(text) < MaxText
  /\ \E c \in T!Chars \cup S!Chars :
       /\ text' = Append(text, c)
       /\ \/ Range(text') \cap {"0", "1", "-", ":"} = {}
          \/ Range(text') \cap {"and", ":"} = {}
  /\ UNCHANGED <<query, result, meaning, call, sender, program>>

(* By hand, first the parameters that the call must have, with any values; *)
(* then, while they are not refused, one more, or as many as MaxParams.    *)
MustHave(name) == Cardinality(C!RequiredOf(name))
Bound(name) == IF MustHave(name) < MaxParams THEN MaxParams ELSE MustHave(name) + 1

CallsByHand(name) ==
  LET keys == SetToSeq(C!RequiredOf(name))
  IN  {[i \in DOMAIN keys |-> <<keys[i], v[i]>>] : v \in [DOMAIN keys -> C!Values]} \cup {<<>>}

WriteCall ==
  /\ query = <<>> /\ text = <<>> /\ line = NoLine
  /\ \/ C!Mu4eCalls
     \/ \E name \in C!Names : \E params \in CallsByHand(name) : C!UserCalls(name, params)
     \/ C!UserCalls("unknown", <<>>)
     \/ /\ call.name \in C!Names /\ C!Invoke(call) # "wrong type"
        /\ MustHave(call.name) <= Len(call.params) /\ Len(call.params) < Bound(call.name)
        /\ \E key \in C!KeysOf(call.name) \cup {":unknown", ":noupdate"}, value \in C!Values :
             C!UserAdds(key, value)
  /\ UNCHANGED <<query, result, meaning, text, program>>

RunLine == line # NoLine /\ CL!Runs /\ UNCHANGED written

MCNext == WriteToken \/ WriteText \/ WriteCall \/ RunLine
MCSpec == MCInit /\ [][MCNext]_vars

CutAsWritten == text # <<>> => T!CutAsWritten(text)
ReadAsWritten == text # <<>> => S!ReadAsWritten(text)
CallsTaken == C!CallsTaken
ExitTells == CL!ExitTells
OutputReadable == CL!OutputReadable
=============================================================================
