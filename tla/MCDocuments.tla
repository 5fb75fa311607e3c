---------------------------- MODULE MCDocuments -----------------------------
(* Message files that differ from a plain one in a few fields *)
EXTENDS Documents, TLC

Address(name, email) == [name |-> name, email |-> email, group |-> FALSE]
Group(name) == [name |-> name, email |-> <<>>, group |-> TRUE]
NoAddresses == [type \in AddressFields |-> <<>>]
ab == <<"a", "@", "b">>

Plain ==
  [path |-> <<"/", "m">>, maildir |-> <<"/", "A">>, flags |-> {"seen"}, contents |-> {},
   addresses |-> [NoAddresses EXCEPT !["from"] = <<Address(<<"A", " ", "b">>, ab)>>,
                                     !["to"] = <<Address(<<>>, ab)>>],
   subject |-> <<"A", "tab", "b">>, msgid |-> <<"a", "-", "B">>, listid |-> <<>>, feed |-> FALSE,
   references |-> <<>>, inreplyto |-> <<>>, xlabel |-> <<>>, xkeywords |-> <<>>, keywords |-> <<>>,
   prios |-> <<"", "", "">>, listpost |-> <<>>, date |-> <<2000, 2, 29, 12, 0, 0>>, size |-> 7]

With(field, values) == {[Plain EXCEPT ![field] = v] : v \in values}
Long(n) == [i \in 1..n |-> "A"]

MCFiles ==
  With("flags", SUBSET {"seen", "new", "replied"}) \cup
  With("contents", {{"signed", "attach"}, {"encrypted"}}) \cup
  With("addresses",
    {[Plain.addresses EXCEPT ![type] = list] :
       type \in AddressFields,
       list \in {<<Group(<<"b", "A">>), Address(<<"a">>, ab), Address(<<"a", "tab", "tab", "A">>, <<"A">>)>>,
                 <<Group(<<>>), Address(<<"b">>, <<>>), Address(<<"b", ".", "a">>, ab)>>}}) \cup
  With("subject", {<<>>, <<"a", "-", "b">>, <<"A", "-", "b", " ", "a">>, <<"B", " ", " ", "a">>}) \cup
  With("msgid", {<<>>, Long(MaxTermLength - 1), Long(MaxTermLength), Long(MaxTermLength + 1)}) \cup
  {[f EXCEPT !.feed = TRUE] : f \in With("msgid", {<<"A", "-", "b">>, <<"b">>, <<>>})} \cup
  With("listid", {<<"a", "<", "B", ">">>, <<"A", "b">>, <<">", "<", "b">>, Long(MaxTermLength)}) \cup
  {[f EXCEPT !.inreplyto = r] : f \in With("references", {<<<<"A">>, <<"b">>>>, <<<<"a", ",">>>>, <<>>}),
                                r \in {<<>>, <<<<"A">>>>, <<<<"B">>>>}} \cup
  {[f EXCEPT !.xlabel = l] :
     f \in With("xkeywords", {<<>>, <<"B", " ", "a", ",", "b">>}) \cup With("keywords", {<<"a", ",", "b">>}),
     l \in {<<>>, <<"A", " ", "b">>}} \cup
  With("prios", {<<"bulk", "1", "">>, <<"", "2", "low">>, <<"", "", "low">>, <<"fm-user", "1", "">>}) \cup
  With("listpost", {ab}) \cup
  With("size", {0, 8, 9, 10, 65, 90, 999, 1000, 12345}) \cup
  With("maildir", {<<"/">>, Long(MaxTermLength)}) \cup
  With("date", {<<1970, 1, 1, 0, 0, 0>>, <<1999, 12, 31, 23, 59, 59>>, <<2000, 1, 1, 0, 0, 0>>,
                <<2000, 2, 1, 0, 0, 0>>, <<2000, 3, 1, 0, 0, 0>>, <<2000, 2, 29, 23, 59, 59>>,
                <<2100, 2, 28, 23, 59, 59>>, <<2100, 3, 1, 0, 0, 0>>, <<2000, 2, 28, 23, 59, 59>>})

MovesAsked == {<<<<"/", "b">>, {"seen", "trashed"}>>, <<<<"/", "A">>, {}>>}

Date(parts) == [is |-> "date", parts |-> parts]
Special(word) == [is |-> "special", word |-> word]
Ago(number, then) == [is |-> "ago", number |-> number, then |-> then]
Dates ==
  {Date(p) : p \in {<<>>, <<2000>>, <<1999>>, <<2000, 2>>, <<2100, 2>>, <<2000, 2, 29>>,
                    <<2000, 2, 29, 12>>, <<2000, 3, 1, 0, 1>>, <<2000, 2, 29, 23, 59, 59>>, <<2285>>,
                    <<2000, 13>>, <<2000, 2, 29, 24>>}}
  \cup {Special("now"), Special("today"), Ago(9999, <<1999, 12, 31, 23, 59, 59>>)}
Sizes == {<<>>} \cup {[number |-> n, unit |-> u] : n \in {0, 1, 7, 8}, u \in {"b", "k"}}
         \cup {[number |-> 1, unit |-> "m"]}
RangesAsked == [date |-> Dates \X Dates, size |-> Sizes \X Sizes]
Init == \E f \in MCFiles : Given(f)

(* A range is asked for before anything is shown. *)
Ask ==
  /\ shown = NothingShown /\ file # None
  /\ file \in With("date", {file.date}) \cup With("size", {file.size})
  /\ \E field \in DOMAIN RangesAsked : \E r \in RangesAsked[field] : FindRange(field, r[1], r[2])
Next ==
  /\ asked = None
  /\ \/ Add \/ ShowHeaders \/ ShowView \/ ShowPath \/ Unlink
     \/ \E m \in MovesAsked : Move(m[1], m[2])
     \/ Ask
DSpec == Init /\ [][Next]_dvars
=============================================================================
