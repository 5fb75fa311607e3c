-------------------------------- MODULE Sexp --------------------------------
(***************************************************************************)
(* lib/utils/mu-sexp.cc: reads an s-expression from a text, and writes it. *)
(*                                                                         *)
(* A character is one of Letters or Digits, a minus, a colon, a blank, a   *)
(* parenthesis, a quote or a backslash; Others are not the start of any    *)
(* s-expression.                                                           *)
(***************************************************************************)
EXTENDS Naturals, Sequences, SequencesExt

CONSTANTS Letters, Digits, Others

Quote     == "\""
Backslash == "\\"
Zero      == "0"
Chars     == Letters \cup Digits \cup Others \cup {" ", "(", ")", ":", "-", Quote, Backslash}

Atom(type, value) == [type |-> type, value |-> value, items |-> <<>>]
List(items)       == [type |-> "list", value |-> <<>>, items |-> items]

CharAt(text, i) == IF i \in DOMAIN text THEN text[i] ELSE "end"

(* Where a run of characters of S from i ends. *)
RunEnd(text, i, S) ==
  CHOOSE j \in i..(Len(text) + 1) :
    CharAt(text, j) \notin S /\ \A k \in i..(j - 1) : text[k] \in S

SkipWhitespace(text, i) == RunEnd(text, i, {" "})

Error == [ok |-> FALSE]
Read(sexp, next) == [ok |-> TRUE, sexp |-> sexp, next |-> next]

(* A backslash that is escaped starts an escape itself. *)
Bug_StringStep(s, c) ==
  CASE s.closed -> s
    [] ~s.closed /\ s.escape /\ c = Quote ->
         [s EXCEPT !.value = Append(@, c), !.escape = FALSE, !.taken = @ + 1]
    [] ~s.closed /\ ~s.escape /\ c = Quote -> [s EXCEPT !.closed = TRUE, !.taken = @ + 1]
    [] ~s.closed /\ c = Backslash -> [s EXCEPT !.escape = TRUE, !.taken = @ + 1]
    [] OTHER -> [s EXCEPT !.value = Append(@, c), !.taken = @ + 1]

(* One character of a string.  Nothing but a quote or a backslash ends an  *)
(* escape.                                                                 *)
StringStep(s, c) ==
  CASE s.closed -> s
    [] ~s.closed /\ s.escape /\ c \in {Quote, Backslash} ->
         [s EXCEPT !.value = Append(@, c), !.escape = FALSE, !.taken = @ + 1]
    [] ~s.closed /\ ~s.escape /\ c = Quote -> [s EXCEPT !.closed = TRUE, !.taken = @ + 1]
    [] ~s.closed /\ ~s.escape /\ c = Backslash -> [s EXCEPT !.escape = TRUE, !.taken = @ + 1]
    [] OTHER -> [s EXCEPT !.value = Append(@, c), !.taken = @ + 1]

ParseString(text, i) ==
  LET s == FoldLeft(StringStep, [value |-> <<>>, escape |-> FALSE, closed |-> FALSE, taken |-> 0],
                    SubSeq(text, i + 1, Len(text)))
  IN  IF s.closed THEN Read(Atom("string", s.value), i + 1 + s.taken) ELSE Error

(* atoi, and the number as it is written: no zeros in front, and no -0 *)
Number(minus, digits) ==
  LET significant == SubSeq(digits, RunEnd(digits, 1, {Zero}), Len(digits))
  IN  CASE significant = <<>> -> <<Zero>>
        [] significant # <<>> /\ minus  -> <<"-">> \o significant
        [] significant # <<>> /\ ~minus -> significant

ParseInteger(text, i) ==
  LET minus == text[i] = "-"
      first == IF minus THEN i + 1 ELSE i
      end   == RunEnd(text, first, Digits)
  IN  Read(Atom("number", Number(minus, SubSeq(text, first, end - 1))), end)

ParseSymbol(text, i) ==
  LET end == RunEnd(text, i + 1, Letters \cup Digits \cup {"-"})
  IN  Read(Atom("symbol", SubSeq(text, i, end - 1)), end)

(* parse, and the loop of parse_list: it looks for the end of the list     *)
(* without skipping blanks, which only go with what is in front of them.   *)
Parse(text) ==
  LET p[what \in {"sexp", "items"}, i \in 1..(Len(text) + 1)] ==
        IF what = "sexp"
        THEN LET start == SkipWhitespace(text, i)
                 c     == CharAt(text, start)
                 x     == CASE c = "(" ->
                                 LET l == p["items", start + 1]
                                 IN  IF l.ok /\ CharAt(text, l.next) = ")"
                                     THEN Read(List(l.items), l.next + 1) ELSE Error
                            [] c = Quote -> ParseString(text, start)
                            [] c \in Digits \cup {"-"} -> ParseInteger(text, start)
                            [] c \in Letters \cup {":"} -> ParseSymbol(text, start)
                            [] OTHER -> Error
             IN  IF x.ok THEN [x EXCEPT !.next = SkipWhitespace(text, @)] ELSE Error
        ELSE IF CharAt(text, i) \in {")", "end"}
             THEN [ok |-> TRUE, items |-> <<>>, next |-> i]
             ELSE LET x == p["sexp", i]
                      l == p["items", x.next]
                  IN  IF x.ok /\ l.ok
                      THEN [ok |-> TRUE, items |-> <<x.sexp>> \o l.items, next |-> l.next]
                      ELSE Error
  IN  p["sexp", 1]

(* make_parse: nothing may be left over. *)
MakeParse(text) ==
  LET x == Parse(text)
  IN  IF x.ok /\ x.next = Len(text) + 1 THEN x ELSE Error

(* quote *)
Quoted(value) ==
  <<Quote>> \o FlattenSeq([i \in DOMAIN value |->
     IF value[i] \in {Quote, Backslash} THEN <<Backslash, value[i]>> ELSE <<value[i]>>])
  \o <<Quote>>

(* to_sexp_string; what Emacs prints with %S looks the same *)
RECURSIVE Printed(_)
Printed(sexp) ==
  CASE sexp.type = "list" ->
         LET parts == [i \in DOMAIN sexp.items |->
                         (IF i = 1 THEN <<>> ELSE <<" ">>) \o Printed(sexp.items[i])]
         IN  <<"(">> \o FlattenSeq(parts) \o <<")">>
    [] sexp.type = "string" -> Quoted(sexp.value)
    [] OTHER -> sexp.value
----------------------------------------------------------------------------
(* Properties of a text *)

(* Whatever the text, as the value of a string it is read again as it was  *)
(* written, alone and in a list; and what can be read from it at all is    *)
(* the same when it is written and read again (make_parse,                 *)
(* to_sexp_string).                                                        *)
ReadAsWritten(text) ==
  LET string == Atom("string", text)
      x      == MakeParse(text)
      Same(sexp) == MakeParse(Printed(sexp)) = Read(sexp, Len(Printed(sexp)) + 1)
  IN  /\ Same(string)
      /\ Same(List(<<string, string>>))
      /\ x.ok => Same(x.sexp)
=============================================================================
