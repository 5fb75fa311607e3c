----------------------------- MODULE Tokenizer ------------------------------
(***************************************************************************)
(* lib/mu-tokenizer.cc: cuts the text of a query into tokens.              *)
(*                                                                         *)
(* A character is one of Letters, which stand for any text without the     *)
(* characters that matter here (so "and" is one of them), or a blank, a    *)
(* parenthesis, a quote or a backslash.                                    *)
(***************************************************************************)
EXTENDS Naturals, Sequences, SequencesExt

CONSTANT Letters

Operators == {"and", "or", "xor", "not"}
Blank     == " "
Quote     == "\""
Backslash == "\\"
Chars     == Letters \cup {Blank, "(", ")", Quote, Backslash}

IsSeparator(c) == c \in {Blank, "(", ")"}

Token(type, text) == [type |-> type, text |-> text]
Data(text)  == Token("data", text)
Paren(c)    == Token(IF c = "(" THEN "open" ELSE "close", <<c>>)

(* op_or_value: an operator is a word of its own, which was not quoted *)
OpOrValue(text) ==
  IF Len(text) = 1 /\ text[1] \in Operators THEN Token(text[1], text) ELSE Data(text)

(* Between tokens, value is empty and begun is false. *)
Between(tokens) ==
  [tokens |-> tokens, value |-> <<>>, quoted |-> FALSE, escaped |-> FALSE, begun |-> FALSE]

(* eat_token: takes a character off the food. *)
AtBackslash(s) ==
  IF s.escaped THEN [s EXCEPT !.value = Append(@, Backslash), !.escaped = FALSE]
  ELSE [s EXCEPT !.escaped = TRUE, !.begun = TRUE]

(* A quote after a backslash does not end the value, and is not in it. *)
AtQuote(s) ==
  IF s.quoted /\ ~s.escaped THEN Between(Append(s.tokens, Data(s.value)))
  ELSE [s EXCEPT !.quoted = TRUE, !.begun = TRUE]

(* unread_char: a separator ends a value, and is then seen again. *)
AtSeparator(s, c) ==
  LET ended == IF s.value # <<>> THEN Between(Append(s.tokens, OpOrValue(s.value))) ELSE s
  IN  IF c = Blank THEN ended ELSE Between(Append(ended.tokens, Paren(c)))

Other(s, c) == [s EXCEPT !.value = Append(@, c), !.escaped = FALSE, !.begun = TRUE]

(* Blanks and parentheses separate inside quotes too. *)
Bug_Separates(s, c) == ~s.escaped /\ IsSeparator(c)

Separates(s, c) == ~s.quoted /\ ~s.escaped /\ IsSeparator(c)

Eat(s, c) ==
  CASE c = Backslash -> AtBackslash(s)
    [] c = Quote     -> AtQuote(s)
    [] Separates(s, c) -> AtSeparator(s, c)
    [] OTHER -> Other(s, c)

(* utf8_clean, of which the trimming matters here *)
IsText(c) == c # Blank
Trim(text) ==
  IF \A i \in DOMAIN text : text[i] = Blank THEN <<>>
  ELSE SubSeq(text, SelectInSeq(text, IsText), SelectLastInSeq(text, IsText))

(* What has begun when the text ends is data, also when it is an operator. *)
Tokenize(text) ==
  LET s == FoldLeft(Eat, Between(<<>>), Trim(text))
  IN  IF s.begun THEN Append(s.tokens, Data(s.value)) ELSE s.tokens
----------------------------------------------------------------------------
(* Properties of a text *)

Kept(text) == SelectSeq(text, LAMBDA c : c \in Letters \cup {"(", ")"})
Texts(tokens) == FlattenSeq([i \in DOMAIN tokens |-> tokens[i].text])

(* Nothing but blanks, quotes and backslashes is lost, whatever is quoted, *)
(* escaped or left open; and a text in quotes is one value: what is in it  *)
(* is no operator, does not group, and is not cut at blanks.               *)
CutAsWritten(text) ==
  /\ Kept(Texts(Tokenize(text))) = Kept(text)
  /\ Quote \notin Range(text) /\ Backslash \notin Range(text)
       => Tokenize(<<Quote>> \o text \o <<Quote>>) = <<Data(text)>>
=============================================================================
