------------------------------- MODULE Parser -------------------------------
(***************************************************************************)
(* lib/mu-parser.cc and lib/mu-xapian.cc: the tokens of a query are parsed *)
(* by recursive descent, and the tree is made a Xapian query.  A tree is   *)
(* represented by the messages that its query finds, and whether it is     *)
(* empty().                                                                *)
(*                                                                         *)
(* A message has terms, pairs of a field and a text, and a date.  A token  *)
(* has a type, and as a value (which any token may be taken for) a field   *)
(* and what is sought: a text, a regular expression with the texts that    *)
(* match it, or a range between periods.  Wildcards, phrases, aliases of   *)
(* priorities and flags, and single letters for fields are left out.       *)
(***************************************************************************)
EXTENDS Naturals, Sequences, FiniteSets

CONSTANTS
  Messages,     \* records with terms and date
  Tokens        \* records with type, field and sought

VARIABLES
  query,        \* the tokens the user has written
  result,       \* what they are parsed as
  meaning       \* not in the code: what they mean by the grammar

Types == {"data", "and", "or", "xor", "not", "open", "close"}
Fields == {"to", "cc", "bcc", "from", "subject", "body", "date"}

ASSUME ParserAssumption ==
  /\ \A m \in Messages : m.terms \subseteq Fields \X {t[2] : t \in m.terms} /\ m.date \in Nat
  /\ \A t \in Tokens : t.type \in Types

Recipients == {"to", "cc", "bcc"}
Default    == Recipients \cup {"from", "subject", "body"}
IsRangeField(fields) == fields = {"date"}

(* process_field *)
FieldsOf(field) ==
  CASE field = "recip"   -> Recipients
    [] field = "contact" -> Recipients \cup {"from"}
    [] field = ""        -> Default
    [] OTHER             -> {field} \cap Fields

(* Parser::Private::value, and the query made of it *)
Value(fields, text) == {m \in Messages : \E f \in fields : <<f, text>> \in m.terms}

(* Parser::Private::regex: one value for each term of the store *)
Regex(fields, matching) ==
  {m \in Messages : \E f \in fields, t \in matching : <<f, t>> \in m.terms}

(* process_range, and the exchange in range *)
Bounds(lower, upper) ==
  IF lower.first <= upper.last THEN <<lower.first, upper.last>>
  ELSE <<upper.first, lower.last>>

Between(bounds) == {m \in Messages : bounds[1] <= m.date /\ m.date <= bounds[2]}

(* data: what the token finds, whether the tree is empty, and whether      *)
(* there is a warning                                                      *)
Sought(token) ==
  LET fields == FieldsOf(token.field)
      v      == token.sought
      odd    == token.type # "data"
      Finds(found, warned) == [found |-> found, empty |-> FALSE, warned |-> odd \/ warned]
  IN  CASE fields = {}    -> Finds(Value(Default, v.whole), TRUE)
        [] fields # {} /\ v.is = "regex" ->
             IF ~v.valid THEN Finds(Value(fields, v.text), TRUE)
             ELSE [Finds(Regex(fields, v.matching), FALSE) EXCEPT
                     !.empty = Regex(fields, v.matching) = {}]
        [] fields # {} /\ v.is # "regex" /\ IsRangeField(fields) ->
             Finds(Between(Bounds(v.lower, v.upper)), FALSE)
        [] OTHER -> Finds(Value(fields, v.text), FALSE)
----------------------------------------------------------------------------
(* The parser.  A result has, with these three, the index of the next      *)
(* token.                                                                  *)

TypeAt(tokens, i) == IF i \in DOMAIN tokens THEN tokens[i].type ELSE "end"

Closed(tokens, x) ==
  IF TypeAt(tokens, x.next) = "close" THEN [x EXCEPT !.next = @ + 1]
  ELSE [x EXCEPT !.warned = TRUE]

(* OpNot: all messages and not those; of an empty tree, all messages *)
Not(x) == [x EXCEPT !.found = Messages \ @, !.empty = FALSE]

Combined(op, found1, found2) ==
  CASE op = "and" -> found1 \cap found2
    [] op = "or"  -> found1 \cup found2
    [] op = "xor" -> (found1 \cup found2) \ (found1 \cap found2)

(* factor_1 and term_1: an empty right operand goes with its operator. *)
Joined(op, x, y) ==
  [found  |-> IF y.empty THEN x.found ELSE Combined(op, x.found, y.found),
   empty  |-> y.empty /\ x.empty,
   warned |-> x.warned \/ y.warned, next |-> y.next]

(* Does without an operator only between values. *)
Bug_GoesOn == {"and", "data", "not"}

(* factor_2: the tokens after which a factor goes on, without or with and *)
GoesOn == {"and", "open", "data", "not"}

Parse(tokens) ==
  LET p[rule \in {"unit", "factor", "term"}, i \in 1..(Len(tokens) + 1)] ==
        CASE rule = "unit" /\ TypeAt(tokens, i) = "end" ->
               [found |-> {}, empty |-> TRUE, warned |-> TRUE, next |-> i]
          [] rule = "unit" /\ TypeAt(tokens, i) = "not" ->
               Not(p["unit", i + 1])
          [] rule = "unit" /\ TypeAt(tokens, i) = "open" ->
               Closed(tokens, p["term", i + 1])
          [] rule = "unit" /\ TypeAt(tokens, i) \notin {"end", "not", "open"} ->
               LET d == Sought(tokens[i])
               IN  [found |-> d.found, empty |-> d.empty, warned |-> d.warned, next |-> i + 1]
          [] rule = "factor" ->
               LET x  == p["unit", i]
                   op == TypeAt(tokens, x.next)
               IN  IF op \notin GoesOn THEN x
                   ELSE Joined("and", x,
                               p["factor", IF op = "and" THEN x.next + 1 ELSE x.next])
          [] rule = "term" ->
               LET x  == p["factor", i]
                   op == TypeAt(tokens, x.next)
               IN  IF op \in {"or", "xor"} THEN Joined(op, x, p["term", x.next + 1])
                   ELSE [x EXCEPT !.warned = @ \/ op \notin {"close", "end"}]
  IN  p["term", 1]
----------------------------------------------------------------------------
(* The grammar at the head of lib/mu-parser.cc, with what each part means: *)
(* the sets of messages that tokens i to j may stand for as a unit, a      *)
(* factor or a term.  Not belongs to the unit behind it, as a test has it. *)

Meanings(tokens, n) ==
  LET m[rule \in {"unit", "factor", "term"}, i \in 1..(n + 1), j \in 0..n] ==
        CASE j < i -> {}
          [] rule = "unit" /\ j >= i ->
               {Sought(t).found : t \in {tokens[k] : k \in {l \in {i} : i = j /\ tokens[l].type = "data"}}}
               \cup (IF tokens[i].type = "not" THEN {Messages \ s : s \in m["unit", i + 1, j]} ELSE {})
               \cup (IF tokens[i].type = "open" /\ tokens[j].type = "close"
                     THEN m["term", i + 1, j - 1] ELSE {})
          [] rule = "factor" /\ j >= i ->
               m["unit", i, j] \cup
               UNION {{s \cap t : s \in m["unit", i, k],
                                  t \in m["factor", k + 1, j] \cup
                                        (IF tokens[k + 1].type = "and"
                                         THEN m["factor", k + 2, j] ELSE {})} : k \in i..(j - 1)}
          [] rule = "term" /\ j >= i ->
               m["factor", i, j] \cup
               UNION {{Combined(tokens[k].type, s, t) :
                         s \in m["factor", i, k - 1], t \in m["term", k + 1, j]} :
                      k \in {l \in i..j : tokens[l].type \in {"or", "xor"}}}
  IN  m["term", 1, n]
----------------------------------------------------------------------------
Init == query = <<>> /\ result = Parse(<<>>) /\ meaning = {}

(* The user writes another token, and has the query parsed.  (Query makes  *)
(* something else of a query without tokens.)                              *)
Write(token) ==
  /\ query' = Append(query, token)
  /\ result' = Parse(query')
  /\ meaning' = Meanings(query', Len(query'))

IsQuery == meaning # {}
Without(types) == \A i \in DOMAIN query : query[i].type \notin types
NoEmptyTree == \A i \in DOMAIN query : ~Sought(query[i]).empty
NoOddValue == \A i \in DOMAIN query : query[i].type = "data" => ~Sought(query[i]).warned

(* A query of the grammar has one meaning; all of it is parsed, without    *)
(* warnings, and what it means is found, as long as each regular           *)
(* expression matches something.  If one does not, too much may be found,  *)
(* but without not and xor no message that it means is missed.  And when   *)
(* there is no warning, what was parsed is a query, and nothing but a      *)
(* closing parenthesis, and what is behind it, was left out.               *)
ParsedAsWritten ==
  /\ IsQuery /\ NoEmptyTree =>
       /\ meaning = {result.found}
       /\ result.next = Len(query) + 1
       /\ NoOddValue => ~result.warned
  /\ IsQuery /\ Without({"not", "xor"}) => \A s \in meaning : s \subseteq result.found
  /\ query # <<>> /\ ~result.warned =>
       /\ Meanings(query, result.next - 1) # {}
       /\ TypeAt(query, result.next) \in {"close", "end"}
=============================================================================
