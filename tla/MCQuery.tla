------------------------------- MODULE MCQuery -------------------------------
(***************************************************************************)
(* Two kinds of searches: one for what the deciders leave out, with copies *)
(* of a message, some without a file; and one for the threads, in which    *)
(* messages refer to each other, to themselves and to one that is not      *)
(* found, in all ways.                                                     *)
(***************************************************************************)
EXTENDS Query

CONSTANTS a, b, c, x

MCDate == <<1, 3, 2, 4>>
MCTie == [k \in Keys |-> CASE k = a -> 5 [] k = b -> 6 [] k = c -> 7 [] k = x -> 8
                           [] OTHER -> k]

Message(id, rs, readable) == [msgid |-> id, refs |-> rs, readable |-> readable]

(* References, without repetition as get_references() gives them *)
Refs(S) == {r \in BoundedSeq(S, MaxRefs) : IsInjective(r)}

Copies ==
  [mail : {<<Message(a, r[1], 1 \notin gone), Message(a, r[2], 2 \notin gone),
             Message(b, r[3], TRUE), Message(a, <<>>, TRUE)>> :
             r \in {<<>>, <<b>>} \X {<<>>, <<x>>} \X {<<>>, <<a>>, <<x>>},
             gone \in {{}, {1}, {2}}},
   matching : {{1, 2}, {2, 3}, {3}, {1, 2, 3}, Docs},
   qflags : SUBSET QueryFlags]

Conversations ==
  [mail : {<<Message(a, r[1], TRUE), Message(b, r[2], TRUE), Message(c, r[3], TRUE),
             Message(x, <<>>, TRUE)>> :
             r \in Refs({b, x}) \X Refs(Ids) \X Refs(Ids)}
          \cup
          {<<Message(a, r[1], TRUE), Message(b, r[2], TRUE), Message(c, r[3], TRUE),
             Message(id, r[4], TRUE)>> :
             r \in Refs({b, x}) \X Refs({a}) \X Refs({b, x}) \X Refs({c}), id \in {a, x}},
   matching : {{1, 2, 3}, Docs},
   qflags : {{"Threading"}, {"Threading", "Descending"}}]

MCSearches == Copies \cup Conversations
==============================================================================
