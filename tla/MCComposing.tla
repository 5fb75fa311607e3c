---------------------------- MODULE MCComposing -----------------------------
(* Drafts, with a plain original; and replies to originals with all kinds  *)
(* of addresses and references, with which nothing else is done.           *)
EXTENDS Composing

CONSTANT MaxBuffers

A(m) == <<m, 1>>
B(m) == <<m, 2>>
Message(refs, reply, from, replyTo, to, cc, listPost, match) ==
  [refs |-> refs, reply |-> reply, from |-> from, replyTo |-> replyTo, to |-> to, cc |-> cc,
   listPost |-> listPost, match |-> match]

Plain(match) == Message(<<-1>>, -1, <<A("a")>>, <<>>, <<A("me")>>, <<>>, <<>>, match)

Addressed ==
  {Message(refs, Nil, from, replyTo, to, cc, listPost, "home") :
     refs \in {<<>>, <<-1, -2, -3>>, <<-1, 0, -2>>},
     from \in {<<A("a")>>, <<A("me")>>},
     replyTo \in {<<>>, <<A("b")>>, <<B("a"), A("me")>>},
     to \in {<<A("me")>>, <<B("a"), A("b")>>, <<B("me"), B("b")>>, <<A("list"), A("c")>>},
     cc \in {<<>>, <<A("c")>>, <<B("b"), A("me")>>},
     listPost \in {<<>>, <<B("list")>>}}

(* Drafts are made with the usual options; one answer ends what is done    *)
(* with addresses.                                                         *)
Usual == [recipients |-> "all", keepSelf |-> FALSE, dontSelf |-> FALSE, ignore |-> {}]
Dull == original \in {Plain(Nil), Plain("home")}

NoFunction == [p \in {} |-> Nil]
Idle == \* nothing is composed
  /\ original = Nil /\ context = Nil /\ lastId = 0
  /\ disk = NoFunction /\ docs = NoFunction /\ buffers = NoFunction
  /\ pipe = <<>> /\ replies = <<>> /\ handlers = 0 /\ names = 0 /\ steps = {} /\ sent = {}

MCInit ==
  \/ InitWith(Plain(Nil), 0) /\ context = "home"
  \/ InitWith(Plain("home"), 1)
  \/ \E o \in Addressed : InitWith(o, 0) /\ context = "home"

ASSUME MCAssumption == Addressed \cup {Plain(m) : m \in {Nil, "home"}} \subseteq Messages

MCNext ==
  /\ Next
  /\ \A p \in DOMAIN buffers' :
       IF Dull THEN buffers'[p].head.opts \in {Nil, Usual} ELSE buffers'[p].type = "reply"
  /\ Cardinality(DOMAIN buffers') <= MaxBuffers
  /\ ~Dull => Cardinality(steps') <= 1

MCSpec == MCInit /\ [][MCNext]_vars
=============================================================================
