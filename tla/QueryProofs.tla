----------------------------- MODULE QueryProofs -----------------------------
(***************************************************************************)
(* Whatever messages refer to, their containers are never each other's     *)
(* parents, and a link that was made is kept.  And what the deciders leave *)
(* for the threads has each message that matches, and duplicates only if   *)
(* they are wanted.                                                        *)
(***************************************************************************)
EXTENDS Query, TLAPS

Linking == {"leader", "related", "match", "link"}

(* What is needed of the messages and of the loop over references *)
MailOK ==
  /\ \A d \in Docs : mail[d].msgid \in Ids /\ mail[d].refs \in Seq(Ids)
  /\ rest \subseteq Docs /\ dups \subseteq Docs /\ found \subseteq Docs
  /\ refs \in Seq(Ids)
  /\ above \in (table \cap Ids) \cup {None}
  /\ container \in (table \cap Ids) \cup {None}
  /\ step = "link" => container # None

(* Only containers have parents, and until duplicates are added their keys *)
(* are message-ids.                                                        *)
ForestOK ==
  /\ table \subseteq Keys /\ None \notin table
  /\ parent \in [Keys -> table \cup {None}]
  /\ \A k \in Keys \ table : parent[k] = None
  /\ step \in Linking => table \subseteq Ids

LoopInv == MailOK /\ ForestOK /\ NoLoops

-----------------------------------------------------------------------------
(* What is above a container is closed under parents, and without loops it *)
(* has a root in it (ur_parent() returns).                                 *)
LEMMA UpClosed ==
  ASSUME ForestOK, NEW k \in Keys, NEW x \in Up(k), parent[x] # None
  PROVE  parent[x] \in Up(k)
<1> DEFINE T == table \cup {k}
<1>1. x \in T /\ parent[x] \in T
  BY DEF ForestOK, Up
<1>2. ASSUME NEW S \in SUBSET T, k \in S, \A y \in S : parent[y] \in S \cup {None}
      PROVE  parent[x] \in S
  <2>1. x \in S
    BY <1>2 DEF Up
  <2> QED
    BY <2>1, <1>2
<1> QED
  BY <1>1, <1>2 DEF Up

LEMMA UpHasSelf ==
  ASSUME NEW k \in Keys
  PROVE  k \in Up(k)
BY DEF Up

LEMMA UpWithin ==
  ASSUME NEW k \in Keys, NEW S \in SUBSET (table \cup {k}), k \in S,
         \A y \in S : parent[y] \in S \cup {None}
  PROVE  Up(k) \subseteq S
BY DEF Up

LEMMA RootAbove ==
  ASSUME ForestOK, NoLoops, NEW k \in table
  PROVE  UrParent(k) \in Up(k) /\ parent[UrParent(k)] = None
<1>1. Up(k) \in (SUBSET table) \ {{}}
  BY UpHasSelf DEF ForestOK, Up
<1>2. PICK x \in Up(k) : parent[x] \notin Up(k)
  BY <1>1 DEF NoLoops
<1>3. parent[x] = None
  BY <1>2, UpClosed DEF ForestOK
<1> QED
  BY <1>3 DEF UrParent

(* A root is its own root. *)
LEMMA RootOfRoot ==
  ASSUME NEW k \in Keys, parent[k] = None
  PROVE  UrParent(k) = k
<1>1. Up(k) \subseteq {k}
  <2> DEFINE S == {k}
  <2>1. S \in SUBSET (table \cup {k}) /\ k \in S
        /\ \A y \in S : parent[y] \in S \cup {None}
    OBVIOUS
  <2> HIDE DEF S
  <2>2. Up(k) \subseteq S
    BY <2>1, UpWithin
  <2> QED
    BY <2>2 DEF S
<1>2. k \in Up(k)
  BY UpHasSelf
<1> QED
  BY <1>1, <1>2 DEF UrParent

(* The heart of it: a link between containers with different roots closes  *)
(* no loop.                                                                *)
LEMMA LinkedNoLoops ==
  ASSUME ForestOK, NoLoops, NEW k \in Keys, NEW p \in table \cup {None},
         table' = table \cup {k}, parent' = Linked(p, k)
  PROVE  NoLoops'
<1> SUFFICES ASSUME NEW S \in SUBSET table', S # {}, \A x \in S : parent'[x] \in S
             PROVE  FALSE
  BY DEF NoLoops
<1>0. None \notin S
  BY ThreadsAssumption DEF ForestOK, Keys
<1>1. p # None /\ parent[k] = None /\ UrParent(p) # UrParent(k)
      /\ parent' = [parent EXCEPT ![k] = p]
  <2>1. CASE parent' = parent
    <3>1. k \in table \/ k \notin S
      BY <2>1, <1>0 DEF ForestOK
    <3> QED
      BY <3>1, <2>1 DEF NoLoops
  <2> QED
    BY <2>1 DEF Linked, IsReachable
<1>2. \A x \in S : x # k => parent[x] \in S
  BY <1>1 DEF ForestOK
<1>3. k \in S
  BY <1>2 DEF NoLoops
<1>4. p \in S /\ p \in table
  BY <1>1, <1>3 DEF ForestOK
<1>5. \A y \in S \cap table : parent[y] \in (S \cap table) \cup {None}
  BY <1>1, <1>2 DEF ForestOK
<1>6. Up(p) \subseteq S \cap table
  BY <1>4, <1>5, UpWithin DEF ForestOK
<1>7. UrParent(p) \in S /\ parent[UrParent(p)] = None
  BY <1>4, <1>6, RootAbove
<1>8. UrParent(p) = k
  BY <1>0, <1>2, <1>7
<1> QED
  BY <1>1, <1>8, RootOfRoot

-----------------------------------------------------------------------------
(* The initial state, and the steps *)
LEMMA InitLoopInv == Init => LoopInv
<1> SUFFICES ASSUME Init PROVE LoopInv
  OBVIOUS
<1>1. \A d \in Docs : mail[d].msgid \in Ids /\ mail[d].refs \in Seq(Ids)
  <2> SUFFICES ASSUME NEW d \in Docs, mail[d] \in Messages
               PROVE  mail[d].msgid \in Ids /\ mail[d].refs \in Seq(Ids)
    BY QueryAssumption DEF Init
  <2>1. BoundedSeq(Ids, MaxRefs) \subseteq Seq(Ids)
    BY QueryAssumption DEF BoundedSeq, SeqOf
  <2> QED
    BY <2>1 DEF Messages
<1>2. ForestOK /\ NoLoops
  BY DEF Init, ThreadsInit, ForestOK, NoLoops
<1> QED
  BY <1>1, <1>2 DEF Init, ThreadsInit, LoopInv, MailOK

(* Steps that leave the containers alone *)
LEMMA SameForest ==
  ASSUME ForestOK, NoLoops, UNCHANGED <<table, parent>>,
         step' \in Linking => step \in Linking
  PROVE  ForestOK' /\ NoLoops'
BY DEF ForestOK, NoLoops

LEMMA DecideLoopInv ==
  ASSUME LoopInv, Decide \/ List \/ UNCHANGED vars
  PROVE  LoopInv' /\ UNCHANGED parent
<1> USE DEF LoopInv, MailOK, tvars, forest, loop
<1>1. UNCHANGED <<table, parent, mail, refs, above, container>>
      /\ (step' \in Linking => step \in Linking)
      /\ (step' = "link" => step = "link")
  BY DEF Decide, DecideLeader, DecideRelated, LeaderQueried, GatherThreadIds,
         RelatedQueried, Queried, List, vars, Linking
<1>2. rest' \subseteq Docs /\ dups' \subseteq Docs /\ found' \subseteq Docs
  BY DEF Decide, DecideLeader, DecideRelated, LeaderQueried, GatherThreadIds,
         RelatedQueried, Queried, List, vars, qvars
<1> QED
  BY <1>1, <1>2, SameForest

LEMMA AddMatchLoopInv ==
  ASSUME LoopInv, NEW d \in Docs, SetAside(d) \/ AddMatch(d), UNCHANGED qvars
  PROVE  LoopInv' /\ UNCHANGED parent
<1> USE DEF LoopInv, MailOK, forest, loop, qvars
<1>1. CASE SetAside(d)
  BY <1>1, SameForest DEF SetAside
<1>2. CASE AddMatch(d)
  <2> DEFINE id == MessageId(d)
  <2>1. id \in Ids /\ mail[d].refs \in Seq(Ids)
    BY DEF MessageId
  <2>2. table' = table \cup {id} /\ UNCHANGED parent /\ step = "match"
    BY <1>2 DEF AddMatch
  <2>3. NoLoops'
    <3> SUFFICES ASSUME NEW S \in (SUBSET table') \ {{}}, \A x \in S : parent[x] \in S
                 PROVE  FALSE
      BY <2>2 DEF NoLoops
    <3>1. None \notin S
      BY <2>1, <2>2, ThreadsAssumption DEF ForestOK, Keys
    <3>2. S \subseteq table
      BY <2>1, <2>2, <3>1 DEF ForestOK, Keys
    <3> QED
      BY <3>2 DEF NoLoops
  <2>4. ForestOK'
    BY <1>2, <2>1, <2>2, ThreadsAssumption DEF AddMatch, ForestOK, Keys, Linking
  <2> QED
    BY <1>2, <2>1, <2>2, <2>3, <2>4, ThreadsAssumption DEF AddMatch, Keys
<1> QED
  BY <1>1, <1>2

LEMMA LinkLoopInv ==
  ASSUME LoopInv, LinkReference \/ LinkMatch, UNCHANGED qvars
  PROVE  LoopInv' /\ \A k \in Keys : parent[k] # None => parent'[k] = parent[k]
<1> USE DEF LoopInv, MailOK, qvars
<1>1. ASSUME NEW k \in Ids, NEW p \in table \cup {None},
             table' = table \cup {k}, parent' = Linked(p, k),
             table \subseteq Ids
      PROVE  /\ ForestOK' /\ NoLoops'
             /\ \A x \in Keys : parent[x] # None => parent'[x] = parent[x]
  <2>1. NoLoops'
    BY <1>1, LinkedNoLoops DEF Keys
  <2>2. parent' = parent \/ (p # None /\ parent[k] = None /\ parent' = [parent EXCEPT ![k] = p])
    BY <1>1 DEF Linked
  <2>3. table' \subseteq Ids /\ k \in table' /\ None \notin table'
    BY <1>1, ThreadsAssumption DEF Keys
  <2>4. parent' \in [Keys -> table' \cup {None}]
    BY <1>1, <2>2 DEF ForestOK
  <2>5. \A x \in Keys \ table' : parent'[x] = None
    BY <1>1, <2>2 DEF ForestOK
  <2>6. ForestOK'
    BY <2>3, <2>4, <2>5 DEF ForestOK, Keys
  <2> QED
    BY <2>1, <2>2, <2>6 DEF ForestOK
<1>2. step = "link" => table \subseteq Ids
  BY DEF ForestOK, Linking
<1>3. CASE LinkReference
  <2>1. Head(refs) \in Ids /\ Tail(refs) \in Seq(Ids)
    BY <1>3 DEF LinkReference
  <2>2. above \in table \cup {None}
    OBVIOUS
  <2>3. /\ ForestOK' /\ NoLoops'
        /\ \A x \in Keys : parent[x] # None => parent'[x] = parent[x]
    BY <1>1, <1>2, <1>3, <2>1, <2>2 DEF LinkReference
  <2> QED
    BY <1>3, <2>1, <2>3 DEF LinkReference
<1>4. CASE LinkMatch
  <2>1. container \in Ids /\ table' = table \cup {container}
    BY <1>4 DEF LinkMatch
  <2>2. above \in table \cup {None}
    OBVIOUS
  <2>3. /\ ForestOK' /\ NoLoops'
        /\ \A x \in Keys : parent[x] # None => parent'[x] = parent[x]
    BY <1>1, <1>2, <1>4, <2>1, <2>2 DEF LinkMatch
  <2> QED
    BY <1>4, <2>3 DEF LinkMatch
<1> QED
  BY <1>3, <1>4

(* A further copy has no children, so that no loop goes through it. *)
LEMMA DuplicatesLoopInv ==
  ASSUME LoopInv, AddDuplicates, UNCHANGED qvars
  PROVE  LoopInv' /\ \A k \in Keys : parent[k] # None => parent'[k] = parent[k]
<1> USE DEF LoopInv, MailOK, qvars, loop
<1>1. /\ Placed \subseteq Docs
      /\ \A d \in Placed : MessageId(d) \in table \cap Ids
      /\ table \subseteq Ids
  BY DEF Placed, MessageId, AddDuplicates, ForestOK, Linking
<1>2. /\ table' = table \cup Placed
      /\ parent' = [k \in Keys |-> IF k \in Placed THEN MessageId(k) ELSE parent[k]]
      /\ step' = "prune"
  BY DEF AddDuplicates
<1>3. \A k \in Placed : parent[k] = None
  BY <1>1, ThreadsAssumption DEF ForestOK, Keys
<1>4. ForestOK'
  BY <1>1, <1>2, ThreadsAssumption DEF ForestOK, Keys, Linking
<1>5. NoLoops'
  <2> SUFFICES ASSUME NEW S \in (SUBSET table') \ {{}}, \A x \in S : parent'[x] \in S
               PROVE  FALSE
    BY DEF NoLoops
  <2> DEFINE R == S \cap Ids
  <2>1. None \notin S
    BY <1>4 DEF ForestOK
  <2>2. ASSUME NEW x \in R
        PROVE  parent[x] \in R
    <3>1. x \in Keys /\ x \notin Placed
      BY <1>1, ThreadsAssumption DEF Keys
    <3>2. parent[x] \in S
      BY <1>2, <3>1
    <3>3. parent[x] \in table
      BY <2>1, <3>1, <3>2 DEF ForestOK
    <3> QED
      BY <1>1, <3>2, <3>3
  <2>3. R # {}
    <3>1. PICK x \in S : TRUE
      OBVIOUS
    <3>2. x \in Keys
      BY <1>4 DEF ForestOK
    <3>3. CASE x \in Placed
      BY <1>1, <1>2, <3>2, <3>3
    <3>4. CASE x \notin Placed
      BY <1>1, <1>2, <3>4
    <3> QED
      BY <3>3, <3>4
  <2>4. R \subseteq table
    BY <1>1, <1>2, ThreadsAssumption
  <2> QED
    BY <2>2, <2>3, <2>4 DEF NoLoops
<1> QED
  BY <1>2, <1>3, <1>4, <1>5 DEF AddDuplicates

(* When a container goes, a loop after it would have been one before, with *)
(* the container between its child and its parent.                         *)
LEMMA PruneLoopInv ==
  ASSUME LoopInv, (\E k \in Keys : Prune(k)) \/ Pruned \/ (\E b \in BOOLEAN : Sort(b)),
         UNCHANGED qvars
  PROVE  LoopInv' /\ (step # "prune" => UNCHANGED parent)
<1> USE DEF LoopInv, MailOK, qvars, loop, forest
<1>1. CASE Pruned
  BY <1>1, SameForest DEF Pruned, Linking
<1>2. CASE \E b \in BOOLEAN : Sort(b)
  BY <1>2, SameForest DEF Sort, Linking
<1>3. ASSUME NEW k \in Keys, Prune(k)
      PROVE  LoopInv' /\ step = "prune"
  <2>1. /\ parent' = [x \in Keys |-> IF x \in Children(k) THEN parent[k] ELSE parent[x]]
        /\ UNCHANGED table /\ k \in table /\ step = "prune" /\ step' = "prune"
    BY <1>3 DEF Prune, Prunable
  <2>2. ForestOK'
    BY <2>1 DEF ForestOK, Linking, Children
  <2>3. NoLoops'
    <3> SUFFICES ASSUME NEW S \in (SUBSET table) \ {{}}, \A x \in S : parent'[x] \in S
                 PROVE  FALSE
      BY <2>1 DEF NoLoops
    <3>1. None \notin S
      BY DEF ForestOK
    <3>2. \A x \in S : parent[x] \in S \/ (parent[x] = k /\ parent[k] \in S)
      BY <2>1 DEF ForestOK, Children
    <3>3. CASE \A x \in S : parent[x] \in S
      BY <3>3 DEF NoLoops
    <3>4. CASE parent[k] \in S
      <4> DEFINE R == S \cup {k}
      <4>1. R \in (SUBSET table) \ {{}} /\ \A x \in R : parent[x] \in R
        BY <2>1, <3>2, <3>4
      <4> QED
        BY <4>1 DEF NoLoops
    <3> QED
      BY <3>2, <3>3, <3>4
  <2> QED
    BY <1>3, <2>1, <2>2, <2>3 DEF Prune
<1> QED
  BY <1>1, <1>2, <1>3

-----------------------------------------------------------------------------
(* All steps together *)
LEMMA NextLoopInv ==
  ASSUME LoopInv, [Next]_vars
  PROVE  /\ LoopInv'
         /\ \A k \in Keys :
              step # "prune" /\ parent[k] # None => parent'[k] = parent[k]
<1>1. CASE Decide \/ List \/ UNCHANGED vars
  BY <1>1, DecideLoopInv
<1>2. CASE Done
  BY <1>2, DecideLoopInv DEF Done
<1>3. CASE CalculateThreads /\ UNCHANGED qvars
  <2>1. ASSUME NEW d \in Docs, SetAside(d) \/ AddMatch(d)
        PROVE  LoopInv' /\ UNCHANGED parent
    BY <1>3, <2>1, AddMatchLoopInv
  <2>2. ASSUME LinkReference \/ LinkMatch \/ AddDuplicates
        PROVE  LoopInv' /\ \A k \in Keys : parent[k] # None => parent'[k] = parent[k]
    BY <1>3, <2>2, LinkLoopInv, DuplicatesLoopInv
  <2>3. ASSUME NEW k \in Keys, Prune(k)
        PROVE  LoopInv' /\ (step # "prune" => UNCHANGED parent)
    BY <1>3, <2>3, PruneLoopInv
  <2>4. ASSUME Pruned \/ Sort("Descending" \in qflags)
        PROVE  LoopInv' /\ (step # "prune" => UNCHANGED parent)
    <3>1. ("Descending" \in qflags) \in BOOLEAN
      OBVIOUS
    <3> QED
      BY <1>3, <2>4, <3>1, PruneLoopInv
  <2> QED
    BY <1>3, <2>1, <2>2, <2>3, <2>4 DEF CalculateThreads
<1> QED
  BY <1>1, <1>2, <1>3 DEF Next

(* Whatever messages refer to, the containers' parents form no loop in any *)
(* state of a search (determine_id_table(), prune_empty_containers()), so  *)
(* that ur_parent() and the walks down the threads come to an end.         *)
THEOREM LoopFree == Spec => []NoLoops
<1>1. LoopInv /\ [Next]_vars => LoopInv'
  BY NextLoopInv
<1> QED
  BY InitLoopInv, <1>1, PTL DEF Spec, LoopInv

(* A link that determine_id_table() made is only changed by pruning. *)
THEOREM LinksAreKept == Spec => LinksKept
<1>1. LoopInv /\ [Next]_vars => LoopInv'
  BY NextLoopInv
<1>2. LoopInv /\ [Next]_vars =>
        [\A k \in Keys : step # "prune" /\ parent[k] # None => parent'[k] = parent[k]]_vars
  BY NextLoopInv
<1> QED
  BY InitLoopInv, <1>1, <1>2, PTL DEF Spec, LinksKept

-----------------------------------------------------------------------------
(* The deciders *)

(* Those that the leader query gives.  The related query finds them again, *)
(* by the flags that they have since.                                      *)
Leaders == {d \in known : "Related" \notin flags[d] /\ ShouldInclude(flags[d])}

DecidersTypeOK ==
  /\ matching \subseteq Docs /\ known \subseteq Docs
  /\ asked \subseteq Docs /\ found \subseteq Docs
  /\ flags \in [Docs -> SUBSET MatchFlags]

(* What the deciders remember, and what it says of what they let through   *)
DecidersOK ==
  /\ DecidersTypeOK
  /\ \A d \in known : "Related" \in flags[d] => d \in asked
  /\ \A d \in Leaders \cup found : MessageId(d) \in messageIds
  /\ Single(Leaders \cup found)

LeaderOK ==
  /\ asked = {} /\ found = Leaders
  /\ \A d \in known : MessageId(d) \in messageIds
  /\ \A i \in messageIds :
       \/ \E e \in found : MessageId(e) = i
       \/ /\ "SkipUnreadable" \in qflags
          /\ \E e \in Docs : MessageId(e) = i /\ ~mail[e].readable

RelatedOK ==
  /\ Covers(Leaders)
  /\ \A d \in Leaders : ThreadId(d) \in threadIds
  /\ Leaders \cap asked \subseteq found

Deciding == {"leader", "related"}

DecidersInv ==
  /\ step \in Deciding => DecidersOK
  /\ step = "leader" => LeaderOK
  /\ step = "related" => RelatedOK
  /\ step \notin Deciding => Covers(found) /\ Single(found)

LEMMA InitDecidersInv == Init => DecidersInv
<1> SUFFICES ASSUME Init
             PROVE  DecidersInv
  OBVIOUS
<1>1. matching \subseteq Docs
  BY QueryAssumption DEF Init
<1>2. step = "leader" /\ known = {} /\ found = {} /\ asked = {} /\ messageIds = {}
      /\ flags = [d \in Docs |-> {}]
  BY DEF Init
<1> QED
  BY <1>1, <1>2 DEF DecidersInv, DecidersOK, DecidersTypeOK, LeaderOK, Leaders,
                    Single, Deciding

(* The leader query: a document is left out for a copy, whose message-id   *)
(* is then covered already, or for its missing file.                       *)
LEMMA LeaderDecidersInv ==
  ASSUME DecidersInv, NEW d \in Docs, DecideLeader(d)
  PROVE  DecidersInv'
<1> DEFINE qm == QueryMatch(d) \cup {"Leader"}
<1>1. /\ step = "leader" /\ step' = "leader" /\ d \in matching /\ d \notin known
      /\ messageIds' = messageIds \cup {MessageId(d)}
      /\ known' = known \cup {d} /\ flags' = [flags EXCEPT ![d] = qm]
      /\ found' = IF ShouldInclude(qm) THEN found \cup {d} ELSE found
      /\ UNCHANGED <<mail, matching, qflags, threadIds, asked>>
  BY DEF DecideLeader
<1>2. DecidersOK /\ LeaderOK
  BY <1>1 DEF DecidersInv, Deciding
<1>3. "Related" \notin qm /\ qm \subseteq MatchFlags
  BY DEF QueryMatch, MatchFlags
<1>4. \A e \in Docs : flags'[e] = IF e = d THEN qm ELSE flags[e]
  BY <1>1, <1>2 DEF DecidersOK, DecidersTypeOK
<1>5. Leaders' = IF ShouldInclude(qm) THEN Leaders \cup {d} ELSE Leaders
  <2>1. \A f : ShouldInclude(f)' <=> ShouldInclude(f)
    BY <1>1 DEF ShouldInclude
  <2>2. \A e \in known' : e \in Leaders' <=> IF e = d THEN ShouldInclude(qm) ELSE e \in Leaders
    BY <1>1, <1>2, <1>3, <1>4 DEF Leaders, ShouldInclude, DecidersOK, DecidersTypeOK
  <2> QED
    BY <1>1, <2>2 DEF Leaders
<1>6. found' = Leaders'
  BY <1>1, <1>2, <1>5 DEF LeaderOK
<1>7. \A e : MessageId(e)' = MessageId(e)
  BY <1>1 DEF MessageId
<1>8. DecidersTypeOK'
  BY <1>1, <1>2, <1>3 DEF DecidersOK, DecidersTypeOK
<1>9. Single(found)'
  <2> SUFFICES ASSUME "SkipDuplicates" \in qflags, NEW e \in found', NEW f \in found',
                      MessageId(e) = MessageId(f)
               PROVE  e = f
    BY <1>1, <1>7 DEF Single
  <2>1. ShouldInclude(qm) => MessageId(d) \notin messageIds
    BY DEF ShouldInclude, QueryMatch
  <2>2. \A g \in found : MessageId(g) \in messageIds
    BY <1>2 DEF DecidersOK
  <2>3. e \in found /\ f \in found => e = f
    BY <1>2 DEF DecidersOK, Single
  <2> QED
    BY <1>1, <2>1, <2>2, <2>3
<1>10. DecidersOK'
  <2>1. \A e \in known' : "Related" \in flags'[e] => e \in asked'
    BY <1>1, <1>2, <1>3, <1>4 DEF DecidersOK, DecidersTypeOK
  <2>2. \A e \in found' : MessageId(e) \in messageIds'
    BY <1>1, <1>2 DEF DecidersOK
  <2> QED
    BY <1>6, <1>7, <1>8, <1>9, <2>1, <2>2 DEF DecidersOK, Single
<1>11. LeaderOK'
  <2>1. ASSUME NEW i \in messageIds'
        PROVE  \/ \E e \in found' : MessageId(e) = i
               \/ /\ "SkipUnreadable" \in qflags
                  /\ \E e \in Docs : MessageId(e) = i /\ ~mail[e].readable
    <3>1. CASE i \in messageIds
      BY <1>1, <1>2, <3>1 DEF LeaderOK
    <3>2. CASE i \notin messageIds
      <4>1. i = MessageId(d)
        BY <1>1, <3>2
      <4>2. ShouldInclude(qm) \/ ("SkipUnreadable" \in qflags /\ ~mail[d].readable)
        BY <3>2, <4>1 DEF ShouldInclude, QueryMatch
      <4> QED
        BY <1>1, <4>1, <4>2
    <3> QED
      BY <3>1, <3>2
  <2>2. \A e \in known' : MessageId(e) \in messageIds'
    BY <1>1, <1>2 DEF LeaderOK
  <2> QED
    BY <1>1, <1>2, <1>6, <1>7, <2>1, <2>2 DEF LeaderOK
<1> QED
  BY <1>1, <1>10, <1>11 DEF DecidersInv, Deciding

(* The related query: one that was found before is so again, and another   *)
(* only if its message-id is new.                                          *)
LEMMA RelatedDecidersInv ==
  ASSUME DecidersInv, NEW d \in Docs, DecideRelated(d)
  PROVE  DecidersInv'
<1>1. /\ step = "related" /\ step' = "related" /\ d \notin asked
      /\ asked' = asked \cup {d}
      /\ messageIds' = messageIds \cup {MessageId(d)}
      /\ UNCHANGED <<mail, matching, qflags, threadIds>>
  BY DEF DecideRelated
<1>2. DecidersOK /\ RelatedOK
  BY <1>1 DEF DecidersInv, Deciding
<1>3. \A e : MessageId(e)' = MessageId(e) /\ ThreadId(e)' = ThreadId(e)
  BY <1>1 DEF MessageId, ThreadId
<1>4. CASE ~Verdict(d)
  <2>1. UNCHANGED <<known, flags, found>>
    BY <1>4 DEF DecideRelated
  <2>2. d \notin Leaders
    BY <1>4 DEF Leaders, Verdict
  <2>3. Leaders' = Leaders
    BY <1>1, <2>1 DEF Leaders, ShouldInclude
  <2>4. DecidersOK'
    BY <1>1, <1>2, <1>3, <2>1, <2>3 DEF DecidersOK, DecidersTypeOK, Single
  <2>5. RelatedOK'
    BY <1>1, <1>2, <1>3, <2>1, <2>2, <2>3 DEF RelatedOK, Covers
  <2> QED
    BY <1>1, <2>4, <2>5 DEF DecidersInv, Deciding
<1>5. CASE Verdict(d)
  <2>1. /\ known' = known \cup {d} /\ found' = found \cup {d}
        /\ flags' = [flags EXCEPT ![d] = IF d \in known THEN @ ELSE {"Related"}]
    BY <1>5 DEF DecideRelated
  <2>2. \A e \in Docs : flags'[e] = IF e = d /\ d \notin known THEN {"Related"} ELSE flags[e]
    BY <2>1, <1>2 DEF DecidersOK, DecidersTypeOK
  <2>3. Leaders' = Leaders
    <3>1. \A e \in Docs : e \in Leaders' <=> e \in Leaders
      BY <1>1, <2>1, <2>2 DEF Leaders, ShouldInclude
    <3> QED
      BY <1>2, <2>1, <3>1 DEF Leaders, DecidersOK, DecidersTypeOK
  <2>4. d \in Leaders \/ ("SkipDuplicates" \in qflags => MessageId(d) \notin messageIds)
    <3>1. CASE d \in known
      BY <1>1, <1>2, <1>5, <3>1 DEF Verdict, Leaders, DecidersOK
    <3>2. CASE d \notin known
      BY <1>5, <3>2 DEF Verdict, ShouldInclude, QueryMatch
    <3> QED
      BY <3>1, <3>2
  <2>5. Single(Leaders \cup found)'
    <3> SUFFICES ASSUME "SkipDuplicates" \in qflags,
                        NEW e \in Leaders \cup found \cup {d},
                        NEW f \in Leaders \cup found \cup {d},
                        MessageId(e) = MessageId(f)
                 PROVE  e = f
      BY <1>1, <1>3, <2>1, <2>3 DEF Single
    <3>1. \A g \in Leaders \cup found : MessageId(g) \in messageIds
      BY <1>2 DEF DecidersOK
    <3>2. e \in Leaders \cup found /\ f \in Leaders \cup found => e = f
      BY <1>2 DEF DecidersOK, Single
    <3> QED
      BY <2>4, <3>1, <3>2
  <2>6. DecidersTypeOK'
    BY <1>1, <1>2, <2>1 DEF DecidersOK, DecidersTypeOK, MatchFlags
  <2>7. DecidersOK'
    <3>1. \A e \in known' : "Related" \in flags'[e] => e \in asked'
      BY <1>1, <1>2, <2>1, <2>2 DEF DecidersOK, DecidersTypeOK
    <3>2. \A e \in Leaders' \cup found' : MessageId(e)' \in messageIds'
      BY <1>1, <1>2, <1>3, <2>1, <2>3 DEF DecidersOK
    <3> QED
      BY <2>5, <2>6, <3>1, <3>2 DEF DecidersOK
  <2>8. RelatedOK'
    BY <1>1, <1>2, <1>3, <2>1, <2>3 DEF RelatedOK, Covers
  <2> QED
    BY <1>1, <2>7, <2>8 DEF DecidersInv, Deciding
<1> QED
  BY <1>4, <1>5

(* The end of a query *)
LEMMA QueriedDecidersInv ==
  ASSUME DecidersInv, LeaderQueried \/ GatherThreadIds \/ RelatedQueried
  PROVE  DecidersInv'
<1>1. UNCHANGED <<mail, known, flags, matching, qflags, asked, messageIds>>
  BY DEF LeaderQueried, GatherThreadIds, RelatedQueried, Queried
<1>2. \A e : MessageId(e)' = MessageId(e)
  BY <1>1 DEF MessageId
<1>3. Leaders' = Leaders
  BY <1>1 DEF Leaders, ShouldInclude
<1>4. ASSUME step = "leader", matching \subseteq known
      PROVE  Covers(found)
  <2>1. LeaderOK
    BY <1>4 DEF DecidersInv
  <2> QED
    BY <1>4, <2>1 DEF LeaderOK, Covers
<1>5. CASE LeaderQueried \/ RelatedQueried
  <2>1. step' \notin Deciding /\ found' = found
    BY <1>5 DEF LeaderQueried, RelatedQueried, Queried, Deciding
  <2>2. step \in Deciding
    BY <1>5 DEF LeaderQueried, RelatedQueried, Deciding
  <2>3. Single(found)
    BY <2>2 DEF DecidersInv, DecidersOK, Single
  <2>4. Covers(found)
    <3>1. CASE LeaderQueried
      BY <1>4, <3>1 DEF LeaderQueried
    <3>2. CASE RelatedQueried
      <4>1. DecidersOK /\ RelatedOK /\ \A d \in Docs \ asked : ThreadId(d) \notin threadIds
        BY <3>2 DEF RelatedQueried, IsRelated, DecidersInv, Deciding
      <4>2. Leaders \subseteq found
        BY <4>1 DEF RelatedOK, Leaders, DecidersOK, DecidersTypeOK
      <4> QED
        BY <4>1, <4>2 DEF RelatedOK, Covers
    <3> QED
      BY <1>5, <3>1, <3>2
  <2> QED
    BY <1>1, <1>2, <2>1, <2>3, <2>4 DEF DecidersInv, Covers, Single, Deciding
<1>6. CASE GatherThreadIds
  <2>1. /\ step = "leader" /\ matching \subseteq known /\ step' = "related" /\ found' = {}
        /\ threadIds' = {ThreadId(d) : d \in found}
    BY <1>6 DEF GatherThreadIds
  <2>2. DecidersOK /\ LeaderOK
    BY <2>1 DEF DecidersInv, Deciding
  <2>3. DecidersOK'
    BY <1>1, <1>2, <1>3, <2>1, <2>2 DEF DecidersOK, DecidersTypeOK, Single
  <2>4. \A d \in Leaders : ThreadId(d)' \in threadIds'
    BY <1>1, <2>1, <2>2 DEF LeaderOK, ThreadId, MessageId
  <2>5. Covers(Leaders)'
    BY <1>1, <1>2, <1>3, <1>4, <2>1, <2>2 DEF LeaderOK, Covers
  <2>6. Leaders' \cap asked' \subseteq found'
    BY <1>1, <2>2 DEF LeaderOK
  <2> QED
    BY <1>3, <2>1, <2>3, <2>4, <2>5, <2>6 DEF DecidersInv, RelatedOK, Deciding
<1> QED
  BY <1>5, <1>6

(* Threads and lists leave the documents that were found as they are. *)
LEMMA ThreadsDecidersInv ==
  ASSUME DecidersInv, (CalculateThreads /\ UNCHANGED qvars) \/ List \/ UNCHANGED vars
  PROVE  DecidersInv'
<1>1. CASE UNCHANGED vars
  BY <1>1 DEF vars, tvars, qvars, DecidersInv, DecidersOK, DecidersTypeOK, LeaderOK,
              RelatedOK, Covers, Single, Leaders, ShouldInclude, MessageId, ThreadId
<1>2. ASSUME (CalculateThreads /\ UNCHANGED qvars) \/ List
      PROVE  /\ step \notin Deciding /\ step' \notin Deciding
             /\ UNCHANGED <<mail, matching, qflags, found>>
  <2>1. CASE List
    BY <2>1 DEF List, Deciding
  <2>2. CASE CalculateThreads /\ UNCHANGED qvars
    <3>1. UNCHANGED <<matching, qflags, found>>
      BY <2>2 DEF qvars
    <3>2. step \notin Deciding /\ step' \notin Deciding /\ UNCHANGED mail
      BY <2>2 DEF CalculateThreads, SetAside, AddMatch, LinkReference, LinkMatch,
                  AddDuplicates, Prune, Pruned, Sort, Deciding
    <3> QED
      BY <3>1, <3>2
  <2> QED
    BY <1>2, <2>1, <2>2
<1>3. CASE (CalculateThreads /\ UNCHANGED qvars) \/ List
  BY <1>2, <1>3 DEF DecidersInv, Covers, Single, MessageId, Deciding
<1> QED
  BY <1>1, <1>3

(* When the deciders of all queries are done, whatever order Xapian asked  *)
(* in, each message that matches is in what they let through, in one copy  *)
(* at least, unless messages without a file are skipped and a copy is one; *)
(* and when duplicates are skipped in one copy only (run_singular(),       *)
(* run_related(), MatchDeciderLeader, MatchDeciderRelated).                *)
THEOREM DecidedOnce ==
  Spec => [](step \notin {"leader", "related"} => Covers(found) /\ Single(found))
<1>1. DecidersInv /\ [Next]_vars => DecidersInv'
  BY LeaderDecidersInv, RelatedDecidersInv, QueriedDecidersInv, ThreadsDecidersInv
     DEF Next, Decide, Done
<1>2. DecidersInv => (step \notin {"leader", "related"} => Covers(found) /\ Single(found))
  BY DEF DecidersInv, Deciding
<1> QED
  BY InitDecidersInv, <1>1, <1>2, PTL DEF Spec

=============================================================================
