-------------------------------- MODULE Query --------------------------------
(***************************************************************************)
(* lib/mu-query.cc: a search.  The leader query finds the messages that    *)
(* match; the related query, if there is one, finds all messages in their  *)
(* threads.  Both leave out copies and messages without a file if they are *)
(* told to, which lib/mu-query-match-deciders.cc decides document by       *)
(* document, remembering what it saw.  Then Threads may put the results    *)
(* into threads.                                                           *)
(*                                                                         *)
(* Xapian asks about documents in an order of its own, here any order.     *)
(* Every message has a message-id, and no search limits its results.       *)
(***************************************************************************)
EXTENDS Threads

CONSTANTS
  MaxRefs,      \* bound: references of a message
  Searches      \* bound: the searches, each with what is in the store, the
                \* documents that match, and the flags

QueryFlags ==
  {"Descending", "SkipUnreadable", "SkipDuplicates", "IncludeRelated", "Threading"}

MatchFlags == {"Leader", "Related", "Unreadable", "Duplicate"}

Messages == [msgid : Ids, refs : BoundedSeq(Ids, MaxRefs), readable : BOOLEAN]

ASSUME QueryAssumption ==
  /\ MaxRefs \in Nat
  /\ \A s \in Searches : /\ \A d \in Docs : s.mail[d] \in Messages
                         /\ DOMAIN s.mail = Docs
                         /\ s.matching \subseteq Docs
                         /\ s.qflags \subseteq QueryFlags

VARIABLES
  matching,     \* the documents that the query matches
  qflags,
  messageIds,   \* DeciderInfo::message_ids
  threadIds,    \* DeciderInfo::thread_ids
  asked,        \* the documents that the related query has been asked about
  found,        \* those that the latest query is to give
  result        \* the results, in their order

qvars == <<matching, qflags, messageIds, threadIds, asked, found, result>>
vars == <<tvars, qvars>>

TypeOK ==
  /\ ThreadsTypeOK
  /\ step \in Threading \cup {"leader", "related", "list", "done"}
  /\ \A d \in Docs : mail[d] \in Messages
  /\ known \subseteq Docs /\ flags \in [Docs -> SUBSET MatchFlags]
  /\ matching \subseteq Docs /\ qflags \subseteq QueryFlags
  /\ messageIds \subseteq Ids /\ threadIds \subseteq Ids
  /\ asked \subseteq Docs /\ found \subseteq Docs
  /\ result \in Seq(Docs)

Init ==
  /\ ThreadsInit
  /\ \E s \in Searches :
       mail = s.mail /\ matching = s.matching /\ qflags = s.qflags
  /\ step = "leader"
  /\ known = {} /\ flags = [d \in Docs |-> {}]
  /\ messageIds = {} /\ threadIds = {}
  /\ asked = {} /\ found = {} /\ result = <<>>

-----------------------------------------------------------------------------
(* The first reference, or the message's own id *)
ThreadId(d) == IF mail[d].refs = <<>> THEN MessageId(d) ELSE Head(mail[d].refs)

(* What make_query_match() says of a document; it adds its message-id to   *)
(* those it has seen too.                                                  *)
QueryMatch(d) ==
  {f \in {"Duplicate", "Unreadable"} :
     \/ f = "Duplicate" /\ MessageId(d) \in messageIds
     \/ f = "Unreadable" /\ ~mail[d].readable}

ShouldInclude(qm) ==
  /\ ~("SkipDuplicates" \in qflags /\ "Duplicate" \in qm)
  /\ ~("SkipUnreadable" \in qflags /\ "Unreadable" \in qm)

(* MatchDeciderLeader *)
DecideLeader(d) ==
  LET qm == QueryMatch(d) \cup {"Leader"} IN
  /\ step = "leader" /\ d \in matching \ known
  /\ messageIds' = messageIds \cup {MessageId(d)}
  /\ known' = known \cup {d}
  /\ flags' = [flags EXCEPT ![d] = qm]
  /\ found' = IF ShouldInclude(qm) THEN found \cup {d} ELSE found
  /\ UNCHANGED <<step, mail, rest, dups, forest, loop, path, matching, qflags,
                 threadIds, asked, result>>

(* MatchDeciderRelated.  A match of the leader query has its flags; those  *)
(* of another are only that it is related.                                 *)
Verdict(d) == ShouldInclude(IF d \in known THEN flags[d] ELSE QueryMatch(d))

(* make_related_enquire: the documents that the related query is about *)
IsRelated(d) == ThreadId(d) \in threadIds

DecideRelated(d) ==
  /\ step = "related" /\ d \in Docs \ asked /\ IsRelated(d)
  /\ asked' = asked \cup {d}
  /\ messageIds' = messageIds \cup {MessageId(d)}
  /\ IF Verdict(d)
       THEN /\ known' = known \cup {d}
            /\ flags' = [flags EXCEPT ![d] = IF d \in known THEN @ ELSE {"Related"}]
            /\ found' = found \cup {d}
       ELSE UNCHANGED <<known, flags, found>>
  /\ UNCHANGED <<step, mail, rest, dups, forest, loop, path, matching, qflags,
                 threadIds, result>>

(* The end of a query, with the results that it gave.  If they are to be   *)
(* in threads, calculate_threads() is next.                                *)
Queried(results) ==
  /\ IF "Threading" \in qflags THEN step' = "match" /\ rest' = results
                               ELSE step' = "list" /\ rest' = rest
  /\ UNCHANGED <<mail, known, flags, dups, forest, loop, path, matching, qflags,
                 messageIds, asked, result>>

(* run_singular() *)
LeaderQueried ==
  /\ step = "leader" /\ matching \subseteq known
  /\ "IncludeRelated" \notin qflags
  /\ Queried(found)
  /\ UNCHANGED <<threadIds, found>>

Bug_GatherThreadIds ==
  /\ step = "leader" /\ matching \subseteq known
  /\ "IncludeRelated" \in qflags
  /\ threadIds' = {ThreadId(d) : d \in found}
  /\ found' = {} /\ messageIds' = {}
  /\ step' = "related"
  /\ UNCHANGED <<mail, known, flags, rest, dups, forest, loop, path, matching,
                 qflags, asked, result>>

(* run_related(), between its queries *)
GatherThreadIds ==
  /\ step = "leader" /\ matching \subseteq known
  /\ "IncludeRelated" \in qflags
  /\ threadIds' = {ThreadId(d) : d \in found}
  /\ found' = {}
  /\ step' = "related"
  /\ UNCHANGED <<mail, known, flags, rest, dups, forest, loop, path, matching,
                 qflags, messageIds, asked, result>>

RelatedQueried ==
  /\ step = "related" /\ \A d \in Docs \ asked : ~IsRelated(d)
  /\ Queried(found)
  /\ UNCHANGED <<threadIds, found>>

(* maybe_sort, by date, and ThreadKeyMaker, by the path in the threads *)
DateBefore(d, e) ==
  IF Date[d] = Date[e] THEN d < e ELSE ("Descending" \in qflags) = (Date[d] > Date[e])
PathBefore(d, e) ==
  IF "Descending" \in qflags THEN Less(path[e], path[d]) ELSE Less(path[d], path[e])

(* MatchDeciderThread *)
DecideThread(d) == path[d] # <<>>

(* The results, by date or by the path that their thread gives them; a     *)
(* document without a path is left out then.                               *)
List ==
  /\ step = "list"
  /\ result' = IF "Threading" \in qflags
                 THEN SetToSortSeq({d \in found : DecideThread(d)}, PathBefore)
                 ELSE SetToSortSeq(found, DateBefore)
  /\ step' = "done"
  /\ UNCHANGED <<mail, known, flags, rest, dups, forest, loop, path, matching,
                 qflags, messageIds, threadIds, asked, found>>

Done == step = "done" /\ UNCHANGED vars

Decide ==
  \/ \E d \in Docs : DecideLeader(d) \/ DecideRelated(d)
  \/ LeaderQueried \/ GatherThreadIds \/ RelatedQueried

CalculateThreads ==
  \/ \E d \in Docs : SetAside(d) \/ AddMatch(d)
  \/ LinkReference \/ LinkMatch \/ AddDuplicates
  \/ \E k \in Keys : Prune(k)
  \/ Pruned
  \/ Sort("Descending" \in qflags)

Next ==
  \/ Decide
  \/ CalculateThreads /\ UNCHANGED qvars
  \/ List
  \/ Done

Spec == Init /\ [][Next]_vars

-----------------------------------------------------------------------------
(* Properties *)

Shown == Range(result)
Searched == step = "done"

(* What is asked of the documents that a search gives: each message that   *)
(* matches is there, in a copy of it at least; when messages without a     *)
(* file are skipped this is so only if all of its copies have one, as one  *)
(* without may be taken for the first copy.                                *)
Covers(D) ==
  \A d \in matching :
    \/ \E e \in D : MessageId(e) = MessageId(d)
    \/ /\ "SkipUnreadable" \in qflags
       /\ \E e \in Docs : MessageId(e) = MessageId(d) /\ ~mail[e].readable

Single(D) ==
  "SkipDuplicates" \in qflags =>
    \A d, e \in D : MessageId(d) = MessageId(e) => d = e

(* A message that matches is found, whatever the deciders leave out and    *)
(* wherever its references put it in the threads (determine_id_table(),    *)
(* prune_empty_containers()); and none is shown twice when duplicates are  *)
(* skipped, though two queries look for them and only share the deciders'  *)
(* memory.                                                                 *)
FoundOnce == Searched => Covers(Shown) /\ Single(Shown)

(* Whatever messages refer to, each other or themselves, no containers are *)
(* each other's parents: every set of them has one with its parent outside *)
(* of it, or with none.  Otherwise ur_parent() does not return.            *)
NoLoops == \A S \in (SUBSET table) \ {{}} : \E k \in S : parent[k] \notin S

(* "If they are already linked, don't change the existing links"           *)
(* (determine_id_table()): a container keeps its parent until pruning.     *)
LinksKept ==
  [][\A k \in Keys :
       step # "prune" /\ parent[k] # None => parent'[k] = parent[k]]_vars

(* Does any message have, for all who refer to it, the same predecessor?   *)
Agree(D) ==
  LET Chain(d) == Append(mail[d].refs, MessageId(d))
      links == UNION {{<<Chain(d)[i], Chain(d)[i + 1]>> : i \in 1..Len(mail[d].refs)} :
                        d \in D}
  IN  \A l, m \in links : l[2] = m[2] => l[1] = m[1]

Together ==
  Agree(found) =>
    \A d, e \in Shown :
      "Duplicate" \notin flags[d] /\ MessageId(e) \in Range(mail[d].refs)
        => IsReachable(MessageId(d), MessageId(e))

InOrder ==
  LET live == table \ nuked
      key == SortKeys
      Place(k) == CHOOSE i \in DOMAIN result : result[i] = slot[k]
      shown == {k \in live : slot[k] \in Shown}
      Under(k) == {x \in shown : k \in Up(x)}
  IN  /\ \A k \in shown : \A x \in Under(k) : Place(k) <= Place(x)
      /\ \A k, l \in live :
           parent[k] = parent[l] /\ key[k] < key[l] =>
             \A x \in Under(k), y \in Under(l) :
               (parent[k] = None /\ "Descending" \in qflags) <=> Place(y) < Place(x)

(* If the references of the results agree then a message is in the same    *)
(* thread as those it refers to, however the matches came and whichever    *)
(* containers are taken out ("Do not promote the children if doing so      *)
(* would promote them to the root set -- unless there is only one child"). *)
(* Sorted by their paths, the results are the threads from the roots down: *)
(* a message before its replies, what is under one child before what is    *)
(* under the next, by date below the root even in a descending search      *)
(* (update_containers(), "ensure thread root comes before its children").  *)
ThreadsListed == Searched /\ "Threading" \in qflags => Together /\ InOrder

=============================================================================
