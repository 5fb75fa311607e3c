------------------------------- MODULE Threads -------------------------------
(***************************************************************************)
(* lib/mu-query-threads.cc: the results of a search are put into threads.  *)
(* Each match gets a container, under the containers of the messages that  *)
(* it refers to; those of messages that were not found stay empty, and are *)
(* taken out again where they are not needed.  What is left is sorted, and *)
(* each match gets a path, a string by which Xapian sorts the results.     *)
(*                                                                         *)
(* A container's key is a message-id, or the document itself for one that  *)
(* is a further copy ("dup-1" and so on).  Subjects, and the flags that    *)
(* only matter to how a thread is drawn, are left out.                     *)
(***************************************************************************)
EXTENDS SequencesExt

CONSTANTS
  Docs,         \* document ids
  Ids,          \* message-ids
  None,
  Date,         \* the date of each document, 0 if it has none
  Tie,          \* which of two containers with the same date std::sort puts
                \* first: the one for which this is smaller
  Radix         \* 16, the radix of the numbers in a path

Keys == Ids \cup Docs

ASSUME ThreadsAssumption ==
  /\ Docs \subseteq Nat
  /\ Ids \cap Docs = {}
  /\ None \notin Keys
  /\ Date \in [Docs -> Nat]
  /\ Tie \in [Keys -> Nat] /\ IsInjective(Tie)
  /\ Radix \in Nat \ {0, 1}

VARIABLES
  step,         \* what comes next
  mail,         \* the messages in the store: their message-id and
                \* references, and whether there is a file for it
  known, flags, \* the matches, and QueryMatch::flags of each
  rest,         \* the results that have no container yet
  dups,         \* dup_table
  table,        \* the keys of id_table
  parent, slot, \* Container::parent and Container::query_match
  date,         \* Container::thread_date_key, before sorting
  nuked,        \* Container::is_nuked
  container,    \* the container of the message at hand,
  refs,         \* its references still to come,
  above,        \* and parent_ref_container
  path          \* QueryMatch::thread_path

forest == <<table, parent, slot, date, nuked>>
loop == <<container, refs, above>>
tvars == <<step, mail, known, flags, rest, dups, forest, loop, path>>

Threading == {"match", "link", "prune", "sort"}

MessageId(d) == mail[d].msgid

ThreadsInit ==
  /\ rest = {} /\ dups = {}
  /\ table = {} /\ nuked = {}
  /\ parent = [k \in Keys |-> None]
  /\ slot = [k \in Keys |-> None]
  /\ date = [k \in Keys |-> 0]
  /\ container = None /\ refs = <<>> /\ above = None
  /\ path = [d \in Docs |-> <<>>]

ThreadsTypeOK ==
  /\ rest \subseteq Docs /\ dups \subseteq Docs
  /\ table \subseteq Keys /\ nuked \subseteq table
  /\ parent \in [Keys -> table \cup {None}]
  /\ slot \in [Keys -> Docs \cup {None}]
  /\ date \in [Keys -> Nat]
  /\ container \in Ids \cup {None}
  /\ refs \in Seq(Ids)
  /\ above \in Ids \cup {None}
  /\ path \in [Docs -> Seq(Nat)]

-----------------------------------------------------------------------------
(* The container itself, its parent, the parent of that and so on: what is *)
(* in all sets that have the container, and the parent of each of theirs.  *)
Up(k) == LET T == table \cup {k} IN
         {x \in T : \A S \in SUBSET T :
            (k \in S /\ \A y \in S : parent[y] \in S \cup {None}) => x \in S}

UrParent(k) == CHOOSE x \in Up(k) : parent[x] = None

IsReachable(k, other) == UrParent(k) = UrParent(other)

Bug_Linked(p, k) ==
  IF p # None /\ parent[k] = None /\ p # k
    THEN [parent EXCEPT ![k] = p]
    ELSE parent

Bug_Linked2(p, k) ==
  IF p # None /\ ~IsReachable(p, k) THEN [parent EXCEPT ![k] = p] ELSE parent

(* add_child, if the child has no parent and no loop would come of it *)
Linked(p, k) ==
  IF p # None /\ parent[k] = None /\ ~IsReachable(p, k)
    THEN [parent EXCEPT ![k] = p]
    ELSE parent

(* 0: further copies are for later. *)
SetAside(d) ==
  /\ step = "match" /\ d \in rest /\ "Duplicate" \in flags[d]
  /\ dups' = dups \cup {d}
  /\ rest' = rest \ {d}
  /\ UNCHANGED <<step, mail, known, flags, forest, loop, path>>

(* 1.A: the container of the message-id takes the match, if it is empty.   *)
AddMatch(d) ==
  LET id == MessageId(d) IN
  /\ step = "match" /\ d \in rest /\ "Duplicate" \notin flags[d]
  /\ rest' = rest \ {d}
  /\ table' = table \cup {id}
  /\ slot' = [slot EXCEPT ![id] = IF @ = None THEN d ELSE @]
  /\ date' = [date EXCEPT ![id] = Date[d]]
  /\ container' = id /\ refs' = mail[d].refs /\ above' = None
  /\ step' = "link"
  /\ UNCHANGED <<mail, known, flags, dups, parent, nuked, path>>

(* 1.B: each reference has a container, which goes under the one before.   *)
LinkReference ==
  /\ step = "link" /\ refs # <<>>
  /\ table' = table \cup {Head(refs)}
  /\ parent' = Linked(above, Head(refs))
  /\ above' = Head(refs)
  /\ refs' = Tail(refs)
  /\ UNCHANGED <<step, mail, known, flags, rest, dups, slot, date, nuked,
                 container, path>>

LinkMatch ==
  /\ step = "link" /\ refs = <<>>
  /\ parent' = Linked(above, container)
  /\ container' = None /\ above' = None
  /\ step' = "match"
  /\ UNCHANGED <<mail, known, flags, rest, dups, table, slot, date, nuked,
                 refs, path>>

(* handle_duplicates(): a further copy is a child of the first one, and is *)
(* left out if there is no container for that.                             *)
Placed == {d \in dups : MessageId(d) \in table}

AddDuplicates ==
  /\ step = "match" /\ rest = {}
  /\ table' = table \cup Placed
  /\ parent' = [k \in Keys |-> IF k \in Placed THEN MessageId(k) ELSE parent[k]]
  /\ slot' = [k \in Keys |-> IF k \in Placed THEN k ELSE slot[k]]
  /\ dups' = {}
  /\ step' = "prune"
  /\ UNCHANGED <<mail, known, flags, rest, date, nuked, loop, path>>

-----------------------------------------------------------------------------
Children(k) == {x \in table \ nuked : parent[x] = k}
Roots == {x \in table \ nuked : parent[x] = None}

(* An empty container whose children have been seen to goes, except for a  *)
(* root with more than one child.                                          *)
Prunable(k) ==
  /\ k \in table \ nuked /\ slot[k] = None
  /\ \A x \in Children(k) : slot[x] # None
  /\ parent[k] # None \/ Cardinality(Children(k)) <= 1

(* Its children take its place. *)
Prune(k) ==
  /\ step = "prune" /\ Prunable(k)
  /\ parent' = [x \in Keys |-> IF x \in Children(k) THEN parent[k] ELSE parent[x]]
  /\ nuked' = nuked \cup {k}
  /\ UNCHANGED <<step, mail, known, flags, rest, dups, table, slot, date, loop,
                 path>>

Pruned ==
  /\ step = "prune" /\ \A k \in table : ~Prunable(k)
  /\ step' = "sort"
  /\ UNCHANGED <<mail, known, flags, rest, dups, forest, loop, path>>

-----------------------------------------------------------------------------
(* Sorting.  The date of the last child, if there is one, takes the place  *)
(* of a container's own.                                                   *)
SortKeys ==
  LET key[k \in table \ nuked] ==
        LET dates == {key[x] : x \in Children(k)}
            newest == IF dates = {} THEN 0 ELSE Max(dates)
        IN  IF newest # 0 THEN newest ELSE date[k]
  IN  key

Siblings(k) == IF parent[k] = None THEN Roots ELSE Children(parent[k])

(* The place of a container among its siblings, in ascending order always  *)
Index(k, key) ==
  Cardinality({x \in Siblings(k) :
    \/ key[x] < key[k]
    \/ key[x] = key[k] /\ Tie[x] < Tie[k]})

Bug_SegSize(n) == CHOOSE w \in 0..n : Radix^w <= n /\ Radix^(w + 1) > n

(* The digits that n containers need: what ceil(log(n) / log(Radix)) is    *)
SegSize(n) == CHOOSE w \in 0..n : /\ Radix^w >= n
                                  /\ w # 0 => Radix^(w - 1) < n

(* printf("%0*x"): more digits than asked for if they do not suffice       *)
Digits(num, w) ==
  LET need == CHOOSE v \in 1..(num + 1) : /\ Radix^v > num
                                          /\ v # 1 => Radix^(v - 1) <= num
      len == IF w > need THEN w ELSE need
  IN  [i \in 1..len |-> (num \div Radix^(len - i)) % Radix]

(* The characters after the digits, of those that a path may have          *)
Colon == Radix
Zed == Radix + 1

(* ":z" makes a message come before its replies in a descending search,    *)
Ending(descending) == IF descending THEN <<Colon, Zed>> ELSE <<>>

(* where the numbers below the root are turned around.                     *)
Paths(key, descending) ==
  LET size == SegSize(Cardinality(table))
      Number(k) == IF descending /\ parent[k] # None /\ slot[k] # None
                     THEN Radix^size - 1 - Index(k, key)
                     ELSE Index(k, key)
      tpath[k \in table \ nuked] ==
        LET segment == Digits(Number(k), size) IN
        IF parent[k] = None THEN segment
                            ELSE tpath[parent[k]] \o <<Colon>> \o segment
  IN  [k \in table \ nuked |-> tpath[k] \o Ending(descending)]

(* sort_siblings() and update_containers() *)
Sort(descending) ==
  /\ step = "sort"
  /\ LET paths == Paths(SortKeys, descending) IN
     path' = [d \in Docs |->
       LET mine == {k \in table \ nuked : slot[k] = d} IN
       IF mine = {} THEN <<>> ELSE paths[CHOOSE k \in mine : TRUE]]
  /\ step' = "list"
  /\ UNCHANGED <<mail, known, flags, rest, dups, forest, loop>>

(* Strings compare by their first difference. *)
Less(s, t) ==
  \E n \in 0..Len(s) :
    /\ n < Len(t) /\ \A i \in 1..n : s[i] = t[i]
    /\ n = Len(s) \/ s[n + 1] < t[n + 1]

=============================================================================
