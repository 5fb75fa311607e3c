--------------------------- MODULE ComposingProofs ---------------------------
(***************************************************************************)
(* Theorems about Composing, for any addresses, references, options and    *)
(* contexts, and any number of copies and of open buffers: types, and whom *)
(* a reply goes to and in which thread it comes.  That the user does each  *)
(* thing once (Step) is a bound of the specification that no proof uses.   *)
(***************************************************************************)
EXTENDS
  Composing, SequenceTheorems, FiniteSetTheorems, FunctionTheorems,
  WellFoundedInduction, TLAPS

(* Some numbers have a least one, so that a CHOOSE picks it.              *)
LEMMA LeastExists ==
  ASSUME NEW S \in SUBSET Nat, S # {}
  PROVE  \E s \in S : \A t \in S : s <= t
<1>1. S \subseteq Nat
  OBVIOUS
<1>2. IsWellFoundedOn(OpToRel(<, Nat), Nat)
  BY NatLessThanWellFounded
<1>3. PICK s \in S : \A t \in S : <<t, s>> \notin OpToRel(<, Nat)
  BY <1>1, <1>2, WFMin
<1>4. ASSUME NEW t \in S PROVE s <= t
  <2>1. s \in Nat /\ t \in Nat
    BY <1>1
  <2>2. ~(t < s)
    BY <1>1, <1>3, Zenon DEF OpToRel
  <2> QED
    BY <2>1, <2>2
<1> QED
  BY <1>4

(* Those of them up to one *)
Upto(S, i) == {j \in S : j <= i}

(* Of some numbers each has a rank, and Nth gives the one of a rank.       *)
LEMMA RankFacts ==
  ASSUME NEW n \in Nat, NEW S \in SUBSET (1..n)
  PROVE  /\ IsFiniteSet(S) /\ Cardinality(S) \in Nat
         /\ \A i \in S : Cardinality(Upto(S, i)) \in 1..Cardinality(S)
         /\ \A i, j \in S : i < j => Cardinality(Upto(S, i)) < Cardinality(Upto(S, j))
         /\ \A k \in 1..Cardinality(S) :
              /\ Nth(S, k) \in S /\ Cardinality(Upto(S, Nth(S, k))) = k
              /\ \A i \in S : Cardinality(Upto(S, i)) = k => i = Nth(S, k)
<1>0. \A i \in S : i \in Nat
  <2>1. \A i \in 1..n : i \in Nat
    OBVIOUS
  <2> QED
    BY <2>1
<1>1. IsFiniteSet(1..n)
  BY FS_Interval
<1>2. IsFiniteSet(S) /\ Cardinality(S) \in Nat
  BY <1>1, FS_Subset, FS_CardinalityType
<1>3. \A i \in S : /\ Upto(S, i) \in SUBSET S /\ IsFiniteSet(Upto(S, i))
                   /\ Cardinality(Upto(S, i)) \in Nat
                   /\ Cardinality(Upto(S, i)) <= Cardinality(S) /\ i \in Upto(S, i)
  <2> SUFFICES ASSUME NEW i \in S
               PROVE  /\ Upto(S, i) \in SUBSET S /\ IsFiniteSet(Upto(S, i))
                      /\ Cardinality(Upto(S, i)) \in Nat
                      /\ Cardinality(Upto(S, i)) <= Cardinality(S) /\ i \in Upto(S, i)
    OBVIOUS
  <2>1. Upto(S, i) \in SUBSET S /\ i \in Upto(S, i)
    BY DEF Upto
  <2> QED
    BY <1>2, <2>1, FS_Subset, FS_CardinalityType
<1>4. \A i, j \in S : i < j => Cardinality(Upto(S, i)) < Cardinality(Upto(S, j))
  <2> SUFFICES ASSUME NEW i \in S, NEW j \in S, i < j
               PROVE  Cardinality(Upto(S, i)) < Cardinality(Upto(S, j))
    OBVIOUS
  <2>0. i \in Nat /\ j \in Nat
    BY <1>0
  <2>1. Upto(S, i) \in SUBSET Upto(S, j) /\ j \in Upto(S, j) /\ j \notin Upto(S, i)
    <3>1. ASSUME NEW k \in Upto(S, i) PROVE k \in Upto(S, j)
      <4>1. k \in S /\ k <= i /\ k \in Nat
        BY <1>0 DEF Upto
      <4> QED
        BY <2>0, <4>1 DEF Upto
    <3>2. j \in Upto(S, j) /\ j \notin Upto(S, i)
      BY <2>0 DEF Upto
    <3> QED
      BY <3>1, <3>2
  <2>2. /\ Cardinality(Upto(S, i)) <= Cardinality(Upto(S, j))
        /\ Cardinality(Upto(S, j)) # Cardinality(Upto(S, i))
    BY <1>3, <2>1, FS_Subset
  <2> QED
    BY <1>3, <2>2
<1>5. \A i \in S : Cardinality(Upto(S, i)) \in 1..Cardinality(S)
  <2> SUFFICES ASSUME NEW i \in S PROVE Cardinality(Upto(S, i)) \in 1..Cardinality(S)
    OBVIOUS
  <2>1. Cardinality(Upto(S, i)) # 0
    BY <1>3, FS_EmptySet
  <2> QED
    BY <1>2, <1>3, <2>1
<1> DEFINE rank == [i \in S |-> Cardinality(Upto(S, i))]
           m == Cardinality(S)
<1>6. rank \in Injection(S, 1..m)
  <2>1. rank \in [S -> 1..m]
    BY <1>5
  <2>2. \A i, j \in S : rank[i] = rank[j] => i = j
    <3> SUFFICES ASSUME NEW i \in S, NEW j \in S, rank[i] = rank[j], i # j PROVE FALSE
      OBVIOUS
    <3>1. i < j \/ j < i
      BY <1>0
    <3>2. rank[i] < rank[j] \/ rank[j] < rank[i]
      BY <1>4, <3>1
    <3>3. rank[i] \in Nat /\ rank[j] \in Nat
      BY <1>3
    <3> HIDE DEF rank
    <3> QED
      BY <3>2, <3>3
  <2> HIDE DEF rank
  <2> QED
    BY <2>1, <2>2, Fun_IsInj
<1>7. rank \in Surjection(S, 1..m)
  <2>1. IsFiniteSet(1..m) /\ Cardinality(1..m) = m
    <3>1. 1 \in Int /\ m \in Int /\ m >= 0
      BY <1>2
    <3>2. IsFiniteSet(1..m) /\ Cardinality(1..m) = IF 1 > m THEN 0 ELSE m - 1 + 1
      BY <3>1, FS_Interval
    <3> HIDE DEF m
    <3> QED
      BY <3>1, <3>2
  <2> HIDE DEF rank
  <2> QED
    BY <1>6, <2>1, FS_Injection
<1>8. \A k \in 1..m : \E i \in S : Cardinality(Upto(S, i)) = k
  <2>1. \A k \in 1..m : \E i \in S : rank[i] = k
    <3> HIDE DEF rank
    <3> QED
      BY <1>7, Fun_SurjectionProperties
  <2> QED
    BY <2>1
<1>9. ASSUME NEW k \in 1..m
      PROVE  /\ Nth(S, k) \in S /\ Cardinality(Upto(S, Nth(S, k))) = k
             /\ \A i \in S : Cardinality(Upto(S, i)) = k => i = Nth(S, k)
  <2>1. PICK i \in S : Cardinality(Upto(S, i)) = k
    BY <1>8
  <2>2. Nth(S, k) = CHOOSE j \in S : Cardinality(Upto(S, j)) = k
    BY DEF Nth, Upto
  <2>3. Nth(S, k) \in S /\ Cardinality(Upto(S, Nth(S, k))) = k
    BY <2>1, <2>2
  <2>4. ASSUME NEW j \in S, Cardinality(Upto(S, j)) = k PROVE j = Nth(S, k)
    <3>1. rank[j] = rank[Nth(S, k)]
      BY <2>3, <2>4
    <3> HIDE DEF rank
    <3> QED
      BY <1>6, <2>3, <3>1, Fun_InjectionProperties
  <2> QED
    BY <2>3, <2>4
<1> QED
  BY <1>2, <1>4, <1>5, <1>9

(* Those of a higher rank are greater.                                     *)
LEMMA NthIncreases ==
  ASSUME NEW n \in Nat, NEW S \in SUBSET (1..n),
         NEW k \in 1..Cardinality(S), NEW l \in 1..Cardinality(S), k < l
  PROVE  Nth(S, k) < Nth(S, l)
<1> DEFINE i == Nth(S, k)
           j == Nth(S, l)
<1>1. /\ Cardinality(S) \in Nat
      /\ i \in S /\ Cardinality(Upto(S, i)) = k /\ j \in S /\ Cardinality(Upto(S, j)) = l
  BY RankFacts
<1>2. j < i => Cardinality(Upto(S, j)) < Cardinality(Upto(S, i))
  <2> HIDE DEF i, j
  <2> QED
    BY <1>1, RankFacts
<1> HIDE DEF i, j
<1>3. i \in Nat /\ j \in Nat
  <2>1. \A h \in 1..n : h \in Nat
    OBVIOUS
  <2> QED
    BY <1>1, <2>1
<1>4. i # j /\ ~(j < i)
  BY <1>1, <1>2
<1>5. i < j
  BY <1>3, <1>4
<1> QED
  BY <1>5 DEF i, j


(* Some places of a sequence have a last one. *)
LEMMA GreatestExists ==
  ASSUME NEW n \in Nat, NEW S \in SUBSET (1..n), S # {}
  PROVE  \E s \in S : \A t \in S : t <= s
<1> DEFINE T == {n - s : s \in S}
<1>1. \A s \in S : s \in 1..n
  OBVIOUS
<1>2. \A s \in S : s \in Nat /\ s <= n /\ n - s \in Nat
  BY <1>1
<1>3. T \in SUBSET Nat /\ T # {}
  BY <1>2
<1>4. PICK k \in T : \A t \in T : k <= t
  <2> HIDE DEF T
  <2> QED
    BY <1>3, LeastExists
<1>5. PICK s \in S : k = n - s
  OBVIOUS
<1>6. ASSUME NEW t \in S PROVE t <= s
  <2>1. n - t \in T
    OBVIOUS
  <2>2. n - s <= n - t
    BY <1>4, <1>5, <2>1
  <2> QED
    BY <1>2, <2>2
<1> QED
  BY <1>6

(* What Picked gives: the items at the places, in their order. *)
LEMMA PickedFacts ==
  ASSUME NEW X, NEW s \in Seq(X), NEW I \in SUBSET DOMAIN s
  PROVE  /\ Picked(s, I) \in Seq(X)
         /\ Len(Picked(s, I)) = Cardinality(I) /\ Cardinality(I) \in Nat
         /\ \A k \in 1..Cardinality(I) :
              /\ Nth(I, k) \in I /\ Picked(s, I)[k] = s[Nth(I, k)]
              /\ \A l \in 1..Cardinality(I) : k < l => Nth(I, k) < Nth(I, l)
         /\ \A i \in I : \E k \in 1..Cardinality(I) : Nth(I, k) = i
<1> DEFINE m == Cardinality(I)
<1>1. /\ Len(s) \in Nat /\ I \in SUBSET (1..Len(s))
      /\ \A i \in I : i \in DOMAIN s /\ s[i] \in X
  BY LenProperties, ElementOfSeq
<1>2. /\ m \in Nat
      /\ \A i \in I : Cardinality(Upto(I, i)) \in 1..m
      /\ \A k \in 1..m : /\ Nth(I, k) \in I
                         /\ \A i \in I : Cardinality(Upto(I, i)) = k => i = Nth(I, k)
  BY <1>1, RankFacts
<1>3. \A k, l \in 1..m : k < l => Nth(I, k) < Nth(I, l)
  BY <1>1, NthIncreases
<1> HIDE DEF m
<1>4. \A i \in I : \E k \in 1..m : Nth(I, k) = i
  BY <1>2
<1>5. Picked(s, I) = [k \in 1..m |-> s[Nth(I, k)]]
  BY DEF Picked, m
<1>6. \A k \in 1..m : s[Nth(I, k)] \in X
  BY <1>1, <1>2
<1>7. Picked(s, I) \in Seq(X)
  BY <1>2, <1>5, <1>6
<1>8. Len(Picked(s, I)) = m
  BY <1>2, <1>5
<1> QED
  BY <1>2, <1>3, <1>4, <1>5, <1>7, <1>8 DEF m
(* A list in which no mailbox comes twice *)
Once(s) == \A i, j \in DOMAIN s : s[i][1] = s[j][1] => i = j

(* It has as many mailboxes as items. *)
LEMMA OnceUnique ==
  ASSUME NEW s \in Lists, Once(s)
  PROVE  Unique1(s)
<1> DEFINE f == [i \in 1..Len(s) |-> s[i][1]]
<1>1. Len(s) \in Nat /\ DOMAIN s = 1..Len(s)
  BY LenProperties DEF Lists
<1>2. f \in [1..Len(s) -> Mails(s)]
  BY <1>1 DEF Mails
<1>3. \A i, j \in 1..Len(s) : f[i] = f[j] => i = j
  BY <1>1 DEF Once
<1>4. \A x \in Mails(s) : \E i \in 1..Len(s) : f[i] = x
  BY <1>1 DEF Mails
<1> HIDE DEF f
<1>5. f \in Bijection(1..Len(s), Mails(s))
  BY <1>2, <1>3, <1>4, Fun_IsBij
<1>6. ExistsBijection(1..Len(s), Mails(s))
  BY <1>5 DEF ExistsBijection
<1> QED
  BY <1>1, <1>6, FS_CountingElements DEF Unique1

(* The mailboxes of the items at some places; there are no more when these *)
(* have different ones.                                                    *)
LEMMA PickedMails ==
  ASSUME NEW s \in Lists, NEW I \in SUBSET DOMAIN s
  PROVE  /\ Picked(s, I) \in Lists
         /\ Mails(Picked(s, I)) = {s[i][1] : i \in I}
         /\ (\A i, j \in I : s[i][1] = s[j][1] => i = j) => Once(Picked(s, I))
<1> DEFINE p == Picked(s, I)
           m == Cardinality(I)
<1>1. /\ p \in Lists /\ Len(p) = m /\ m \in Nat
      /\ \A k \in 1..m : Nth(I, k) \in I /\ p[k] = s[Nth(I, k)]
      /\ \A k, l \in 1..m : k < l => Nth(I, k) < Nth(I, l)
      /\ \A i \in I : \E k \in 1..m : Nth(I, k) = i
  BY PickedFacts DEF Lists
<1>2. Len(s) \in Nat /\ \A i \in I : i \in 1..Len(s)
  BY LenProperties DEF Lists
<1> HIDE DEF p, m
<1>3. DOMAIN p = 1..m
  BY <1>1, LenProperties DEF Lists
<1>4. Mails(p) = {s[i][1] : i \in I}
  <2>1. ASSUME NEW k \in DOMAIN p PROVE p[k][1] \in {s[i][1] : i \in I}
    BY <1>1, <1>3
  <2>2. ASSUME NEW i \in I PROVE \E k \in DOMAIN p : p[k][1] = s[i][1]
    BY <1>1, <1>3
  <2> QED
    BY <2>1, <2>2 DEF Mails
<1>5. ASSUME \A i, j \in I : s[i][1] = s[j][1] => i = j PROVE Once(p)
  <2> SUFFICES ASSUME NEW k \in 1..m, NEW l \in 1..m, p[k][1] = p[l][1], k # l PROVE FALSE
    BY <1>3 DEF Once
  <2>1. Nth(I, k) = Nth(I, l)
    BY <1>1, <1>5
  <2>2. k < l \/ l < k
    OBVIOUS
  <2>3. Nth(I, k) < Nth(I, l) \/ Nth(I, l) < Nth(I, k)
    BY <1>1, <2>2
  <2>4. Nth(I, k) \in Nat
    BY <1>1, <1>2
  <2> QED
    BY <2>1, <2>3, <2>4
<1> QED
  BY <1>1, <1>4, <1>5 DEF p

(* What is dropped is gone, and nothing else.                              *)
LEMMA DroppedFacts ==
  ASSUME NEW s \in Lists, NEW M
  PROVE  /\ Dropped(s, M) \in Lists
         /\ Mails(Dropped(s, M)) = Mails(s) \ M
         /\ Once(s) => Once(Dropped(s, M))
<1> DEFINE I == {i \in DOMAIN s : s[i][1] \notin M}
<1>1. /\ Dropped(s, M) \in Lists
      /\ Mails(Dropped(s, M)) = {s[i][1] : i \in I}
      /\ (\A i, j \in I : s[i][1] = s[j][1] => i = j) => Once(Dropped(s, M))
  BY PickedMails DEF Dropped
<1>2. {s[i][1] : i \in I} = Mails(s) \ M
  BY DEF Mails
<1> QED
  BY <1>1, <1>2 DEF Once

(* Of those with one mailbox the last stays.                               *)
LEMMA NoDoublesFacts ==
  ASSUME NEW s \in Lists
  PROVE  /\ NoDoubles(s, AddressCellEqual) \in Lists
         /\ Mails(NoDoubles(s, AddressCellEqual)) = Mails(s)
         /\ Once(NoDoubles(s, AddressCellEqual))
<1> DEFINE I == {i \in DOMAIN s : \A j \in DOMAIN s : j > i => s[i][1] # s[j][1]}
<1>1. NoDoubles(s, AddressCellEqual) = Picked(s, I)
  <2>1. DOMAIN s \ Doubles(s, AddressCellEqual) = I
    BY DEF Doubles, AddressCellEqual
  <2> QED
    BY <2>1 DEF NoDoubles
<1>2. Len(s) \in Nat /\ DOMAIN s = 1..Len(s)
  BY LenProperties DEF Lists
<1>3. /\ Picked(s, I) \in Lists /\ Mails(Picked(s, I)) = {s[i][1] : i \in I}
      /\ (\A i, j \in I : s[i][1] = s[j][1] => i = j) => Once(Picked(s, I))
  BY PickedMails
<1>4. ASSUME NEW i \in I, NEW j \in I, s[i][1] = s[j][1] PROVE i = j
  BY <1>2, <1>4
<1>5. ASSUME NEW i \in DOMAIN s PROVE s[i][1] \in {s[j][1] : j \in I}
  <2> DEFINE S == {j \in DOMAIN s : s[j][1] = s[i][1]}
  <2>1. PICK k \in S : \A j \in S : j <= k
    BY <1>2, GreatestExists
  <2>2. k \in I
    BY <1>2, <2>1
  <2> QED
    BY <2>1, <2>2
<1>6. {s[i][1] : i \in I} = Mails(s)
  BY <1>5 DEF Mails
<1> QED
  BY <1>1, <1>3, <1>4, <1>6

(* Lists one after another *)
LEMMA MailsConcat ==
  ASSUME NEW s \in Lists, NEW t \in Lists
  PROVE  s \o t \in Lists /\ Mails(s \o t) = Mails(s) \cup Mails(t)
<1>1. /\ s \o t \in Lists /\ Len(s \o t) = Len(s) + Len(t) /\ Len(s) \in Nat /\ Len(t) \in Nat
      /\ DOMAIN s = 1..Len(s) /\ DOMAIN t = 1..Len(t) /\ DOMAIN (s \o t) = 1..(Len(s) + Len(t))
      /\ \A i \in 1..(Len(s) + Len(t)) :
           (s \o t)[i] = IF i <= Len(s) THEN s[i] ELSE t[i - Len(s)]
  BY ConcatProperties, LenProperties DEF Lists
<1>2. ASSUME NEW i \in DOMAIN s PROVE s[i][1] \in Mails(s \o t)
  <2>1. i \in DOMAIN (s \o t) /\ (s \o t)[i] = s[i]
    BY <1>1
  <2> QED
    BY <2>1 DEF Mails
<1>3. ASSUME NEW i \in DOMAIN t PROVE t[i][1] \in Mails(s \o t)
  <2>1. Len(s) + i \in DOMAIN (s \o t) /\ (s \o t)[Len(s) + i] = t[i]
    BY <1>1
  <2> QED
    BY <2>1 DEF Mails
<1>4. ASSUME NEW i \in DOMAIN (s \o t) PROVE (s \o t)[i][1] \in Mails(s) \cup Mails(t)
  <2>1. CASE i <= Len(s)
    <3>1. i \in DOMAIN s /\ (s \o t)[i] = s[i]
      BY <1>1, <2>1
    <3> QED
      BY <3>1 DEF Mails
  <2>2. CASE ~(i <= Len(s))
    <3>1. i - Len(s) \in DOMAIN t /\ (s \o t)[i] = t[i - Len(s)]
      BY <1>1, <2>2
    <3> QED
      BY <3>1 DEF Mails
  <2> QED
    BY <2>1, <2>2
<1> QED
  BY <1>1, <1>2, <1>3, <1>4 DEF Mails

(* A list names nobody if, and only if, it is empty. *)
LEMMA MailsEmpty ==
  /\ <<>> \in Lists /\ Mails(<<>>) = {} /\ Once(<<>>)
  /\ \A s \in Lists : Mails(s) = {} => s = <<>>
<1>1. <<>> \in Lists /\ Mails(<<>>) = {} /\ Once(<<>>)
  BY DEF Lists, Mails, Once
<1>2. ASSUME NEW s \in Lists, Mails(s) = {} PROVE s = <<>>
  <2>1. Len(s) \in Nat /\ DOMAIN s = 1..Len(s)
    BY LenProperties DEF Lists
  <2>2. DOMAIN s = {}
    BY <1>2 DEF Mails
  <2>3. Len(s) = 0
    <3>1. Len(s) # 0 => 1 \in DOMAIN s
      BY <2>1
    <3> QED
      BY <2>2, <3>1
  <2> QED
    BY <2>3, EmptySeq DEF Lists
<1> QED
  BY <1>1, <1>2

(* Whom o says to answer *)
Answered(o) == IF o.replyTo # <<>> THEN Mails(o.replyTo) ELSE Mails(o.from)

(* Who is in To *)
LEMMA ToFacts ==
  ASSUME NEW o \in Messages, NEW opts \in Options
  PROVE  /\ CreateToLst(o, opts) \in Lists
         /\ Mails(CreateToLst(o, opts)) = IF opts.dontSelf THEN Answered(o) \ Mine ELSE Answered(o)
<1>1. o.replyTo \in Lists /\ o.from \in Lists
  BY DEF Messages
<1>2. opts.dontSelf \in BOOLEAN
  BY ComposingAssumption
<1> DEFINE lst == IF o.replyTo # <<>> THEN o.replyTo ELSE o.from
<1>3. lst \in Lists /\ Mails(lst) = Answered(o)
  BY <1>1 DEF Answered
<1>4. CreateToLst(o, opts) = IF opts.dontSelf THEN Dropped(lst, Mine) ELSE lst
  BY DEF CreateToLst
<1> HIDE DEF lst
<1>5. Dropped(lst, Mine) \in Lists /\ Mails(Dropped(lst, Mine)) = Mails(lst) \ Mine
  BY <1>3, DroppedFacts
<1> QED
  BY <1>2, <1>3, <1>4, <1>5

(* Who else has the message or is to have it *)
Others(o, includeFrom) ==
  Mails(o.to) \cup Mails(o.cc) \cup (IF includeFrom THEN Mails(o.from) ELSE {}) \cup Mails(o.listPost)

(* Who is in Cc *)
LEMMA CcFacts ==
  ASSUME NEW o \in Messages, NEW opts \in Options,
         NEW includeFrom \in BOOLEAN
  PROVE  LET to == Mails(CreateToLst(o, opts))
             cc == CreateCcLst(o, opts, TRUE, includeFrom)
         IN  /\ cc \in Lists /\ Once(cc)
             /\ Mails(cc) = ((Others(o, includeFrom) \ to) \ opts.ignore)
                            \ (IF opts.keepSelf THEN {} ELSE Mine)
<1>1. o.to \in Lists /\ o.cc \in Lists /\ o.from \in Lists /\ o.listPost \in Lists
  BY DEF Messages
<1>2. opts.keepSelf \in BOOLEAN
  BY ComposingAssumption
<1> DEFINE from == IF includeFrom THEN o.from ELSE <<>>
           all == o.to \o o.cc \o from \o o.listPost
           lst == NoDoubles(all, AddressCellEqual)
           to == Mails(CreateToLst(o, opts))
           rest == Dropped(lst, to)
           kept == Dropped(rest, opts.ignore)
           cc == IF opts.keepSelf THEN kept ELSE Dropped(kept, Mine)
<1>3. from \in Lists /\ Mails(from) = IF includeFrom THEN Mails(o.from) ELSE {}
  BY <1>1, MailsEmpty
<1>4. all \in Lists /\ Mails(all) = Others(o, includeFrom)
  <2> HIDE DEF from
  <2>1. o.to \o o.cc \in Lists /\ Mails(o.to \o o.cc) = Mails(o.to) \cup Mails(o.cc)
    BY <1>1, MailsConcat
  <2>2. /\ (o.to \o o.cc) \o from \in Lists
        /\ Mails((o.to \o o.cc) \o from) = Mails(o.to \o o.cc) \cup Mails(from)
    BY <1>3, <2>1, MailsConcat
  <2>3. all \in Lists /\ Mails(all) = Mails((o.to \o o.cc) \o from) \cup Mails(o.listPost)
    BY <1>1, <2>2, MailsConcat
  <2> HIDE DEF all
  <2> QED
    BY <1>3, <2>1, <2>2, <2>3 DEF Others
<1>5. CreateCcLst(o, opts, TRUE, includeFrom) = cc
  BY DEF CreateCcLst, StripIgnored
<1> HIDE DEF all
<1>6. lst \in Lists /\ Mails(lst) = Mails(all) /\ Once(lst)
  BY <1>4, NoDoublesFacts
<1> HIDE DEF lst, to
<1>7. rest \in Lists /\ Mails(rest) = Mails(lst) \ to /\ Once(rest)
  BY <1>6, DroppedFacts
<1> HIDE DEF rest
<1>8. kept \in Lists /\ Mails(kept) = Mails(rest) \ opts.ignore /\ Once(kept)
  BY <1>7, DroppedFacts
<1> HIDE DEF kept
<1>9. /\ Dropped(kept, Mine) \in Lists /\ Mails(Dropped(kept, Mine)) = Mails(kept) \ Mine
      /\ Once(Dropped(kept, Mine))
  BY <1>8, DroppedFacts
<1>10. /\ cc \in Lists /\ Once(cc)
       /\ Mails(cc) = Mails(kept) \ (IF opts.keepSelf THEN {} ELSE Mine)
  BY <1>2, <1>8, <1>9
<1> HIDE DEF cc
<1> QED
  BY <1>4, <1>5, <1>6, <1>7, <1>8, <1>10 DEF to

(* A reply goes to whom it should.                                         *)
LEMMA RecipientsReach ==
  ASSUME NEW o \in Messages, NEW opts \in Options,
         NEW r \in Recipients(o, opts)
  PROVE  r \in ToCcs /\ ReachesAll(r, o, opts)
<1> DEFINE to == CreateToLst(o, opts)
           cc == CreateCcLst(o, opts, TRUE, FALSE)
           ccl == CreateCcLst(o, opts, TRUE, TRUE)
<1>1. o.to \in Lists /\ o.cc \in Lists /\ o.from \in Lists /\ o.listPost \in Lists
  BY DEF Messages
<1>2. opts.keepSelf \in BOOLEAN /\ opts.dontSelf \in BOOLEAN
  BY ComposingAssumption
<1>3. /\ to \in Lists
      /\ Mails(to) = IF opts.dontSelf THEN Answered(o) \ Mine ELSE Answered(o)
  BY ToFacts
<1>4. /\ cc \in Lists /\ Unique1(cc)
      /\ Mails(cc) = ((Others(o, FALSE) \ Mails(to)) \ opts.ignore)
                     \ (IF opts.keepSelf THEN {} ELSE Mine)
  BY CcFacts, OnceUnique
<1>5. /\ ccl \in Lists /\ Unique1(ccl)
      /\ Mails(ccl) = ((Others(o, TRUE) \ Mails(to)) \ opts.ignore)
                     \ (IF opts.keepSelf THEN {} ELSE Mine)
  BY CcFacts, OnceUnique
<1>6. /\ <<>> \in Lists /\ Mails(<<>>) = {} /\ Unique1(<<>>)
      /\ \A s \in Lists : Mails(s) = {} => s = <<>>
  BY MailsEmpty, OnceUnique
<1>7. CASE o.listPost # <<>>
  <2>1. r \in {ToCc(to, ccl, "list-all"), ToCc(o.listPost, <<>>, "list-only"),
               ToCc(o.from, <<>>, "from-only")}
    BY <1>7 DEF Recipients, ReplyConstructRecipientsList
  <2> HIDE DEF to, ccl
  <2>2. CASE r = ToCc(to, ccl, "list-all")
    <3>1. r.to = to /\ r.cc = ccl /\ r.kind = "list-all" /\ r \in ToCcs
      BY <1>3, <1>5, <2>2 DEF ToCc, ToCcs
    <3> QED
      BY <1>2, <1>3, <1>5, <3>1 DEF ReachesAll, Answered, Others
  <2>3. CASE r = ToCc(o.listPost, <<>>, "list-only")
    <3>1. r.to = o.listPost /\ r.cc = <<>> /\ r.kind = "list-only" /\ r \in ToCcs
      BY <1>1, <1>6, <2>3 DEF ToCc, ToCcs
    <3> QED
      BY <1>6, <3>1 DEF ReachesAll
  <2>4. CASE r = ToCc(o.from, <<>>, "from-only")
    <3>1. r.to = o.from /\ r.cc = <<>> /\ r.kind = "from-only" /\ r \in ToCcs
      BY <1>1, <1>6, <2>4 DEF ToCc, ToCcs
    <3> QED
      BY <1>6, <3>1 DEF ReachesAll
  <2> QED
    BY <2>1, <2>2, <2>3, <2>4
<1>8. CASE o.listPost = <<>> /\ ContactFieldMatchesMe(o.from)
  <2>1. r = ToCc(o.to, o.cc, "self")
    BY <1>8 DEF Recipients, ReplyConstructRecipients
  <2>2. r.to = o.to /\ r.cc = o.cc /\ r.kind = "self" /\ r \in ToCcs
    BY <1>1, <2>1 DEF ToCc, ToCcs
  <2> QED
    BY <2>2 DEF ReachesAll
<1>9. CASE o.listPost = <<>> /\ ~ContactFieldMatchesMe(o.from)
  <2>1. PICK all \in BOOLEAN :
          r = LET c == CreateCcLst(o, opts, all, FALSE)
                  kind == IF all THEN "all" ELSE "sender"
              IN  IF to = <<>> THEN ToCc(c, <<>>, kind) ELSE ToCc(to, c, kind)
    BY <1>9 DEF Recipients, ReplyConstructRecipients, ReplyAllP
  <2>2. Others(o, FALSE) = Mails(o.to) \cup Mails(o.cc)
    BY <1>6, <1>9 DEF Others
  <2>3. CASE all /\ to = <<>>
    <3>1. r.to = cc /\ r.cc = <<>> /\ r.kind = "all" /\ r \in ToCcs
      <4> HIDE DEF to, cc
      <4>1. r = ToCc(CreateCcLst(o, opts, TRUE, FALSE), <<>>, "all")
        BY <2>1, <2>3
      <4> QED
        BY <1>4, <1>6, <4>1 DEF ToCc, ToCcs, cc
    <3> HIDE DEF to, cc
    <3> QED
      BY <1>2, <1>3, <1>4, <1>6, <2>2, <2>3, <3>1 DEF ReachesAll, Answered
  <2>4. CASE all /\ to # <<>>
    <3>1. r.to = to /\ r.cc = cc /\ r.kind = "all" /\ r \in ToCcs
      <4> HIDE DEF to, cc
      <4>1. r = ToCc(to, CreateCcLst(o, opts, TRUE, FALSE), "all")
        BY <2>1, <2>4
      <4> QED
        BY <1>3, <1>4, <1>6, <4>1 DEF ToCc, ToCcs, cc
    <3>2. Mails(to) # {}
      BY <1>3, <1>6, <2>4
    <3> HIDE DEF to, cc
    <3> QED
      BY <1>2, <1>3, <1>4, <1>6, <2>2, <2>4, <3>1, <3>2 DEF ReachesAll, Answered
  <2>5. CASE ~all
    <3>1. r.to = to /\ r.cc = <<>> /\ r.kind = "sender" /\ r \in ToCcs
      <4> HIDE DEF to
      <4>1. CreateCcLst(o, opts, all, FALSE) = <<>>
        BY <2>5 DEF CreateCcLst
      <4>2. r = ToCc(to, <<>>, "sender")
        BY <2>1, <2>5, <4>1
      <4> QED
        BY <1>3, <1>6, <4>2 DEF ToCc, ToCcs
    <3> HIDE DEF to
    <3> QED
      BY <1>2, <1>3, <1>6, <3>1 DEF ReachesAll, Answered
  <2> QED
    BY <2>3, <2>4, <2>5
<1> QED
  BY <1>7, <1>8, <1>9

(* What ReplyAsWanted says of the references of a message that answers or  *)
(* forwards o                                                              *)
RefsGood(refs, o) ==
  /\ refs # <<>> /\ Last(refs) = 0 /\ Len(refs) <= MaxRefs /\ IsInjective(refs)
  /\ Len(refs) > 1 =>
       \E i \in DOMAIN o.refs :
         /\ Head(refs) = o.refs[i] /\ o.refs[i] # 0
         /\ \A j \in 1..(i - 1) : o.refs[j] = 0

(* All of them, each once, before any are cut out                          *)
LEMMA AllReferences ==
  ASSUME NEW o \in Messages
  PROVE  LET refs == NoDoubles(Append(o.refs, 0), LAMBDA a, b : a = b)
         IN  /\ refs \in Seq(Int) /\ refs # <<>> /\ refs[Len(refs)] = 0 /\ IsInjective(refs)
             /\ Len(refs) > 1 =>
                  \E i \in DOMAIN o.refs :
                    /\ refs[1] = o.refs[i] /\ o.refs[i] # 0
                    /\ \A j \in 1..(i - 1) : o.refs[j] = 0
<1> DEFINE s == Append(o.refs, 0)
           n == Len(o.refs) + 1
           I == {i \in DOMAIN s : \A j \in DOMAIN s : j > i => s[i] # s[j]}
           refs == Picked(s, I)
           m == Cardinality(I)
<1>1. o.refs \in Seq(Int) /\ \A i, j \in DOMAIN o.refs : o.refs[i] = o.refs[j] => i = j
  BY DEF Messages, IsInjective
<1>2. /\ Len(o.refs) \in Nat /\ DOMAIN o.refs = 1..Len(o.refs)
      /\ s \in Seq(Int) /\ DOMAIN s = 1..n /\ s[n] = 0
      /\ \A i \in 1..Len(o.refs) : s[i] = o.refs[i]
  BY <1>1, AppendProperties, LenProperties
<1>3. NoDoubles(Append(o.refs, 0), LAMBDA a, b : a = b) = refs
  <2>1. DOMAIN s \ Doubles(s, LAMBDA a, b : a = b) = I
    BY DEF Doubles
  <2> HIDE DEF I
  <2> QED
    BY <2>1 DEF NoDoubles
<1> HIDE DEF s
<1>4. /\ refs \in Seq(Int) /\ Len(refs) = m /\ m \in Nat
      /\ \A k \in 1..m : Nth(I, k) \in I /\ refs[k] = s[Nth(I, k)]
      /\ \A k, l \in 1..m : k < l => Nth(I, k) < Nth(I, l)
      /\ \A i \in I : \E k \in 1..m : Nth(I, k) = i
  <2>1. I \in SUBSET DOMAIN s
    OBVIOUS
  <2> HIDE DEF I
  <2> QED
    BY <1>2, <2>1, PickedFacts
<1>5. n \in I
  BY <1>2
<1>6. \A i, j \in I : s[i] = s[j] => i = j
  BY <1>2
<1>7. \A i \in I : i \in 1..n /\ i \in Nat
  BY <1>2
<1>8. \A i \in 1..n : i \notin I => s[i] = 0
  <2> SUFFICES ASSUME NEW i \in 1..n, i \notin I PROVE s[i] = 0
    OBVIOUS
  <2>1. PICK j \in 1..n : j > i /\ s[i] = s[j]
    BY <1>2
  <2>2. CASE j = n
    BY <1>2, <2>1, <2>2
  <2>3. CASE j # n
    <3>1. i \in 1..Len(o.refs) /\ j \in 1..Len(o.refs)
      BY <1>2, <2>1, <2>3
    <3>2. o.refs[i] = o.refs[j]
      BY <1>2, <2>1, <3>1
    <3>3. i = j
      BY <1>1, <1>2, <3>1, <3>2
    <3> QED
      BY <1>2, <2>1, <3>3
  <2> QED
    BY <2>2, <2>3
<1>9. \A i \in I : i # n => s[i] # 0
  BY <1>2, <1>5, <1>6
<1> HIDE DEF I, refs, m
<1>10. PICK k \in 1..m : Nth(I, k) = n
  BY <1>4, <1>5
<1>11. k = m
  <2>1. k < m => n < Nth(I, m)
    BY <1>4, <1>10
  <2>2. m \in 1..m /\ Nth(I, m) \in I
    BY <1>4, <1>10
  <2>3. Nth(I, m) <= n /\ Nth(I, m) \in Nat
    BY <1>2, <1>7, <2>2
  <2> QED
    BY <1>2, <1>4, <1>10, <2>1, <2>3
<1>12. refs[m] = 0 /\ refs # <<>> /\ m >= 1
  <2>1. refs[m] = s[n] /\ m >= 1
    BY <1>4, <1>10, <1>11
  <2> QED
    BY <1>2, <1>4, <2>1
<1>13. IsInjective(refs)
  <2> SUFFICES ASSUME NEW a \in 1..m, NEW b \in 1..m, refs[a] = refs[b], a # b PROVE FALSE
    BY <1>4, LenProperties DEF IsInjective
  <2>1. Nth(I, a) = Nth(I, b)
    BY <1>4, <1>6
  <2>2. Nth(I, a) < Nth(I, b) \/ Nth(I, b) < Nth(I, a)
    BY <1>4
  <2>3. Nth(I, a) \in Nat
    BY <1>4, <1>7
  <2> QED
    BY <2>1, <2>2, <2>3
<1>14. ASSUME m > 1
       PROVE  \E i \in DOMAIN o.refs :
                /\ refs[1] = o.refs[i] /\ o.refs[i] # 0
                /\ \A j \in 1..(i - 1) : o.refs[j] = 0
  <2> DEFINE i == Nth(I, 1)
  <2>1. i \in I /\ refs[1] = s[i] /\ i < n /\ i \in 1..n /\ i \in Nat
    <3>1. 1 \in 1..m /\ 1 < m
      BY <1>4, <1>14
    <3>2. i \in I /\ refs[1] = s[i] /\ i < Nth(I, m)
      BY <1>4, <1>10, <1>11, <3>1
    <3> HIDE DEF i
    <3> QED
      BY <1>7, <1>10, <1>11, <3>2
  <2>2. \A j \in I : i <= j
    <3> SUFFICES ASSUME NEW j \in I PROVE i <= j
      OBVIOUS
    <3>1. PICK l \in 1..m : Nth(I, l) = j
      BY <1>4
    <3>2. l = 1 \/ 1 < l
      OBVIOUS
    <3>3. i = j \/ i < j
      BY <1>4, <1>14, <3>1, <3>2
    <3> HIDE DEF i
    <3> QED
      BY <1>7, <2>1, <3>3
  <2> HIDE DEF i
  <2>3. i \in 1..Len(o.refs) /\ s[i] = o.refs[i] /\ o.refs[i] # 0
    BY <1>2, <1>9, <2>1
  <2>4. ASSUME NEW j \in 1..(i - 1) PROVE o.refs[j] = 0
    <3>1. j \in 1..n /\ j \in 1..Len(o.refs) /\ ~(i <= j)
      BY <1>2, <2>1, <2>3
    <3>2. s[j] = 0
      BY <1>8, <2>2, <3>1
    <3> QED
      BY <1>2, <3>1, <3>2
  <2> QED
    BY <1>2, <2>1, <2>3, <2>4
<1> QED
  BY <1>3, <1>4, <1>12, <1>13, <1>14

(* When there are too many, the first and the last are left.               *)
LEMMA ReferencesGood ==
  ASSUME NEW o \in Messages
  PROVE  ReferencesConstruct(o) \in Seq(Int) /\ RefsGood(ReferencesConstruct(o), o)
<1> DEFINE all == NoDoubles(Append(o.refs, 0), LAMBDA a, b : a = b)
           surplus == Len(all) - MaxRefs
           rest == SubSeq(all, surplus + 2, Len(all))
           cut == <<all[1]>> \o rest
           First(refs) == Len(refs) > 1 =>
                  \E i \in DOMAIN o.refs :
                    /\ refs[1] = o.refs[i] /\ o.refs[i] # 0
                    /\ \A j \in 1..(i - 1) : o.refs[j] = 0
<1>1. /\ all \in Seq(Int) /\ all # <<>> /\ all[Len(all)] = 0 /\ IsInjective(all) /\ First(all)
  BY AllReferences
<1>2. MaxRefs \in Nat /\ MaxRefs >= 2
  BY ComposingAssumption
<1>3. ReferencesConstruct(o) = IF surplus > 0 THEN cut ELSE all
  BY DEF ReferencesConstruct
<1> HIDE DEF all
<1>4. /\ Len(all) \in Nat /\ DOMAIN all = 1..Len(all) /\ Len(all) >= 1
      /\ \A i \in 1..Len(all) : all[i] \in Int
  BY <1>1, LenProperties, EmptySeq, ElementOfSeq
<1>5. ASSUME NEW refs \in Seq(Int), refs # <<>>, refs[Len(refs)] = 0, Len(refs) <= MaxRefs,
             IsInjective(refs), First(refs)
      PROVE  RefsGood(refs, o)
  <2>1. Head(refs) = refs[1] /\ Last(refs) = refs[Len(refs)]
    BY <1>5 DEF Last
  <2> QED
    BY <1>5, <2>1 DEF RefsGood
<1>6. CASE ~(surplus > 0)
  <2>1. Len(all) <= MaxRefs
    BY <1>2, <1>4, <1>6
  <2>2. RefsGood(all, o)
    <3> HIDE DEF First
    <3> QED
      BY <1>1, <1>5, <2>1
  <2> QED
    BY <1>1, <1>3, <1>6, <2>2
<1>7. CASE surplus > 0
  <2>1. surplus \in Nat /\ surplus + 2 \in 1..Len(all) /\ surplus + 2 <= Len(all)
    BY <1>2, <1>4, <1>7
  <2>2. /\ rest \in Seq(Int) /\ Len(rest) = MaxRefs - 1
        /\ \A i \in 1..(MaxRefs - 1) : rest[i] = all[surplus + 1 + i]
    <3>0. surplus + 2 \in 1..(Len(all) + 1) /\ Len(all) \in 0..Len(all)
      BY <1>4, <2>1
    <3>1. /\ rest \in Seq(Int)
          /\ Len(rest) = IF surplus + 2 <= Len(all) THEN Len(all) - (surplus + 2) + 1 ELSE 0
          /\ \A i \in 1..(Len(all) - (surplus + 2) + 1) : rest[i] = all[surplus + 2 + i - 1]
      BY <1>1, <3>0, SubSeqProperties
    <3>2. Len(all) - (surplus + 2) + 1 = MaxRefs - 1
      BY <1>2, <1>4
    <3>3. \A i \in 1..(MaxRefs - 1) : surplus + 2 + i - 1 = surplus + 1 + i
      BY <1>2, <2>1
    <3> HIDE DEF rest, surplus
    <3> QED
      BY <2>1, <3>1, <3>2, <3>3
  <2> HIDE DEF rest
  <2>3. /\ cut \in Seq(Int) /\ Len(cut) = MaxRefs /\ cut[1] = all[1]
        /\ \A i \in 2..MaxRefs : cut[i] = all[surplus + i]
    <3>1. <<all[1]>> \in Seq(Int) /\ Len(<<all[1]>>) = 1 /\ <<all[1]>>[1] = all[1]
      BY <1>4
    <3> DEFINE one == <<all[1]>>
    <3> HIDE DEF one
    <3>2. /\ one \o rest \in Seq(Int) /\ Len(one \o rest) = Len(one) + Len(rest)
          /\ \A i \in 1..(Len(one) + Len(rest)) :
               (one \o rest)[i] = IF i <= Len(one) THEN one[i] ELSE rest[i - Len(one)]
      BY <2>2, <3>1, ConcatProperties DEF one
    <3>3. cut = one \o rest /\ Len(one) = 1 /\ one[1] = all[1]
      BY <3>1 DEF one
    <3> HIDE DEF cut
    <3>4. Len(cut) = MaxRefs /\ cut[1] = all[1]
      BY <1>2, <2>2, <3>2, <3>3
    <3>5. ASSUME NEW i \in 2..MaxRefs PROVE cut[i] = all[surplus + i]
      <4>1. cut[i] = rest[i - 1]
        BY <1>2, <2>2, <3>2, <3>3
      <4>2. i - 1 \in 1..(MaxRefs - 1) /\ surplus + 1 + (i - 1) = surplus + i
        BY <1>2, <2>1
      <4> HIDE DEF surplus
      <4> QED
        BY <2>2, <4>1, <4>2
    <3> QED
      BY <3>2, <3>3, <3>4, <3>5
  <2> HIDE DEF cut
  <2>4. cut[Len(cut)] = 0
    <3>1. MaxRefs \in 2..MaxRefs /\ surplus + MaxRefs = Len(all)
      BY <1>2, <1>4
    <3> HIDE DEF surplus
    <3> QED
      BY <1>1, <2>3, <3>1
  <2>5. IsInjective(cut)
    <3> DEFINE f == [i \in 1..MaxRefs |-> IF i = 1 THEN 1 ELSE surplus + i]
    <3>1. \A i \in 1..MaxRefs : f[i] \in 1..Len(all)
      BY <1>2, <1>4, <2>1
    <3>2. \A i, j \in 1..MaxRefs : f[i] = f[j] => i = j
      BY <1>2, <1>4, <2>1
    <3>3. \A i \in 1..MaxRefs : cut[i] = all[f[i]]
      BY <1>2, <2>3
    <3> HIDE DEF f, surplus
    <3>4. DOMAIN cut = 1..MaxRefs
      BY <2>3, LenProperties
    <3> QED
      BY <1>1, <1>4, <3>1, <3>2, <3>3, <3>4 DEF IsInjective
  <2>6. First(cut)
    <3>1. Len(all) > 1
      BY <1>2, <1>4, <1>7
    <3> HIDE DEF surplus
    <3> QED
      BY <1>1, <2>3, <3>1
  <2>7. cut # <<>> /\ Len(cut) <= MaxRefs
    BY <1>2, <2>3
  <2>8. RefsGood(cut, o)
    <3> HIDE DEF First
    <3> QED
      BY <1>5, <2>3, <2>4, <2>5, <2>6, <2>7
  <2> QED
    BY <1>3, <1>7, <2>3, <2>8
<1> QED
  BY <1>6, <1>7

Flags == {"D", "S", "N", "R", "P"}

(* f maps some members of K to members of V. *)
Maps(f, K, V) == DOMAIN f \subseteq K /\ f \in [DOMAIN f -> V]

(* What the changes of such a function have in common *)
LEMMA MapChanges ==
  ASSUME NEW K, NEW V, NEW f, Maps(f, K, V), NEW x \in K, NEW v \in V
  PROVE  /\ Maps(With(f, x, v), K, V) /\ DOMAIN With(f, x, v) = DOMAIN f \cup {x}
         /\ \A y \in DOMAIN f \cup {x} : With(f, x, v)[y] = IF y = x THEN v ELSE f[y]
         /\ Maps(Without(f, x), K, V) /\ DOMAIN Without(f, x) = DOMAIN f \ {x}
         /\ \A y \in DOMAIN f \ {x} : Without(f, x)[y] = f[y]
<1>1. Without(f, x) = [y \in DOMAIN f \ {x} |-> f[y]]
  BY DEF Without, Restrict
<1>2. With(f, x, v) = [y \in DOMAIN f \cup {x} |-> IF y = x THEN v ELSE f[y]]
  BY DEF With
<1> QED
  BY <1>1, <1>2 DEF Maps

(* The smallest id, and the smaller or greater of two numbers *)
LEMMA MinMaxFacts ==
  /\ \A S \in SUBSET Nat : S # {} => Min(S) \in S
  /\ \A a, b \in Int : Min({a, b}) \in {a, b} /\ Min({a, b}) <= a /\ Min({a, b}) <= b
  /\ \A a, b \in Int : Max({a, b}) \in {a, b} /\ Max({a, b}) >= a /\ Max({a, b}) >= b
<1>1. ASSUME NEW S \in SUBSET Nat, S # {} PROVE Min(S) \in S
  <2>1. \E s \in S : \A t \in S : s <= t
    BY <1>1, LeastExists
  <2> QED
    BY <2>1 DEF Min
<1>2. ASSUME NEW a \in Int, NEW b \in Int
      PROVE  Min({a, b}) \in {a, b} /\ Min({a, b}) <= a /\ Min({a, b}) <= b
  <2>1. \E s \in {a, b} : \A t \in {a, b} : s <= t
    <3>1. CASE a <= b
      BY <3>1
    <3>2. CASE b <= a
      BY <3>2
    <3> QED
      BY <3>1, <3>2
  <2>2. Min({a, b}) \in {a, b} /\ \A t \in {a, b} : Min({a, b}) <= t
    BY <2>1 DEF Min
  <2> QED
    BY <2>2
<1>3. ASSUME NEW a \in Int, NEW b \in Int
      PROVE  Max({a, b}) \in {a, b} /\ Max({a, b}) >= a /\ Max({a, b}) >= b
  <2>1. \E s \in {a, b} : \A t \in {a, b} : s >= t
    <3>1. CASE a >= b
      BY <3>1
    <3>2. CASE b >= a
      BY <3>2
    <3> QED
      BY <3>1, <3>2
  <2>2. Max({a, b}) \in {a, b} /\ \A t \in {a, b} : Max({a, b}) >= t
    BY <2>1 DEF Max
  <2> QED
    BY <2>2
<1> QED
  BY <1>1, <1>2, <1>3

(* The types of what goes through the pipe, and of paths                   *)
LEMMA PartTypes ==
  /\ \A kind \in {"inbox", "archive", "drafts", "sent", "trash"}, c \in Contexts \cup {Nil} :
       Folder(kind, c) \in Folders
  /\ \A folder \in Folders, name \in Int, flags \in SUBSET Flags : Path(folder, name, flags) \in Paths
  /\ \A path \in Paths : ProcAdd(path) \in Cmds /\ ProcSent(path) \in Cmds
  /\ \A i \in Nat : ProcRemove(i) \in Cmds
  /\ \A i \in Nat, type \in Types : ProcCompose(type, i) \in Cmds
  /\ \A i \in Nat \cup {Nil}, msgid \in Msgids, folder \in Folders \cup {Nil},
        delta \in {"+R-N", "+P-N", "-N", "none"} : ProcMove(i, msgid, folder, delta) \in Cmds
<1>1. \A kind \in {"inbox", "archive", "drafts", "sent", "trash"}, c \in Contexts \cup {Nil} :
       Folder(kind, c) \in Folders
  BY DEF Folder, Folders
<1>2. \A folder \in Folders, name \in Int, flags \in SUBSET Flags : Path(folder, name, flags) \in Paths
  BY DEF Path, Paths, Flags
<1>3. \A path \in Paths : ProcAdd(path) \in Cmds /\ ProcSent(path) \in Cmds
  BY DEF ProcAdd, ProcSent, Cmds
<1>4. \A i \in Nat : ProcRemove(i) \in Cmds
  BY DEF ProcRemove, Cmds
<1>5. \A i \in Nat, type \in Types : ProcCompose(type, i) \in Cmds
  BY DEF ProcCompose, Cmds
<1>6. \A i \in Nat \cup {Nil}, msgid \in Msgids, folder \in Folders \cup {Nil},
        delta \in {"+R-N", "+P-N", "-N", "none"} : ProcMove(i, msgid, folder, delta) \in Cmds
  BY DEF ProcMove, Cmds
<1> QED
  BY <1>1, <1>2, <1>3, <1>4, <1>5, <1>6

(* The types of what drafts start with                                     *)
LEMMA HeadTypes ==
  ASSUME NEW o \in Messages
  PROVE  /\ OriginalHead(o) \in Heads /\ Empty \in Heads /\ NewmsgConstruct \in Heads
         /\ ForwardConstruct(o) \in Heads /\ ReplyConstruct(o) \subseteq Heads
<1>1. /\ Nil \in Msgids /\ 0 \in Msgids /\ <<>> \in Seq(Int) /\ <<>> \in Seq(Paths)
      /\ Nobody \in ToCcs /\ Nil \in Options \cup {Nil}
  BY MailsEmpty DEF Msgids, Nobody, ToCc, ToCcs
<1>2. \A wish \in Wishes, refs \in Seq(Int), reply \in Msgids, r \in ToCcs,
        opts \in Options \cup {Nil} : Head1(wish, refs, reply, r, opts) \in Heads
  BY <1>1 DEF Head1, Heads
<1>3. o.refs \in Seq(Int) /\ o.reply \in Msgids /\ ReferencesConstruct(o) \in Seq(Int)
  BY ReferencesGood DEF Messages, Msgids
<1>4. Empty \in Heads /\ NewmsgConstruct \in Heads /\ ForwardConstruct(o) \in Heads
  BY <1>1, <1>2, <1>3 DEF Empty, NewmsgConstruct, ForwardConstruct, Wishes
<1>5. OriginalHead(o) \in Heads
  <2> DEFINE h == Head1("original", o.refs, o.reply, Nobody, Nil)
  <2>1. h \in Heads
    BY <1>1, <1>2, <1>3 DEF Wishes
  <2>2. OriginalHead(o) = [h EXCEPT !.msgid = 0]
    BY DEF OriginalHead
  <2> HIDE DEF h
  <2> QED
    BY <1>1, <2>1, <2>2 DEF Heads
<1>6. ASSUME NEW h \in ReplyConstruct(o) PROVE h \in Heads
  <2>1. PICK opts \in Options : \E r \in Recipients(o, opts) :
          h = Head1("reply", ReferencesConstruct(o), 0, r, opts)
    BY DEF ReplyConstruct
  <2>2. PICK r \in Recipients(o, opts) : h = Head1("reply", ReferencesConstruct(o), 0, r, opts)
    BY <2>1
  <2>3. r \in ToCcs
    BY RecipientsReach
  <2> QED
    BY <1>1, <1>2, <1>3, <2>2, <2>3 DEF Wishes
<1> QED
  BY <1>4, <1>5, <1>6

(* The types, as the steps use them                                        *)
LEMMA TypeParts ==
  ASSUME TypeOK
  PROVE  /\ Maps(disk, Paths, Heads) /\ Maps(docs, Nat, Docs) /\ Maps(buffers, Paths, Drafts)
         /\ \A p \in DOMAIN disk : p \in Paths /\ disk[p] \in Heads
         /\ \A i \in DOMAIN docs : i \in Nat /\ docs[i].path \in Paths /\ docs[i].msgid \in Msgids
         /\ \A p \in DOMAIN buffers : p \in Paths /\ buffers[p] \in Drafts
                                       /\ buffers[p].head \in Heads
<1>1. Maps(disk, Paths, Heads) /\ Maps(docs, Nat, Docs) /\ Maps(buffers, Paths, Drafts)
  BY DEF TypeOK, Maps
<1>2. \A i \in DOMAIN docs : docs[i] \in Docs
  BY <1>1 DEF Maps
<1>3. \A p \in DOMAIN buffers : buffers[p] \in Drafts
  BY <1>1 DEF Maps
<1> QED
  BY <1>1, <1>2, <1>3 DEF Maps, Docs, Drafts

(* The document that add makes *)
LEMMA AddType ==
  ASSUME TypeOK, NEW path \in DOMAIN disk
  PROVE  /\ AddedId(path) \in Nat
         /\ Added(path) => Maps(docs', Nat, Docs) /\ lastId' \in Nat
<1>1. With1(path) \in SUBSET Nat
  BY TypeParts DEF With1
<1>2. AddedId(path) \in Nat
  <2>1. lastId + 1 \in Nat
    BY DEF TypeOK
  <2>2. With1(path) # {} => Min(With1(path)) \in Nat
    BY <1>1, MinMaxFacts
  <2> QED
    BY <2>1, <2>2 DEF AddedId
<1>3. ASSUME Added(path) PROVE Maps(docs', Nat, Docs) /\ lastId' \in Nat
  <2> DEFINE d == [path |-> path, msgid |-> disk[path].msgid]
  <2>1. path \in Paths /\ disk[path].msgid \in Msgids
    BY TypeParts DEF Heads
  <2>2. d \in Docs
    BY <2>1 DEF Docs
  <2>3. docs' = With(docs, AddedId(path), d) /\ lastId' = Max({lastId, AddedId(path)})
    BY <1>3 DEF Added
  <2> HIDE DEF d
  <2>4. Maps(docs', Nat, Docs)
    BY <1>2, <2>2, <2>3, TypeParts, MapChanges
  <2>5. lastId \in Nat
    BY DEF TypeOK
  <2>6. lastId \in Int /\ AddedId(path) \in Int
    BY <1>2, <2>5
  <2>7. Max({lastId, AddedId(path)}) \in {lastId, AddedId(path)}
    BY <2>6, MinMaxFacts, Zenon
  <2> QED
    BY <1>2, <2>3, <2>4, <2>5, <2>7
<1> QED
  BY <1>2, <1>3

(* A moved file keeps the kind of its path                                 *)
LEMMA TargetType ==
  ASSUME NEW path \in Paths, NEW c \in Cmds, c.cmd = "move"
  PROVE  Target(path, c) \in Paths
<1>1. /\ c.folder \in Folders \cup {Nil} /\ c.delta \in {"+R-N", "+P-N", "-N", "none"}
  BY DEF Cmds
<1>2. path.folder \in Folders /\ path.name \in Int /\ path.flags \in SUBSET Flags
  BY DEF Paths, Flags
<1>3. Changed(path.flags, c.delta) \in SUBSET Flags
  BY <1>1, <1>2 DEF Changed, Flags
<1>4. (IF c.folder = Nil THEN path.folder ELSE c.folder) \in Folders
  BY <1>1, <1>2
<1> QED
  BY <1>2, <1>3, <1>4, PartTypes DEF Target

(* What is on disk after a move was there before, at another path perhaps. *)
LEMMA MoveFacts ==
  ASSUME TypeOK, NEW c \in Cmds, c.cmd = "move", MoveHandler(c)
  PROVE  /\ Maps(docs', Nat, Docs) /\ DOMAIN disk' \subseteq Paths
         /\ disk' = [p \in DOMAIN disk' |-> disk'[p]]
         /\ \A p \in DOMAIN disk' : \E q \in DOMAIN disk : disk'[p] = disk[q]
         /\ UNCHANGED <<lastId, replies>>
<1> DEFINE D == DeterminedDocids(c)
           ids == {i \in D : \A j \in D : j <= i => docs[j].path \in DOMAIN disk}
           several == Cardinality(D) > 1
           moved == IF several /\ c.folder # Nil THEN {} ELSE ids
           old == {docs[i].path : i \in moved}
           new == {Target(p, c) : p \in old}
           From(p) == {q \in old : Target(q, c) = p}
           Source(p) == CHOOSE q \in From(p) : q # p \/ From(p) = {p}
<1>1. /\ docs' = [i \in DOMAIN docs |->
                    IF i \in moved THEN [docs[i] EXCEPT !.path = Target(@, c)] ELSE docs[i]]
      /\ disk' = [p \in (DOMAIN disk \ old) \cup new |->
                    IF p \in new THEN disk[Source(p)] ELSE disk[p]]
      /\ UNCHANGED <<lastId, replies>>
  BY DEF MoveHandler
<1>2. D \subseteq DOMAIN docs
  BY DEF DeterminedDocids
<1>3. \A i \in ids : i \in DOMAIN docs /\ docs[i].path \in DOMAIN disk
  <2> SUFFICES ASSUME NEW i \in ids PROVE i \in DOMAIN docs /\ docs[i].path \in DOMAIN disk
    OBVIOUS
  <2>1. i \in D /\ i \in DOMAIN docs
    BY <1>2
  <2>2. i \in Nat /\ i <= i
    BY <2>1, TypeParts
  <2> QED
    BY <2>1, <2>2
<1> HIDE DEF D, several
<1>4. \A i \in moved : i \in DOMAIN docs /\ docs[i].path \in DOMAIN disk
  <2> HIDE DEF ids
  <2> QED
    BY <1>3
<1> HIDE DEF moved
<1>5. old \subseteq DOMAIN disk
  BY <1>4
<1> HIDE DEF old
<1>6. \A p \in Paths : Target(p, c) \in Paths
  BY TargetType
<1>7. new \subseteq Paths
  BY <1>5, <1>6, TypeParts
<1>8. \A p \in new : Source(p) \in old
  <2> SUFFICES ASSUME NEW p \in new PROVE Source(p) \in old
    OBVIOUS
  <2>1. PICK q \in old : Target(q, c) = p
    OBVIOUS
  <2>2. q \in From(p)
    BY <2>1
  <2> HIDE DEF From
  <2>3. \E r \in From(p) : r # p \/ From(p) = {p}
    <3>1. CASE \E r \in From(p) : r # p
      BY <3>1
    <3>2. CASE ~ \E r \in From(p) : r # p
      <4>1. From(p) = {p}
        BY <2>2, <3>2
      <4> QED
        BY <2>2, <4>1
    <3> QED
      BY <3>1, <3>2
  <2>4. Source(p) \in From(p)
    BY <2>3
  <2> QED
    BY <2>4 DEF From
<1> HIDE DEF Source, new
<1>9. DOMAIN disk' = (DOMAIN disk \ old) \cup new /\ disk' = [p \in DOMAIN disk' |-> disk'[p]]
  BY <1>1
<1>10. \A p \in DOMAIN disk' : \E q \in DOMAIN disk : disk'[p] = disk[q]
  <2> SUFFICES ASSUME NEW p \in DOMAIN disk' PROVE \E q \in DOMAIN disk : disk'[p] = disk[q]
    OBVIOUS
  <2>1. CASE p \in new
    BY <1>1, <1>5, <1>8, <2>1
  <2>2. CASE p \notin new
    BY <1>1, <1>9, <2>2
  <2> QED
    BY <2>1, <2>2
<1>11. DOMAIN disk' \subseteq Paths
  BY <1>7, <1>9, TypeParts
<1>12. Maps(docs', Nat, Docs)
  <2>1. DOMAIN docs' = DOMAIN docs
    BY <1>1
  <2>2. \A i \in DOMAIN docs : docs[i] \in Docs
    BY TypeParts DEF Maps
  <2>3. \A d \in Docs : [d EXCEPT !.path = Target(@, c)] \in Docs
    BY <1>6 DEF Docs
  <2>4. \A i \in DOMAIN docs : docs'[i] \in Docs
    BY <1>1, <2>2, <2>3
  <2>5. docs' = [i \in DOMAIN docs' |-> docs'[i]]
    BY <1>1
  <2> QED
    BY <2>1, <2>4, <2>5, TypeParts DEF Maps
<1> QED
  BY <1>1, <1>9, <1>10, <1>11, <1>12

(* What the server does leaves the files what they were, or removes some.  *)
LEMMA ServeFacts ==
  ASSUME TypeOK, Serve
  PROVE  /\ Maps(docs', Nat, Docs) /\ lastId' \in Nat /\ replies' \in Seq(Answers)
         /\ pipe' \in Seq(Cmds)
         /\ DOMAIN disk' \subseteq Paths /\ disk' = [p \in DOMAIN disk' |-> disk'[p]]
         /\ \A p \in DOMAIN disk' : \E q \in DOMAIN disk : disk'[p] = disk[q]
         /\ UNCHANGED <<original, context, buffers, handlers, names, steps, sent>>
<1> DEFINE c == Head(pipe)
<1>1. /\ pipe \in Seq(Cmds) /\ pipe # <<>> /\ replies \in Seq(Answers) /\ lastId \in Nat
  BY DEF TypeOK, Serve
<1>2. c \in Cmds /\ pipe' \in Seq(Cmds)
  BY <1>1, HeadTailProperties DEF Serve
<1>3. c.cmd \in {"add", "sent", "remove", "compose", "move"}
  BY <1>2 DEF Cmds
<1>4. /\ c.cmd = "add" => AddHandler(c)
      /\ c.cmd = "sent" => SentHandler(c)
      /\ c.cmd = "remove" => RemoveHandler(c)
      /\ c.cmd = "compose" => ComposeHandler(c)
      /\ c.cmd = "move" => MoveHandler(c)
      /\ UNCHANGED <<original, context, buffers, handlers, names, steps, sent>>
  BY DEF Serve
<1> HIDE DEF c
<1>5. /\ DOMAIN disk \subseteq Paths /\ disk = [p \in DOMAIN disk |-> disk[p]]
      /\ Maps(docs, Nat, Docs)
  BY TypeParts DEF Maps
<1>6. CASE c.cmd = "add"
  <2>1. disk' = disk /\ replies' = replies
    BY <1>4, <1>6 DEF AddHandler
  <2>2. c.path \in DOMAIN disk => Added(c.path)
    BY <1>4, <1>6 DEF AddHandler
  <2>3. c.path \notin DOMAIN disk => UNCHANGED <<docs, lastId>>
    BY <1>4, <1>6 DEF AddHandler
  <2>4. Maps(docs', Nat, Docs) /\ lastId' \in Nat
    <3>1. CASE c.path \in DOMAIN disk
      BY <2>2, <3>1, AddType
    <3>2. CASE c.path \notin DOMAIN disk
      BY <1>1, <1>5, <2>3, <3>2
    <3> QED
      BY <3>1, <3>2
  <2> QED
    BY <1>1, <1>2, <1>4, <1>5, <2>1, <2>4
<1>7. CASE c.cmd = "sent"
  <2>1. disk' = disk
    BY <1>4, <1>7 DEF SentHandler
  <2>2. CASE c.path \in DOMAIN disk
    <3>1. /\ Added(c.path)
          /\ replies' = Append(replies, [is |-> "sent", path |-> c.path, docid |-> AddedId(c.path)])
      BY <1>4, <1>7, <2>2 DEF SentHandler
    <3>2. Maps(docs', Nat, Docs) /\ lastId' \in Nat /\ AddedId(c.path) \in Nat
      BY <2>2, <3>1, AddType
    <3>3. [is |-> "sent", path |-> c.path, docid |-> AddedId(c.path)] \in Answers
      BY <2>2, <3>2, TypeParts DEF Answers
    <3>4. replies' \in Seq(Answers)
      BY <1>1, <3>1, <3>3, AppendProperties
    <3> QED
      BY <1>2, <1>4, <1>5, <2>1, <3>2, <3>4
  <2>3. CASE c.path \notin DOMAIN disk
    <3>1. UNCHANGED <<docs, lastId, replies>>
      BY <1>4, <1>7, <2>3 DEF SentHandler
    <3> QED
      BY <1>1, <1>2, <1>4, <1>5, <2>1, <3>1
  <2> QED
    BY <2>2, <2>3
<1>8. CASE c.cmd = "remove"
  <2>1. UNCHANGED <<lastId, replies>>
    BY <1>4, <1>8 DEF RemoveHandler
  <2>2. CASE c.docid \in DOMAIN docs
    <3> DEFINE path == docs[c.docid].path
               S == DOMAIN docs \ With1(path)
    <3>1. disk' = Without(disk, path) /\ docs' = Restrict(docs, S)
      BY <1>4, <1>8, <2>2 DEF RemoveHandler
    <3> HIDE DEF path
    <3>2. disk' = [p \in DOMAIN disk \ {path} |-> disk[p]] /\ docs' = [i \in S |-> docs[i]]
      BY <3>1 DEF Without, Restrict
    <3>3. /\ DOMAIN disk' \subseteq Paths /\ disk' = [p \in DOMAIN disk' |-> disk'[p]]
          /\ \A p \in DOMAIN disk' : \E q \in DOMAIN disk : disk'[p] = disk[q]
      BY <1>5, <3>2
    <3>4. Maps(docs', Nat, Docs)
      BY <1>5, <3>2 DEF Maps
    <3> QED
      BY <1>1, <1>2, <1>4, <2>1, <3>3, <3>4
  <2>3. CASE c.docid \notin DOMAIN docs
    <3>1. UNCHANGED <<disk, docs>>
      BY <1>4, <1>8, <2>3 DEF RemoveHandler
    <3> QED
      BY <1>1, <1>2, <1>4, <1>5, <2>1, <3>1
  <2> QED
    BY <2>2, <2>3
<1>9. CASE c.cmd = "compose"
  <2>1. UNCHANGED <<disk, docs, lastId>>
    BY <1>4, <1>9 DEF ComposeHandler, world
  <2>2. c.type \in Types /\ c.docid \in Nat
    BY <1>2, <1>9 DEF Cmds
  <2>3. replies' \in Seq(Answers)
    <3>1. CASE c.docid \in DOMAIN docs
      <4>1. replies' = Append(replies, [is |-> "compose", type |-> c.type, path |-> docs[c.docid].path])
        BY <1>4, <1>9, <3>1 DEF ComposeHandler
      <4>2. [is |-> "compose", type |-> c.type, path |-> docs[c.docid].path] \in Answers
        BY <2>2, <3>1, TypeParts DEF Answers
      <4> QED
        BY <1>1, <4>1, <4>2, AppendProperties
    <3>2. CASE c.docid \notin DOMAIN docs
      BY <1>1, <1>4, <1>9, <3>2 DEF ComposeHandler
    <3> QED
      BY <3>1, <3>2
  <2> QED
    BY <1>1, <1>2, <1>4, <1>5, <2>1, <2>3
<1>10. CASE c.cmd = "move"
  <2>1. MoveHandler(c)
    BY <1>4, <1>10
  <2> QED
    BY <1>1, <1>2, <1>4, <1>10, <2>1, MoveFacts
<1> QED
  BY <1>3, <1>6, <1>7, <1>8, <1>9, <1>10

(* What is true of a message in a draft, on disk, or sent, when o is what  *)
(* it answers                                                              *)
HeadGood(h, o) ==
  /\ h.wish = "reply" => h.reply = 0 /\ ReachesAll(h.recipients, o, h.opts)
  /\ h.wish \in {"forward", "detached", "new"} => h.reply = Nil
  /\ h.wish \in {"reply", "forward"} => RefsGood(h.refs, o)

(* What a buffer was opened for says what the message in it can be.        *)
DraftGood(b, o) ==
  /\ HeadGood(b.head, o)
  /\ b.type = "reply" => b.head.wish \in {"reply", "detached"}
  /\ b.type = "forward" => b.head.wish = "forward"
  /\ b.type = "resend" => b.head.wish = "resend"
  /\ b.type = "new" => b.head.wish = "new" /\ b.head.refs = <<>>

OutGood(m, o) ==
  /\ HeadGood(m.head, o)
  /\ m.head.wish \in {"detached", "new"} /\ m.type # "edit" => m.head.refs = <<>>

GoodHeads(o)    == {h \in Heads : HeadGood(h, o)}
GoodDrafts(o)   == {b \in Drafts : DraftGood(b, o)}
GoodOutgoing(o) == {m \in Outgoing : OutGood(m, o)}

(* The invariant                                                           *)
DraftInv ==
  /\ original \in Messages /\ context \in Contexts
  /\ Maps(disk, Paths, GoodHeads(original)) /\ Maps(docs, Nat, Docs)
  /\ Maps(buffers, Paths, GoodDrafts(original)) /\ sent \subseteq GoodOutgoing(original)
  /\ lastId \in Nat /\ handlers \in Nat /\ names \in Nat
  /\ pipe \in Seq(Cmds) /\ replies \in Seq(Answers)

(* What the invariant says of each message gives the types. *)
LEMMA InvType == DraftInv => TypeOK
<1> SUFFICES ASSUME DraftInv PROVE TypeOK
  OBVIOUS
<1>1. GoodHeads(original) \subseteq Heads /\ GoodDrafts(original) \subseteq Drafts
      /\ GoodOutgoing(original) \subseteq Outgoing
  BY DEF GoodHeads, GoodDrafts, GoodOutgoing
<1>2. Maps(disk, Paths, Heads) /\ Maps(buffers, Paths, Drafts) /\ sent \subseteq Outgoing
  BY <1>1 DEF DraftInv, Maps
<1> QED
  BY <1>2 DEF TypeOK, DraftInv, Maps

(* What the invariant says of each message is what its wish asks for. *)
LEMMA InvWanted == DraftInv => ReplyAsWanted
<1> SUFFICES ASSUME DraftInv PROVE ReplyAsWanted
  OBVIOUS
<1>1. ASSUME NEW p \in DOMAIN buffers
      PROVE  LET head == buffers[p].head
             IN  /\ head.wish = "reply" => ReachesAll(head.recipients, original, head.opts)
                 /\ head.wish \in {"reply", "forward"} => RefsGood(head.refs, original)
  <2>1. buffers[p] \in GoodDrafts(original)
    BY DEF DraftInv, Maps
  <2> QED
    BY <2>1 DEF GoodDrafts, DraftGood, HeadGood
<1>2. ASSUME NEW m \in sent
      PROVE  LET head == m.head
             IN  CASE head.wish = "reply" -> head.reply = 0 /\ Last(head.refs) = 0
                   [] head.wish = "forward" -> head.reply = Nil /\ Last(head.refs) = 0
                   [] head.wish \in {"detached", "new"} ->
                        head.reply = Nil /\ (m.type # "edit" => head.refs = <<>>)
                   [] OTHER -> TRUE
  <2>1. m \in GoodOutgoing(original)
    BY DEF DraftInv
  <2>2. OutGood(m, original)
    BY <2>1 DEF GoodOutgoing
  <2> QED
    BY <2>2 DEF OutGood, HeadGood, RefsGood
<1> QED
  BY <1>1, <1>2 DEF ReplyAsWanted, RefsGood

(* What drafts start with is good.                                         *)
LEMMA HeadsGood ==
  ASSUME NEW o \in Messages
  PROVE  /\ OriginalHead(o) \in GoodHeads(o) /\ Empty \in GoodHeads(o)
         /\ NewmsgConstruct \in GoodHeads(o)
         /\ NewmsgConstruct.wish = "new" /\ NewmsgConstruct.refs = <<>>
         /\ ForwardConstruct(o) \in GoodHeads(o) /\ ForwardConstruct(o).wish = "forward"
         /\ \A h \in ReplyConstruct(o) : h \in GoodHeads(o) /\ h.wish = "reply"
<1>1. /\ OriginalHead(o) \in Heads /\ Empty \in Heads /\ NewmsgConstruct \in Heads
      /\ ForwardConstruct(o) \in Heads /\ ReplyConstruct(o) \subseteq Heads
  BY HeadTypes
<1>2. OriginalHead(o).wish = "original" /\ Empty.wish = "edit"
  BY DEF OriginalHead, Empty, Head1
<1>3. /\ NewmsgConstruct.wish = "new" /\ NewmsgConstruct.refs = <<>> /\ NewmsgConstruct.reply = Nil
  BY DEF NewmsgConstruct, Head1
<1>4. /\ ForwardConstruct(o).wish = "forward" /\ ForwardConstruct(o).reply = Nil
      /\ RefsGood(ForwardConstruct(o).refs, o)
  BY ReferencesGood DEF ForwardConstruct, Head1
<1>5. ASSUME NEW h \in ReplyConstruct(o) PROVE h \in GoodHeads(o) /\ h.wish = "reply"
  <2>1. PICK opts \in Options : \E r \in Recipients(o, opts) :
          h = Head1("reply", ReferencesConstruct(o), 0, r, opts)
    BY DEF ReplyConstruct
  <2>2. PICK r \in Recipients(o, opts) : h = Head1("reply", ReferencesConstruct(o), 0, r, opts)
    BY <2>1
  <2>3. /\ h.wish = "reply" /\ h.reply = 0 /\ h.recipients = r /\ h.opts = opts
        /\ h.refs = ReferencesConstruct(o)
    BY <2>2 DEF Head1
  <2>4. ReachesAll(h.recipients, o, h.opts) /\ RefsGood(h.refs, o)
    BY <2>3, RecipientsReach, ReferencesGood
  <2> QED
    BY <1>1, <2>3, <2>4 DEF GoodHeads, HeadGood
<1> QED
  BY <1>1, <1>2, <1>3, <1>4, <1>5 DEF GoodHeads, HeadGood

(* Its message-id and where it is to be filed do not matter.               *)
LEMMA HeadKept ==
  ASSUME NEW o, NEW h \in GoodHeads(o)
  PROVE  /\ \A n \in Msgids : [h EXCEPT !.msgid = n] \in GoodHeads(o)
         /\ \A f \in Seq(Paths) : [h EXCEPT !.fccs = f] \in GoodHeads(o)
         /\ [h EXCEPT !.wish = "resend"] \in GoodHeads(o)
         /\ [h EXCEPT !.wish = "resend"].wish = "resend"
<1>1. h \in Heads /\ HeadGood(h, o)
  BY DEF GoodHeads
<1>2. ASSUME NEW n \in Msgids PROVE [h EXCEPT !.msgid = n] \in GoodHeads(o)
  <2> DEFINE g == [h EXCEPT !.msgid = n]
  <2>1. /\ g \in Heads /\ g.wish = h.wish /\ g.reply = h.reply /\ g.refs = h.refs
        /\ g.recipients = h.recipients /\ g.opts = h.opts
    BY <1>1 DEF Heads
  <2> HIDE DEF g
  <2> QED
    BY <1>1, <2>1 DEF GoodHeads, HeadGood, g
<1>3. ASSUME NEW f \in Seq(Paths) PROVE [h EXCEPT !.fccs = f] \in GoodHeads(o)
  <2> DEFINE g == [h EXCEPT !.fccs = f]
  <2>1. /\ g \in Heads /\ g.wish = h.wish /\ g.reply = h.reply /\ g.refs = h.refs
        /\ g.recipients = h.recipients /\ g.opts = h.opts
    BY <1>1 DEF Heads
  <2> HIDE DEF g
  <2> QED
    BY <1>1, <2>1 DEF GoodHeads, HeadGood, g
<1>4. [h EXCEPT !.wish = "resend"] \in GoodHeads(o) /\ [h EXCEPT !.wish = "resend"].wish = "resend"
  <2> DEFINE g == [h EXCEPT !.wish = "resend"]
  <2>1. g \in Heads /\ g.wish = "resend"
    BY <1>1 DEF Heads, Wishes
  <2> HIDE DEF g
  <2> QED
    BY <2>1 DEF GoodHeads, HeadGood, g
<1> QED
  BY <1>2, <1>3, <1>4

(* A buffer that is opened                                                 *)
LEMMA BufferGood ==
  ASSUME NEW o, NEW h \in GoodHeads(o), NEW type \in Types \cup {"new"},
         NEW parent \in {"none", "original", "draft"},
         type = "reply" => h.wish \in {"reply", "detached"},
         type = "forward" => h.wish = "forward", type = "resend" => h.wish = "resend",
         type = "new" => h.wish = "new" /\ h.refs = <<>>
  PROVE  Buffer(type, parent, h) \in GoodDrafts(o)
<1> DEFINE s == \E k \in DOMAIN pipe : pipe[k].cmd = "move" /\ pipe[k].msgid = h.msgid
           b == [type |-> type, parent |-> parent, head |-> h, stale |-> s]
<1>1. s \in BOOLEAN
  BY Zenon
<1> HIDE DEF s
<1>2. Buffer(type, parent, h) = b
  BY DEF Buffer, s
<1>3. h \in Heads /\ HeadGood(h, o)
  BY DEF GoodHeads
<1>4. b \in Drafts /\ b.type = type /\ b.head = h
  BY <1>1, <1>3 DEF Drafts
<1> HIDE DEF b
<1> QED
  BY <1>2, <1>3, <1>4 DEF GoodDrafts, DraftGood

(* What the steps of the invariant use of it                               *)
LEMMA InvParts ==
  ASSUME DraftInv
  PROVE  /\ \A p \in DOMAIN disk : p \in Paths /\ disk[p] \in GoodHeads(original)
         /\ \A p \in DOMAIN buffers :
              /\ p \in Paths /\ buffers[p] \in GoodDrafts(original)
              /\ buffers[p].head \in GoodHeads(original) /\ buffers[p].type \in Types \cup {"new"}
         /\ \A i \in DOMAIN docs : i \in Nat /\ docs[i].path \in Paths
<1>1. \A p \in DOMAIN disk : p \in Paths /\ disk[p] \in GoodHeads(original)
  BY DEF DraftInv, Maps
<1>2. \A p \in DOMAIN buffers : p \in Paths /\ buffers[p] \in GoodDrafts(original)
  BY DEF DraftInv, Maps
<1>3. \A i \in DOMAIN docs : i \in Nat /\ docs[i] \in Docs
  BY DEF DraftInv, Maps
<1>4. \A b \in GoodDrafts(original) : b.head \in GoodHeads(original) /\ b.type \in Types \cup {"new"}
  BY DEF GoodDrafts, GoodHeads, DraftGood, Drafts
<1> QED
  BY <1>1, <1>2, <1>3, <1>4 DEF Docs

(* Commands that are sent join the pipe.                                   *)
LEMMA CallsType ==
  ASSUME DraftInv, NEW cs \in Seq(Cmds), Calls(cs)
  PROVE  pipe' \in Seq(Cmds)
BY ConcatProperties DEF DraftInv, Calls

(* The paths of new drafts and of copies                                   *)
LEMMA NewPaths ==
  ASSUME DraftInv
  PROVE  /\ \A c \in Contexts : NewDraft(c) \in Paths
         /\ Determined(original) \subseteq Contexts
         /\ \A path \in Paths : [path EXCEPT !.name = names + 1, !.flags = {"D", "S"}] \in Paths
         /\ \A path \in Paths, c \in Contexts :
              [path EXCEPT !.folder = Folder("drafts", c)] \in Paths
<1>1. names + 1 \in Int /\ names \in Nat
  BY DEF DraftInv
<1>2. \A c \in Contexts : Folder("drafts", c) \in Folders
  BY PartTypes
<1>3. {"D", "S"} \in SUBSET Flags
  BY DEF Flags
<1>4. \A c \in Contexts : NewDraft(c) \in Paths
  BY <1>1, <1>2, <1>3, PartTypes DEF NewDraft
<1>5. Determined(original) \subseteq Contexts
  BY DEF Determined, DraftInv, Messages
<1>6. \A path \in Paths : [path EXCEPT !.name = names + 1, !.flags = {"D", "S"}] \in Paths
  BY <1>1, <1>3 DEF Paths, Flags
<1>7. \A path \in Paths, c \in Contexts : [path EXCEPT !.folder = Folder("drafts", c)] \in Paths
  BY <1>2 DEF Paths
<1> QED
  BY <1>4, <1>5, <1>6, <1>7

(* A buffer that visits a file has what was there, in a buffer or on disk. *)
LEMMA VisitedGood ==
  ASSUME DraftInv, NEW path
  PROVE  Visited(path) \in GoodHeads(original)
<1>1. Empty \in GoodHeads(original)
  BY HeadsGood DEF DraftInv
<1> QED
  BY <1>1, InvParts DEF Visited

(* Save gives a message its message-id.                                    *)
LEMMA SavedGood ==
  ASSUME NEW o, NEW path \in Paths, NEW h \in GoodHeads(o)
  PROVE  /\ Saved(path, h) \in GoodHeads(o) /\ Saved(path, h).msgid \in Msgids
         /\ Saved(path, h).wish = h.wish /\ Saved(path, h).refs = h.refs
<1>1. h \in Heads /\ path.name \in Msgids
  BY DEF GoodHeads, Paths, Msgids
<1>2. [h EXCEPT !.msgid = path.name] \in GoodHeads(o)
  BY <1>1, HeadKept
<1>3. /\ [h EXCEPT !.msgid = path.name].wish = h.wish /\ [h EXCEPT !.msgid = path.name].refs = h.refs
      /\ [h EXCEPT !.msgid = path.name].msgid = path.name
  BY <1>1 DEF Heads
<1>4. h.msgid \in Msgids
  BY <1>1 DEF Heads
<1> QED
  BY <1>1, <1>2, <1>3, <1>4 DEF Saved

(* A draft that is opened, for a reply or something else                   *)
LEMMA OpenStep ==
  ASSUME DraftInv, NEW r \in Answers, r.is = "compose", DraftOpen(r),
         UNCHANGED <<original, docs, lastId, pipe, handlers>>, replies' \in Seq(Answers)
  PROVE  DraftInv'
<1>1. r.type \in Types /\ r.path \in Paths
  BY DEF Answers
<1>2. /\ original \in Messages /\ names + 1 \in Nat /\ names \in Nat
      /\ Maps(disk, Paths, GoodHeads(original)) /\ Maps(buffers, Paths, GoodDrafts(original))
      /\ sent \subseteq GoodOutgoing(original)
  BY DEF DraftInv
<1>3. ASSUME NEW type \in {"reply", "forward"}, NEW c \in Contexts,
             NEW head \in GoodHeads(original), head.wish = type, Opened(type, c, head)
      PROVE  DraftInv'
  <2> DEFINE b == Buffer(type, "original", head)
  <2>1. b \in GoodDrafts(original)
    BY <1>3, BufferGood DEF Types
  <2>2. /\ context' = c /\ buffers' = With(buffers, NewDraft(c), b) /\ names' = names + 1
        /\ UNCHANGED <<disk, sent>>
    BY <1>3 DEF Opened
  <2> HIDE DEF b
  <2>3. Maps(buffers', Paths, GoodDrafts(original))
    BY <1>2, <2>1, <2>2, NewPaths, MapChanges
  <2> QED
    BY <1>2, <2>2, <2>3 DEF DraftInv
<1>4. CASE r.type = "reply"
  <2>1. PICK c \in Determined(original), head \in ReplyConstruct(original) : Opened("reply", c, head)
    BY <1>4 DEF DraftOpen
  <2>2. c \in Contexts /\ head \in GoodHeads(original) /\ head.wish = "reply"
    BY <1>2, NewPaths, HeadsGood
  <2> QED
    BY <1>3, <2>1, <2>2
<1>5. CASE r.type = "forward"
  <2>1. PICK c \in Determined(original) : Opened("forward", c, ForwardConstruct(original))
    BY <1>5 DEF DraftOpen
  <2>2. /\ c \in Contexts /\ ForwardConstruct(original) \in GoodHeads(original)
        /\ ForwardConstruct(original).wish = "forward"
    BY <1>2, NewPaths, HeadsGood
  <2> QED
    BY <1>3, <2>1, <2>2
<1>6. CASE r.type = "resend"
  <2> DEFINE draft == [r.path EXCEPT !.name = names + 1, !.flags = {"D", "S"}]
             head == [disk[r.path] EXCEPT !.wish = "resend"]
             b == Buffer("resend", "original", head)
  <2>1. OpenResent(r.path)
    BY <1>6 DEF DraftOpen
  <2>2. context' \in Contexts /\ sent' = sent
    BY <2>1, NewPaths DEF OpenResent
  <2>3. CASE r.path \in DOMAIN disk
    <3>1. /\ disk' = With(disk, draft, head) /\ buffers' = With(buffers, draft, b)
          /\ names' = names + 1
      BY <2>1, <2>3 DEF OpenResent
    <3>2. draft \in Paths
      BY <1>1, NewPaths
    <3>3. head \in GoodHeads(original) /\ head.wish = "resend"
      BY <2>3, InvParts, HeadKept
    <3> HIDE DEF head, draft
    <3>4. b \in GoodDrafts(original)
      BY <3>3, BufferGood DEF Types
    <3> HIDE DEF b
    <3>5. Maps(disk', Paths, GoodHeads(original)) /\ Maps(buffers', Paths, GoodDrafts(original))
      BY <1>2, <3>1, <3>2, <3>3, <3>4, MapChanges
    <3> QED
      BY <1>2, <2>2, <3>1, <3>5 DEF DraftInv
  <2>4. CASE r.path \notin DOMAIN disk
    <3>1. UNCHANGED <<disk, buffers, names>>
      BY <2>1, <2>4 DEF OpenResent
    <3> QED
      BY <1>2, <2>2, <3>1 DEF DraftInv
  <2> QED
    BY <2>3, <2>4
<1>7. CASE r.type = "edit"
  <2> DEFINE head == Visited(r.path)
             b == Buffer("edit", "draft", head)
  <2>1. OpenEdited(r.path)
    BY <1>7 DEF DraftOpen
  <2>2. /\ buffers' = With(buffers, r.path, b) /\ context' \in Contexts /\ UNCHANGED <<disk, names>>
        /\ sent' = {[m EXCEPT !.late = @ \/ m.path = r.path] : m \in sent}
    BY <2>1 DEF OpenEdited
  <2>3. head \in GoodHeads(original)
    BY VisitedGood
  <2> HIDE DEF head
  <2>4. b \in GoodDrafts(original)
    BY <2>3, BufferGood DEF Types
  <2> HIDE DEF b
  <2>5. Maps(buffers', Paths, GoodDrafts(original))
    BY <1>1, <1>2, <2>2, <2>4, MapChanges
  <2>6. ASSUME NEW m \in sent PROVE [m EXCEPT !.late = @ \/ m.path = r.path] \in GoodOutgoing(original)
    <3> DEFINE late == m.late \/ m.path = r.path
               n == [m EXCEPT !.late = late]
    <3>1. m \in Outgoing /\ OutGood(m, original)
      BY <1>2 DEF GoodOutgoing
    <3>2. late \in BOOLEAN
      BY Zenon
    <3>3. [m EXCEPT !.late = @ \/ m.path = r.path] = n
      BY Zenon
    <3> HIDE DEF late
    <3>4. n \in Outgoing /\ n.head = m.head /\ n.type = m.type
      BY <3>1, <3>2 DEF Outgoing
    <3> HIDE DEF n
    <3> QED
      BY <3>1, <3>3, <3>4 DEF GoodOutgoing, OutGood
  <2>7. sent' \subseteq GoodOutgoing(original)
    BY <2>2, <2>6
  <2> QED
    BY <1>2, <2>2, <2>5, <2>7 DEF DraftInv
<1> QED
  BY <1>1, <1>4, <1>5, <1>6, <1>7 DEF Types

(* The flag for the message that was answered                              *)
LEMMA ParentFlagType ==
  ASSUME DraftInv, NEW path
  PROVE  SetParentFlag(path) \in Seq(Cmds)
<1> DEFINE head == Visited(path)
<1>1. head \in Heads
  BY VisitedGood DEF GoodHeads
<1> HIDE DEF head
<1>2. head.reply \in Msgids /\ head.refs \in Seq(Int)
  BY <1>1 DEF Heads
<1>3. head.refs # <<>> => ForwardedFrom(head.refs) \in Msgids
  <2> SUFFICES ASSUME head.refs # <<>> PROVE ForwardedFrom(head.refs) \in Msgids
    OBVIOUS
  <2>1. Len(head.refs) \in DOMAIN head.refs
    BY <1>2, LenProperties, EmptySeq
  <2> QED
    BY <1>2, <2>1, ElementOfSeq DEF ForwardedFrom, Last, Msgids
<1>4. ASSUME NEW msgid \in Msgids, NEW delta \in {"+R-N", "+P-N"}
      PROVE  <<ProcMove(Nil, msgid, Nil, delta)>> \in Seq(Cmds)
  <2>1. ProcMove(Nil, msgid, Nil, delta) \in Cmds
    BY PartTypes
  <2> QED
    BY <2>1
<1>5. <<>> \in Seq(Cmds)
  OBVIOUS
<1> QED
  BY <1>2, <1>3, <1>4, <1>5 DEF SetParentFlag, head

(* An answer opens a buffer, flags the parent of a message just sent, or changes
   nothing here (mu4e~proc-filter). *)
LEMMA EvaluateStep ==
  ASSUME DraftInv, Evaluate
  PROVE  DraftInv'
<1> DEFINE r == Head(replies)
<1>1. /\ r \in Answers /\ replies' \in Seq(Answers)
      /\ UNCHANGED <<original, docs, lastId, handlers, steps>>
  BY HeadTailProperties DEF Evaluate, DraftInv
<1>2. (r.is = "compose" /\ DraftOpen(r) /\ UNCHANGED pipe) \/ (r.is = "sent" /\ Sent(r))
  BY DEF Evaluate
<1> HIDE DEF r
<1>3. CASE r.is = "compose" /\ DraftOpen(r) /\ UNCHANGED pipe
  BY <1>1, <1>3, OpenStep
<1>4. CASE r.is = "sent" /\ Sent(r)
  <2> DEFINE remove == IF r.path \in DOMAIN disk THEN <<ProcRemove(r.docid)>> ELSE <<>>
             cs == SetParentFlag(r.path) \o remove
  <2>1. /\ Calls(cs) /\ buffers' = Without(buffers, r.path)
        /\ UNCHANGED <<context, disk, names, sent>>
    BY <1>4 DEF Sent
  <2>2. r.path \in Paths /\ r.docid \in Nat
    BY <1>1, <1>4 DEF Answers
  <2>3. remove \in Seq(Cmds)
    BY <2>2, PartTypes
  <2> HIDE DEF remove
  <2>4. cs \in Seq(Cmds)
    BY <2>3, ParentFlagType, ConcatProperties
  <2> HIDE DEF cs
  <2>5. pipe' \in Seq(Cmds)
    BY <2>1, <2>4, CallsType
  <2>6. Maps(buffers', Paths, GoodDrafts(original))
    BY <2>1 DEF DraftInv, Maps, Without, Restrict
  <2> QED
    BY <1>1, <2>1, <2>5, <2>6 DEF DraftInv
<1> QED
  BY <1>2, <1>3, <1>4

(* A command moves, renames or removes files of the disk, and answers; it changes
   no head. *)
LEMMA ServeStep ==
  ASSUME DraftInv, Serve
  PROVE  DraftInv'
<1>1. /\ Maps(docs', Nat, Docs) /\ lastId' \in Nat /\ replies' \in Seq(Answers)
      /\ pipe' \in Seq(Cmds)
      /\ DOMAIN disk' \subseteq Paths /\ disk' = [p \in DOMAIN disk' |-> disk'[p]]
      /\ \A p \in DOMAIN disk' : \E q \in DOMAIN disk : disk'[p] = disk[q]
      /\ UNCHANGED <<original, context, buffers, handlers, names, steps, sent>>
  BY InvType, ServeFacts
<1>2. \A p \in DOMAIN disk' : disk'[p] \in GoodHeads(original)
  BY <1>1, InvParts
<1>3. Maps(disk', Paths, GoodHeads(original))
  BY <1>1, <1>2 DEF Maps
<1> QED
  BY <1>1, <1>3 DEF DraftInv

(* A new message is a good draft: its wish asks for nothing. *)
LEMMA NewStep ==
  ASSUME DraftInv, ComposeNew
  PROVE  DraftInv'
<1> DEFINE b == Buffer("new", "none", NewmsgConstruct)
<1>1. PICK c \in Contexts :
        context' = c /\ buffers' = With(buffers, NewDraft(c), b)
  BY DEF ComposeNew
<1>2. names' = names + 1 /\ UNCHANGED <<original, disk, docs, lastId, pipe, replies, handlers, sent>>
  BY DEF ComposeNew
<1>3. original \in Messages /\ names' \in Nat /\ Maps(buffers, Paths, GoodDrafts(original))
  BY <1>2 DEF DraftInv
<1>4. b \in GoodDrafts(original)
  BY <1>3, HeadsGood, BufferGood
<1> HIDE DEF b
<1>5. Maps(buffers', Paths, GoodDrafts(original))
  BY <1>1, <1>3, <1>4, NewPaths, MapChanges
<1> QED
  BY <1>1, <1>2, <1>3, <1>5 DEF DraftInv

(* What only sends commands                                                *)
LEMMA AskStep ==
  ASSUME DraftInv, NEW i \in DOMAIN docs,
         RefileIt(i) \/ \E type \in Types : Compose(type, i)
  PROVE  DraftInv'
<1>1. UNCHANGED <<original, context, disk, docs, lastId, replies, buffers, handlers, names, sent>>
  BY DEF RefileIt, Compose
<1>2. i \in Nat
  BY InvParts
<1>3. CASE RefileIt(i)
  <2> DEFINE c == ProcMove(i, Nil, Folder("archive", Nil), "-N")
  <2>1. c \in Cmds
    <3>1. Folder("archive", Nil) \in Folders /\ Nil \in Msgids
      BY PartTypes DEF Msgids
    <3> QED
      BY <1>2, <3>1, PartTypes
  <2>2. Calls(<<c>>)
    BY <1>3 DEF RefileIt
  <2> HIDE DEF c
  <2>3. <<c>> \in Seq(Cmds)
    BY <2>1
  <2>4. pipe' \in Seq(Cmds)
    BY <2>2, <2>3, CallsType
  <2> QED
    BY <1>1, <2>4 DEF DraftInv
<1>4. ASSUME NEW type \in Types, Compose(type, i) PROVE DraftInv'
  <2> DEFINE c == ProcCompose(type, i)
  <2>1. c \in Cmds
    BY <1>2, PartTypes
  <2>2. Calls(<<c>>)
    BY <1>4 DEF Compose
  <2> HIDE DEF c
  <2>3. <<c>> \in Seq(Cmds)
    BY <2>1
  <2>4. pipe' \in Seq(Cmds)
    BY <2>2, <2>3, CallsType
  <2> QED
    BY <1>1, <2>4 DEF DraftInv
<1> QED
  BY <1>3, <1>4

(* A message in a buffer is replaced by one of the same kind.              *)
LEMMA HeadReplaced ==
  ASSUME DraftInv, NEW path \in DOMAIN buffers, NEW h \in GoodHeads(original),
         h.wish = buffers[path].head.wish, h.refs = buffers[path].head.refs,
         NEW new, new = [buffers EXCEPT ![path].head = h]
  PROVE  Maps(new, Paths, GoodDrafts(original))
<1> DEFINE b == buffers[path]
           d == [b EXCEPT !.head = h]
<1>1. b \in Drafts /\ DraftGood(b, original) /\ h \in Heads /\ HeadGood(h, original)
  BY InvParts DEF GoodDrafts, GoodHeads
<1>2. d \in Drafts /\ d.type = b.type /\ d.head = h
  BY <1>1 DEF Drafts
<1>3. h.wish = b.head.wish /\ h.refs = b.head.refs
  OBVIOUS
<1>4. new = [buffers EXCEPT ![path] = d]
  OBVIOUS
<1> HIDE DEF b, d
<1>5. d \in GoodDrafts(original)
  BY <1>1, <1>2, <1>3 DEF GoodDrafts, DraftGood
<1> QED
  BY <1>4, <1>5 DEF DraftInv, Maps

(* Saving gives a head a name, and leaves what its wish is about. *)
LEMMA SaveStep ==
  ASSUME DraftInv, NEW path \in DOMAIN buffers, Save(path)
  PROVE  DraftInv'
<1> DEFINE head == Saved(path, buffers[path].head)
<1>1. /\ disk' = With(disk, path, head) /\ buffers' = [buffers EXCEPT ![path].head = head]
      /\ Calls(<<ProcAdd(path)>>)
      /\ UNCHANGED <<original, context, docs, lastId, replies, handlers, names, sent>>
  BY DEF Save
<1>2. /\ path \in Paths /\ head \in GoodHeads(original)
      /\ head.wish = buffers[path].head.wish /\ head.refs = buffers[path].head.refs
  BY InvParts, SavedGood
<1> HIDE DEF head
<1>3. Maps(buffers', Paths, GoodDrafts(original))
  BY <1>1, <1>2, HeadReplaced
<1>4. Maps(disk', Paths, GoodHeads(original))
  BY <1>1, <1>2, MapChanges DEF DraftInv
<1>5. <<ProcAdd(path)>> \in Seq(Cmds)
  BY <1>2, PartTypes
<1>6. pipe' \in Seq(Cmds)
  BY <1>1, <1>5, CallsType
<1> QED
  BY <1>1, <1>3, <1>4, <1>6 DEF DraftInv

(* The user takes a draft from its thread: the wish goes with the header. *)
LEMMA DetachStep ==
  ASSUME DraftInv, NEW path \in DOMAIN buffers, Detach(path)
  PROVE  DraftInv'
<1> DEFINE b == buffers[path]
           wish == IF b.head.wish = "reply" THEN "detached" ELSE b.head.wish
           h == [b.head EXCEPT !.reply = Nil, !.wish = wish]
           d == [b EXCEPT !.head = h]
<1>1. /\ b.head.reply # Nil
      /\ buffers' = [buffers EXCEPT ![path].head.reply = Nil,
                                   ![path].head.wish = IF @ = "reply" THEN "detached" ELSE @]
      /\ UNCHANGED <<original, context, disk, docs, lastId, pipe, replies, handlers, names, sent>>
  BY DEF Detach
<1>2. /\ b \in Drafts /\ DraftGood(b, original) /\ b.head \in Heads /\ HeadGood(b.head, original)
  BY InvParts DEF GoodDrafts, GoodHeads
<1>3. buffers' = [buffers EXCEPT ![path] = d]
  BY <1>1, <1>2 DEF Drafts, Heads
<1>4. /\ h \in Heads /\ h.reply = Nil /\ h.wish = wish /\ h.refs = b.head.refs
  BY <1>2 DEF Heads, Wishes, Msgids
<1>5. /\ wish # "reply" /\ wish \notin {"forward", "new"}
      /\ b.type = "reply" => wish = "detached"
      /\ b.type \notin {"new", "forward"} /\ (b.type = "resend" => wish = "resend")
  BY <1>1, <1>2 DEF DraftGood, HeadGood
<1> HIDE DEF h, wish
<1>6. d \in Drafts /\ d.type = b.type /\ d.head = h
  BY <1>2, <1>4 DEF Drafts
<1> HIDE DEF b, d
<1>7. d \in GoodDrafts(original)
  BY <1>4, <1>5, <1>6 DEF GoodDrafts, DraftGood, HeadGood
<1>8. Maps(buffers', Paths, GoodDrafts(original))
  BY <1>3, <1>7 DEF DraftInv, Maps
<1> QED
  BY <1>1, <1>8 DEF DraftInv

(* Killing a buffer leaves the others as they are. *)
LEMMA KillStep ==
  ASSUME DraftInv, NEW path \in DOMAIN buffers, KillBuffer(path)
  PROVE  DraftInv'
<1>1. /\ buffers' = Without(buffers, path)
      /\ UNCHANGED <<original, context, disk, docs, lastId, pipe, replies, handlers, names, sent>>
  BY DEF KillBuffer
<1>2. Maps(buffers', Paths, GoodDrafts(original))
  BY <1>1 DEF DraftInv, Maps, Without, Restrict
<1> QED
  BY <1>1, <1>2 DEF DraftInv

(* The copies that are filed, and what the server is told of them          *)
LEMMA FccTypes ==
  ASSUME DraftInv, NEW b, b \in GoodDrafts(original),
         NEW behavior \in Behaviors
  PROVE  /\ Fcc(b, behavior) \in Seq(Paths)
         /\ \A fccs \in Seq(Paths), nested \in Nat : FccCalls(fccs, nested) \in Seq(Cmds)
<1>1. Fcc(b, behavior) \in Seq(Paths)
  <2>1. CASE behavior = "delete"
    BY <2>1 DEF Fcc
  <2>2. CASE behavior # "delete"
    <3>1. Within(Parent(b)) \in Contexts \cup {Nil}
      BY DEF Within, Parent, NoMatch, DraftInv, Messages
    <3>2. Folder(behavior, Within(Parent(b))) \in Folders
      BY <2>2, <3>1, PartTypes, ComposingAssumption
    <3>3. names + 1 \in Int /\ {"S"} \in SUBSET Flags
      BY DEF DraftInv, Flags
    <3> DEFINE p == Path(Folder(behavior, Within(Parent(b))), names + 1, {"S"})
    <3>4. p \in Paths
      BY <3>2, <3>3, PartTypes
    <3>5. Fcc(b, behavior) = <<p>>
      BY <2>2 DEF Fcc
    <3> HIDE DEF p
    <3> QED
      BY <3>4, <3>5
  <2> QED
    BY <2>1, <2>2
<1>2. ASSUME NEW fccs \in Seq(Paths), NEW nested \in Nat PROVE FccCalls(fccs, nested) \in Seq(Cmds)
  <2> DEFINE n == Min({Len(fccs), nested})
  <2>1. Len(fccs) \in Nat /\ \A k \in 1..Len(fccs) : fccs[k] \in Paths
    BY LenProperties, ElementOfSeq
  <2>2. Len(fccs) \in Int /\ nested \in Int
    BY <2>1
  <2>3. n \in {Len(fccs), nested} /\ n <= Len(fccs)
    BY <2>2, MinMaxFacts, Zenon
  <2> HIDE DEF n
  <2>4. n \in Nat /\ \A k \in 1..n : fccs[k] \in Paths
    BY <2>1, <2>3
  <2>5. \A k \in 1..n : ProcAdd(fccs[k]) \in Cmds
    BY <2>4, PartTypes
  <2>6. FccCalls(fccs, nested) = [k \in 1..n |-> ProcAdd(fccs[k])]
    BY DEF FccCalls, n
  <2> QED
    BY <2>4, <2>5, <2>6
<1> QED
  BY <1>1, <1>2

(* A message that is sent, or not: a reply that lost its In-reply-to loses *)
(* its references, others keep them.                                       *)
LEMMA SendStep ==
  ASSUME DraftInv, NEW path \in DOMAIN buffers, NEW goes \in BOOLEAN,
         NEW behavior \in Behaviors, Send(path, goes, behavior)
  PROVE  DraftInv'
<1> DEFINE b == buffers[path]
           kept == RemoveRefsMaybe(b)
           head == Saved(path, kept)
           fcc == Fcc(b, behavior)
           fccs == head.fccs \o fcc
           nested == handlers + Len(fcc)
           copy == [head EXCEPT !.fccs = <<>>]
           later == [head EXCEPT !.fccs = fccs]
           draft == With(disk, path, head)
           out == [path |-> path, type |-> b.type, head |-> copy, fccs |-> fccs,
                   kept |-> behavior # "delete", late |-> b.stale]
<1>1. /\ names' = names + Len(fcc) /\ UNCHANGED <<original, context, docs, lastId, replies>>
      /\ \/ /\ ~goes
            /\ disk' = draft
            /\ buffers' = [buffers EXCEPT ![path].head = later]
            /\ handlers' = nested
            /\ Calls(<<ProcAdd(path)>>)
            /\ UNCHANGED sent
         \/ /\ goes
            /\ disk' = [p \in DOMAIN draft \cup Range(fccs) |->
                          IF p \in Range(fccs) THEN copy ELSE draft[p]]
            /\ buffers' = Without(buffers, path)
            /\ handlers' = Max({0, nested - Len(fccs)})
            /\ Calls(<<ProcAdd(path)>> \o FccCalls(fccs, nested) \o <<ProcSent(path)>>)
            /\ sent' = sent \cup {out}
  BY DEF Send
<1>2. /\ path \in Paths /\ b \in GoodDrafts(original) /\ b.head \in GoodHeads(original)
      /\ b \in Drafts /\ DraftGood(b, original)
  BY InvParts DEF GoodDrafts
<1>3. /\ b.head \in Heads /\ HeadGood(b.head, original) /\ b.stale \in BOOLEAN
      /\ b.type \in Types \cup {"new"}
  BY <1>2 DEF GoodHeads, Drafts
<1>4. fcc \in Seq(Paths) /\ \A f \in Seq(Paths), n \in Nat : FccCalls(f, n) \in Seq(Cmds)
  BY <1>2, FccTypes
<1> HIDE DEF b, fcc
<1>5. /\ kept \in GoodHeads(original) /\ kept.wish = b.head.wish
      /\ kept.wish \in {"detached", "new"} /\ b.type # "edit" => kept.refs = <<>>
      /\ kept.refs = b.head.refs \/ (b.type = "reply" /\ kept.wish = "detached")
  <2>1. CASE b.type = "reply" /\ b.head.reply = Nil
    <3> DEFINE h == [b.head EXCEPT !.refs = <<>>]
    <3>1. b.head.wish = "detached"
      BY <1>2, <1>3, <2>1, ComposingAssumption DEF DraftGood, HeadGood
    <3>2. h \in Heads /\ h.wish = b.head.wish /\ h.reply = Nil /\ h.refs = <<>>
      <4>1. <<>> \in Seq(Int)
        OBVIOUS
      <4>2. h \in Heads /\ h.wish = b.head.wish /\ h.reply = b.head.reply /\ h.refs = <<>>
        BY <1>3, <4>1 DEF Heads
      <4> QED
        BY <2>1, <4>2
    <3>3. kept = h
      BY <2>1 DEF RemoveRefsMaybe
    <3> HIDE DEF h
    <3>4. HeadGood(h, original)
      BY <3>1, <3>2 DEF HeadGood
    <3> QED
      BY <2>1, <3>1, <3>2, <3>3, <3>4 DEF GoodHeads
  <2>2. CASE ~(b.type = "reply" /\ b.head.reply = Nil)
    <3>1. kept = b.head
      BY <2>2 DEF RemoveRefsMaybe
    <3>2. kept.wish \in {"detached", "new"} /\ b.type # "edit" => kept.refs = <<>>
      BY <1>2, <1>3, <2>2, <3>1 DEF DraftGood, HeadGood, Types
    <3> QED
      BY <1>2, <3>1, <3>2
  <2> QED
    BY <2>1, <2>2
<1> HIDE DEF kept
<1>6. head \in GoodHeads(original) /\ head.wish = kept.wish /\ head.refs = kept.refs
  BY <1>2, <1>5, SavedGood
<1> HIDE DEF head
<1>7. head \in Heads /\ head.fccs \in Seq(Paths)
  BY <1>6 DEF GoodHeads, Heads
<1>8. fccs \in Seq(Paths) /\ Len(fcc) \in Nat /\ nested \in Nat /\ Len(fccs) \in Nat
  <2>1. fccs \in Seq(Paths) /\ Len(fcc) \in Nat
    BY <1>4, <1>7, ConcatProperties, LenProperties
  <2>2. handlers \in Nat /\ Len(fccs) \in Nat
    BY <2>1, LenProperties DEF DraftInv
  <2> QED
    BY <2>1, <2>2
<1>9. /\ copy \in GoodHeads(original) /\ later \in GoodHeads(original)
      /\ copy.wish = head.wish /\ copy.refs = head.refs
      /\ later.wish = head.wish /\ later.refs = head.refs
  <2>1. <<>> \in Seq(Paths)
    OBVIOUS
  <2>2. copy \in GoodHeads(original) /\ later \in GoodHeads(original)
    BY <1>6, <1>8, <2>1, HeadKept
  <2> QED
    BY <1>7, <2>2 DEF Heads
<1> HIDE DEF copy, later, fccs, nested
<1>10. Maps(draft, Paths, GoodHeads(original)) /\ names' \in Nat
  <2>1. Maps(disk, Paths, GoodHeads(original)) /\ names \in Nat
    BY DEF DraftInv
  <2>2. names' = names + Len(fcc)
    BY <1>1
  <2>3. Maps(draft, Paths, GoodHeads(original))
    BY <1>2, <1>6, <2>1, MapChanges
  <2> QED
    BY <1>8, <2>1, <2>2, <2>3
<1>11. ProcAdd(path) \in Cmds /\ ProcSent(path) \in Cmds
  BY <1>2, PartTypes
<1> HIDE DEF draft
<1>12. CASE /\ disk' = draft /\ buffers' = [buffers EXCEPT ![path].head = later]
            /\ handlers' = nested /\ Calls(<<ProcAdd(path)>>) /\ UNCHANGED sent
  <2>1. Maps(buffers', Paths, GoodDrafts(original))
    <3> DEFINE d == [b EXCEPT !.head = later]
    <3>1. d \in Drafts /\ d.type = b.type /\ d.head = later
      BY <1>2, <1>9 DEF Drafts, GoodHeads
    <3>2. buffers' = [buffers EXCEPT ![path] = d]
      BY <1>12 DEF b
    <3> HIDE DEF d
    <3>3. later.wish = b.head.wish
          /\ (later.refs = b.head.refs \/ (b.type = "reply" /\ later.wish = "detached"))
      BY <1>5, <1>6, <1>9
    <3>4. DraftGood(d, original)
      BY <1>2, <1>9, <3>1, <3>3 DEF DraftGood, GoodHeads
    <3>5. d \in GoodDrafts(original)
      BY <3>1, <3>4 DEF GoodDrafts
    <3> QED
      BY <3>2, <3>5 DEF DraftInv, Maps
  <2>2. pipe' \in Seq(Cmds)
    <3>1. <<ProcAdd(path)>> \in Seq(Cmds)
      BY <1>11
    <3> QED
      BY <1>12, <3>1, CallsType
  <2> QED
    BY <1>1, <1>8, <1>10, <1>12, <2>1, <2>2 DEF DraftInv
<1>13. CASE /\ disk' = [p \in DOMAIN draft \cup Range(fccs) |->
                          IF p \in Range(fccs) THEN copy ELSE draft[p]]
            /\ buffers' = Without(buffers, path)
            /\ handlers' = Max({0, nested - Len(fccs)})
            /\ Calls(<<ProcAdd(path)>> \o FccCalls(fccs, nested) \o <<ProcSent(path)>>)
            /\ sent' = sent \cup {out}
  <2>1. Range(fccs) \subseteq Paths
    BY <1>8, ElementOfSeq, LenProperties DEF Range
  <2>2. Maps(disk', Paths, GoodHeads(original))
    BY <1>9, <1>10, <1>13, <2>1 DEF Maps
  <2>3. Maps(buffers', Paths, GoodDrafts(original))
    BY <1>13 DEF DraftInv, Maps, Without, Restrict
  <2>4. handlers' \in Nat
    <3>1. 0 \in Int /\ nested - Len(fccs) \in Int
      BY <1>8
    <3>2. /\ Max({0, nested - Len(fccs)}) \in {0, nested - Len(fccs)}
          /\ Max({0, nested - Len(fccs)}) >= 0
      BY <3>1, MinMaxFacts, Zenon
    <3> QED
      BY <1>13, <3>1, <3>2
  <2>5. pipe' \in Seq(Cmds)
    <3>1. /\ <<ProcAdd(path)>> \in Seq(Cmds) /\ <<ProcSent(path)>> \in Seq(Cmds)
          /\ FccCalls(fccs, nested) \in Seq(Cmds)
      BY <1>4, <1>8, <1>11
    <3>2. <<ProcAdd(path)>> \o FccCalls(fccs, nested) \in Seq(Cmds)
      BY <3>1, ConcatProperties
    <3>3. <<ProcAdd(path)>> \o FccCalls(fccs, nested) \o <<ProcSent(path)>> \in Seq(Cmds)
      BY <3>1, <3>2, ConcatProperties
    <3> QED
      BY <1>13, <3>3, CallsType
  <2>6. out \in GoodOutgoing(original)
    <3>1. (behavior # "delete") \in BOOLEAN
      OBVIOUS
    <3>2. copy \in Heads /\ HeadGood(copy, original)
      BY <1>9 DEF GoodHeads
    <3>3. out \in Outgoing /\ out.head = copy /\ out.type = b.type
      BY <1>2, <1>3, <1>8, <3>1, <3>2 DEF Outgoing
    <3>4. copy.wish \in {"detached", "new"} /\ b.type # "edit" => copy.refs = <<>>
      BY <1>5, <1>6, <1>9
    <3> HIDE DEF out
    <3> QED
      BY <3>2, <3>3, <3>4 DEF GoodOutgoing, OutGood
  <2> HIDE DEF out
  <2> QED
    BY <1>1, <1>10, <1>13, <2>2, <2>3, <2>4, <2>5, <2>6 DEF DraftInv
<1> QED
  BY <1>1, <1>12, <1>13

(* Another context renames a draft and moves its file; its head stays. *)
LEMMA SwitchStep ==
  ASSUME DraftInv, NEW path \in DOMAIN buffers, NEW c \in Contexts,
         ContextSwitch(path, c)
  PROVE  DraftInv'
<1> DEFINE head == Saved(path, buffers[path].head)
           folder == Folder("drafts", c)
           move == ProcMove(Nil, head.msgid, folder, "none")
           moved == [path EXCEPT !.folder = folder]
<1>1. /\ context' = c /\ UNCHANGED <<original, docs, lastId, replies, handlers, names, sent>>
      /\ \/ UNCHANGED <<disk, buffers, pipe>>
         \/ /\ disk' = With(disk, path, head)
            /\ buffers' = Without(buffers, path)
            /\ Calls(<<ProcAdd(path), move>>)
         \/ /\ buffers' = With(Without(buffers, path), moved, buffers[path])
            /\ UNCHANGED <<disk, pipe>>
  BY DEF ContextSwitch
<1>2. /\ path \in Paths /\ head \in GoodHeads(original) /\ head.msgid \in Msgids
      /\ buffers[path] \in GoodDrafts(original)
  BY InvParts, SavedGood
<1>3. folder \in Folders /\ moved \in Paths
  BY <1>2, NewPaths, PartTypes
<1> HIDE DEF folder, head
<1>4. ProcAdd(path) \in Cmds /\ move \in Cmds
  BY <1>2, <1>3, PartTypes
<1> HIDE DEF move, moved
<1>5. Maps(Without(buffers, path), Paths, GoodDrafts(original))
  BY DEF DraftInv, Maps, Without, Restrict
<1>6. CASE UNCHANGED <<disk, buffers, pipe>>
  BY <1>1, <1>6 DEF DraftInv
<1>7. CASE /\ disk' = With(disk, path, head) /\ buffers' = Without(buffers, path)
           /\ Calls(<<ProcAdd(path), move>>)
  <2>1. Maps(disk', Paths, GoodHeads(original))
    BY <1>2, <1>7, MapChanges DEF DraftInv
  <2>2. <<ProcAdd(path), move>> \in Seq(Cmds)
    BY <1>4
  <2>3. pipe' \in Seq(Cmds)
    BY <1>7, <2>2, CallsType
  <2> QED
    BY <1>1, <1>5, <1>7, <2>1, <2>3 DEF DraftInv
<1>8. CASE /\ buffers' = With(Without(buffers, path), moved, buffers[path])
           /\ UNCHANGED <<disk, pipe>>
  <2> DEFINE w == Without(buffers, path)
             b == buffers[path]
  <2>1. Maps(w, Paths, GoodDrafts(original)) /\ b \in GoodDrafts(original)
    BY <1>2, <1>5
  <2>2. buffers' = With(w, moved, b)
    BY <1>8
  <2> HIDE DEF w, b
  <2>3. Maps(buffers', Paths, GoodDrafts(original))
    BY <1>3, <2>1, <2>2, MapChanges
  <2> QED
    BY <1>1, <1>8, <2>3 DEF DraftInv
<1> QED
  BY <1>1, <1>6, <1>7, <1>8

(* Each step keeps the invariant.                                          *)
LEMMA DraftStep == DraftInv /\ [Next]_vars => DraftInv'
<1> SUFFICES ASSUME DraftInv, [Next]_vars PROVE DraftInv'
  OBVIOUS
<1>1. CASE Serve
  BY <1>1, ServeStep
<1>2. CASE Evaluate
  BY <1>2, EvaluateStep
<1>3. CASE ComposeNew
  BY <1>3, NewStep
<1>4. ASSUME NEW i \in DOMAIN docs, RefileIt(i) \/ \E type \in Types : Compose(type, i)
      PROVE  DraftInv'
  BY <1>4, AskStep
<1>5. ASSUME NEW path \in DOMAIN buffers, Save(path) \/ Detach(path) \/ KillBuffer(path)
      PROVE  DraftInv'
  BY <1>5, SaveStep, DetachStep, KillStep
<1>6. ASSUME NEW path \in DOMAIN buffers, NEW goes \in BOOLEAN, NEW behavior \in Behaviors,
             Send(path, goes, behavior)
      PROVE  DraftInv'
  BY <1>6, SendStep
<1>7. ASSUME NEW path \in DOMAIN buffers, NEW c \in Contexts, ContextSwitch(path, c)
      PROVE  DraftInv'
  BY <1>7, SwitchStep
<1>8. CASE UNCHANGED vars
  BY <1>8 DEF vars, DraftInv
<1> QED
  BY <1>1, <1>2, <1>3, <1>4, <1>5, <1>6, <1>7, <1>8 DEF Next, UserActs

(* At first there is no draft; the original and its copies are on the disk. *)
LEMMA DraftInit == Init => DraftInv
<1> SUFFICES ASSUME Init PROVE DraftInv
  OBVIOUS
<1>1. PICK o \in Messages, copies \in Nat : InitWith(o, copies)
  BY DEF Init
<1> DEFINE Copy(k) == Path(Folder("inbox", Nil), -k, IF k = 0 THEN {"S"} ELSE {"N"})
           paths == {Copy(k) : k \in 0..copies}
<1>2. /\ original = o /\ context \in Contexts
      /\ disk = [p \in paths |-> OriginalHead(o)]
      /\ docs = [i \in 1..(copies + 1) |-> [path |-> Copy(i - 1), msgid |-> 0]]
      /\ lastId = copies + 1 /\ pipe = <<>> /\ replies = <<>>
      /\ buffers = [p \in {} |-> Empty] /\ handlers = 0 /\ names = 0 /\ sent = {}
  BY <1>1 DEF InitWith
<1>3. \A k \in Nat : Copy(k) \in Paths
  <2> SUFFICES ASSUME NEW k \in Nat PROVE Copy(k) \in Paths
    OBVIOUS
  <2>1. /\ Folder("inbox", Nil) \in Folders /\ -k \in Int
        /\ (IF k = 0 THEN {"S"} ELSE {"N"}) \in SUBSET Flags
    BY PartTypes DEF Flags
  <2> QED
    BY <2>1, PartTypes
<1> HIDE DEF Copy
<1>4. paths \subseteq Paths /\ \A i \in 1..(copies + 1) : Copy(i - 1) \in Paths
  BY <1>3
<1>5. OriginalHead(o) \in GoodHeads(o)
  BY HeadsGood
<1> HIDE DEF paths
<1>6. Maps(disk, Paths, GoodHeads(original))
  BY <1>2, <1>4, <1>5 DEF Maps
<1>7. Maps(docs, Nat, Docs)
  <2>1. 0 \in Msgids
    BY DEF Msgids
  <2> QED
    BY <1>2, <1>4, <2>1 DEF Maps, Docs
<1>8. Maps(buffers, Paths, GoodDrafts(original))
  BY <1>2 DEF Maps
<1> QED
  BY <1>2, <1>6, <1>7, <1>8 DEF DraftInv

(* Every variable keeps its type, whatever the addresses and references of *)
(* what is answered.                                                       *)
THEOREM TypeCorrect == Spec => []TypeOK
<1>1. Init => DraftInv
  BY DraftInit
<1>2. DraftInv /\ [Next]_vars => DraftInv'
  BY DraftStep
<1>3. DraftInv => TypeOK
  BY InvType
<1> QED
  BY <1>1, <1>2, <1>3, PTL DEF Spec

(* A reply goes to whom it should, and what is sent to the thread that the *)
(* user has in mind, for any addresses, references and options, and with   *)
(* any number of buffers, contexts and copies (mu4e~draft-create-cc-lst,    *)
(* mu4e~draft-references-construct, mu4e~remove-refs-maybe).               *)
THEOREM RepliesAsWanted == Spec => []ReplyAsWanted
<1>1. Init => DraftInv
  BY DraftInit
<1>2. DraftInv /\ [Next]_vars => DraftInv'
  BY DraftStep
<1>3. DraftInv => ReplyAsWanted
  BY InvWanted
<1> QED
  BY <1>1, <1>2, <1>3, PTL DEF Spec
=============================================================================
