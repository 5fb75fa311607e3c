--------------------------- MODULE ContactsProofs ----------------------------
(***************************************************************************)
(* Theorems about Contacts, for any finite set of messages, whatever their *)
(* contacts and dates, and any workers.                                    *)
(***************************************************************************)
EXTENDS Contacts, SequenceTheorems, FiniteSetTheorems, TLAPS

(* The messages of a sequence that have an address, whether one of them is *)
(* the latest, and whether a table stands for the sequence.                *)
OfIn(a, k) == {i \in DOMAIN a : KeyOf[a[i]] = k}

IsLatest(a, k, i) ==
  /\ i \in OfIn(a, k)
  /\ \A j \in OfIn(a, k) :
       \/ DateOf[a[j]] < DateOf[a[i]]
       \/ DateOf[a[j]] = DateOf[a[i]] /\ i <= j

StandsFor(t, a) ==
  \A k \in Keys :
    IF OfIn(a, k) = {} THEN t[k] = None
    ELSE /\ t[k] # None
         /\ t[k].freq = Cardinality(OfIn(a, k))
         /\ \E i \in DOMAIN a : /\ IsLatest(a, k, i)
                                /\ t[k].seen = DateOf[a[i]]
                                /\ t[k].full = FullOf[a[i]]

(* What the server has and what was saved stand for messages. *)
TableInv == StandsFor(table, adds) /\ StandsFor(saved, kept)

(* What mu4e wants of the server. *)
Wants(k) == (wanted.personal => table[k].personal) /\ wanted.after <= table[k].seen

(* Time stamps are of the past; and of the server that mu4e talks to, a    *)
(* contact that it wants is known or on its way, or no request or answer   *)
(* under way is later; while the server handles a request, it is known or  *)
(* collected, or late; and so are all that are being added.                *)
ComesInv ==
  /\ found # None => up
  /\ ~up => table = Empty
  /\ \A s \in Stamps : s <= clock
  /\ \A k \in KeysIn(table) : table[k].tstamp <= clock
  /\ \A w \in Workers : adding[w] # None =>
       /\ up /\ adding[w].tstamp <= clock
       /\ \/ ~proc \/ KeyOf[adding[w].msg] \in late
          \/ found = None /\ \A s \in Stamps : s <= adding[w].tstamp
  /\ proc => \A k \in KeysIn(table) \ late : Wants(k) =>
       \/ Known(k)
       \/ found = None /\ \A s \in Stamps : s <= table[k].tstamp

(* The addresses are finitely many, and a message has a contact. *)
LEMMA KeyFacts ==
  /\ IsFiniteSet(Keys)
  /\ \A m \in Messages : KeyOf[m] \in Keys /\ FullOf[m] \in Fulls /\ DateOf[m] \in Dates
  /\ Dates \subseteq Nat
<1> DEFINE f == [m \in Messages |-> KeyOf[m]]
<1>1. IsFiniteSet(Keys)
  <2>1. f \in Surjection(Messages, Keys)
    BY DEF Surjection, Keys
  <2>2. IsFiniteSet(Messages)
    BY ContactsAssumption
  <2> HIDE DEF f
  <2> QED
    BY <2>1, <2>2, FS_Surjection
<1> QED
  BY <1>1, ContactsAssumption DEF Keys, Fulls, Dates

(* The order of the contacts is strict and total. *)
LEMMA LessOrder ==
  ASSUME TypeOK
  PROVE  /\ \A k \in KeysIn(table) : ~Less(k, k)
         /\ \A j, k \in KeysIn(table) : j # k => Less(j, k) \/ Less(k, j)
         /\ \A i, j, k \in KeysIn(table) : Less(i, j) /\ Less(j, k) => Less(i, k)
<1>1. \A k \in KeysIn(table) :
        k \in Keys /\ table[k].personal \in BOOLEAN /\ table[k].seen \in Nat /\ table[k].freq \in Nat
  <2> SUFFICES ASSUME NEW k \in KeysIn(table)
               PROVE  k \in Keys /\ table[k].personal \in BOOLEAN
                      /\ table[k].seen \in Nat /\ table[k].freq \in Nat
    OBVIOUS
  <2>1. k \in Keys /\ table[k] \in Contact
    BY DEF KeysIn, TypeOK
  <2> QED
    BY <2>1, KeyFacts DEF Contact
<1>2. Recently \in Nat
  BY ContactsAssumption
<1> USE DEF Less, IsRecent
<1>3. \A k \in KeysIn(table) : ~Less(k, k)
  BY <1>1, ContactsAssumption
<1>4. \A j, k \in KeysIn(table) : j # k => Less(j, k) \/ Less(k, j)
  <2> SUFFICES ASSUME NEW j \in KeysIn(table), NEW k \in KeysIn(table), j # k
               PROVE  Less(j, k) \/ Less(k, j)
    OBVIOUS
  <2>1. <<j, k>> \in Before \/ <<k, j>> \in Before
    BY <1>1, ContactsAssumption
  <2> QED
    BY <1>1, <1>2, <2>1
<1>5. \A i, j, k \in KeysIn(table) : Less(i, j) /\ Less(j, k) => Less(i, k)
  <2> SUFFICES ASSUME NEW i \in KeysIn(table), NEW j \in KeysIn(table), NEW k \in KeysIn(table),
                      Less(i, j), Less(j, k)
               PROVE  Less(i, k)
    OBVIOUS
  <2>1. <<i, j>> \in Before /\ <<j, k>> \in Before => <<i, k>> \in Before
    BY <1>1, ContactsAssumption
  <2> QED
    BY <1>1, <1>2, <2>1
<1> QED
  BY <1>3, <1>4, <1>5

(* The better of two contacts has the smaller rank; a rank is at most the  *)
(* number of addresses.                                                    *)
LEMMA RankOrder ==
  ASSUME TypeOK, NEW j \in KeysIn(table), NEW k \in KeysIn(table), Less(j, k)
  PROVE  Rank(j) < Rank(k)
<1> DEFINE A == {i \in KeysIn(table) : Less(i, j)}
           B == {i \in KeysIn(table) : Less(i, k)}
<1>1. A \in SUBSET KeysIn(table) /\ B \in SUBSET KeysIn(table) /\ IsFiniteSet(KeysIn(table))
  BY KeyFacts, FS_Subset DEF KeysIn
<1>2. A \cup {j} \in SUBSET B /\ j \notin A
  BY LessOrder
<1>3. IsFiniteSet(A) /\ IsFiniteSet(B)
  <2> HIDE DEF A, B
  <2>1. IsFiniteSet(A)
    BY <1>1, FS_Subset
  <2>2. IsFiniteSet(B)
    BY <1>1, FS_Subset
  <2> QED
    BY <2>1, <2>2
<1>4. Rank(j) = Cardinality(A) + 1 /\ Rank(k) = Cardinality(B) + 1
  BY DEF Rank
<1> HIDE DEF A, B
<1>5. Cardinality(A \cup {j}) = Cardinality(A) + 1
  BY <1>2, <1>3, FS_AddElement
<1>6. Cardinality(A \cup {j}) <= Cardinality(B)
  BY <1>2, <1>3, FS_Subset
<1>7. Cardinality(A) \in Nat /\ Cardinality(B) \in Nat
  BY <1>3, FS_CardinalityType
<1> QED
  BY <1>4, <1>5, <1>6, <1>7

LEMMA RankType ==
  ASSUME TypeOK, NEW k \in KeysIn(table)
  PROVE  Rank(k) \in 1..Cardinality(Keys)
<1> DEFINE B == {i \in KeysIn(table) : Less(i, k)}
<1>1. B \in SUBSET Keys /\ k \in Keys
  BY DEF KeysIn
<1>2. k \notin B
  BY LessOrder
<1>3. Rank(k) = Cardinality(B) + 1
  BY DEF Rank
<1> HIDE DEF B
<1>4. IsFiniteSet(B) /\ B \cup {k} \in SUBSET Keys
  BY <1>1, KeyFacts, FS_Subset
<1>5. Cardinality(B \cup {k}) = Cardinality(B) + 1
  BY <1>2, <1>4, FS_AddElement
<1>6. Cardinality(B \cup {k}) <= Cardinality(Keys)
  BY <1>4, KeyFacts, FS_Subset
<1>7. Cardinality(B) \in Nat /\ Cardinality(Keys) \in Nat
  BY <1>4, KeyFacts, FS_CardinalityType
<1> QED
  BY <1>3, <1>5, <1>6, <1>7

(* What adding a message makes of the contact of its address, and that it  *)
(* leaves the others.                                                      *)
LEMMA MergedFacts ==
  ASSUME NEW t \in [Keys -> Contact \cup {None}], NEW m \in Messages, NEW made \in Times,
         clock \in Times
  PROVE  LET k == KeyOf[m]
             r == Merged(t, m, made)[k]
         IN  /\ Merged(t, m, made) \in [Keys -> Contact \cup {None}]
             /\ \A j \in Keys : j # k => Merged(t, m, made)[j] = t[j]
             /\ k \in Keys /\ r \in Contact /\ r # None
             /\ t[k] = None => /\ r.full = FullOf[m] /\ r.personal = PersonalOf[m]
                               /\ r.seen = DateOf[m] /\ r.freq = 1 /\ r.tstamp = made
             /\ t[k] # None => /\ r.freq = t[k].freq + 1 /\ r.personal = t[k].personal
             /\ t[k] # None /\ DateOf[m] > t[k].seen
                  => r.full = FullOf[m] /\ r.seen = DateOf[m] /\ r.tstamp = clock
             /\ t[k] # None /\ ~(DateOf[m] > t[k].seen)
                  => r.full = t[k].full /\ r.seen = t[k].seen /\ r.tstamp = t[k].tstamp
<1> DEFINE k == KeyOf[m]
           new == [full |-> FullOf[m], personal |-> PersonalOf[m], seen |-> DateOf[m],
                   freq |-> 1, tstamp |-> made]
           newer == [t[k] EXCEPT !.full = FullOf[m], !.seen = DateOf[m], !.tstamp = clock]
           r == IF t[k] = None THEN new
                ELSE [IF DateOf[m] > t[k].seen THEN newer ELSE t[k] EXCEPT !.freq = @ + 1]
<1>1. k \in Keys /\ FullOf[m] \in Fulls /\ DateOf[m] \in Dates /\ PersonalOf[m] \in BOOLEAN
  BY KeyFacts, ContactsAssumption
<1>2. Merged(t, m, made) = [t EXCEPT ![k] = r]
  BY DEF Merged
<1>3. CASE t[k] = None
  <2>1. r = new
    BY <1>3
  <2>2. new \in Contact
    BY <1>1 DEF Contact
  <2> HIDE DEF k, r
  <2>3. r # None
    BY <2>1, <2>2, NoneAssumption
  <2> QED
    BY <1>1, <1>2, <1>3, <2>1, <2>2, <2>3 DEF k
<1>4. CASE t[k] # None
  <2>1. t[k] \in Contact
    BY <1>1, <1>4
  <2>2. newer \in Contact /\ newer.freq = t[k].freq /\ newer.personal = t[k].personal
        /\ newer.full = FullOf[m] /\ newer.seen = DateOf[m] /\ newer.tstamp = clock
    BY <1>1, <2>1 DEF Contact
  <2>3. \A c \in Contact : LET d == [c EXCEPT !.freq = @ + 1]
                           IN  /\ d \in Contact /\ d.freq = c.freq + 1 /\ d.personal = c.personal
                               /\ d.full = c.full /\ d.seen = c.seen /\ d.tstamp = c.tstamp
    BY DEF Contact
  <2> DEFINE base == IF DateOf[m] > t[k].seen THEN newer ELSE t[k]
  <2>4. r = [base EXCEPT !.freq = @ + 1] /\ base \in Contact
    BY <1>4, <2>1, <2>2
  <2> HIDE DEF newer, r
  <2>5. /\ r \in Contact /\ r.freq = base.freq + 1 /\ r.personal = base.personal
        /\ r.full = base.full /\ r.seen = base.seen /\ r.tstamp = base.tstamp
    <3> HIDE DEF base
    <3> QED
      BY <2>3, <2>4
  <2>6. r # None
    BY <2>5, NoneAssumption
  <2>7. /\ base.freq = t[k].freq /\ base.personal = t[k].personal
        /\ DateOf[m] > t[k].seen =>
              base.full = FullOf[m] /\ base.seen = DateOf[m] /\ base.tstamp = clock
        /\ ~(DateOf[m] > t[k].seen) => base = t[k]
    BY <2>2
  <2> HIDE DEF base, k
  <2> QED
    BY <1>1, <1>2, <1>4, <2>5, <2>6, <2>7 DEF k
<1> QED
  BY <1>3, <1>4

(* An empty table stands for no messages. *)
LEMMA EmptyStands == StandsFor(Empty, <<>>)
  BY DEF StandsFor, Empty, OfIn

(* A table to which a message was added stands for one message more.       *)
LEMMA AddStands ==
  ASSUME NEW t \in [Keys -> Contact \cup {None}], NEW a \in Seq(Messages),
         NEW m \in Messages, NEW made \in Times, clock \in Times, StandsFor(t, a)
  PROVE  StandsFor(Merged(t, m, made), Append(a, m))
<1> DEFINE b == Append(a, m)
           n == Len(a) + 1
           u == Merged(t, m, made)
           mk == KeyOf[m]
<1>1. /\ b \in Seq(Messages) /\ Len(a) \in Nat
      /\ DOMAIN a = 1..Len(a) /\ DOMAIN b = 1..n
      /\ b[n] = m /\ \A i \in DOMAIN a : b[i] = a[i] /\ a[i] \in Messages
  <2>1. /\ b \in Seq(Messages) /\ Len(b) = n
        /\ b[n] = m /\ \A i \in 1..Len(a) : b[i] = a[i]
    BY AppendProperties
  <2>2. Len(a) \in Nat /\ DOMAIN a = 1..Len(a) /\ DOMAIN b = 1..Len(b)
    BY <2>1, LenProperties
  <2>3. \A i \in 1..Len(a) : a[i] \in Messages
    BY ElementOfSeq
  <2> HIDE DEF b
  <2> QED
    BY <2>1, <2>2, <2>3
<1>2. /\ mk \in Keys /\ u[mk] \in Contact /\ u[mk] # None
      /\ \A j \in Keys : j # mk => u[j] = t[j]
      /\ t[mk] = None => u[mk].full = FullOf[m] /\ u[mk].seen = DateOf[m] /\ u[mk].freq = 1
      /\ t[mk] # None => u[mk].freq = t[mk].freq + 1
      /\ t[mk] # None /\ DateOf[m] > t[mk].seen
           => u[mk].full = FullOf[m] /\ u[mk].seen = DateOf[m]
      /\ t[mk] # None /\ ~(DateOf[m] > t[mk].seen)
           => u[mk].full = t[mk].full /\ u[mk].seen = t[mk].seen
  BY MergedFacts
<1>3. \A i \in Messages : DateOf[i] \in Nat
  BY KeyFacts
<1> HIDE DEF b, u
<1>4. \A k \in Keys : k # mk => OfIn(b, k) = OfIn(a, k)
  <2> SUFFICES ASSUME NEW k \in Keys, k # mk PROVE OfIn(b, k) = OfIn(a, k)
    OBVIOUS
  <2>1. \A i \in DOMAIN b : KeyOf[b[i]] = k <=> i \in DOMAIN a /\ KeyOf[a[i]] = k
    BY <1>1
  <2>2. DOMAIN a \subseteq DOMAIN b
    BY <1>1
  <2> QED
    BY <2>1, <2>2 DEF OfIn
<1>5. OfIn(b, mk) = OfIn(a, mk) \cup {n} /\ n \notin OfIn(a, mk)
  <2>1. \A i \in DOMAIN b : KeyOf[b[i]] = mk <=> i = n \/ (i \in DOMAIN a /\ KeyOf[a[i]] = mk)
    BY <1>1
  <2>2. DOMAIN a \subseteq DOMAIN b /\ n \in DOMAIN b /\ n \notin DOMAIN a
    BY <1>1
  <2> HIDE DEF n, mk
  <2> QED
    BY <2>1, <2>2 DEF OfIn
<1>6. ASSUME NEW k \in Keys, k # mk
      PROVE  IF OfIn(b, k) = {} THEN u[k] = None
             ELSE /\ u[k] # None
                  /\ u[k].freq = Cardinality(OfIn(b, k))
                  /\ \E i \in DOMAIN b : /\ IsLatest(b, k, i)
                                         /\ u[k].seen = DateOf[b[i]]
                                         /\ u[k].full = FullOf[b[i]]
  <2>1. u[k] = t[k] /\ OfIn(b, k) = OfIn(a, k)
    BY <1>2, <1>4, <1>6
  <2>2. CASE OfIn(a, k) = {}
    BY <2>1, <2>2 DEF StandsFor
  <2>3. CASE OfIn(a, k) # {}
    <3>1. /\ t[k] # None /\ t[k].freq = Cardinality(OfIn(a, k))
      BY <2>3 DEF StandsFor
    <3>2. PICK i \in DOMAIN a : /\ IsLatest(a, k, i)
                              /\ t[k].seen = DateOf[a[i]] /\ t[k].full = FullOf[a[i]]
      BY <2>3 DEF StandsFor
    <3>3. \A j \in OfIn(a, k) : b[j] = a[j]
      BY <1>1 DEF OfIn
    <3>4. i \in DOMAIN b /\ b[i] = a[i]
      BY <1>1
    <3>5. IsLatest(b, k, i)
      BY <2>1, <3>2, <3>3, <3>4 DEF IsLatest
    <3> QED
      BY <2>1, <2>3, <3>1, <3>2, <3>4, <3>5
  <2> QED
    BY <2>2, <2>3
<1>7. /\ OfIn(b, mk) # {} /\ u[mk] # None
      /\ u[mk].freq = Cardinality(OfIn(b, mk))
      /\ \E i \in DOMAIN b : /\ IsLatest(b, mk, i)
                             /\ u[mk].seen = DateOf[b[i]]
                             /\ u[mk].full = FullOf[b[i]]
  <2>1. n \in DOMAIN b /\ b[n] = m /\ n \in OfIn(b, mk)
    BY <1>1, <1>5
  <2>2. IsFiniteSet(OfIn(a, mk)) /\ Cardinality(OfIn(b, mk)) = Cardinality(OfIn(a, mk)) + 1
    <3>1. OfIn(a, mk) \in SUBSET (1..Len(a)) /\ IsFiniteSet(1..Len(a))
      <4>1. 1 \in Int /\ Len(a) \in Int
        BY <1>1
      <4>2. IsFiniteSet(1..Len(a))
        BY <4>1, FS_Interval
      <4> QED
        BY <1>1, <4>2 DEF OfIn
    <3>2. IsFiniteSet(OfIn(a, mk))
      BY <3>1, FS_Subset
    <3> HIDE DEF n, mk
    <3> QED
      BY <1>5, <3>2, FS_AddElement
  <2>3. CASE OfIn(a, mk) = {}
    <3>1. t[mk] = None
      BY <1>2, <2>3 DEF StandsFor
    <3>2. Cardinality(OfIn(a, mk)) = 0
      BY <2>3, FS_EmptySet
    <3>3. IsLatest(b, mk, n)
      BY <1>1, <1>5, <2>3 DEF IsLatest
    <3> QED
      BY <1>2, <2>1, <2>2, <3>1, <3>2, <3>3
  <2>4. CASE OfIn(a, mk) # {}
    <3>1. t[mk] # None /\ t[mk].freq = Cardinality(OfIn(a, mk))
      BY <1>2, <2>4 DEF StandsFor
    <3>2. PICK i \in DOMAIN a : /\ IsLatest(a, mk, i)
                              /\ t[mk].seen = DateOf[a[i]] /\ t[mk].full = FullOf[a[i]]
      BY <1>2, <2>4 DEF StandsFor
    <3>3. /\ i \in DOMAIN b /\ b[i] = a[i] /\ i <= n /\ i \in Nat /\ n \in Nat
          /\ DateOf[a[i]] \in Nat /\ DateOf[m] \in Nat
      BY <1>1, <1>3
    <3>4. /\ i \in OfIn(a, mk)
          /\ \A j \in OfIn(a, mk) :
               /\ b[j] = a[j] /\ DateOf[a[j]] \in Nat /\ j \in Nat /\ j < n
               /\ \/ DateOf[a[j]] < DateOf[a[i]]
                  \/ DateOf[a[j]] = DateOf[a[i]] /\ i <= j
      BY <1>1, <1>3, <3>2 DEF IsLatest, OfIn
    <3>5. CASE DateOf[m] > t[mk].seen
      <4>1. \A j \in OfIn(b, mk) : j = n \/ DateOf[b[j]] < DateOf[b[n]]
        BY <1>5, <2>1, <3>2, <3>3, <3>4, <3>5
      <4>2. IsLatest(b, mk, n)
        BY <2>1, <3>3, <4>1 DEF IsLatest
      <4> QED
        BY <1>2, <2>1, <2>2, <3>1, <3>5, <4>2
    <3>6. CASE ~(DateOf[m] > t[mk].seen)
      <4>1. \A j \in OfIn(b, mk) : \/ DateOf[b[j]] < DateOf[b[i]]
                                   \/ DateOf[b[j]] = DateOf[b[i]] /\ i <= j
        BY <1>5, <2>1, <3>2, <3>3, <3>4, <3>6
      <4>2. IsLatest(b, mk, i)
        BY <1>5, <3>4, <4>1 DEF IsLatest
      <4> QED
        BY <1>2, <2>1, <2>2, <3>1, <3>2, <3>3, <3>6, <4>2
    <3> QED
      BY <3>5, <3>6
  <2> QED
    BY <1>2, <2>1, <2>3, <2>4
<1> HIDE DEF mk
<1>8. StandsFor(u, b)
  BY <1>6, <1>7 DEF StandsFor
<1> QED
  BY <1>8 DEF b, u

(* A table that stands for the messages added is right. *)
LEMMA StandsRight == TypeOK /\ StandsFor(table, adds) => TableRight
<1> SUFFICES ASSUME TypeOK, StandsFor(table, adds) PROVE TableRight
  OBVIOUS
<1>1. \A k : Of(k) = OfIn(adds, k)
  BY DEF Of, OfIn
<1>2. \A j, k \in KeysIn(table) : j # k => Rank(j) # Rank(k)
  <2> SUFFICES ASSUME NEW j \in KeysIn(table), NEW k \in KeysIn(table), j # k
               PROVE  Rank(j) # Rank(k)
    OBVIOUS
  <2>1. Rank(j) \in Int /\ Rank(k) \in Int
    BY RankType
  <2>2. Less(j, k) \/ Less(k, j)
    BY LessOrder
  <2>3. CASE Less(j, k)
    BY <2>1, <2>3, RankOrder
  <2>4. CASE Less(k, j)
    BY <2>1, <2>4, RankOrder
  <2> QED
    BY <2>2, <2>3, <2>4
<1>3. ASSUME NEW k \in Keys, OfIn(adds, k) # {}
      PROVE  /\ table[k].seen = DateOf[adds[Latest(k)]]
             /\ table[k].full = FullOf[adds[Latest(k)]]
  <2>1. PICK i \in DOMAIN adds : /\ IsLatest(adds, k, i)
                               /\ table[k].seen = DateOf[adds[i]]
                               /\ table[k].full = FullOf[adds[i]]
    BY <1>3 DEF StandsFor
  <2>2. \A j \in OfIn(adds, k) : j \in Nat /\ DateOf[adds[j]] \in Nat
    <3>1. adds \in Seq(Messages) /\ DOMAIN adds = 1..Len(adds) /\ Len(adds) \in Nat
      BY LenProperties DEF TypeOK
    <3>2. \A j \in 1..Len(adds) : adds[j] \in Messages
      BY <3>1, ElementOfSeq
    <3>3. \A m \in Messages : DateOf[m] \in Nat
      BY KeyFacts
    <3> QED
      BY <3>1, <3>2, <3>3 DEF OfIn
  <2>3. \A j \in OfIn(adds, k) : IsLatest(adds, k, j) => j = i
    BY <2>1, <2>2 DEF IsLatest
  <2>4. Latest(k) = i
    <3>1. Latest(k) = CHOOSE j \in OfIn(adds, k) : IsLatest(adds, k, j)
      BY <1>1 DEF Latest, IsLatest
    <3>2. i \in OfIn(adds, k)
      BY <2>1 DEF IsLatest
    <3> QED
      BY <2>1, <2>3, <3>1, <3>2
  <2> QED
    BY <2>1, <2>4
<1> QED
  BY <1>1, <1>2, <1>3 DEF TableRight, StandsFor

(* The copy of mu4e is a table of ranks again when an answer was put into  *)
(* it, and has all contacts of the answer.                                 *)
LEMMA UpdateFacts ==
  ASSUME NEW h \in Hash \cup {None}, NEW C \in SUBSET Ranked
  PROVE  /\ With(h, C) \in Hash
         /\ h # None => DOMAIN h \subseteq DOMAIN With(h, C)
         /\ \A c \in C : c.full \in DOMAIN With(h, C)
<1> DEFINE fulls == {c.full : c \in C}
           old == IF h = None THEN {} ELSE DOMAIN h
           R == 1..Cardinality(Keys)
<1>1. fulls \in SUBSET Fulls
  BY DEF Ranked
<1>2. old \in SUBSET Fulls /\ (h # None => h \in [old -> R])
  BY DEF Hash
<1>3. \A f \in fulls : (CHOOSE c \in C : c.full = f).rank \in R
  <2> SUFFICES ASSUME NEW f \in fulls PROVE (CHOOSE c \in C : c.full = f).rank \in R
    OBVIOUS
  <2>1. \E c \in C : c.full = f
    OBVIOUS
  <2>2. (CHOOSE c \in C : c.full = f) \in C
    BY <2>1
  <2> QED
    BY <2>2 DEF Ranked
<1>4. With(h, C) = [f \in old \cup fulls |->
                     IF f \in fulls THEN (CHOOSE c \in C : c.full = f).rank ELSE h[f]]
  BY DEF With
<1> HIDE DEF R
<1>5. \A f \in old \ fulls : h[f] \in R
  BY <1>2
<1>6. With(h, C) \in [old \cup fulls -> R]
  BY <1>3, <1>4, <1>5
<1>7. old \cup fulls \in SUBSET Fulls
  BY <1>1, <1>2
<1>8. With(h, C) \in Hash
  <2> HIDE DEF old, fulls
  <2> QED
    BY <1>6, <1>7 DEF Hash, R
<1>9. DOMAIN With(h, C) = old \cup fulls
  BY <1>6
<1> QED
  BY <1>8, <1>9

(* The elements of the rest of a sequence are those from the second on. *)
LEMMA TailFacts ==
  ASSUME NEW S, NEW q \in Seq(S), q # <<>>
  PROVE  /\ Head(q) \in S /\ Tail(q) \in Seq(S)
         /\ 1 \in DOMAIN q /\ Head(q) = q[1]
         /\ \A i \in DOMAIN Tail(q) : i + 1 \in DOMAIN q /\ Tail(q)[i] = q[i + 1]
         /\ \A i \in DOMAIN q : i = 1 \/ (i - 1 \in DOMAIN Tail(q) /\ Tail(q)[i - 1] = q[i])
<1>1. Len(q) \in Nat /\ Len(q) # 0 /\ DOMAIN q = 1..Len(q)
  BY EmptySeq, LenProperties
<1>2. /\ Head(q) \in S /\ Tail(q) \in Seq(S)
      /\ Len(Tail(q)) = Len(q) - 1
      /\ \A i \in 1..Len(Tail(q)) : Tail(q)[i] = q[i + 1]
  BY HeadTailProperties
<1>3. DOMAIN Tail(q) = 1..(Len(q) - 1)
  BY <1>2, LenProperties
<1>4. Head(q) = q[1]
  BY EmptySeq
<1> QED
  BY <1>1, <1>2, <1>3, <1>4

(* The answers left after a reset are the last ones of those there were. *)
LEMMA ResetFacts ==
  ASSUME TypeOK, NEW r \in AfterReset
  PROVE  /\ r \in Seq(Reply)
         /\ \A i \in DOMAIN r : \E j \in DOMAIN reply : r[i] = reply[j]
<1>1. reply \in Seq(Reply) /\ (r = reply \/ (reply # <<>> /\ r = Tail(reply)))
  BY DEF AfterReset, TypeOK
<1> QED
  BY <1>1, TailFacts

LEMMA TypeStep == TypeOK /\ [Next]_vars => TypeOK'
<1> SUFFICES ASSUME TypeOK, [Next]_vars PROVE TypeOK'
  OBVIOUS
<1> USE DEF server, emacs
<1>0. None \in Contact \cup {None} /\ Empty \in [Keys -> Contact \cup {None}]
      /\ <<>> \in Seq(Messages)
      /\ Idle \in [Workers -> [msg : Messages, tstamp : Times] \cup {None}]
  BY DEF Empty, Idle
<1>1. CASE Tick
  <2>1. clock' \in Times
    BY <1>1, ContactsAssumption DEF Tick, TypeOK, Times
  <2> QED
    BY <1>1, <2>1 DEF Tick, TypeOK
<1>2. ASSUME NEW w \in Workers, Add(w) PROVE TypeOK'
  <2>1. adding[w] \in [msg : Messages, tstamp : Times]
    BY <1>2 DEF Add, TypeOK
  <2>2. table' \in [Keys -> Contact \cup {None}]
    BY <1>2, <2>1, MergedFacts DEF Add, TypeOK
  <2>3. adds' \in Seq(Messages)
    BY <1>2, <2>1, AppendProperties DEF Add, TypeOK
  <2> QED
    BY <1>2, <2>2, <2>3 DEF Add, TypeOK
<1>3. ASSUME NEW w \in Workers, NEW m \in Messages, Make(w, m) PROVE TypeOK'
  <2>1. KeyOf[m] \in Keys
    BY KeyFacts
  <2> QED
    BY <1>3, <2>1 DEF Make, TypeOK
<1>4. CASE Collect
  <2>1. found' \subseteq Ranked
    <3>1. ASSUME NEW k \in KeysIn(table)
          PROVE  [full |-> table[k].full, rank |-> Rank(k)] \in Ranked
      <4>1. table[k] \in Contact
        BY DEF KeysIn, TypeOK
      <4>2. table[k].full \in Fulls
        BY <4>1 DEF Contact
      <4> QED
        BY <4>2, RankType DEF Ranked
    <3> QED
      BY <1>4, <3>1 DEF Collect
  <2>2. late' \subseteq Keys
    <3>1. \A w \in Workers : adding[w] # None => KeyOf[adding[w].msg] \in Keys
      BY KeyFacts DEF TypeOK
    <3> QED
      BY <1>4, <3>1 DEF Collect, TypeOK
  <2> QED
    BY <1>4, <2>1, <2>2 DEF Collect, TypeOK
<1>5. CASE Answer
  <2>1. [contacts |-> found, tstamp |-> clock] \in Reply
    BY <1>5 DEF Answer, TypeOK, Reply
  <2>2. reply' \in Seq(Reply)
    BY <1>5, <2>1, AppendProperties DEF Answer, TypeOK
  <2>3. request' \in Seq(Times)
    <3>1. request # <<>>
      BY <1>5 DEF Answer, TypeOK
    <3> QED
      BY <1>5, <3>1, HeadTailProperties DEF Answer, TypeOK
  <2> QED
    BY <1>5, <2>2, <2>3 DEF Answer, TypeOK
<1>6. CASE Close \/ Crash
  <2>1. stops' \in 0..MaxStops
    BY <1>6, ContactsAssumption DEF Close, Crash, Stopped, TypeOK
  <2>2. request' \in Seq(Times)
    BY <1>6, EmptySeq DEF Close, Crash, Stopped
  <2> QED
    BY <1>0, <1>6, <2>1, <2>2 DEF Close, Crash, Stopped, TypeOK
<1>7. CASE Restart
  <2>1. \A c \in Contact : [c EXCEPT !.tstamp = clock] \in Contact
    BY DEF Contact, TypeOK
  <2>2. Loaded \in [Keys -> Contact \cup {None}]
    BY <2>1 DEF Loaded, TypeOK
  <2>3. reply' \in Seq(Reply)
    BY <1>7, ResetFacts DEF Restart
  <2> QED
    BY <1>7, <2>2, <2>3 DEF Restart, TypeOK
<1>8. CASE Request
  <2>1. request' \in Seq(Times) /\ request' # <<>>
    BY <1>8, AppendProperties DEF Request, TypeOK
  <2> QED
    BY <1>8, <2>1 DEF Request, TypeOK
<1>9. CASE Update
  <2>1. /\ Head(reply).contacts \in SUBSET Ranked /\ Head(reply).tstamp \in Times
        /\ hash \in Hash \cup {None} /\ reply' \in Seq(Reply)
    <3>1. Head(reply) \in Reply /\ reply' \in Seq(Reply)
      BY <1>9, HeadTailProperties DEF Update, TypeOK
    <3> QED
      BY <3>1 DEF TypeOK, Reply
  <2>2. hash' \in Hash
    BY <1>9, <2>1, UpdateFacts DEF Update
  <2> QED
    BY <1>9, <2>1, <2>2 DEF Update, TypeOK
<1>10. CASE StopMu4e
  <2>1. 0 \in Times
    BY ContactsAssumption DEF Times
  <2>2. reply' \in Seq(Reply)
    BY <1>10, ResetFacts DEF StopMu4e
  <2> QED
    BY <1>10, <2>1, <2>2 DEF StopMu4e, TypeOK
<1>11. CASE UNCHANGED vars
  BY <1>11 DEF vars, TypeOK
<1> QED
  BY <1>1, <1>2, <1>3, <1>4, <1>5, <1>6, <1>7, <1>8, <1>9, <1>10, <1>11 DEF Next

(* A message is added to both the table and the sequence, and both are     *)
(* saved, dropped and loaded together.                                     *)
LEMMA TableStep == TypeOK /\ TableInv /\ [Next]_vars => TableInv'
<1> SUFFICES ASSUME TypeOK, TableInv, [Next]_vars PROVE TableInv'
  OBVIOUS
<1> USE DEF server, emacs
<1>1. ASSUME NEW w \in Workers, Add(w) PROVE TableInv'
  <2>1. adding[w] \in [msg : Messages, tstamp : Times]
    BY <1>1 DEF Add, TypeOK
  <2>2. StandsFor(Merged(table, adding[w].msg, adding[w].tstamp), Append(adds, adding[w].msg))
    BY <2>1, AddStands DEF TypeOK, TableInv
  <2> QED
    BY <1>1, <2>2 DEF Add, TableInv
<1>2. CASE Close \/ Crash
  BY <1>2, EmptyStands DEF Close, Crash, Stopped, TableInv
<1>3. CASE Restart
  <2>1. \A k \in Keys : /\ Loaded[k] = None <=> saved[k] = None
                        /\ saved[k] # None => /\ Loaded[k].freq = saved[k].freq
                                              /\ Loaded[k].seen = saved[k].seen
                                              /\ Loaded[k].full = saved[k].full
    <3>1. \A c \in Contact :
            LET d == [c EXCEPT !.tstamp = clock]
            IN  d # None /\ d.freq = c.freq /\ d.seen = c.seen /\ d.full = c.full
      <4>1. \A c \in Contact : [c EXCEPT !.tstamp = clock] \in Contact
        BY DEF Contact, TypeOK
      <4> QED
        BY <4>1, NoneAssumption DEF Contact
    <3> QED
      BY <3>1 DEF Loaded, TypeOK
  <2>2. StandsFor(Loaded, kept)
    BY <2>1 DEF TableInv, StandsFor
  <2> QED
    BY <1>3, <2>2 DEF Restart, TableInv
<1>4. CASE UNCHANGED <<table, saved, adds, kept>>
  BY <1>4 DEF TableInv
<1>5. ASSUME NEW w \in Workers, NEW m \in Messages, Make(w, m)
      PROVE  UNCHANGED <<table, saved, adds, kept>>
  BY <1>5 DEF Make
<1>6. Tick \/ Collect \/ Answer \/ Request \/ Update \/ StopMu4e \/ UNCHANGED vars
        => UNCHANGED <<table, saved, adds, kept>>
  BY DEF Tick, Collect, Answer, Request, Update, StopMu4e, vars
<1> QED
  BY <1>1, <1>2, <1>3, <1>4, <1>5, <1>6 DEF Next

LEMMA TimeFacts ==
  ASSUME TypeOK
  PROVE  /\ Stamps \subseteq Nat /\ clock \in Nat /\ tstamp \in Stamps
         /\ \A i \in DOMAIN request : request[i] \in Stamps
         /\ \A i \in DOMAIN reply : reply[i].tstamp \in Stamps
         /\ \A k \in KeysIn(table) : table[k] \in Contact /\ table[k].tstamp \in Nat
         /\ \A w \in Workers : adding[w] # None =>
              adding[w] \in [msg : Messages, tstamp : Times] /\ adding[w].tstamp \in Nat
<1>1. Times \subseteq Nat
  BY DEF Times
<1>2. (\A i \in DOMAIN request : request[i] \in Times) /\ \A i \in DOMAIN reply : reply[i] \in Reply
  <2>1. /\ request \in Seq(Times) /\ DOMAIN request = 1..Len(request)
        /\ reply \in Seq(Reply) /\ DOMAIN reply = 1..Len(reply)
    BY LenProperties DEF TypeOK
  <2> QED
    BY <2>1, ElementOfSeq
<1>3. Stamps \subseteq Times /\ tstamp \in Stamps
      /\ (\A i \in DOMAIN request : request[i] \in Stamps)
      /\ \A i \in DOMAIN reply : reply[i].tstamp \in Stamps
  BY <1>2 DEF TypeOK, Stamps, Reply
<1>4. /\ \A k \in KeysIn(table) : table[k] \in Contact
      /\ \A w \in Workers : adding[w] # None => adding[w] \in [msg : Messages, tstamp : Times]
  BY DEF TypeOK, KeysIn
<1> QED
  BY <1>1, <1>3, <1>4 DEF TypeOK, Contact

(* A contact is added to the table: mu4e has seen none of those that are   *)
(* not late, and the time stamp of any other is the clock, or its own.     *)
LEMMA AddComes ==
  ASSUME TypeOK, ComesInv, NEW w \in Workers, Add(w)
  PROVE  ComesInv'
<1> USE DEF emacs
<1> DEFINE m == adding[w].msg
           k == KeyOf[m]
           made == adding[w].tstamp
<1>1. /\ adding[w] # None /\ m \in Messages /\ made \in Times /\ made \in Nat
      /\ table \in [Keys -> Contact \cup {None}] /\ clock \in Times
  BY TimeFacts DEF Add, TypeOK
<1>2. /\ table' = Merged(table, m, made) /\ adding' = [adding EXCEPT ![w] = None]
      /\ UNCHANGED <<clock, found, up, request, reply, proc, hash, tstamp, wanted, late>>
  BY DEF Add
<1>3. /\ \A j \in Keys : j # k => table'[j] = table[j]
      /\ k \in Keys /\ table'[k] \in Contact /\ table'[k] # None
      /\ table[k] = None => table'[k].tstamp = made
      /\ table[k] # None => table'[k].personal = table[k].personal
      /\ table[k] # None /\ DateOf[m] > table[k].seen => table'[k].tstamp = clock
      /\ table[k] # None /\ ~(DateOf[m] > table[k].seen)
           => /\ table'[k].full = table[k].full /\ table'[k].seen = table[k].seen
              /\ table'[k].tstamp = table[k].tstamp
  <2> HIDE DEF m, made
  <2> QED
    BY <1>1, <1>2, MergedFacts DEF k
<1>4. /\ up /\ made <= clock /\ clock \in Nat /\ Stamps \subseteq Nat /\ Stamps' = Stamps
      /\ ~proc \/ k \in late \/ (found = None /\ \A s \in Stamps : s <= made)
      /\ \A s \in Stamps : s <= clock
  <2>1. Stamps' = Stamps
    BY <1>2 DEF Stamps
  <2>2. Stamps \subseteq Nat /\ clock \in Nat
    BY TimeFacts
  <2>3. \A s \in Stamps : s <= clock
    BY DEF ComesInv
  <2>4. adding[w] # None
    BY <1>1
  <2>5. /\ up /\ adding[w].tstamp <= clock
        /\ \/ ~proc \/ KeyOf[adding[w].msg] \in late
           \/ found = None /\ \A s \in Stamps : s <= adding[w].tstamp
    BY <2>4 DEF ComesInv
  <2> QED
    BY <2>1, <2>2, <2>3, <2>5
<1> HIDE DEF m, k, made
<1>5. \A j \in KeysIn(table') : j = k \/ (j \in KeysIn(table) /\ table'[j] = table[j])
  BY <1>3 DEF KeysIn
<1>6. \A j \in KeysIn(table') : table'[j].tstamp <= clock'
  <2>1. table'[k].tstamp <= clock
    <3>1. clock <= clock
      BY <1>4
    <3>2. table[k] # None => table[k].tstamp <= clock
      BY <1>3 DEF ComesInv, KeysIn
    <3> QED
      BY <1>3, <1>4, <3>1, <3>2
  <2> QED
    BY <1>2, <1>5, <2>1 DEF ComesInv
<1>7. \A v \in Workers : adding'[v] # None =>
         /\ up' /\ adding'[v].tstamp <= clock'
         /\ \/ ~proc' \/ KeyOf[adding'[v].msg] \in late'
            \/ found' = None /\ \A s \in Stamps' : s <= adding'[v].tstamp
  <2>1. \A v \in Workers : adding'[v] # None => adding'[v] = adding[v]
    BY <1>2 DEF TypeOK
  <2> QED
    BY <1>2, <1>4, <2>1 DEF ComesInv
<1>8. proc' => \A j \in KeysIn(table') \ late' : Wants(j)' =>
         Known(j)' \/ (found' = None /\ \A s \in Stamps' : s <= table'[j].tstamp)
  <2> SUFFICES ASSUME proc, NEW j \in KeysIn(table'), j \notin late', Wants(j)'
               PROVE  Known(j)' \/ (found' = None /\ \A s \in Stamps' : s <= table'[j].tstamp)
    BY <1>2
  <2>1. CASE j # k
    <3>1. j \in KeysIn(table) /\ table'[j] = table[j]
      BY <1>5, <2>1
    <3>2. Wants(j) /\ (Known(j)' <=> Known(j))
      BY <1>2, <3>1 DEF Wants, Known
    <3> QED
      BY <1>2, <1>4, <3>1, <3>2 DEF ComesInv
  <2>2. CASE j = k /\ table[k] = None
    BY <1>2, <1>3, <1>4, <2>2
  <2>3. CASE j = k /\ table[k] # None /\ DateOf[m] > table[k].seen
    BY <1>2, <1>3, <1>4, <2>3
  <2>4. CASE j = k /\ table[k] # None /\ ~(DateOf[m] > table[k].seen)
    <3>1. j \in KeysIn(table) /\ Wants(j) /\ (Known(j)' <=> Known(j))
      BY <1>2, <1>3, <2>4 DEF Wants, Known, KeysIn
    <3> QED
      BY <1>2, <1>3, <1>4, <2>4, <3>1 DEF ComesInv
  <2> QED
    BY <2>1, <2>2, <2>3, <2>4
<1>9. /\ found' # None => up'
      /\ ~up' => table' = Empty
      /\ \A s \in Stamps' : s <= clock'
  BY <1>2, <1>4 DEF ComesInv
<1> QED
  BY <1>6, <1>7, <1>8, <1>9 DEF ComesInv

(* The server looks at its table: what it leaves out has not changed since *)
(* mu4e's time stamp, so that mu4e has it, and what is being added is late.*)
LEMMA CollectComes ==
  ASSUME TypeOK, ComesInv, Collect
  PROVE  ComesInv'
<1> USE DEF server, emacs
<1>1. /\ up /\ request # <<>> /\ found = None /\ found' \subseteq Ranked
      /\ found' = {[full |-> table[k].full, rank |-> Rank(k)] :
                      k \in {j \in KeysIn(table) : Sends(j)}}
      /\ late' = late \cup {KeyOf[adding[w].msg] : w \in {v \in Workers : adding[v] # None}}
      /\ UNCHANGED <<clock, table, adding, up, request, reply, proc, hash, tstamp, wanted>>
  <2>1. TypeOK'
    BY TypeStep DEF Next
  <2>2. \A S : S = {[full |-> table[k].full, rank |-> Rank(k)] :
                      k \in {j \in KeysIn(table) : Sends(j)}} => S \subseteq Ranked
    <3>1. ASSUME NEW k \in KeysIn(table)
          PROVE  [full |-> table[k].full, rank |-> Rank(k)] \in Ranked
      <4>1. table[k].full \in Fulls
        BY TimeFacts DEF Contact
      <4> QED
        BY <4>1, RankType DEF Ranked
    <3> QED
      BY <3>1
  <2> QED
    BY <2>2 DEF Collect
<1>2. /\ Stamps' = Stamps /\ Stamps \subseteq Nat /\ clock \in Nat /\ Head(request) \in Stamps
  <2>1. Stamps' = Stamps
    BY <1>1 DEF Stamps
  <2>2. 1 \in DOMAIN request /\ Head(request) = request[1]
    BY <1>1, TailFacts DEF TypeOK
  <2> QED
    BY <2>1, <2>2, TimeFacts
<1>3. found' # None
  BY <1>1, NoneAssumption
<1>4. \A w \in Workers : adding[w] # None => KeyOf[adding[w].msg] \in late'
  BY <1>1
<1>5. proc => \A k \in KeysIn(table) \ late' : Wants(k)' => Known(k)'
  <2> SUFFICES ASSUME proc, NEW k \in KeysIn(table), k \notin late', Wants(k)' PROVE Known(k)'
    OBVIOUS
  <2>1. Wants(k) /\ k \notin late
    BY <1>1 DEF Wants
  <2>2. CASE Known(k)
    BY <1>1, <2>2 DEF Known
  <2>3. CASE \A s \in Stamps : s <= table[k].tstamp
    <3>1. Sends(k)
      BY <1>2, <2>1, <2>3 DEF Sends, Wants
    <3>2. [full |-> table[k].full, rank |-> Rank(k)] \in found'
      BY <1>1, <3>1
    <3>3. \E c \in found' : c.full = table'[k].full
      BY <1>1, <3>2
    <3> QED
      BY <1>3, <3>3 DEF Known
  <2> QED
    BY <2>1, <2>2, <2>3 DEF ComesInv
<1> HIDE DEF server, emacs
<1> QED
  BY <1>1, <1>2, <1>3, <1>4, <1>5 DEF ComesInv

(* What was collected is on its way to mu4e, with the time that is now:    *)
(* later than what it leaves out, which is known or late.                  *)
LEMMA AnswerComes ==
  ASSUME TypeOK, ComesInv, Answer
  PROVE  ComesInv'
<1> USE DEF server, emacs
<1> DEFINE answer == [contacts |-> found, tstamp |-> clock]
<1>1. /\ found # None /\ reply' = Append(reply, answer)
      /\ found' = None /\ request' = Tail(request) /\ request # <<>>
      /\ UNCHANGED <<clock, table, adding, up, proc, hash, tstamp, wanted, late>>
  BY DEF Answer, TypeOK
<1>2. answer \in Reply
  BY <1>1 DEF Reply, TypeOK
<1>3. /\ DOMAIN reply = 1..Len(reply) /\ Len(reply) \in Nat
      /\ DOMAIN reply' = 1..(Len(reply) + 1)
      /\ \A i \in 1..Len(reply) : reply'[i] = reply[i]
      /\ reply'[Len(reply) + 1] = answer
  <2>1. /\ reply \in Seq(Reply) /\ DOMAIN reply = 1..Len(reply) /\ Len(reply) \in Nat
    BY LenProperties DEF TypeOK
  <2> HIDE DEF answer
  <2>2. /\ reply' \in Seq(Reply) /\ Len(reply') = Len(reply) + 1
        /\ \A i \in 1..Len(reply) : reply'[i] = reply[i]
        /\ reply'[Len(reply) + 1] = answer
    BY <1>1, <1>2, <2>1, AppendProperties
  <2> QED
    BY <2>1, <2>2, LenProperties
<1>4. \A s \in Stamps' : s <= clock
  <2>1. \A i \in DOMAIN request' : \E j \in DOMAIN request : request'[i] = request[j]
    BY <1>1, TailFacts DEF TypeOK
  <2>2. \A i \in DOMAIN reply' : reply'[i].tstamp = clock \/ \E j \in DOMAIN reply : reply'[i] = reply[j]
    BY <1>3
  <2>3. \A s \in Stamps' : s = clock \/ s \in Stamps
    BY <1>1, <2>1, <2>2 DEF Stamps
  <2>4. clock <= clock
    BY TimeFacts
  <2> QED
    BY <2>3, <2>4 DEF ComesInv
<1>5. proc => \A w \in Workers : adding[w] # None => KeyOf[adding[w].msg] \in late
  BY <1>1 DEF ComesInv
<1>6. \A k : Known(k) => Known(k)'
  <2> SUFFICES ASSUME NEW k, Known(k) PROVE Known(k)'
    OBVIOUS
  <2>1. CASE hash # None /\ table[k].full \in DOMAIN hash
    BY <1>1, <2>1 DEF Known
  <2>2. CASE found # None /\ \E c \in found : c.full = table[k].full
    <3>1. Len(reply) + 1 \in DOMAIN reply' /\ reply'[Len(reply) + 1].contacts = found
      BY <1>3
    <3> QED
      BY <1>1, <2>2, <3>1 DEF Known
  <2>3. CASE \E i \in DOMAIN reply : \E c \in reply[i].contacts : c.full = table[k].full
    <3>1. \A i \in DOMAIN reply : i \in DOMAIN reply' /\ reply'[i] = reply[i]
      BY <1>3
    <3> QED
      BY <1>1, <2>3, <3>1 DEF Known
  <2> QED
    BY <2>1, <2>2, <2>3 DEF Known
<1>7. proc => \A k \in KeysIn(table) \ late : Wants(k)' => Known(k)'
  BY <1>1, <1>6 DEF ComesInv, Wants
<1> HIDE DEF server, emacs
<1> QED
  BY <1>1, <1>4, <1>5, <1>7 DEF ComesInv

(* The contacts of an answer are put into mu4e's table, and its time stamp *)
(* is the one that mu4e asks with next.                                    *)
LEMMA UpdateComes ==
  ASSUME TypeOK, ComesInv, Update
  PROVE  ComesInv'
<1> USE DEF server, emacs
<1>1. /\ reply # <<>> /\ hash' = With(hash, Head(reply).contacts)
      /\ tstamp' = Head(reply).tstamp /\ reply' = Tail(reply)
      /\ UNCHANGED <<clock, server, proc, wanted, late>>
  BY DEF Update
<1>2. /\ Head(reply) \in Reply /\ 1 \in DOMAIN reply /\ Head(reply) = reply[1]
      /\ \A i \in DOMAIN reply' : i + 1 \in DOMAIN reply /\ reply'[i] = reply[i + 1]
      /\ \A i \in DOMAIN reply : i = 1 \/ (i - 1 \in DOMAIN reply' /\ reply'[i - 1] = reply[i])
  BY <1>1, TailFacts DEF TypeOK
<1>3. Stamps' \subseteq Stamps
  BY <1>1, <1>2 DEF Stamps
<1>4. /\ hash' # None /\ (hash # None => DOMAIN hash \subseteq DOMAIN hash')
      /\ \A c \in Head(reply).contacts : c.full \in DOMAIN hash'
  <2>1. hash \in Hash \cup {None} /\ Head(reply).contacts \in SUBSET Ranked
    BY <1>2 DEF TypeOK, Reply
  <2>2. /\ With(hash, Head(reply).contacts) \in Hash
        /\ hash # None => DOMAIN hash \subseteq DOMAIN With(hash, Head(reply).contacts)
        /\ \A c \in Head(reply).contacts : c.full \in DOMAIN With(hash, Head(reply).contacts)
    BY <2>1, UpdateFacts
  <2> QED
    BY <1>1, <2>2, NoneAssumption
<1>5. \A k : Known(k) => Known(k)'
  <2> SUFFICES ASSUME NEW k, Known(k) PROVE Known(k)'
    OBVIOUS
  <2>1. CASE hash # None /\ table[k].full \in DOMAIN hash
    BY <1>1, <1>4, <2>1 DEF Known
  <2>2. CASE found # None /\ \E c \in found : c.full = table[k].full
    BY <1>1, <2>2 DEF Known
  <2>3. ASSUME NEW i \in DOMAIN reply, \E c \in reply[i].contacts : c.full = table[k].full
        PROVE  Known(k)'
    <3>1. CASE i = 1
      BY <1>1, <1>2, <1>4, <2>3, <3>1 DEF Known
    <3>2. CASE i # 1
      <4>1. i - 1 \in DOMAIN reply' /\ reply'[i - 1] = reply[i]
        BY <1>2, <3>2
      <4> QED
        BY <1>1, <2>3, <4>1 DEF Known
    <3> QED
      BY <3>1, <3>2
  <2> QED
    BY <2>1, <2>2, <2>3 DEF Known
<1>6. \A k : Wants(k)' <=> Wants(k)
  BY <1>1 DEF Wants
<1> QED
  BY <1>1, <1>3, <1>5, <1>6 DEF ComesInv

(* Every step keeps to that. *)
LEMMA ComesStep == TypeOK /\ ComesInv /\ [Next]_vars => ComesInv'
<1> SUFFICES ASSUME TypeOK, ComesInv, [Next]_vars PROVE ComesInv'
  OBVIOUS
<1> USE DEF server, emacs
<1>0. /\ Stamps \subseteq Nat /\ clock \in Nat
      /\ \A k \in KeysIn(table) : table[k] \in Contact /\ table[k].tstamp \in Nat
      /\ \A w \in Workers : adding[w] # None => adding[w].tstamp \in Nat
  BY TimeFacts
<1>1. CASE Tick
  <2>1. clock <= clock' /\ clock' \in Nat /\ UNCHANGED <<server, reply, emacs, late>>
    BY <1>0, <1>1 DEF Tick
  <2>2. Stamps' = Stamps /\ (\A k : Known(k)' <=> Known(k)) /\ (\A k : Wants(k)' <=> Wants(k))
    BY <2>1 DEF Stamps, Known, Wants
  <2>3. \A s \in Stamps : s <= clock'
    BY <1>0, <2>1 DEF ComesInv
  <2>4. \A k \in KeysIn(table) : table[k].tstamp <= clock'
    BY <1>0, <2>1 DEF ComesInv
  <2>5. \A w \in Workers : adding[w] # None => adding[w].tstamp <= clock'
    BY <1>0, <2>1 DEF ComesInv
  <2> QED
    BY <2>1, <2>2, <2>3, <2>4, <2>5 DEF ComesInv
<1>2. ASSUME NEW w \in Workers, Add(w) PROVE ComesInv'
  BY <1>2, AddComes
<1>3. ASSUME NEW w \in Workers, NEW m \in Messages, Make(w, m) PROVE ComesInv'
  <2>1. /\ up /\ adding' = [adding EXCEPT ![w] = [msg |-> m, tstamp |-> clock]]
        /\ late' = IF found = None THEN late ELSE late \cup {KeyOf[m]}
        /\ UNCHANGED <<clock, table, found, up, request, reply, proc, hash, tstamp, wanted>>
    BY <1>3 DEF Make
  <2>2. Stamps' = Stamps /\ (\A k : Known(k)' <=> Known(k)) /\ (\A k : Wants(k)' <=> Wants(k))
    BY <2>1 DEF Stamps, Known, Wants
  <2>3. late \subseteq late'
    BY <2>1
  <2>4. \A v \in Workers : adding'[v] # None =>
           /\ up' /\ adding'[v].tstamp <= clock'
           /\ \/ ~proc' \/ KeyOf[adding'[v].msg] \in late'
              \/ found' = None /\ \A s \in Stamps' : s <= adding'[v].tstamp
    <3> SUFFICES ASSUME NEW v \in Workers, adding'[v] # None
                 PROVE  /\ up' /\ adding'[v].tstamp <= clock'
                        /\ \/ ~proc' \/ KeyOf[adding'[v].msg] \in late'
                           \/ found' = None /\ \A s \in Stamps' : s <= adding'[v].tstamp
      OBVIOUS
    <3>1. CASE v = w
      <4>1. adding'[v].msg = m /\ adding'[v].tstamp = clock
        BY <2>1, <3>1 DEF TypeOK
      <4>2. \A s \in Stamps : s <= clock
        BY DEF ComesInv
      <4>3. clock <= clock
        BY <1>0
      <4> QED
        BY <2>1, <2>2, <4>1, <4>2, <4>3
    <3>2. CASE v # w
      <4>1. adding'[v] = adding[v]
        BY <2>1, <3>2 DEF TypeOK
      <4> QED
        BY <2>1, <2>2, <2>3, <4>1 DEF ComesInv
    <3> QED
      BY <3>1, <3>2
  <2> QED
    BY <2>1, <2>2, <2>3, <2>4 DEF ComesInv
<1>4. CASE Collect
  BY <1>4, CollectComes
<1>5. CASE Answer
  BY <1>5, AnswerComes
<1>6. CASE Close \/ Crash
  <2>1. /\ up' = FALSE /\ table' = Empty /\ adding' = Idle /\ found' = None
        /\ request' = <<>>
        /\ UNCHANGED <<clock, reply, tstamp>>
    BY <1>6 DEF Close, Crash, Stopped
  <2>2. KeysIn(table') = {} /\ (\A w \in Workers : adding'[w] = None) /\ Stamps' \subseteq Stamps
    BY <2>1 DEF KeysIn, Empty, Idle, Stamps
  <2> QED
    BY <2>1, <2>2 DEF ComesInv
<1>7. CASE Restart
  <2>1. /\ ~up /\ up' /\ table' = Loaded /\ reply' \in AfterReset
        /\ UNCHANGED <<clock, adding, found, request, hash, tstamp, wanted>>
    BY <1>7 DEF Restart
  <2>2. \A k \in KeysIn(table') : table'[k].tstamp = clock
    <3>1. \A c \in Contact : [c EXCEPT !.tstamp = clock].tstamp = clock
      BY DEF Contact
    <3> QED
      BY <2>1, <3>1 DEF Loaded, KeysIn, TypeOK
  <2>3. Stamps' \subseteq Stamps
    <3>1. \A i \in DOMAIN reply' : \E j \in DOMAIN reply : reply'[i] = reply[j]
      BY <2>1, ResetFacts
    <3> QED
      BY <2>1, <3>1 DEF Stamps
  <2>4. found = None /\ (\A w \in Workers : adding[w] = None)
        /\ (\A s \in Stamps' : s <= clock) /\ clock <= clock
    <3>1. \A w \in Workers : adding[w] = None
      BY <2>1 DEF ComesInv
    <3>2. found = None
      BY <2>1 DEF ComesInv
    <3>3. \A s \in Stamps' : s <= clock
      BY <2>3 DEF ComesInv
    <3> QED
      BY <1>0, <3>1, <3>2, <3>3
  <2> QED
    BY <2>1, <2>2, <2>4 DEF ComesInv
<1>8. CASE Request
  <2>1. /\ request' = Append(request, tstamp)
        /\ UNCHANGED <<clock, table, adding, found, up, reply, emacs, late>>
    BY <1>8 DEF Request
  <2>2. Stamps' \subseteq Stamps
    <3>0. request \in Seq(Times) /\ tstamp \in Times /\ request' = Append(request, tstamp)
      BY <2>1 DEF TypeOK
    <3>1. /\ DOMAIN request = 1..Len(request) /\ Len(request) \in Nat
          /\ request' \in Seq(Times) /\ Len(request') = Len(request) + 1
          /\ \A i \in 1..Len(request) : request'[i] = request[i]
          /\ request'[Len(request) + 1] = tstamp
      BY <3>0, AppendProperties, LenProperties
    <3>2. DOMAIN request' = 1..(Len(request) + 1)
      BY <3>1, LenProperties
    <3>3. \A i \in DOMAIN request' : request'[i] = tstamp \/ \E j \in DOMAIN request : request'[i] = request[j]
      BY <3>1, <3>2
    <3> QED
      BY <2>1, <3>1, <3>3 DEF Stamps
  <2>3. (\A k : Known(k)' <=> Known(k)) /\ (\A k : Wants(k)' <=> Wants(k))
    BY <2>1 DEF Known, Wants
  <2> QED
    BY <2>1, <2>2, <2>3 DEF ComesInv
<1>9. CASE Update
  BY <1>9, UpdateComes
<1>10. CASE StopMu4e
  <2>1. /\ tstamp' = 0 /\ proc' = FALSE /\ reply' \in AfterReset
        /\ UNCHANGED <<clock, server, wanted, late>>
    BY <1>10 DEF StopMu4e
  <2>2. \A s \in Stamps' : s <= clock
    <3>1. \A i \in DOMAIN reply' : \E j \in DOMAIN reply : reply'[i] = reply[j]
      BY <2>1, ResetFacts
    <3>2. \A s \in Stamps' : s = 0 \/ s \in Stamps
      BY <2>1, <3>1 DEF Stamps
    <3>3. 0 <= clock
      BY <1>0
    <3> QED
      BY <3>2, <3>3 DEF ComesInv
  <2> QED
    BY <2>1, <2>2 DEF ComesInv
<1>11. CASE UNCHANGED vars
  <2>1. UNCHANGED <<clock, server, reply, emacs, late>>
    BY <1>11 DEF vars
  <2>2. Stamps' = Stamps /\ (\A k : Known(k)' <=> Known(k)) /\ (\A k : Wants(k)' <=> Wants(k))
    BY <2>1 DEF Stamps, Known, Wants
  <2> QED
    BY <2>1, <2>2 DEF ComesInv
<1> HIDE DEF server, emacs
<1> QED
  BY <1>1, <1>2, <1>3, <1>4, <1>5, <1>6, <1>7, <1>8, <1>9, <1>10, <1>11 DEF Next

(* No message has been added, nothing was asked. *)
LEMMA InitInv == Init => TypeOK /\ TableInv /\ ComesInv
<1> SUFFICES ASSUME Init PROVE TypeOK /\ TableInv /\ ComesInv
  OBVIOUS
<1>1. TypeOK
  <2>1. /\ Empty \in [Keys -> Contact \cup {None}] /\ <<>> \in Seq(Messages)
        /\ Idle \in [Workers -> [msg : Messages, tstamp : Times] \cup {None}]
        /\ 0 \in Times /\ 0 \in 0..MaxStops
    BY ContactsAssumption DEF Empty, Idle, Times
  <2>2. wanted \in [personal : BOOLEAN, after : Nat]
    BY ContactsAssumption DEF Init
  <2> QED
    BY <2>1, <2>2 DEF Init, TypeOK
<1>2. TableInv
  BY EmptyStands DEF Init, TableInv
<1>3. ComesInv
  <2>1. KeysIn(table) = {} /\ (\A w \in Workers : adding[w] = None) /\ Stamps = {0}
    BY DEF Init, KeysIn, Empty, Idle, Stamps
  <2> QED
    BY <2>1 DEF Init, ComesInv
<1> QED
  BY <1>1, <1>2, <1>3

(* Every variable keeps its type: a rank is at most the number of          *)
(* addresses, and mu4e's copy has ranks only.                              *)
THEOREM TypeCorrect == Spec => []TypeOK
<1>1. Init => TypeOK
  BY InitInv
<1> QED
  BY <1>1, TypeStep, PTL DEF Spec

(* The table counts every message that was added, or was saved before the  *)
(* last crash, has the name of the latest, in whatever order they came,    *)
(* and ranks no two contacts alike.                                        *)
THEOREM TableIsRight == Spec => []TableRight
<1>1. Init => TypeOK /\ TableInv
  BY InitInv
<1>2. TypeOK /\ TableInv /\ [Next]_vars => TypeOK' /\ TableInv'
  BY TypeStep, TableStep
<1>3. TypeOK /\ TableInv => TableRight
  BY StandsRight DEF TableInv
<1> QED
  BY <1>1, <1>2, <1>3, PTL DEF Spec

(* A contact that mu4e wants of the server it talks to, and that was not   *)
(* being added while that server handled a request, is known to mu4e, on   *)
(* its way, or will come with the answer to whichever request is handled   *)
(* next, whatever was added, asked, answered, stopped or lost meanwhile,   *)
(* and however much of it is under way at once.                            *)
THEOREM ContactComesNext == Spec => []ComesNext
<1>1. Init => TypeOK /\ ComesInv
  BY InitInv
<1>2. TypeOK /\ ComesInv /\ [Next]_vars => TypeOK' /\ ComesInv'
  BY TypeStep, ComesStep
<1>3. ComesInv => ComesNext
  BY DEF ComesInv, ComesNext, Wants
<1> QED
  BY <1>1, <1>2, <1>3, PTL DEF Spec
=============================================================================
