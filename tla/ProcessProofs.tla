---------------------------- MODULE ProcessProofs ----------------------------
(***************************************************************************)
(* Theorems about Process, for any number of servers, commands, faults and *)
(* any length of a reply: types, the order of what is executed, and that   *)
(* the replies go through ReplyChannel.                                    *)
(***************************************************************************)
EXTENDS
  Process, SequenceTheorems, FiniteSetTheorems, FunctionTheorems,
  WellFoundedInduction, TLAPS

(* A command that is in the pipe of a server, that the server executed, or *)
(* either.                                                                 *)
Waits(s, c) == c # Quit /\ \E a \in DOMAIN stdin[s] : stdin[s][a] = c
Did(s, c)   == \E i \in DOMAIN executed : executed[i] = <<s, c>>
Given(s, c) == Waits(s, c) \/ Did(s, c)

(* Who is in the loop has the store, was the last to get it, and only they *)
(* execute anything.                                                       *)
LockInv ==
  /\ \A s \in Servers : phase[s] \in {"loop", "read"} => lock = s
  /\ lock # None => opened # <<>> /\ opened[Len(opened)] = lock
  /\ \A i \in DOMAIN executed : \E a \in DOMAIN opened : opened[a] = executed[i][1]

(* Servers are numbered as they are started, commands go to the newest.    *)
StartInv ==
  /\ \A s, t \in Servers : s < t /\ phase[s] = "none" => phase[t] = "none"
  /\ current # None => \A t \in Servers : t > current => phase[t] = "none"
  /\ \A s \in Servers, c \in Commands : phase[s] = "none" => ~Given(s, c)

(* What a server got, it got in order: it has executed what was sent       *)
(* before what is in its pipe, and an older server got what was sent       *)
(* before.                                                                 *)
PipeInv ==
  /\ \A s \in Servers : \A a, b \in DOMAIN stdin[s] :
       a < b /\ stdin[s][a] # Quit /\ stdin[s][b] # Quit => stdin[s][a] < stdin[s][b]
  /\ \A s \in Servers, c \in Commands : Given(s, c) => c <= sent
  /\ \A s \in Servers, c, d \in Commands : Did(s, c) /\ Waits(s, d) => c < d
  /\ \A s, t \in Servers, c, d \in Commands :
       s < t /\ Given(s, c) /\ Given(t, d) => c < d

OrderInv == LockInv /\ StartInv /\ PipeInv /\ ExecutedInOrder

(* Some numbers have a least one, and some servers a newest one, so that   *)
(* the CHOOSE in Next1, NewestOf and First pick one.                       *)
LEMMA LeastExists ==
  ASSUME NEW S \in SUBSET Nat, S # {}
  PROVE  \E s \in S : \A t \in S : s <= t
<1>1. S \subseteq Nat
  OBVIOUS
<1>2. IsWellFoundedOn(OpToRel(<, Nat), Nat)
  BY NatLessThanWellFounded
<1>3. PICK s \in S : \A t \in S : <<t, s>> \notin OpToRel(<, Nat)
  BY <1>1, <1>2, WFMin
<1>4. ASSUME NEW t \in S PROVE s <= t
  <2>1. s \in Nat /\ t \in Nat
    BY <1>1
  <2>2. ~(t < s)
    BY <1>1, <1>3, Zenon DEF OpToRel
  <2> QED
    BY <2>1, <2>2
<1> QED
  BY <1>4

LEMMA NewestExists ==
  ASSUME NEW S \in SUBSET Servers, S # {}
  PROVE  NewestOf(S) \in S /\ \A t \in S : t <= NewestOf(S)
<1> DEFINE T == {MaxServers + 1 - s : s \in S}
<1>1. T \in SUBSET Nat /\ T # {}
  <2>1. ASSUME NEW s \in S PROVE MaxServers + 1 - s \in Nat
    <3>1. s \in Servers
      OBVIOUS
    <3> QED
      BY <3>1, ProcessAssumption DEF Servers
  <2> QED
    BY <2>1
<1>2. PICK u \in T : \A t \in T : u <= t
  <2> HIDE DEF T
  <2> QED
    BY <1>1, LeastExists
<1>3. PICK s \in S : u = MaxServers + 1 - s
  OBVIOUS
<1>4. \A t \in S : t <= s
  <2> SUFFICES ASSUME NEW t \in S PROVE t <= s
    OBVIOUS
  <2>1. u <= MaxServers + 1 - t
    BY <1>2
  <2> QED
    BY <1>3, <2>1, ProcessAssumption DEF Servers
<1> QED
  BY <1>4 DEF NewestOf

(* mu4e~call-mu sends to the server it has, or to the next one, which is   *)
(* newer than all that were started.                                       *)
LEMMA ReceiverFacts ==
  ASSUME TypeOK, CanSend
  PROVE  /\ Receiver \in Servers
         /\ Running => Receiver = current /\ Alive(current)
         /\ ~Running => /\ phase[Receiver] = "none"
                        /\ \A t \in Servers : t < Receiver => phase[t] # "none"
<1>1. CASE Running
  BY <1>1 DEF Running, Receiver, TypeOK
<1>2. CASE ~Running
  <2>1. Fresh # {} /\ Fresh \in SUBSET Servers
    BY <1>2 DEF CanSend, Fresh
  <2>2. PICK s \in Fresh : \A t \in Fresh : s <= t
    <3>1. Fresh \in SUBSET Nat
      BY <2>1 DEF Servers
    <3> QED
      BY <2>1, <3>1, LeastExists
  <2>3. Next1 \in Fresh /\ \A t \in Fresh : Next1 <= t
    BY <2>2 DEF Next1
  <2>4. Receiver = Next1 /\ Next1 \in Servers /\ phase[Next1] = "none"
    BY <1>2, <2>3 DEF Receiver, Fresh
  <2>5. \A t \in Servers : t < Next1 => phase[t] # "none"
    <3> SUFFICES ASSUME NEW t \in Servers, t < Next1, phase[t] = "none" PROVE FALSE
      OBVIOUS
    <3>1. Next1 <= t
      BY <2>3 DEF Fresh
    <3> QED
      BY <2>4, <3>1 DEF Servers
  <2> QED
    BY <1>2, <2>4, <2>5
<1> QED
  BY <1>1, <1>2

(* A form is a sequence of bytes, and what is written keeps the types of   *)
(* the pipe and of the buffer of stdio.                                    *)
LEMMA FormType ==
  ASSUME NEW s \in Servers, NEW r \in Replies
  PROVE  Form(s, r) \in Seq(Bytes)
<1>1. \A is \in {"pre", "post", "pay"}, at \in 0..PayloadSize : Byte(is, s, r, at) \in Bytes
  BY DEF Byte, Bytes
<1>2. 0 \in 0..PayloadSize /\ PayloadSize \in Nat
  BY ProcessAssumption
<1>3. <<Byte("pre", s, r, 0), Byte("post", s, r, 0)>> \in Seq(Bytes)
  BY <1>1, <1>2
<1>4. [i \in 1..PayloadSize |-> Byte("pay", s, r, i)] \in [1..PayloadSize -> Bytes]
  BY <1>1, <1>2
<1>5. [i \in 1..PayloadSize |-> Byte("pay", s, r, i)] \in Seq(Bytes)
  BY <1>2, <1>4, SeqDef
<1> QED
  BY <1>3, <1>5, ConcatProperties DEF Form

LEMMA WriteType ==
  ASSUME TypeOK, NEW s \in Servers, NEW out \in Seq(Bytes), Puts(s, out) \/ Flush(s, out)
  PROVE  stdout' \in [Servers -> Seq(Bytes)] /\ rest' \in [Servers -> Seq(Bytes)]
<1>1. rest[s] \in Seq(Bytes) /\ stdout[s] \in Seq(Bytes)
  BY DEF TypeOK
<1> DEFINE all == rest[s] \o out
<1>2. all \in Seq(Bytes) /\ Len(all) \in Nat
  BY <1>1, ConcatProperties, LenProperties
<1>3. stdout[s] \o rest[s] \o out \in Seq(Bytes)
  <2>1. stdout[s] \o rest[s] \in Seq(Bytes)
    BY <1>1, ConcatProperties
  <2> QED
    BY <2>1, ConcatProperties
<1>4. CASE Flush(s, out)
  BY <1>3, <1>4, EmptySeq DEF Flush, TypeOK
<1>5. CASE Puts(s, out)
  <2>1. PICK k \in 0..Len(all) :
          /\ stdout' = [stdout EXCEPT ![s] = @ \o SubSeq(all, 1, k)]
          /\ rest' = [rest EXCEPT ![s] = SubSeq(all, k + 1, Len(all))]
    BY <1>5 DEF Puts
  <2> HIDE DEF all
  <2>2. k \in Nat /\ k <= Len(all) /\ \A i \in 1..Len(all) : all[i] \in Bytes
    BY <1>2, ElementOfSeq
  <2>3. 1 \in Int /\ k \in Int /\ (\A i \in 1..k : all[i] \in Bytes)
    BY <1>2, <2>2
  <2>4. k + 1 \in Int /\ Len(all) \in Int /\ (\A i \in (k + 1)..Len(all) : all[i] \in Bytes)
    BY <1>2, <2>2
  <2>5. SubSeq(all, 1, k) \in Seq(Bytes)
    BY <2>3, SubSeqProperties
  <2>6. SubSeq(all, k + 1, Len(all)) \in Seq(Bytes)
    BY <2>4, SubSeqProperties
  <2>7. stdout[s] \o SubSeq(all, 1, k) \in Seq(Bytes)
    BY <1>1, <2>5, ConcatProperties
  <2> QED
    BY <2>1, <2>6, <2>7 DEF TypeOK
<1> QED
  BY <1>4, <1>5

(* Where there is a cookie there is a first one; and what is left of the   *)
(* buffer after it, or after an expression.                                *)
LEMMA FirstNat ==
  ASSUME TypeOK, Whole
  PROVE  First \in Nat
<1>1. Len(buf) \in Nat
  BY LenProperties DEF TypeOK
<1>2. Cookies \in SUBSET Nat /\ Cookies # {}
  BY <1>1 DEF Cookies, Whole
<1>3. PICK i \in Cookies : \A j \in Cookies : i <= j
  BY <1>2, LeastExists
<1>4. First \in Cookies
  BY <1>3 DEF First
<1> QED
  BY <1>2, <1>4

LEMMA AfterType ==
  ASSUME TypeOK, Whole, NEW n \in Nat
  PROVE  After(First + n) \in Seq(Bytes)
<1>1. buf \in Seq(Bytes) /\ Len(buf) \in Nat
  BY LenProperties DEF TypeOK
<1>3. First \in Nat
  BY FirstNat
<1> DEFINE m == First + n + 1
<1>4. m \in Nat /\ m >= 1
  BY <1>3
<1>5. \A i \in m..Len(buf) : buf[i] \in Bytes
  <2> SUFFICES ASSUME NEW i \in m..Len(buf) PROVE buf[i] \in Bytes
    OBVIOUS
  <2>1. i \in 1..Len(buf)
    BY <1>1, <1>4
  <2> QED
    BY <1>1, <2>1, ElementOfSeq
<1> HIDE DEF m
<1>6. m \in Int /\ Len(buf) \in Int
  BY <1>1, <1>4
<1>7. SubSeq(buf, m, Len(buf)) \in Seq(Bytes)
  BY <1>5, <1>6, SubSeqProperties
<1> QED
  BY <1>3, <1>7 DEF After, m

(* The pipes of the servers, and the phases, when something is sent. *)
LEMMA SendType ==
  ASSUME TypeOK, CanSend, NEW c \in Commands \cup {Quit}
  PROVE  /\ With(c) \in [Servers -> Seq(Commands \cup {Quit})]
         /\ Started \in [Servers -> Phases]
         /\ Receiver \in Servers
<1>1. Receiver \in Servers
  BY ReceiverFacts
<1>2. Append(stdin[Receiver], c) \in Seq(Commands \cup {Quit})
  BY <1>1, AppendProperties DEF TypeOK
<1>3. With(c) \in [Servers -> Seq(Commands \cup {Quit})]
  BY <1>1, <1>2 DEF With, TypeOK
<1>4. Started \in [Servers -> Phases]
  BY DEF Started, TypeOK, Phases
<1> QED
  BY <1>1, <1>3, <1>4

LEMMA TypeStep == TypeOK /\ [Next]_vars => TypeOK'
<1> SUFFICES ASSUME TypeOK, [Next]_vars PROVE TypeOK'
  OBVIOUS
<1> USE DEF emacs, servers, history, ServerKeeps, EmacsKeeps, Becomes
<1>1. ASSUME NEW s \in Servers, Open(s) PROVE TypeOK'
  <2>1. CASE Gets(s) /\ UNCHANGED <<stop, stdin, executed, faults>> /\ ServerKeeps
    <3>1. opened' \in Seq(Servers)
      BY <2>1, AppendProperties DEF Gets, TypeOK
    <3> QED
      BY <2>1, <3>1 DEF Gets, TypeOK, Phases
  <2>2. CASE /\ Puts(s, Form(s, 0)) /\ Becomes(s, "end") /\ UNCHANGED <<lock, opened>>
             /\ UNCHANGED <<stop, stdin, executed, faults>> /\ ServerKeeps
    <3>1. Form(s, 0) \in Seq(Bytes)
      BY FormType, ProcessAssumption DEF Replies
    <3>2. stdout' \in [Servers -> Seq(Bytes)] /\ rest' \in [Servers -> Seq(Bytes)]
      BY <2>2, <3>1, WriteType
    <3> QED
      BY <2>2, <3>2 DEF TypeOK, Phases
  <2> QED
    BY <1>1, <2>1, <2>2 DEF Open
<1>2. ASSUME NEW s \in Servers, Loop(s) PROVE TypeOK'
  <2>1. CASE s \in stop
    BY <1>2, <2>1 DEF Loop, TypeOK, Phases
  <2>2. CASE s \notin stop
    <3>1. <<Prompt>> \in Seq(Bytes)
      BY DEF Bytes
    <3>2. stdout' \in [Servers -> Seq(Bytes)] /\ rest' \in [Servers -> Seq(Bytes)]
      BY <1>2, <2>2, <3>1, WriteType DEF Loop
    <3> QED
      BY <1>2, <2>2, <3>2 DEF Loop, TypeOK, Phases
  <2> QED
    BY <2>1, <2>2
<1>3. ASSUME NEW s \in Servers, Read(s) PROVE TypeOK'
  <2>1. /\ Head(stdin[s]) \in Commands \cup {Quit}
        /\ stdin' \in [Servers -> Seq(Commands \cup {Quit})]
    <3>1. stdin[s] \in Seq(Commands \cup {Quit}) /\ stdin[s] # <<>>
      BY <1>3 DEF Read, TypeOK
    <3>2. /\ Head(stdin[s]) \in Commands \cup {Quit}
          /\ Tail(stdin[s]) \in Seq(Commands \cup {Quit})
      BY <3>1, HeadTailProperties
    <3> QED
      BY <1>3, <3>2 DEF Read, TypeOK
  <2>2. CASE Head(stdin[s]) = Quit
    BY <1>3, <2>1, <2>2 DEF Read, TypeOK, Phases
  <2>3. CASE Head(stdin[s]) # Quit
    <3> DEFINE c == Head(stdin[s])
    <3>1. c \in Commands /\ c \in Replies
      BY <2>1, <2>3, ProcessAssumption DEF Commands, Replies
    <3>2. Form(s, c) \in Seq(Bytes)
      BY <3>1, FormType
    <3>3. Puts(s, Form(s, c)) /\ executed' = Append(executed, <<s, c>>)
      BY <1>3, <2>3 DEF Read
    <3>4. stdout' \in [Servers -> Seq(Bytes)] /\ rest' \in [Servers -> Seq(Bytes)]
      BY <3>2, <3>3, WriteType
    <3>5. executed' \in Seq(Servers \X Commands)
      BY <3>1, <3>3, AppendProperties DEF TypeOK
    <3> QED
      BY <1>3, <2>1, <2>3, <3>4, <3>5 DEF Read, TypeOK, Phases
  <2> QED
    BY <2>2, <2>3
<1>4. ASSUME NEW s \in Servers, Interrupted(s) PROVE TypeOK'
  BY <1>4 DEF Interrupted, TypeOK, Phases
<1>5. ASSUME NEW s \in Servers, Exit(s) PROVE TypeOK'
  <2>1. <<>> \in Seq(Bytes) /\ <<>> \in Seq(Commands \cup {Quit})
    OBVIOUS
  <2>2. stdout' \in [Servers -> Seq(Bytes)] /\ rest' \in [Servers -> Seq(Bytes)]
    BY <1>5, <2>1, WriteType DEF Exit
  <2> QED
    BY <1>5, <2>1, <2>2 DEF Exit, TypeOK, Phases, Unlocked
<1>6. ASSUME NEW s \in Servers, Crash(s) PROVE TypeOK'
  <2>1. <<>> \in Seq(Bytes) /\ <<>> \in Seq(Commands \cup {Quit})
    OBVIOUS
  <2>2. faults' \in 0..MaxFaults
    BY <1>6, ProcessAssumption DEF Crash, Fault, TypeOK
  <2> QED
    BY <1>6, <2>1, <2>2 DEF Crash, Dies, TypeOK, Phases, Unlocked
<1>7. CASE Command
  <2>1. sent' \in 0..MaxCommands /\ sent + 1 \in Commands
    BY <1>7, ProcessAssumption DEF Command, TypeOK, Commands
  <2>2. /\ With(sent + 1) \in [Servers -> Seq(Commands \cup {Quit})]
        /\ Started \in [Servers -> Phases] /\ Receiver \in Servers
    BY <1>7, <2>1, SendType DEF Command
  <2>3. buf' \in Seq(Bytes)
    BY <1>7 DEF Command, TypeOK
  <2> QED
    BY <1>7, <2>1, <2>2, <2>3 DEF Command, TypeOK
<1>8. CASE Kill
  <2> DEFINE s == NewestOf(Processes)
  <2>1. sent' \in 0..MaxCommands
    BY <1>8, ProcessAssumption DEF Kill, TypeOK
  <2>2. /\ With(Quit) \in [Servers -> Seq(Commands \cup {Quit})]
        /\ Started \in [Servers -> Phases] /\ Receiver \in Servers
    BY <1>8, SendType DEF Kill
  <2>3. s \in Servers
    BY <1>8, NewestExists DEF Kill, Processes
  <2>4. <<>> \in Seq(Commands \cup {Quit})
    OBVIOUS
  <2> HIDE DEF s
  <2>5. phase' \in [Servers -> Phases] /\ stop' \subseteq Servers
        /\ stdin' \in [Servers -> Seq(Commands \cup {Quit})]
    <3>1. CASE phase[s] = "open"
      <4>1. /\ phase' = [Started EXCEPT ![s] = "dead"]
            /\ stdin' = [With(Quit) EXCEPT ![s] = <<>>]
            /\ stop' = stop
        BY <1>8, <3>1 DEF Kill, s
      <4>2. "dead" \in Phases
        BY DEF Phases
      <4> QED
        BY <2>2, <2>3, <2>4, <4>1, <4>2 DEF TypeOK
    <3>2. CASE phase[s] # "open"
      BY <1>8, <2>2, <2>3, <3>2 DEF Kill, s, TypeOK
    <3> QED
      BY <3>1, <3>2
  <2>6. asked' \subseteq Servers
    BY <1>8, <2>2, <2>3 DEF Kill, s, TypeOK
  <2>7. /\ current' = None /\ buf' = <<>>
        /\ UNCHANGED <<filtering, lock, rest, evaluated, opened, executed, faults, failed, stdout>>
    BY <1>8 DEF Kill
  <2> QED
    BY <2>1, <2>5, <2>6, <2>7, EmptySeq DEF TypeOK
<1>9. ASSUME NEW s \in Servers, Sentinel(s) PROVE TypeOK'
  BY <1>9 DEF Sentinel, TypeOK, Phases
<1>10. ASSUME NEW s \in Servers, Filter(s) PROVE TypeOK'
  <2>1. buf \o stdout[s] \in Seq(Bytes) /\ <<>> \in Seq(Bytes)
    BY ConcatProperties DEF TypeOK
  <2> QED
    BY <1>10, <2>1 DEF Filter, TypeOK
<1>11. CASE Evaluate
  <2>1. buf' \in Seq(Bytes)
    <3>1. 1 + PayloadSize \in Nat
      BY ProcessAssumption
    <3>2. After(First + (1 + PayloadSize)) \in Seq(Bytes)
      BY <1>11, <3>1, AfterType DEF Evaluate
    <3>3. First + 1 + PayloadSize = First + (1 + PayloadSize)
      BY <1>11, FirstNat, ProcessAssumption DEF Evaluate
    <3> QED
      BY <1>11, <3>2, <3>3 DEF Evaluate
  <2>2. PICK s \in Servers, r \in Replies :
          /\ evaluated' = Append(evaluated, <<s, r>>)
          /\ \/ r # 0 /\ UNCHANGED <<filtering, faults, failed>>
             \/ r # 0 /\ filtering' = FALSE /\ failed' = TRUE /\ Fault
             \/ r = 0 /\ filtering' = FALSE /\ failed' = TRUE /\ UNCHANGED faults
    BY <1>11 DEF Evaluate
  <2>3. evaluated' \in Seq((Servers \X Replies) \cup {Garbled})
    BY <2>2, AppendProperties DEF TypeOK
  <2>4. filtering' \in BOOLEAN /\ failed' \in BOOLEAN /\ faults' \in 0..MaxFaults
    <3>1. filtering \in BOOLEAN /\ failed \in BOOLEAN /\ faults \in 0..MaxFaults
      BY DEF TypeOK
    <3>2. CASE UNCHANGED <<filtering, faults, failed>>
      BY <3>1, <3>2
    <3>3. CASE filtering' = FALSE /\ failed' = TRUE /\ Fault
      <4>1. faults' \in 0..MaxFaults
        BY <3>1, <3>3, ProcessAssumption DEF Fault
      <4> QED
        BY <3>3, <4>1
    <3>4. CASE filtering' = FALSE /\ failed' = TRUE /\ UNCHANGED faults
      BY <3>1, <3>4
    <3> QED
      BY <2>2, <3>2, <3>3, <3>4
  <2> QED
    BY <1>11, <2>1, <2>3, <2>4 DEF Evaluate, TypeOK
<1>12. CASE Misread
  <2>1. buf' \in Seq(Bytes)
    <3>1. 1 \in Nat /\ 1 + PayloadSize \in Nat
      BY ProcessAssumption
    <3>2. After(First + 1) \in Seq(Bytes) /\ After(First + (1 + PayloadSize)) \in Seq(Bytes)
      BY <1>12, <3>1, AfterType DEF Misread
    <3>3. First + 1 + PayloadSize = First + (1 + PayloadSize)
      BY <1>12, FirstNat, ProcessAssumption DEF Misread
    <3> QED
      BY <1>12, <3>2, <3>3 DEF Misread
  <2>2. evaluated' \in Seq((Servers \X Replies) \cup {Garbled})
    <3> DEFINE E == (Servers \X Replies) \cup {Garbled}
    <3>1. evaluated \in Seq(E) /\ Garbled \in E
      BY DEF TypeOK
    <3> HIDE DEF E
    <3>2. Append(evaluated, Garbled) \in Seq(E)
      BY <3>1, AppendProperties
    <3>3. evaluated' \in Seq(E)
      BY <1>12, <3>1, <3>2 DEF Misread
    <3> QED
      BY <3>3 DEF E
  <2> QED
    BY <1>12, <2>1, <2>2 DEF Misread, TypeOK
<1>13. CASE Starved
  BY <1>13 DEF Starved, TypeOK
<1>14. CASE UNCHANGED vars
  BY <1>14 DEF vars, TypeOK
<1> QED
  BY <1>1, <1>2, <1>3, <1>4, <1>5, <1>6, <1>7, <1>8, <1>9, <1>10, <1>11, <1>12,
      <1>13, <1>14
  DEF Next, Serve, Lisp

(* A step that sends and executes nothing, and lets nobody into the loop.  *)
LEMMA QuietStep ==
  ASSUME TypeOK, OrderInv,
         UNCHANGED <<sent, opened, executed>>,
         lock' \in {lock, None},
         current' \in {current, None},
         \A s \in Servers : \/ stdin'[s] = stdin[s] \/ stdin'[s] = <<>>
                            \/ stdin[s] # <<>> /\ stdin'[s] = Tail(stdin[s]),
         \A s \in Servers : phase'[s] = "none" <=> phase[s] = "none",
         \A s \in Servers : phase'[s] \in {"loop", "read"} => lock' = s
  PROVE  OrderInv'
<1> USE DEF OrderInv
<1>0. ASSUME NEW s \in Servers
      PROVE  \E k \in {0, 1} : \A a \in DOMAIN stdin'[s] :
               /\ a \in Nat /\ a + k \in DOMAIN stdin[s]
               /\ stdin'[s][a] = stdin[s][a + k]
  <2>1. stdin[s] \in Seq(Commands \cup {Quit})
    BY DEF TypeOK
  <2>2. Len(stdin[s]) \in Nat /\ DOMAIN stdin[s] = 1..Len(stdin[s])
    BY <2>1, LenProperties
  <2>3. CASE stdin'[s] = stdin[s]
    <3>1. \A a \in DOMAIN stdin'[s] : a \in Nat /\ a + 0 = a
      BY <2>2, <2>3
    <3> QED
      BY <2>3, <3>1
  <2>4. CASE stdin'[s] = <<>>
    BY <2>4
  <2>5. CASE stdin[s] # <<>> /\ stdin'[s] = Tail(stdin[s])
    <3>1. /\ stdin'[s] \in Seq(Commands \cup {Quit})
          /\ Len(stdin'[s]) = Len(stdin[s]) - 1
          /\ \A a \in 1..Len(stdin'[s]) : stdin'[s][a] = stdin[s][a + 1]
      BY <2>1, <2>5, HeadTailProperties
    <3>2. DOMAIN stdin'[s] = 1..Len(stdin'[s])
      BY <3>1, LenProperties
    <3> QED
      BY <2>2, <3>1, <3>2
  <2> QED
    BY <2>3, <2>4, <2>5
<1>1. \A s \in Servers, c \in Commands :
        (Waits(s, c)' => Waits(s, c)) /\ (Did(s, c)' <=> Did(s, c)) /\ (Given(s, c)' => Given(s, c))
  BY <1>0 DEF Waits, Did, Given
<1>2. LockInv'
  BY DEF LockInv
<1>3. StartInv'
  <2>1. \A s, t \in Servers : s < t /\ phase'[s] = "none" => phase'[t] = "none"
    BY DEF StartInv
  <2>2. current' # None => \A t \in Servers : t > current' => phase'[t] = "none"
    BY DEF StartInv
  <2>3. \A s \in Servers, c \in Commands : phase'[s] = "none" => ~Given(s, c)'
    BY <1>1 DEF StartInv
  <2> QED
    BY <2>1, <2>2, <2>3 DEF StartInv
<1>4. PipeInv'
  <2>1. ASSUME NEW s \in Servers, NEW a \in DOMAIN stdin'[s], NEW b \in DOMAIN stdin'[s],
               a < b, stdin'[s][a] # Quit, stdin'[s][b] # Quit
        PROVE  stdin'[s][a] < stdin'[s][b]
    <3>1. PICK k \in {0, 1} :
            /\ a \in Nat /\ a + k \in DOMAIN stdin[s] /\ stdin'[s][a] = stdin[s][a + k]
            /\ b \in Nat /\ b + k \in DOMAIN stdin[s] /\ stdin'[s][b] = stdin[s][b + k]
      BY <1>0
    <3>2. a + k < b + k
      BY <2>1, <3>1
    <3> QED
      BY <2>1, <3>1, <3>2 DEF PipeInv
  <2>2. \A s \in Servers, c \in Commands : Given(s, c)' => c <= sent'
    BY <1>1 DEF PipeInv
  <2>3. \A s \in Servers, c, d \in Commands : Did(s, c)' /\ Waits(s, d)' => c < d
    BY <1>1 DEF PipeInv
  <2>4. \A s, t \in Servers, c, d \in Commands :
          s < t /\ Given(s, c)' /\ Given(t, d)' => c < d
    BY <1>1 DEF PipeInv
  <2> QED
    BY <2>1, <2>2, <2>3, <2>4 DEF PipeInv
<1>5. ExecutedInOrder'
  BY DEF ExecutedInOrder, Overtook
<1> QED
  BY <1>2, <1>3, <1>4, <1>5

(* mu4e sends a command or quit. *)
LEMMA SendStep ==
  ASSUME TypeOK, OrderInv, CanSend,
         NEW c \in Commands \cup {Quit}, c = sent + 1 \/ c = Quit,
         sent < MaxCommands, sent' = sent + 1,
         UNCHANGED <<lock, opened, executed>>,
         current' \in {Receiver, None},
         \A s \in Servers : stdin'[s] = With(c)[s] \/ stdin'[s] = <<>>,
         \A s \in Servers : \/ phase'[s] = Started[s]
                            \/ phase'[s] = "dead" /\ phase[s] # "none"
  PROVE  OrderInv'
<1> USE DEF OrderInv
<1>1. /\ Receiver \in Servers
      /\ Running => Receiver = current /\ phase[current] # "none"
      /\ ~Running => /\ phase[Receiver] = "none"
                     /\ \A t \in Servers : t < Receiver => phase[t] # "none"
  BY ReceiverFacts DEF Alive
<1>2. sent \in Nat /\ sent' \in Nat /\ (\A d \in Commands : d \in Nat) /\ (\A s \in Servers : s \in Nat)
  BY ProcessAssumption DEF TypeOK, Commands, Servers
<1>3. \A t \in Servers : t > Receiver => phase[t] = "none"
  <2>1. CASE Running
    <3>1. current # None
      BY <2>1 DEF Running
    <3> QED
      BY <1>1, <2>1, <3>1 DEF StartInv
  <2>2. CASE ~Running
    BY <1>1, <2>2 DEF StartInv
  <2> QED
    BY <2>1, <2>2
<1>4. \A t \in Servers : phase'[t] = "none" <=> t # Receiver /\ phase[t] = "none"
  <2>1. \A t \in Servers : Started[t] = "none" <=> t # Receiver /\ phase[t] = "none"
    BY <1>1 DEF Started
  <2> QED
    BY <1>1, <2>1
<1>5. \A s \in Servers : \A a \in DOMAIN stdin'[s] :
        \/ a \in DOMAIN stdin[s] /\ stdin'[s][a] = stdin[s][a]
        \/ s = Receiver /\ a = Len(stdin[s]) + 1 /\ stdin'[s][a] = c
  <2> SUFFICES ASSUME NEW s \in Servers, NEW a \in DOMAIN stdin'[s]
               PROVE  \/ a \in DOMAIN stdin[s] /\ stdin'[s][a] = stdin[s][a]
                      \/ s = Receiver /\ a = Len(stdin[s]) + 1 /\ stdin'[s][a] = c
    OBVIOUS
  <2>1. CASE stdin'[s] = <<>>
    BY <2>1
  <2>2. CASE stdin'[s] = With(c)[s] /\ s # Receiver
    BY <2>2 DEF With, TypeOK
  <2>3. CASE stdin'[s] = With(c)[s] /\ s = Receiver
    <3>1. stdin[s] \in Seq(Commands \cup {Quit}) /\ stdin'[s] = Append(stdin[s], c)
      BY <2>3 DEF With, TypeOK
    <3> QED
      BY <2>3, <3>1
  <2> QED
    BY <2>1, <2>2, <2>3
<1>6. \A s \in Servers, d \in Commands :
        /\ Waits(s, d)' => Waits(s, d) \/ (s = Receiver /\ d = sent + 1)
        /\ Did(s, d)' <=> Did(s, d)
        /\ Given(s, d)' => Given(s, d) \/ (s = Receiver /\ d = sent + 1)
  <2>1. \A s \in Servers, d \in Commands :
          Waits(s, d)' => Waits(s, d) \/ (s = Receiver /\ d = sent + 1)
    BY <1>5 DEF Waits
  <2>2. \A s \in Servers, d \in Commands : Did(s, d)' <=> Did(s, d)
    BY DEF Did
  <2> QED
    BY <2>1, <2>2 DEF Given
<1>7. LockInv'
  <2>1. \A s \in Servers : phase'[s] \in {"loop", "read"} => phase[s] \in {"loop", "read"}
    BY DEF Started
  <2> QED
    BY <2>1 DEF LockInv
<1>8. StartInv'
  <2>1. \A s, t \in Servers : s < t /\ phase'[s] = "none" => phase'[t] = "none"
    <3> SUFFICES ASSUME NEW s \in Servers, NEW t \in Servers, s < t, phase'[s] = "none"
                 PROVE  phase'[t] = "none"
      OBVIOUS
    <3>1. s # Receiver /\ phase[s] = "none" /\ phase[t] = "none"
      BY <1>4 DEF StartInv
    <3>2. t # Receiver
      BY <1>1, <1>2, <3>1
    <3> QED
      BY <1>4, <3>1, <3>2
  <2>2. current' # None => \A t \in Servers : t > current' => phase'[t] = "none"
    BY <1>1, <1>2, <1>3, <1>4
  <2>3. \A s \in Servers, d \in Commands : phase'[s] = "none" => ~Given(s, d)'
    BY <1>4, <1>6 DEF StartInv
  <2> QED
    BY <2>1, <2>2, <2>3 DEF StartInv
<1>9. PipeInv'
  <2>1. ASSUME NEW s \in Servers, NEW a \in DOMAIN stdin'[s], NEW b \in DOMAIN stdin'[s],
               a < b, stdin'[s][a] # Quit, stdin'[s][b] # Quit
        PROVE  stdin'[s][a] < stdin'[s][b]
    <3>1. stdin[s] \in Seq(Commands \cup {Quit})
      BY DEF TypeOK
    <3>2. /\ Len(stdin[s]) \in Nat /\ DOMAIN stdin[s] = 1..Len(stdin[s])
          /\ \A i \in DOMAIN stdin[s] : stdin[s][i] \in Commands \cup {Quit}
      BY <3>1, LenProperties, ElementOfSeq
    <3>3. a \in DOMAIN stdin[s] /\ stdin'[s][a] = stdin[s][a]
      <4>1. b \in DOMAIN stdin[s] \/ b = Len(stdin[s]) + 1
        BY <1>5, <2>1
      <4>2. ~(a = Len(stdin[s]) + 1)
        BY <2>1, <3>2, <4>1
      <4> QED
        BY <1>5, <2>1, <4>2
    <3>4. CASE b \in DOMAIN stdin[s] /\ stdin'[s][b] = stdin[s][b]
      BY <3>3, <3>4, <2>1 DEF PipeInv
    <3>5. CASE stdin'[s][b] = c
      <4>1. stdin[s][a] \in Commands /\ Given(s, stdin[s][a])
        BY <2>1, <3>2, <3>3 DEF Given, Waits
      <4>2. stdin[s][a] <= sent
        BY <4>1 DEF PipeInv
      <4> QED
        BY <1>2, <2>1, <3>3, <3>5, <4>1, <4>2
    <3> QED
      BY <1>5, <3>4, <3>5
  <2>2. \A s \in Servers, d \in Commands : Given(s, d)' => d <= sent'
    BY <1>2, <1>6 DEF PipeInv
  <2>3. \A s \in Servers, e, d \in Commands : Did(s, e)' /\ Waits(s, d)' => e < d
    <3> SUFFICES ASSUME NEW s \in Servers, NEW e \in Commands, NEW d \in Commands,
                        Did(s, e)', Waits(s, d)'
                 PROVE  e < d
      OBVIOUS
    <3>1. Did(s, e) /\ e <= sent
      BY <1>6 DEF PipeInv, Given
    <3>2. CASE Waits(s, d)
      BY <3>1, <3>2 DEF PipeInv
    <3>3. CASE d = sent + 1
      BY <1>2, <3>1, <3>3
    <3> QED
      BY <1>6, <3>2, <3>3
  <2>4. \A s, t \in Servers, e, d \in Commands :
          s < t /\ Given(s, e)' /\ Given(t, d)' => e < d
    <3> SUFFICES ASSUME NEW s \in Servers, NEW t \in Servers, s < t,
                        NEW e \in Commands, NEW d \in Commands,
                        Given(s, e)', Given(t, d)'
                 PROVE  e < d
      OBVIOUS
    <3>1. CASE Given(s, e) /\ Given(t, d)
      BY <3>1 DEF PipeInv
    <3>2. CASE Given(s, e) /\ d = sent + 1
      <4>1. e <= sent
        BY <3>2 DEF PipeInv
      <4> QED
        BY <1>2, <3>2, <4>1
    <3>3. CASE s = Receiver
      <4>1. phase[t] = "none" /\ t # Receiver
        BY <1>2, <1>3, <3>3
      <4>2. ~Given(t, d)
        BY <4>1 DEF StartInv
      <4> QED
        BY <1>6, <4>1, <4>2
    <3> QED
      BY <1>6, <3>1, <3>2, <3>3
  <2> QED
    BY <2>1, <2>2, <2>3, <2>4 DEF PipeInv
<1>10. ExecutedInOrder'
  BY DEF ExecutedInOrder, Overtook
<1> QED
  BY <1>7, <1>8, <1>9, <1>10

(* A server executes the command at the head of its pipe: whatever was     *)
(* executed before is older, or was executed by a newer server, which got  *)
(* the store first.                                                        *)
LEMMA ReadStep ==
  ASSUME TypeOK, OrderInv, NEW s \in Servers, Read(s), Head(stdin[s]) # Quit
  PROVE  OrderInv'
<1> USE DEF OrderInv
<1> DEFINE c == Head(stdin[s])
<1>1. /\ phase[s] = "read" /\ phase' = [phase EXCEPT ![s] = "loop"]
      /\ stdin[s] # <<>> /\ stdin' = [stdin EXCEPT ![s] = Tail(@)]
      /\ executed' = Append(executed, <<s, c>>)
      /\ UNCHANGED <<lock, opened, current, sent>>
  BY DEF Read, Becomes, ServerKeeps, emacs
<1>2. stdin[s] \in Seq(Commands \cup {Quit}) /\ executed \in Seq(Servers \X Commands)
  BY DEF TypeOK
<1>3. /\ c = stdin[s][1] /\ 1 \in DOMAIN stdin[s] /\ c \in Commands
      /\ Len(stdin[s]) \in Nat /\ DOMAIN stdin[s] = 1..Len(stdin[s])
      /\ DOMAIN stdin'[s] = 1..(Len(stdin[s]) - 1)
      /\ \A a \in DOMAIN stdin'[s] : a + 1 \in DOMAIN stdin[s] /\ stdin'[s][a] = stdin[s][a + 1]
  <2>1. c \in Commands \cup {Quit} /\ c = stdin[s][1] /\ Len(stdin[s]) \in Nat \ {0}
    BY <1>1, <1>2, HeadTailProperties, EmptySeq
  <2>2. stdin'[s] = Tail(stdin[s])
    BY <1>1 DEF TypeOK
  <2>3. /\ Tail(stdin[s]) \in Seq(Commands \cup {Quit})
        /\ Len(Tail(stdin[s])) = Len(stdin[s]) - 1
        /\ \A i \in 1..Len(Tail(stdin[s])) : Tail(stdin[s])[i] = stdin[s][i + 1]
    BY <1>1, <1>2, HeadTailProperties
  <2>4. DOMAIN stdin[s] = 1..Len(stdin[s]) /\ DOMAIN Tail(stdin[s]) = 1..Len(Tail(stdin[s]))
    BY <1>2, <2>3, LenProperties
  <2> HIDE DEF c
  <2>5. c \in Commands
    BY <2>1 DEF c
  <2> QED
    BY <2>1, <2>2, <2>3, <2>4, <2>5
<1>4. /\ <<s, c>> \in Servers \X Commands
      /\ Len(executed) \in Nat /\ DOMAIN executed = 1..Len(executed)
      /\ DOMAIN executed' = 1..(Len(executed) + 1)
      /\ executed'[Len(executed) + 1] = <<s, c>>
      /\ \A i \in DOMAIN executed : executed'[i] = executed[i]
  <2>1. <<s, c>> \in Servers \X Commands
    BY <1>3
  <2> HIDE DEF c
  <2>2. /\ executed' \in Seq(Servers \X Commands) /\ Len(executed') = Len(executed) + 1
        /\ \A i \in 1..Len(executed) : executed'[i] = executed[i]
        /\ executed'[Len(executed) + 1] = <<s, c>>
    BY <1>1, <1>2, <2>1, AppendProperties
  <2> QED
    BY <1>2, <2>1, <2>2, LenProperties
<1>5. c # Quit /\ Waits(s, c) /\ Given(s, c)
  BY <1>3 DEF Waits, Given
<1> HIDE DEF c
<1>6. \A t \in Servers, d \in Commands : Waits(t, d)' => Waits(t, d) /\ (t = s => c < d)
  <2> SUFFICES ASSUME NEW t \in Servers, NEW d \in Commands, Waits(t, d)'
               PROVE  Waits(t, d) /\ (t = s => c < d)
    OBVIOUS
  <2>1. CASE t # s
    BY <1>1, <2>1 DEF Waits, TypeOK
  <2>2. CASE t = s
    <3>1. PICK a \in DOMAIN stdin'[s] : stdin'[s][a] = d /\ d # Quit
      BY <2>2 DEF Waits
    <3>2. a + 1 \in DOMAIN stdin[s] /\ stdin[s][a + 1] = d /\ 1 < a + 1
      BY <1>3, <3>1
    <3>3. c < d
      BY <1>3, <1>5, <3>1, <3>2 DEF PipeInv
    <3> QED
      BY <2>2, <3>1, <3>2, <3>3 DEF Waits
  <2> QED
    BY <2>1, <2>2
<1>7. \A t \in Servers, d \in Commands : Did(t, d)' => Did(t, d) \/ (t = s /\ d = c)
  BY <1>4 DEF Did
<1>8. \A t \in Servers, d \in Commands : Given(t, d)' => Given(t, d)
  BY <1>5, <1>6, <1>7 DEF Given
<1>9. lock = s /\ lock # None
  BY <1>1, ProcessAssumption DEF LockInv, Servers
<1>10. LockInv'
  <2>1. \A t \in Servers : phase'[t] \in {"loop", "read"} => lock' = t
    BY <1>1 DEF LockInv
  <2>2. \A i \in DOMAIN executed' : \E a \in DOMAIN opened : opened[a] = executed'[i][1]
    <3> SUFFICES ASSUME NEW i \in DOMAIN executed'
                 PROVE  \E a \in DOMAIN opened : opened[a] = executed'[i][1]
      OBVIOUS
    <3>1. CASE i \in DOMAIN executed
      BY <1>4, <3>1 DEF LockInv
    <3>2. CASE i = Len(executed) + 1
      <4>1. opened # <<>> /\ opened[Len(opened)] = s
        BY <1>9 DEF LockInv
      <4>2. Len(opened) \in DOMAIN opened
        BY <4>1, EmptySeq, LenProperties DEF TypeOK
      <4> QED
        BY <1>4, <3>2, <4>1, <4>2
    <3> QED
      BY <1>4, <3>1, <3>2
  <2> QED
    BY <1>1, <2>1, <2>2 DEF LockInv
<1>11. StartInv'
  <2>1. \A t \in Servers : phase'[t] = "none" <=> phase[t] = "none"
    BY <1>1 DEF TypeOK
  <2> QED
    BY <1>1, <1>8, <2>1 DEF StartInv
<1>12. PipeInv'
  <2>1. ASSUME NEW t \in Servers, NEW a \in DOMAIN stdin'[t], NEW b \in DOMAIN stdin'[t],
               a < b, stdin'[t][a] # Quit, stdin'[t][b] # Quit
        PROVE  stdin'[t][a] < stdin'[t][b]
    <3>1. CASE t # s
      <4>1. stdin'[t] = stdin[t]
        BY <1>1, <3>1 DEF TypeOK
      <4> QED
        BY <2>1, <4>1 DEF PipeInv
    <3>2. CASE t = s
      <4>1. /\ a + 1 \in DOMAIN stdin[s] /\ stdin'[s][a] = stdin[s][a + 1]
            /\ b + 1 \in DOMAIN stdin[s] /\ stdin'[s][b] = stdin[s][b + 1]
            /\ a + 1 < b + 1
        <5>1. a \in DOMAIN stdin'[s] /\ b \in DOMAIN stdin'[s]
          BY <2>1, <3>2
        <5>2. a \in Nat /\ b \in Nat
          BY <1>3, <5>1
        <5> QED
          BY <1>3, <2>1, <5>1, <5>2
      <4> QED
        BY <2>1, <3>2, <4>1 DEF PipeInv
    <3> QED
      BY <3>1, <3>2
  <2>2. \A t \in Servers, d \in Commands : Given(t, d)' => d <= sent'
    BY <1>1, <1>8 DEF PipeInv
  <2>3. \A t \in Servers, e, d \in Commands : Did(t, e)' /\ Waits(t, d)' => e < d
    BY <1>6, <1>7 DEF PipeInv
  <2>4. \A t, u \in Servers, e, d \in Commands :
          t < u /\ Given(t, e)' /\ Given(u, d)' => e < d
    BY <1>8 DEF PipeInv
  <2> QED
    BY <2>1, <2>2, <2>3, <2>4 DEF PipeInv
<1>13. ExecutedInOrder'
  <2> SUFFICES ASSUME NEW i \in DOMAIN executed', NEW j \in DOMAIN executed', i < j
               PROVE  /\ executed'[i][2] # executed'[j][2]
                      /\ executed'[i][2] > executed'[j][2] =>
                           Overtook(executed'[i][1], executed'[j][1])
    BY <1>1 DEF ExecutedInOrder, Overtook
  <2>1. i \in DOMAIN executed /\ executed'[i] = executed[i]
    BY <1>4
  <2>2. CASE j \in DOMAIN executed
    BY <1>4, <2>1, <2>2 DEF ExecutedInOrder
  <2>3. CASE j = Len(executed) + 1
    <3> DEFINE t == executed[i][1]
               d == executed[i][2]
    <3>1. t \in Servers /\ d \in Commands /\ executed[i] = <<t, d>>
      <4>1. executed[i] \in Servers \X Commands
        BY <1>2, <1>4, <2>1, ElementOfSeq
      <4> QED
        BY <4>1
    <3> HIDE DEF t, d
    <3>2. Did(t, d) /\ Given(t, d)
      BY <2>1, <3>1 DEF Did, Given
    <3>3. /\ s \in Nat /\ t \in Nat /\ c \in Nat /\ d \in Nat
      BY <1>3, <3>1 DEF Servers, Commands
    <3>4. CASE t = s
      <4>1. d < c
        BY <1>3, <1>5, <3>1, <3>2, <3>4 DEF PipeInv
      <4> QED
        BY <1>4, <2>1, <2>3, <3>1, <3>3, <4>1
    <3>5. CASE t < s
      <4>1. d < c
        BY <1>3, <1>5, <3>1, <3>2, <3>5 DEF PipeInv
      <4> QED
        BY <1>4, <2>1, <2>3, <3>1, <3>3, <4>1
    <3>6. CASE s < t
      <4>1. c < d
        BY <1>3, <1>5, <3>1, <3>2, <3>6 DEF PipeInv
      <4>2. opened # <<>> /\ opened[Len(opened)] = s
        BY <1>9 DEF LockInv
      <4>3. PICK a \in DOMAIN opened : opened[a] = t
        BY <2>1, <3>1 DEF LockInv
      <4>4. /\ Len(opened) \in Nat /\ Len(opened) \in DOMAIN opened
            /\ DOMAIN opened = 1..Len(opened)
        BY <4>2, EmptySeq, LenProperties DEF TypeOK
      <4>5. a < Len(opened)
        BY <3>3, <3>6, <4>2, <4>3, <4>4
      <4>6. Overtook(t, s)
        BY <3>6, <4>2, <4>3, <4>4, <4>5 DEF Overtook
      <4> QED
        BY <1>4, <2>1, <2>3, <3>1, <3>3, <4>1, <4>6
    <3> QED
      BY <3>3, <3>4, <3>5, <3>6
  <2> QED
    BY <1>4, <2>2, <2>3
<1> QED
  BY <1>10, <1>11, <1>12, <1>13

(* A server gets the store, which is free, and is the last that did. *)
LEMMA OpenStep ==
  ASSUME TypeOK, OrderInv, NEW s \in Servers, phase[s] = "open", lock = None, Gets(s),
         UNCHANGED <<stdin, sent, executed, current>>
  PROVE  OrderInv'
<1> USE DEF OrderInv, Gets, Becomes
<1>1. /\ opened' # <<>> /\ opened'[Len(opened')] = s
      /\ DOMAIN opened \subseteq DOMAIN opened'
      /\ \A a \in DOMAIN opened : opened'[a] = opened[a]
  <2>1. opened \in Seq(Servers) /\ opened' = Append(opened, s)
    BY DEF TypeOK
  <2>2. /\ opened' \in Seq(Servers) /\ opened' # <<>> /\ Len(opened') = Len(opened) + 1
        /\ \A i \in 1..Len(opened) : opened'[i] = opened[i]
        /\ opened'[Len(opened) + 1] = s
    BY <2>1, AppendProperties
  <2>3. /\ Len(opened) \in Nat
        /\ DOMAIN opened = 1..Len(opened) /\ DOMAIN opened' = 1..(Len(opened) + 1)
    BY <2>1, <2>2, LenProperties
  <2> QED
    BY <2>2, <2>3
<1>2. \A t \in Servers : phase[t] \notin {"loop", "read"}
  BY ProcessAssumption DEF LockInv, Servers
<1>3. LockInv'
  <2>1. \A t \in Servers : phase'[t] \in {"loop", "read"} => lock' = t
    BY <1>2 DEF TypeOK
  <2>2. \A i \in DOMAIN executed : \E a \in DOMAIN opened' : opened'[a] = executed[i][1]
    BY <1>1 DEF LockInv
  <2> QED
    BY <1>1, <2>1, <2>2 DEF LockInv
<1>4. \A t \in Servers : phase'[t] = "none" <=> phase[t] = "none"
  BY DEF TypeOK
<1>5. \A t \in Servers, c \in Commands :
        (Waits(t, c)' <=> Waits(t, c)) /\ (Did(t, c)' <=> Did(t, c)) /\ (Given(t, c)' <=> Given(t, c))
  BY DEF Waits, Did, Given
<1>6. StartInv'
  BY <1>4, <1>5 DEF StartInv
<1>7. PipeInv'
  BY <1>5 DEF PipeInv
<1>8. ExecutedInOrder'
  <2>1. \A t, u : Overtook(t, u) => Overtook(t, u)'
    BY <1>1 DEF Overtook
  <2> QED
    BY <2>1 DEF ExecutedInOrder
<1> QED
  BY <1>3, <1>6, <1>7, <1>8

(* Every step keeps the order.  Whoever leaves the store had it alone.     *)
LEMMA OrderStep == TypeOK /\ OrderInv /\ [Next]_vars => OrderInv'
<1> SUFFICES ASSUME TypeOK, OrderInv, [Next]_vars PROVE OrderInv'
  OBVIOUS
<1> USE DEF emacs, servers, history, ServerKeeps, EmacsKeeps, Becomes
<1>0. \A s \in Servers : phase[s] \in {"loop", "read"} => lock = s
  BY DEF OrderInv, LockInv
<1>1. ASSUME NEW s \in Servers, Open(s) PROVE OrderInv'
  <2>1. CASE lock = None /\ Gets(s)
    BY <1>1, <2>1, OpenStep DEF Open
  <2>2. CASE lock # None
    <3>1. phase[s] = "open" /\ phase' = [phase EXCEPT ![s] = "end"]
          /\ UNCHANGED <<lock, opened, stdin, executed, sent, current>>
      BY <1>1, <2>2 DEF Open, Gets
    <3>2. /\ \A t \in Servers : phase'[t] = "none" <=> phase[t] = "none"
          /\ \A t \in Servers : phase'[t] \in {"loop", "read"} => lock' = t
      BY <1>0, <3>1 DEF TypeOK
    <3> QED
      BY <3>1, <3>2, QuietStep
  <2> QED
    BY <1>1, <2>1, <2>2 DEF Open
<1>2. ASSUME NEW s \in Servers, Loop(s) \/ Interrupted(s) PROVE OrderInv'
  <2>1. /\ phase[s] \in {"loop", "read"}
        /\ \/ phase' = [phase EXCEPT ![s] = "end"]
           \/ phase' = [phase EXCEPT ![s] = "read"]
        /\ UNCHANGED <<lock, opened, stdin, executed, sent, current>>
    BY <1>2 DEF Loop, Interrupted
  <2>2. /\ \A t \in Servers : phase'[t] = "none" <=> phase[t] = "none"
        /\ \A t \in Servers : phase'[t] \in {"loop", "read"} => lock' = t
    BY <1>0, <2>1 DEF TypeOK
  <2> QED
    BY <2>1, <2>2, QuietStep
<1>3. ASSUME NEW s \in Servers, Read(s) PROVE OrderInv'
  <2>1. CASE Head(stdin[s]) = Quit
    <3>1. /\ phase[s] = "read" /\ phase' = [phase EXCEPT ![s] = "loop"]
          /\ stdin' = [stdin EXCEPT ![s] = Tail(@)]
          /\ UNCHANGED <<lock, opened, executed, sent, current>>
      BY <1>3, <2>1 DEF Read
    <3>2. /\ stdin[s] # <<>>
          /\ \A t \in Servers : \/ stdin'[t] = stdin[t] \/ stdin'[t] = <<>>
                                \/ stdin[t] # <<>> /\ stdin'[t] = Tail(stdin[t])
          /\ \A t \in Servers : phase'[t] = "none" <=> phase[t] = "none"
          /\ \A t \in Servers : phase'[t] \in {"loop", "read"} => lock' = t
      BY <1>0, <1>3, <3>1 DEF Read, TypeOK
    <3> QED
      BY <3>1, <3>2, QuietStep
  <2>2. CASE Head(stdin[s]) # Quit
    BY <1>3, <2>2, ReadStep
  <2> QED
    BY <2>1, <2>2
<1>4. ASSUME NEW s \in Servers, Exit(s) \/ Crash(s) PROVE OrderInv'
  <2>1. /\ phase[s] # "none" /\ phase' = [phase EXCEPT ![s] = "dead"]
        /\ stdin' = [stdin EXCEPT ![s] = <<>>] /\ lock' = Unlocked(s)
        /\ UNCHANGED <<opened, executed, sent, current>>
    BY <1>4 DEF Exit, Crash, Dies, Alive
  <2>2. /\ lock' \in {lock, None}
        /\ \A t \in Servers : stdin'[t] = stdin[t] \/ stdin'[t] = <<>>
        /\ \A t \in Servers : phase'[t] = "none" <=> phase[t] = "none"
        /\ \A t \in Servers : phase'[t] \in {"loop", "read"} => lock' = t
    BY <1>0, <2>1 DEF TypeOK, Unlocked
  <2> QED
    BY <2>1, <2>2, QuietStep
<1>5. CASE Command
  <2>1. sent + 1 \in Commands
    BY <1>5, ProcessAssumption DEF Command, TypeOK, Commands
  <2> QED
    BY <1>5, <2>1, SendStep DEF Command
<1>6. CASE Kill
  <2> DEFINE n == NewestOf(Processes)
  <2>1. n \in Servers /\ phase[n] # "none"
    <3>1. Processes \in SUBSET Servers /\ Processes # {}
      BY <1>6 DEF Kill, Processes
    <3>2. n \in Processes
      BY <3>1, NewestExists
    <3> QED
      BY <3>2 DEF Processes
  <2>2. /\ CanSend /\ sent < MaxCommands /\ sent' = sent + 1 /\ current' = None
        /\ UNCHANGED <<lock, opened, executed>>
    BY <1>6 DEF Kill
  <2>3. \/ /\ phase' = [Started EXCEPT ![n] = "dead"]
           /\ stdin' = [With(Quit) EXCEPT ![n] = <<>>]
        \/ phase' = Started /\ stdin' = With(Quit)
    BY <1>6 DEF Kill
  <2> HIDE DEF n
  <2>4. /\ With(Quit) \in [Servers -> Seq(Commands \cup {Quit})]
        /\ Started \in [Servers -> Phases]
    BY <2>2, SendType
  <2>5. /\ \A s \in Servers : stdin'[s] = With(Quit)[s] \/ stdin'[s] = <<>>
        /\ \A s \in Servers : \/ phase'[s] = Started[s]
                              \/ phase'[s] = "dead" /\ phase[s] # "none"
    BY <2>1, <2>3, <2>4
  <2> QED
    BY <2>2, <2>5, SendStep
<1>7. ASSUME NEW s \in Servers, Sentinel(s) PROVE OrderInv'
  <2>1. /\ phase[s] = "dead" /\ phase' = [phase EXCEPT ![s] = "gone"]
        /\ current' = None /\ UNCHANGED <<lock, stdin, opened, executed, sent>>
    BY <1>7 DEF Sentinel
  <2>2. /\ \A t \in Servers : phase'[t] = "none" <=> phase[t] = "none"
        /\ \A t \in Servers : phase'[t] \in {"loop", "read"} => lock' = t
    BY <1>0, <2>1 DEF TypeOK
  <2> QED
    BY <2>1, <2>2, QuietStep
<1>8. ASSUME UNCHANGED <<current, phase, lock, stdin, sent, opened, executed>> PROVE OrderInv'
  BY <1>0, <1>8, QuietStep
<1>9. (\E s \in Servers : Filter(s)) \/ Lisp \/ UNCHANGED vars
        => UNCHANGED <<current, phase, lock, stdin, sent, opened, executed>>
  BY DEF Filter, Lisp, Evaluate, Misread, Starved, vars
<1> QED
  BY <1>1, <1>2, <1>3, <1>4, <1>5, <1>6, <1>7, <1>8, <1>9 DEF Next, Serve

(* Nothing was started at first. *)
LEMMA InitInv == Init => TypeOK /\ OrderInv
<1> SUFFICES ASSUME Init PROVE TypeOK /\ OrderInv
  OBVIOUS
<1>1. TypeOK
  <2>1. /\ \A S : <<>> \in Seq(S)
        /\ 0 \in 0..MaxCommands /\ 0 \in 0..MaxFaults
    BY ProcessAssumption, EmptySeq
  <2>2. phase \in [Servers -> Phases]
    BY DEF Init, Phases
  <2>3. /\ stdin \in [Servers -> Seq(Commands \cup {Quit})]
        /\ stdout \in [Servers -> Seq(Bytes)] /\ rest \in [Servers -> Seq(Bytes)]
    BY <2>1 DEF Init
  <2>4. /\ buf \in Seq(Bytes) /\ opened \in Seq(Servers)
        /\ executed \in Seq(Servers \X Commands)
        /\ evaluated \in Seq((Servers \X Replies) \cup {Garbled})
    BY <2>1 DEF Init
  <2>5. /\ filtering \in BOOLEAN /\ failed \in BOOLEAN
        /\ sent \in 0..MaxCommands /\ faults \in 0..MaxFaults
    BY <2>1 DEF Init
  <2> QED
    BY <2>2, <2>3, <2>4, <2>5 DEF Init, TypeOK
<1>2. LockInv
  BY DEF Init, LockInv
<1>3. StartInv
  BY DEF Init, StartInv, Given, Waits, Did
<1>4. PipeInv
  BY DEF Init, PipeInv, Given, Waits, Did
<1>5. ExecutedInOrder
  BY DEF Init, ExecutedInOrder
<1> QED
  BY <1>1, <1>2, <1>3, <1>4, <1>5 DEF OrderInv

(* Every variable keeps its type, for any number of servers and commands   *)
(* and any length of the replies: the pipes and the buffer of Emacs hold   *)
(* bytes, whatever the chunks that were cut of them.                       *)
THEOREM TypeCorrect == Spec => []TypeOK
<1>1. Init => TypeOK
  BY InitInv
<1> QED
  BY <1>1, TypeStep, PTL DEF Spec

(* No command is executed twice, nor after one that was sent later, except *)
(* by a server that another one overtook before it opened the store,       *)
(* whatever servers are started, told to quit, killed, forgotten or crash. *)
THEOREM InOrder == Spec => []ExecutedInOrder
<1>1. Init => TypeOK /\ OrderInv
  BY InitInv
<1>2. TypeOK /\ OrderInv /\ [Next]_vars => TypeOK' /\ OrderInv'
  BY TypeStep, OrderStep
<1>3. OrderInv => ExecutedInOrder
  BY DEF OrderInv
<1> QED
  BY <1>1, <1>2, <1>3, PTL DEF Spec
----------------------------------------------------------------------------
(* The replies in the pipes and in the buffer: Process implements          *)
(* ReplyChannel.                                                           *)

(* Those of them up to one *)
Upto(S, i) == {j \in S : j <= i}

(* Of some numbers each has a rank, and Nth gives the one of a rank.       *)
LEMMA RankFacts ==
  ASSUME NEW n \in Nat, NEW S \in SUBSET (1..n)
  PROVE  /\ IsFiniteSet(S) /\ Cardinality(S) \in Nat
         /\ \A i \in S : Cardinality(Upto(S, i)) \in 1..Cardinality(S)
         /\ \A i, j \in S : i < j => Cardinality(Upto(S, i)) < Cardinality(Upto(S, j))
         /\ \A k \in 1..Cardinality(S) :
              /\ Nth(S, k) \in S /\ Cardinality(Upto(S, Nth(S, k))) = k
              /\ \A i \in S : Cardinality(Upto(S, i)) = k => i = Nth(S, k)
<1>0. \A i \in S : i \in Nat
  <2>1. \A i \in 1..n : i \in Nat
    OBVIOUS
  <2> QED
    BY <2>1
<1>1. IsFiniteSet(1..n)
  BY FS_Interval
<1>2. IsFiniteSet(S) /\ Cardinality(S) \in Nat
  BY <1>1, FS_Subset, FS_CardinalityType
<1>3. \A i \in S : /\ Upto(S, i) \in SUBSET S /\ IsFiniteSet(Upto(S, i))
                   /\ Cardinality(Upto(S, i)) \in Nat
                   /\ Cardinality(Upto(S, i)) <= Cardinality(S) /\ i \in Upto(S, i)
  <2> SUFFICES ASSUME NEW i \in S
               PROVE  /\ Upto(S, i) \in SUBSET S /\ IsFiniteSet(Upto(S, i))
                      /\ Cardinality(Upto(S, i)) \in Nat
                      /\ Cardinality(Upto(S, i)) <= Cardinality(S) /\ i \in Upto(S, i)
    OBVIOUS
  <2>1. Upto(S, i) \in SUBSET S /\ i \in Upto(S, i)
    BY DEF Upto
  <2> QED
    BY <1>2, <2>1, FS_Subset, FS_CardinalityType
<1>4. \A i, j \in S : i < j => Cardinality(Upto(S, i)) < Cardinality(Upto(S, j))
  <2> SUFFICES ASSUME NEW i \in S, NEW j \in S, i < j
               PROVE  Cardinality(Upto(S, i)) < Cardinality(Upto(S, j))
    OBVIOUS
  <2>0. i \in Nat /\ j \in Nat
    BY <1>0
  <2>1. Upto(S, i) \in SUBSET Upto(S, j) /\ j \in Upto(S, j) /\ j \notin Upto(S, i)
    <3>1. ASSUME NEW k \in Upto(S, i) PROVE k \in Upto(S, j)
      <4>1. k \in S /\ k <= i /\ k \in Nat
        BY <1>0 DEF Upto
      <4> QED
        BY <2>0, <4>1 DEF Upto
    <3>2. j \in Upto(S, j) /\ j \notin Upto(S, i)
      BY <2>0 DEF Upto
    <3> QED
      BY <3>1, <3>2
  <2>2. /\ Cardinality(Upto(S, i)) <= Cardinality(Upto(S, j))
        /\ Cardinality(Upto(S, j)) # Cardinality(Upto(S, i))
    BY <1>3, <2>1, FS_Subset
  <2> QED
    BY <1>3, <2>2
<1>5. \A i \in S : Cardinality(Upto(S, i)) \in 1..Cardinality(S)
  <2> SUFFICES ASSUME NEW i \in S PROVE Cardinality(Upto(S, i)) \in 1..Cardinality(S)
    OBVIOUS
  <2>1. Cardinality(Upto(S, i)) # 0
    BY <1>3, FS_EmptySet
  <2> QED
    BY <1>2, <1>3, <2>1
<1> DEFINE rank == [i \in S |-> Cardinality(Upto(S, i))]
           m == Cardinality(S)
<1>6. rank \in Injection(S, 1..m)
  <2>1. rank \in [S -> 1..m]
    BY <1>5
  <2>2. \A i, j \in S : rank[i] = rank[j] => i = j
    <3> SUFFICES ASSUME NEW i \in S, NEW j \in S, rank[i] = rank[j], i # j PROVE FALSE
      OBVIOUS
    <3>1. i < j \/ j < i
      BY <1>0
    <3>2. rank[i] < rank[j] \/ rank[j] < rank[i]
      BY <1>4, <3>1
    <3>3. rank[i] \in Nat /\ rank[j] \in Nat
      BY <1>3
    <3> HIDE DEF rank
    <3> QED
      BY <3>2, <3>3
  <2> HIDE DEF rank
  <2> QED
    BY <2>1, <2>2, Fun_IsInj
<1>7. rank \in Surjection(S, 1..m)
  <2>1. IsFiniteSet(1..m) /\ Cardinality(1..m) = m
    <3>1. 1 \in Int /\ m \in Int /\ m >= 0
      BY <1>2
    <3>2. IsFiniteSet(1..m) /\ Cardinality(1..m) = IF 1 > m THEN 0 ELSE m - 1 + 1
      BY <3>1, FS_Interval
    <3> HIDE DEF m
    <3> QED
      BY <3>1, <3>2
  <2> HIDE DEF rank
  <2> QED
    BY <1>6, <2>1, FS_Injection
<1>8. \A k \in 1..m : \E i \in S : Cardinality(Upto(S, i)) = k
  <2>1. \A k \in 1..m : \E i \in S : rank[i] = k
    <3> HIDE DEF rank
    <3> QED
      BY <1>7, Fun_SurjectionProperties
  <2> QED
    BY <2>1
<1>9. ASSUME NEW k \in 1..m
      PROVE  /\ Nth(S, k) \in S /\ Cardinality(Upto(S, Nth(S, k))) = k
             /\ \A i \in S : Cardinality(Upto(S, i)) = k => i = Nth(S, k)
  <2>1. PICK i \in S : Cardinality(Upto(S, i)) = k
    BY <1>8
  <2>2. Nth(S, k) = CHOOSE j \in S : Cardinality(Upto(S, j)) = k
    BY DEF Nth, Upto
  <2>3. Nth(S, k) \in S /\ Cardinality(Upto(S, Nth(S, k))) = k
    BY <2>1, <2>2
  <2>4. ASSUME NEW j \in S, Cardinality(Upto(S, j)) = k PROVE j = Nth(S, k)
    <3>1. rank[j] = rank[Nth(S, k)]
      BY <2>3, <2>4
    <3> HIDE DEF rank
    <3> QED
      BY <1>6, <2>3, <3>1, Fun_InjectionProperties
  <2> QED
    BY <2>3, <2>4
<1> QED
  BY <1>2, <1>4, <1>5, <1>9

(* A strictly increasing list of all of them has each at its rank. *)
LEMMA ListingFacts ==
  ASSUME NEW n \in Nat, NEW S \in SUBSET (1..n), NEW m \in Nat, NEW at \in [1..m -> S],
         \A k, l \in 1..m : k < l => at[k] < at[l],
         \A i \in S : \E k \in 1..m : at[k] = i
  PROVE  Cardinality(S) = m /\ \A k \in 1..m : Nth(S, k) = at[k]
<1>0. \A k \in 1..m : at[k] \in S /\ at[k] \in Nat
  <2>1. \A i \in 1..n : i \in Nat
    OBVIOUS
  <2> QED
    BY <2>1
<1>1. \A k, l \in 1..m : at[k] = at[l] => k = l
  <2> SUFFICES ASSUME NEW k \in 1..m, NEW l \in 1..m, at[k] = at[l], k # l PROVE FALSE
    OBVIOUS
  <2>1. k < l \/ l < k
    OBVIOUS
  <2>2. at[k] < at[l] \/ at[l] < at[k]
    BY <2>1
  <2>3. at[k] \in Nat /\ at[l] \in Nat
    BY <1>0
  <2> QED
    BY <2>2, <2>3
<1>2. at \in Bijection(1..m, S)
  BY <1>1, Fun_IsBij
<1>3. Cardinality(S) = m
  BY <1>2, FS_CountingElements DEF ExistsBijection
<1>4. ASSUME NEW k \in 1..m PROVE Cardinality(Upto(S, at[k])) = k
  <2> DEFINE f == [l \in 1..k |-> at[l]]
             U == Upto(S, at[k])
  <2>1. f \in [1..k -> U]
    <3> SUFFICES ASSUME NEW l \in 1..k PROVE at[l] \in S /\ at[l] <= at[k]
      BY DEF Upto
    <3>1. l \in 1..m /\ (l = k \/ l < k)
      OBVIOUS
    <3>2. at[l] \in Nat /\ at[k] \in Nat /\ at[l] \in S
      BY <1>0, <3>1
    <3> QED
      BY <3>1, <3>2
  <2>2. \A i \in U : \E l \in 1..k : f[l] = i
    <3> SUFFICES ASSUME NEW i \in U PROVE \E l \in 1..k : f[l] = i
      OBVIOUS
    <3>1. i \in S /\ i <= at[k]
      BY DEF Upto
    <3>2. PICK l \in 1..m : at[l] = i
      BY <3>1
    <3>3. ~(k < l)
      <4>1. k < l => at[k] < at[l]
        OBVIOUS
      <4>2. at[k] \in Nat /\ at[l] \in Nat
        BY <1>0
      <4> QED
        BY <3>1, <3>2, <4>1, <4>2
    <3>4. l \in 1..k
      BY <3>3
    <3> QED
      BY <3>2, <3>4
  <2>3. \A l, j \in 1..k : f[l] = f[j] => l = j
    BY <1>1
  <2> HIDE DEF f, U
  <2>4. f \in Bijection(1..k, U)
    BY <2>1, <2>2, <2>3, Fun_IsBij
  <2>5. k \in Nat /\ ExistsBijection(1..k, U)
    BY <2>4 DEF ExistsBijection
  <2> QED
    BY <2>5, FS_CountingElements DEF U
<1>5. \A k \in 1..m : Nth(S, k) = at[k]
  BY <1>3, <1>4, RankFacts
<1> QED
  BY <1>3, <1>5

(* Those of a higher rank are greater.                                     *)
LEMMA NthIncreases ==
  ASSUME NEW n \in Nat, NEW S \in SUBSET (1..n),
         NEW k \in 1..Cardinality(S), NEW l \in 1..Cardinality(S), k < l
  PROVE  Nth(S, k) < Nth(S, l)
<1> DEFINE i == Nth(S, k)
           j == Nth(S, l)
<1>1. /\ Cardinality(S) \in Nat
      /\ i \in S /\ Cardinality(Upto(S, i)) = k /\ j \in S /\ Cardinality(Upto(S, j)) = l
  BY RankFacts
<1>2. j < i => Cardinality(Upto(S, j)) < Cardinality(Upto(S, i))
  <2> HIDE DEF i, j
  <2> QED
    BY <1>1, RankFacts
<1> HIDE DEF i, j
<1>3. i \in Nat /\ j \in Nat
  <2>1. \A h \in 1..n : h \in Nat
    OBVIOUS
  <2> QED
    BY <1>1, <2>1
<1>4. i # j /\ ~(j < i)
  BY <1>1, <1>2
<1>5. i < j
  BY <1>3, <1>4
<1> QED
  BY <1>5 DEF i, j

(* The replies in some output are replies, and as many as begin there.     *)
LEMMA RepliesType ==
  ASSUME NEW b \in Seq(Bytes), NEW s \in Servers
  PROVE  /\ Begins(b, s) \in SUBSET (1..Len(b)) /\ Len(b) \in Nat
         /\ RepliesOf(b, s) \in Seq(Replies)
         /\ Len(RepliesOf(b, s)) = Cardinality(Begins(b, s))
         /\ \A k \in 1..Cardinality(Begins(b, s)) :
              RepliesOf(b, s)[k] = b[Nth(Begins(b, s), k)].of[2]
<1> DEFINE S == Begins(b, s)
           m == Cardinality(S)
<1>1. Len(b) \in Nat /\ DOMAIN b = 1..Len(b)
  BY LenProperties
<1>2. S \in SUBSET (1..Len(b))
  BY <1>1 DEF Begins
<1>3. m \in Nat /\ \A k \in 1..m : Nth(S, k) \in S
  <2> HIDE DEF S
  <2> QED
    BY <1>1, <1>2, RankFacts
<1>4. \A i \in S : b[i].of[2] \in Replies
  <2> SUFFICES ASSUME NEW i \in S PROVE b[i].of[2] \in Replies
    OBVIOUS
  <2>1. b[i] \in Bytes /\ b[i].is = "pre"
    BY <1>2, ElementOfSeq DEF Begins
  <2>2. b[i] # Prompt
    BY <2>1 DEF Prompt
  <2>3. b[i].of \in Servers \X Replies
    BY <2>1, <2>2 DEF Bytes
  <2> QED
    BY <2>3
<1>5. RepliesOf(b, s) = [k \in 1..m |-> b[Nth(S, k)].of[2]]
  BY DEF RepliesOf
<1> HIDE DEF S, m
<1>6. RepliesOf(b, s) \in [1..m -> Replies]
  BY <1>3, <1>4, <1>5
<1>7. RepliesOf(b, s) \in Seq(Replies)
  BY <1>3, <1>6, SeqDef
<1>8. Len(RepliesOf(b, s)) = m
  BY <1>3, <1>6, <1>7, LenProperties
<1> QED
  BY <1>1, <1>2, <1>5, <1>7, <1>8 DEF S, m

(* Of the replies that begin in some output those of the first part come   *)
(* before those of the second.                                             *)
LEMMA RepliesConcat ==
  ASSUME NEW a \in Seq(Bytes), NEW b \in Seq(Bytes), NEW s \in Servers
  PROVE  RepliesOf(a \o b, s) = RepliesOf(a, s) \o RepliesOf(b, s)
<1> DEFINE A == Begins(a, s)
           B == Begins(b, s)
           S == Begins(a \o b, s)
           x == Len(a)
           p == Cardinality(A)
           q == Cardinality(B)
           at == [k \in 1..(p + q) |-> IF k <= p THEN Nth(A, k) ELSE x + Nth(B, k - p)]
<1>1. /\ a \o b \in Seq(Bytes) /\ Len(a \o b) = x + Len(b)
      /\ \A i \in 1..(x + Len(b)) : (a \o b)[i] = IF i <= x THEN a[i] ELSE b[i - x]
  BY ConcatProperties
<1>2. /\ x \in Nat /\ Len(b) \in Nat /\ A \in SUBSET (1..x) /\ B \in SUBSET (1..Len(b))
      /\ DOMAIN a = 1..x /\ DOMAIN b = 1..Len(b) /\ DOMAIN (a \o b) = 1..(x + Len(b))
  BY <1>1, RepliesType, LenProperties
<1>3. S \in SUBSET (1..(x + Len(b))) /\ x + Len(b) \in Nat
  BY <1>1, <1>2 DEF Begins
<1>4. \A i \in 1..(x + Len(b)) : i \in S <=> IF i <= x THEN i \in A ELSE i - x \in B
  BY <1>1, <1>2 DEF Begins
<1>5. p \in Nat /\ q \in Nat
  <2> HIDE DEF A, B, S, x
  <2> QED
    BY <1>2, RankFacts
<1>6. \A k \in 1..p : Nth(A, k) \in A /\ Cardinality(Upto(A, Nth(A, k))) = k
  <2> HIDE DEF A, B, S, x
  <2> QED
    BY <1>2, RankFacts
<1>7. \A k \in 1..q : Nth(B, k) \in B /\ Cardinality(Upto(B, Nth(B, k))) = k
  <2> HIDE DEF A, B, S, x
  <2> QED
    BY <1>2, RankFacts
<1>8. \A i \in A : Cardinality(Upto(A, i)) \in 1..p /\ i = Nth(A, Cardinality(Upto(A, i)))
  <2> HIDE DEF A, B, S, x
  <2> QED
    BY <1>2, RankFacts
<1>9. \A i \in B : Cardinality(Upto(B, i)) \in 1..q /\ i = Nth(B, Cardinality(Upto(B, i)))
  <2> HIDE DEF A, B, S, x
  <2> QED
    BY <1>2, RankFacts
<1>10. \A k, l \in 1..p : k < l => Nth(A, k) < Nth(A, l)
  <2> HIDE DEF A
  <2> QED
    BY <1>2, NthIncreases DEF p
<1>11. \A k, l \in 1..q : k < l => Nth(B, k) < Nth(B, l)
  <2> HIDE DEF B
  <2> QED
    BY <1>2, NthIncreases DEF q
<1> HIDE DEF A, B, S, x, p, q
<1>12. \A k \in 1..p : Nth(A, k) \in 1..x
  BY <1>2, <1>6
<1>13. \A k \in 1..q : Nth(B, k) \in 1..Len(b)
  BY <1>2, <1>7
<1>14. at \in [1..(p + q) -> S]
  <2> SUFFICES ASSUME NEW k \in 1..(p + q) PROVE at[k] \in S
    OBVIOUS
  <2>1. CASE k <= p
    <3>1. k \in 1..p
      BY <1>5, <2>1
    <3>2. Nth(A, k) \in A /\ Nth(A, k) \in 1..x
      BY <1>6, <1>12, <3>1
    <3> QED
      BY <1>2, <1>4, <2>1, <3>2
  <2>2. CASE ~(k <= p)
    <3>1. k - p \in 1..q
      BY <1>5, <2>2
    <3>2. Nth(B, k - p) \in B /\ Nth(B, k - p) \in 1..Len(b)
      BY <1>7, <1>13, <3>1
    <3> DEFINE j == Nth(B, k - p)
    <3>3. at[k] = x + j
      BY <2>2
    <3> HIDE DEF j, at
    <3>4. x + j \in 1..(x + Len(b)) /\ ~(x + j <= x) /\ (x + j) - x = j /\ j \in B
      BY <1>2, <3>2 DEF j
    <3> QED
      BY <1>4, <3>3, <3>4
  <2> QED
    BY <2>1, <2>2
<1>15. ASSUME NEW k \in 1..(p + q), NEW l \in 1..(p + q), k < l PROVE at[k] < at[l]
  <2>1. CASE l <= p
    <3>1. k \in 1..p /\ l \in 1..p
      BY <1>5, <1>15, <2>1
    <3> QED
      BY <1>10, <1>15, <3>1
  <2>2. CASE k <= p /\ ~(l <= p)
    <3>1. k \in 1..p /\ l - p \in 1..q
      BY <1>5, <2>2
    <3>2. Nth(A, k) \in 1..x /\ Nth(B, l - p) \in 1..Len(b)
      BY <1>12, <1>13, <3>1
    <3> QED
      BY <1>2, <2>2, <3>2
  <2>3. CASE ~(k <= p)
    <3>1. k - p \in 1..q /\ l - p \in 1..q /\ k - p < l - p /\ ~(l <= p)
      BY <1>5, <1>15, <2>3
    <3>2. /\ Nth(B, k - p) \in 1..Len(b) /\ Nth(B, l - p) \in 1..Len(b)
          /\ Nth(B, k - p) < Nth(B, l - p)
      BY <1>11, <1>13, <3>1
    <3> QED
      BY <1>2, <2>3, <3>1, <3>2
  <2> QED
    BY <2>1, <2>2, <2>3
<1>16. ASSUME NEW i \in S PROVE \E k \in 1..(p + q) : at[k] = i
  <2>0. i \in 1..(x + Len(b))
    BY <1>3
  <2>1. CASE i <= x
    <3>1. i \in A
      BY <1>4, <2>0, <2>1
    <3>2. PICK k \in 1..p : i = Nth(A, k)
      BY <1>8, <3>1
    <3>3. k \in 1..(p + q) /\ k <= p
      BY <1>5
    <3> QED
      BY <3>2, <3>3
  <2>2. CASE ~(i <= x)
    <3>1. i - x \in B
      BY <1>4, <2>0, <2>2
    <3>2. PICK k \in 1..q : i - x = Nth(B, k)
      BY <1>9, <3>1
    <3>3. k + p \in 1..(p + q) /\ ~(k + p <= p) /\ (k + p) - p = k
      BY <1>5
    <3>4. at[k + p] = x + Nth(B, k)
      BY <3>3
    <3>5. at[k + p] = i
      BY <1>2, <2>0, <3>2, <3>4
    <3> QED
      BY <3>3, <3>5
  <2> QED
    BY <2>1, <2>2
<1>17. Cardinality(S) = p + q /\ \A k \in 1..(p + q) : Nth(S, k) = at[k]
  <2> HIDE DEF at
  <2>1. p + q \in Nat
    BY <1>5
  <2> QED
    BY <1>3, <1>14, <1>15, <1>16, <2>1, ListingFacts
<1> DEFINE u == RepliesOf(a, s)
           v == RepliesOf(b, s)
           w == RepliesOf(a \o b, s)
<1>18. /\ u \in Seq(Replies) /\ Len(u) = p /\ \A k \in 1..p : u[k] = a[Nth(A, k)].of[2]
       /\ v \in Seq(Replies) /\ Len(v) = q /\ \A k \in 1..q : v[k] = b[Nth(B, k)].of[2]
  BY RepliesType DEF A, B, p, q
<1>19. w \in Seq(Replies) /\ Len(w) = p + q
       /\ \A k \in 1..(p + q) : w[k] = (a \o b)[at[k]].of[2]
  <2>1. /\ w \in Seq(Replies) /\ Len(w) = Cardinality(S)
        /\ \A k \in 1..Cardinality(S) : w[k] = (a \o b)[Nth(S, k)].of[2]
    BY <1>1, RepliesType DEF S
  <2> HIDE DEF w, at
  <2> QED
    BY <1>17, <2>1
<1> HIDE DEF u, v, w
<1>20. /\ u \o v \in Seq(Replies) /\ Len(u \o v) = p + q
       /\ \A k \in 1..(p + q) : (u \o v)[k] = IF k <= p THEN u[k] ELSE v[k - p]
  BY <1>18, ConcatProperties
<1>21. ASSUME NEW k \in 1..(p + q) PROVE w[k] = (u \o v)[k]
  <2>1. CASE k <= p
    <3>1. k \in 1..p /\ Nth(A, k) \in 1..x /\ at[k] = Nth(A, k)
      BY <1>5, <1>12, <2>1
    <3> HIDE DEF at
    <3>2. (a \o b)[at[k]] = a[Nth(A, k)]
      BY <1>1, <1>2, <3>1
    <3>3. u[k] = a[Nth(A, k)].of[2]
      BY <1>18, <3>1
    <3> QED
      BY <1>19, <1>20, <2>1, <3>2, <3>3
  <2>2. CASE ~(k <= p)
    <3> DEFINE j == Nth(B, k - p)
    <3>1. k - p \in 1..q /\ at[k] = x + j /\ j \in 1..Len(b)
      BY <1>5, <1>13, <2>2
    <3> HIDE DEF j, at
    <3>2. x + j \in 1..(x + Len(b)) /\ ~(x + j <= x) /\ (x + j) - x = j
      BY <1>2, <3>1
    <3>3. (a \o b)[at[k]] = b[j]
      BY <1>1, <3>1, <3>2
    <3>4. v[k - p] = b[j].of[2]
      BY <1>18, <3>1 DEF j
    <3> QED
      BY <1>19, <1>20, <2>2, <3>3, <3>4
  <2> QED
    BY <2>1, <2>2
<1> HIDE DEF at
<1>22. w = u \o v
  BY <1>19, <1>20, <1>21, SeqEqual
<1> QED
  BY <1>22 DEF u, v, w

(* Without a cookie of a server there is no reply of it.                   *)
LEMMA NoReplies ==
  ASSUME NEW b \in Seq(Bytes), NEW s \in Servers,
         \A i \in 1..Len(b) : b[i].is = "pre" => b[i].of[1] # s
  PROVE  RepliesOf(b, s) = <<>>
<1>1. Begins(b, s) = {}
  BY LenProperties DEF Begins
<1>2. Cardinality(Begins(b, s)) = 0
  BY <1>1, FS_EmptySet
<1>3. RepliesOf(b, s) \in Seq(Replies) /\ Len(RepliesOf(b, s)) = 0
  BY <1>2, RepliesType
<1> QED
  BY <1>3, EmptySeq

(* The bytes of a form, each for itself                                    *)
LEMMA FormFacts ==
  ASSUME NEW s \in Servers, NEW r \in Replies
  PROVE  /\ Form(s, r) \in Seq(Bytes) /\ Len(Form(s, r)) = PayloadSize + 2
         /\ Form(s, r)[1] = Byte("pre", s, r, 0) /\ Form(s, r)[2] = Byte("post", s, r, 0)
         /\ \A i \in 3..(PayloadSize + 2) : Form(s, r)[i] = Byte("pay", s, r, i - 2)
<1> DEFINE a == <<Byte("pre", s, r, 0), Byte("post", s, r, 0)>>
           b == [i \in 1..PayloadSize |-> Byte("pay", s, r, i)]
           B == {Byte("pre", s, r, 0), Byte("post", s, r, 0)} \cup
                  {Byte("pay", s, r, i) : i \in 1..PayloadSize}
<1>1. PayloadSize \in Nat
  BY ProcessAssumption
<1>2. a \in Seq(B) /\ Len(a) = 2 /\ a[1] = Byte("pre", s, r, 0) /\ a[2] = Byte("post", s, r, 0)
  OBVIOUS
<1>3. b \in [1..PayloadSize -> B]
  OBVIOUS
<1>4. b \in Seq(B)
  BY <1>1, <1>3, SeqDef
<1>5. Len(b) = PayloadSize
  BY <1>1, <1>3, <1>4, LenProperties
<1>6. \A i \in 1..PayloadSize : b[i] = Byte("pay", s, r, i)
  OBVIOUS
<1>7. Form(s, r) = a \o b
  BY DEF Form
<1> HIDE DEF a, b, B
<1>8. /\ Len(a \o b) = 2 + PayloadSize
      /\ \A i \in 1..(2 + PayloadSize) : (a \o b)[i] = IF i <= 2 THEN a[i] ELSE b[i - 2]
  <2>1. /\ Len(a \o b) = Len(a) + Len(b)
        /\ \A i \in 1..(Len(a) + Len(b)) :
             (a \o b)[i] = IF i <= Len(a) THEN a[i] ELSE b[i - Len(a)]
    BY <1>2, <1>4, ConcatProperties
  <2> QED
    BY <1>2, <1>5, <2>1
<1>9. 1 \in 1..(2 + PayloadSize) /\ 2 \in 1..(2 + PayloadSize)
  BY <1>1
<1>10. ASSUME NEW i \in 3..(PayloadSize + 2) PROVE (a \o b)[i] = Byte("pay", s, r, i - 2)
  <2>1. i \in 1..(2 + PayloadSize) /\ ~(i <= 2) /\ i - 2 \in 1..PayloadSize
    BY <1>1
  <2> QED
    BY <1>6, <1>8, <2>1
<1>11. (a \o b)[1] = Byte("pre", s, r, 0) /\ (a \o b)[2] = Byte("post", s, r, 0)
  BY <1>2, <1>8, <1>9
<1>12. Len(a \o b) = PayloadSize + 2
  BY <1>1, <1>8
<1> QED
  BY <1>7, <1>10, <1>11, <1>12, FormType

(* What a byte tells about itself                                          *)
LEMMA ByteParts ==
  ASSUME NEW is, NEW s, NEW r, NEW i
  PROVE  Byte(is, s, r, i).is = is /\ Byte(is, s, r, i).of = <<s, r>>
BY DEF Byte

(* A form is one reply, of the server that wrote it.                       *)
LEMMA FormReplies ==
  ASSUME NEW s \in Servers, NEW r \in Replies, NEW t \in Servers
  PROVE  RepliesOf(Form(s, r), t) = IF t = s THEN <<r>> ELSE <<>>
<1> DEFINE f == Form(s, r)
<1>0. /\ f \in Seq(Bytes) /\ Len(f) = PayloadSize + 2
      /\ f[1] = Byte("pre", s, r, 0) /\ f[2] = Byte("post", s, r, 0)
      /\ \A i \in 3..(PayloadSize + 2) : f[i] = Byte("pay", s, r, i - 2)
  BY FormFacts
<1> HIDE DEF f
<1>1. /\ f \in Seq(Bytes) /\ Len(f) = PayloadSize + 2 /\ PayloadSize \in Nat
      /\ f[1].is = "pre" /\ f[1].of = <<s, r>> /\ \A i \in 2..Len(f) : f[i].is # "pre"
  <2>1. PayloadSize \in Nat
    BY ProcessAssumption
  <2>2. ASSUME NEW i \in 2..(PayloadSize + 2) PROVE f[i].is # "pre"
    <3>1. i = 2 \/ i \in 3..(PayloadSize + 2)
      BY <2>1
    <3>2. f[i].is = "post" \/ f[i].is = "pay"
      BY <1>0, <3>1, ByteParts
    <3> QED
      BY <3>2
  <2> QED
    BY <1>0, <2>1, <2>2, ByteParts
<1>2. CASE t # s
  <2>1. \A i \in 1..Len(f) : f[i].is = "pre" => f[i].of[1] # t
    BY <1>1, <1>2
  <2> QED
    BY <1>1, <1>2, <2>1, NoReplies DEF f
<1>3. CASE t = s
  <2> DEFINE S == Begins(f, t)
             at == [k \in 1..1 |-> 1]
  <2>1. S = {1}
    BY <1>1, <1>3, LenProperties DEF Begins
  <2>2. at \in [1..1 -> S] /\ \A k, l \in 1..1 : k < l => at[k] < at[l]
    BY <2>1
  <2>3. \A i \in S : \E k \in 1..1 : at[k] = i
    BY <2>1
  <2>4. 1 \in 1..1 /\ at[1] = 1
    OBVIOUS
  <2>5. S \in SUBSET (1..Len(f)) /\ Len(f) \in Nat
    BY <1>1, RepliesType
  <2>6. Cardinality(S) = 1 /\ Nth(S, 1) = 1
    <3>1. 1 \in Nat
      OBVIOUS
    <3> HIDE DEF S, at
    <3>2. PICK m \in Nat : m = 1
      BY <3>1
    <3>3. /\ at \in [1..m -> S] /\ \A k, l \in 1..m : k < l => at[k] < at[l]
          /\ \A i \in S : \E k \in 1..m : at[k] = i
      BY <2>2, <2>3, <3>2
    <3>4. Cardinality(S) = m /\ \A k \in 1..m : Nth(S, k) = at[k]
      BY <2>5, <3>3, ListingFacts
    <3> QED
      BY <2>4, <3>2, <3>4
  <2>7. /\ RepliesOf(f, t) \in Seq(Replies) /\ Len(RepliesOf(f, t)) = 1
        /\ RepliesOf(f, t)[1] = r
    <3>1. /\ RepliesOf(f, t) \in Seq(Replies) /\ Len(RepliesOf(f, t)) = Cardinality(S)
          /\ \A k \in 1..Cardinality(S) : RepliesOf(f, t)[k] = f[Nth(S, k)].of[2]
      BY <1>1, RepliesType
    <3> HIDE DEF S
    <3>2. RepliesOf(f, t)[1] = f[1].of[2]
      BY <2>4, <2>6, <3>1
    <3> QED
      BY <1>1, <2>6, <3>1, <3>2
  <2>8. <<r>> \in Seq(Replies) /\ Len(<<r>>) = 1 /\ <<r>>[1] = r
    OBVIOUS
  <2>9. \A i \in 1..1 : RepliesOf(f, t)[i] = <<r>>[i]
    BY <2>7, <2>8
  <2>10. RepliesOf(f, t) = <<r>>
    BY <2>7, <2>8, <2>9, SeqEqual
  <2> QED
    BY <1>3, <2>10 DEF f
<1> QED
  BY <1>2, <1>3

(* Neither a prompt nor nothing has a reply.                               *)
LEMMA PromptFacts ==
  /\ <<Prompt>> \in Seq(Bytes) /\ <<>> \in Seq(Bytes)
  /\ \A t \in Servers : RepliesOf(<<Prompt>>, t) = <<>> /\ RepliesOf(<<>>, t) = <<>>
<1>1. <<Prompt>> \in Seq(Bytes) /\ <<>> \in Seq(Bytes)
  BY DEF Bytes
<1>2. \A i \in 1..Len(<<Prompt>>) : <<Prompt>>[i].is # "pre"
  BY DEF Prompt
<1>3. \A i \in 1..Len(<<>>) : <<>>[i].is # "pre"
  OBVIOUS
<1> QED
  BY <1>1, <1>2, <1>3, NoReplies

(* Every form that begins in some output is all there. *)
FormAt(b, i, s, r) ==
  /\ i + 1 + PayloadSize <= Len(b)
  /\ \A j \in 1..(PayloadSize + 2) : b[i + j - 1] = Form(s, r)[j]
AllWhole(b) ==
  \A i \in 1..Len(b) : b[i].is = "pre" => \E s \in Servers, r \in Replies : FormAt(b, i, s, r)

(* Whole forms after whole forms are whole.                                *)
LEMMA WholeConcat ==
  ASSUME NEW a \in Seq(Bytes), NEW b \in Seq(Bytes), AllWhole(a), AllWhole(b)
  PROVE  AllWhole(a \o b)
<1>1. /\ Len(a \o b) = Len(a) + Len(b) /\ Len(a) \in Nat /\ Len(b) \in Nat
      /\ \A i \in 1..(Len(a) + Len(b)) :
           (a \o b)[i] = IF i <= Len(a) THEN a[i] ELSE b[i - Len(a)]
  BY ConcatProperties, LenProperties
<1>2. PayloadSize \in Nat
  BY ProcessAssumption
<1> SUFFICES ASSUME NEW i \in 1..Len(a \o b), (a \o b)[i].is = "pre"
             PROVE  \E s \in Servers, r \in Replies : FormAt(a \o b, i, s, r)
  BY DEF AllWhole
<1>3. CASE i <= Len(a)
  <2>1. i \in 1..Len(a) /\ a[i].is = "pre"
    BY <1>1, <1>3
  <2>2. PICK s \in Servers, r \in Replies : FormAt(a, i, s, r)
    BY <2>1 DEF AllWhole
  <2>3. ASSUME NEW j \in 1..(PayloadSize + 2) PROVE (a \o b)[i + j - 1] = Form(s, r)[j]
    <3>1. i + j - 1 \in 1..(Len(a) + Len(b)) /\ i + j - 1 <= Len(a)
      BY <1>1, <1>2, <2>1, <2>2 DEF FormAt
    <3>2. a[i + j - 1] = Form(s, r)[j]
      BY <2>2 DEF FormAt
    <3> QED
      BY <1>1, <3>1, <3>2
  <2>4. i + 1 + PayloadSize <= Len(a \o b)
    BY <1>1, <1>2, <2>1, <2>2 DEF FormAt
  <2> QED
    BY <2>3, <2>4 DEF FormAt
<1>4. CASE ~(i <= Len(a))
  <2> DEFINE h == i - Len(a)
  <2>1. h \in 1..Len(b) /\ b[h].is = "pre" /\ i = Len(a) + h
    BY <1>1, <1>4
  <2> HIDE DEF h
  <2>2. PICK s \in Servers, r \in Replies : FormAt(b, h, s, r)
    BY <2>1 DEF AllWhole
  <2>3. ASSUME NEW j \in 1..(PayloadSize + 2) PROVE (a \o b)[i + j - 1] = Form(s, r)[j]
    <3>1. /\ i + j - 1 \in 1..(Len(a) + Len(b)) /\ ~(i + j - 1 <= Len(a))
          /\ (i + j - 1) - Len(a) = h + j - 1
      BY <1>1, <1>2, <2>1, <2>2 DEF FormAt
    <3>2. b[h + j - 1] = Form(s, r)[j]
      BY <2>2 DEF FormAt
    <3> QED
      BY <1>1, <3>1, <3>2
  <2>4. i + 1 + PayloadSize <= Len(a \o b)
    BY <1>1, <1>2, <2>1, <2>2 DEF FormAt
  <2> QED
    BY <2>3, <2>4 DEF FormAt
<1> QED
  BY <1>3, <1>4

(* When all forms are whole, so are those that begin later.                *)
LEMMA WholeRest ==
  ASSUME NEW a \in Seq(Bytes), NEW b \in Seq(Bytes), AllWhole(a \o b)
  PROVE  AllWhole(b)
<1>1. /\ Len(a \o b) = Len(a) + Len(b) /\ Len(a) \in Nat /\ Len(b) \in Nat
      /\ \A i \in 1..(Len(a) + Len(b)) :
           (a \o b)[i] = IF i <= Len(a) THEN a[i] ELSE b[i - Len(a)]
  BY ConcatProperties, LenProperties
<1>2. PayloadSize \in Nat
  BY ProcessAssumption
<1> SUFFICES ASSUME NEW h \in 1..Len(b), b[h].is = "pre"
             PROVE  \E s \in Servers, r \in Replies : FormAt(b, h, s, r)
  BY DEF AllWhole
<1> DEFINE i == Len(a) + h
<1>3. i \in 1..Len(a \o b) /\ (a \o b)[i].is = "pre"
  <2>1. i \in 1..(Len(a) + Len(b)) /\ ~(i <= Len(a)) /\ i - Len(a) = h
    BY <1>1
  <2> HIDE DEF i
  <2> QED
    BY <1>1, <2>1
<1>4. PICK s \in Servers, r \in Replies : FormAt(a \o b, i, s, r)
  BY <1>3 DEF AllWhole
<1>5. h + 1 + PayloadSize <= Len(b)
  BY <1>1, <1>2, <1>4 DEF FormAt
<1>6. ASSUME NEW j \in 1..(PayloadSize + 2) PROVE b[h + j - 1] = Form(s, r)[j]
  <2>1. /\ i + j - 1 \in 1..(Len(a) + Len(b)) /\ ~(i + j - 1 <= Len(a))
        /\ (i + j - 1) - Len(a) = h + j - 1
    BY <1>1, <1>2, <1>5
  <2>2. (a \o b)[i + j - 1] = Form(s, r)[j]
    BY <1>4 DEF FormAt
  <2> HIDE DEF i
  <2> QED
    BY <1>1, <2>1, <2>2
<1> QED
  BY <1>5, <1>6 DEF FormAt

(* What a server writes is whole.                                          *)
LEMMA WholeParts ==
  /\ AllWhole(<<>>) /\ AllWhole(<<Prompt>>)
  /\ \A s \in Servers, r \in Replies : AllWhole(Form(s, r))
<1>1. AllWhole(<<>>) /\ AllWhole(<<Prompt>>)
  BY DEF AllWhole, Prompt
<1>2. ASSUME NEW s \in Servers, NEW r \in Replies PROVE AllWhole(Form(s, r))
  <2> DEFINE f == Form(s, r)
  <2>1. PayloadSize \in Nat /\ Len(f) = PayloadSize + 2
    BY ProcessAssumption, FormFacts
  <2>0. f[2].is = "post" /\ \A i \in 3..(PayloadSize + 2) : f[i].is = "pay"
    <3>1. /\ f[2] = Byte("post", s, r, 0)
          /\ \A i \in 3..(PayloadSize + 2) : f[i] = Byte("pay", s, r, i - 2)
      BY FormFacts
    <3> HIDE DEF f
    <3> QED
      BY <3>1, ByteParts
  <2> SUFFICES ASSUME NEW i \in 1..Len(f), f[i].is = "pre"
               PROVE  FormAt(f, i, s, r)
    BY DEF AllWhole
  <2>2. i = 1
    <3>1. i = 1 \/ i = 2 \/ i \in 3..(PayloadSize + 2)
      BY <2>1
    <3>2. i = 1 \/ f[i].is = "post" \/ f[i].is = "pay"
      BY <2>0, <3>1
    <3> QED
      BY <3>2
  <2>3. \A j \in 1..(PayloadSize + 2) : 1 + j - 1 = j
    BY <2>1
  <2> HIDE DEF f
  <2> QED
    BY <2>1, <2>2, <2>3 DEF FormAt, f
<1> QED
  BY <1>1, <1>2

(* What is left of replies when some in the middle, or the first, are      *)
(* lost.                                                                   *)
LEMMA MiddleLost ==
  ASSUME NEW u \in Seq(Replies), NEW v \in Seq(Replies), NEW w \in Seq(Replies)
  PROVE  Channel!Remains(u \o w, (u \o v) \o w, 0)
<1> DEFINE t == u \o w
           s == (u \o v) \o w
           p == Len(u)
           q == Len(v)
           n == Len(w)
           at == [i \in 1..Len(t) |-> IF i <= p THEN i ELSE i + q]
<1>1. p \in Nat /\ q \in Nat /\ n \in Nat
  BY LenProperties
<1>2. /\ u \o v \in Seq(Replies) /\ Len(u \o v) = p + q
      /\ \A i \in 1..(p + q) : (u \o v)[i] = IF i <= p THEN u[i] ELSE v[i - p]
  BY ConcatProperties
<1>3. /\ Len(s) = p + q + n
      /\ \A i \in 1..(p + q + n) : s[i] = IF i <= p + q THEN (u \o v)[i] ELSE w[i - (p + q)]
  BY <1>2, ConcatProperties
<1>4. /\ Len(t) = p + n
      /\ \A i \in 1..(p + n) : t[i] = IF i <= p THEN u[i] ELSE w[i - p]
  BY ConcatProperties
<1> HIDE DEF t, s, p, q, n
<1>5. at \in [1..Len(t) -> (0 + 1)..Len(s)]
  BY <1>1, <1>3, <1>4
<1>6. \A i, j \in 1..Len(t) : i < j => at[i] < at[j]
  BY <1>1, <1>4
<1>7. ASSUME NEW i \in 1..Len(t) PROVE t[i] = s[at[i]]
  <2>1. CASE i <= p
    <3>1. i \in 1..(p + q) /\ i \in 1..(p + q + n) /\ i <= p + q /\ at[i] = i /\ i \in 1..(p + n)
      BY <1>1, <1>4, <2>1
    <3> HIDE DEF at
    <3> QED
      BY <1>2, <1>3, <1>4, <2>1, <3>1
  <2>2. CASE ~(i <= p)
    <3>1. /\ at[i] = i + q /\ i + q \in 1..(p + q + n) /\ ~(i + q <= p + q)
          /\ (i + q) - (p + q) = i - p /\ i \in 1..(p + n)
      BY <1>1, <1>4, <2>2
    <3> HIDE DEF at
    <3> QED
      BY <1>3, <1>4, <2>2, <3>1
  <2> QED
    BY <2>1, <2>2
<1> HIDE DEF at
<1>8. Channel!Remains(t, s, 0)
  BY <1>5, <1>6, <1>7 DEF Channel!Remains
<1> QED
  BY <1>8 DEF t, s

(* The first are lost, and so may be counted as lost up to any of them.    *)
LEMMA FirstLost ==
  ASSUME NEW v \in Seq(Replies), NEW w \in Seq(Replies), NEW k \in 0..Len(v)
  PROVE  Channel!Remains(w, v \o w, k)
<1> DEFINE s == v \o w
           q == Len(v)
           at == [i \in 1..Len(w) |-> i + q]
<1>1. q \in Nat /\ Len(w) \in Nat /\ k \in Nat /\ k <= q
  BY LenProperties
<1>2. /\ Len(s) = q + Len(w)
      /\ \A i \in 1..(q + Len(w)) : s[i] = IF i <= q THEN v[i] ELSE w[i - q]
  BY ConcatProperties
<1> HIDE DEF s, q
<1>3. at \in [1..Len(w) -> (k + 1)..Len(s)]
  BY <1>1, <1>2
<1>4. \A i, j \in 1..Len(w) : i < j => at[i] < at[j]
  BY <1>1
<1>5. ASSUME NEW i \in 1..Len(w) PROVE w[i] = s[at[i]]
  <2>1. at[i] = i + q /\ i + q \in 1..(q + Len(w)) /\ ~(i + q <= q) /\ (i + q) - q = i
    BY <1>1
  <2> HIDE DEF at
  <2> QED
    BY <1>2, <2>1
<1> HIDE DEF at
<1>6. Channel!Remains(w, s, k)
  BY <1>3, <1>4, <1>5 DEF Channel!Remains
<1> QED
  BY <1>6 DEF s

(* The replies in some output are those of a server. *)
OutOf(b, s) == \A i \in 1..Len(b) : b[i].is = "pre" => b[i].of[1] = s

(* What is in the pipe of a server, and what it left to stdio, is of that  *)
(* server and goes on with whole forms as long as it runs; and when it is  *)
(* the only one, so does what is in the buffer of Emacs.                   *)
ShapeInv ==
  /\ \A s \in Servers : OutOf(stdout[s], s) /\ OutOf(rest[s], s)
  /\ \A s \in Servers : phase[s] \in {"none", "gone"} => stdout[s] = <<>>
  /\ \A s \in Servers : phase[s] = "none" => rest[s] = <<>>
  /\ \A s \in Servers : Alive(s) => AllWhole(stdout[s] \o rest[s])
  /\ \A s \in Servers : Alive(s) /\ Processes = {s} => AllWhole(buf \o (stdout[s] \o rest[s]))

(* Output is of a server when its parts are.                               *)
LEMMA OutOfConcat ==
  ASSUME NEW a \in Seq(Bytes), NEW b \in Seq(Bytes), NEW s
  PROVE  OutOf(a \o b, s) <=> OutOf(a, s) /\ OutOf(b, s)
<1>1. /\ Len(a \o b) = Len(a) + Len(b) /\ Len(a) \in Nat /\ Len(b) \in Nat
      /\ \A i \in 1..(Len(a) + Len(b)) :
           (a \o b)[i] = IF i <= Len(a) THEN a[i] ELSE b[i - Len(a)]
  BY ConcatProperties, LenProperties
<1>2. ASSUME OutOf(a, s), OutOf(b, s) PROVE OutOf(a \o b, s)
  <2> SUFFICES ASSUME NEW i \in 1..Len(a \o b), (a \o b)[i].is = "pre"
               PROVE  (a \o b)[i].of[1] = s
    BY DEF OutOf
  <2>1. CASE i <= Len(a)
    <3>1. i \in 1..Len(a) /\ (a \o b)[i] = a[i]
      BY <1>1, <2>1
    <3> QED
      BY <1>2, <3>1 DEF OutOf
  <2>2. CASE ~(i <= Len(a))
    <3>1. i - Len(a) \in 1..Len(b) /\ (a \o b)[i] = b[i - Len(a)]
      BY <1>1, <2>2
    <3> QED
      BY <1>2, <3>1 DEF OutOf
  <2> QED
    BY <2>1, <2>2
<1>3. ASSUME OutOf(a \o b, s) PROVE OutOf(a, s)
  <2> SUFFICES ASSUME NEW i \in 1..Len(a), a[i].is = "pre" PROVE a[i].of[1] = s
    BY DEF OutOf
  <2>1. i \in 1..Len(a \o b) /\ (a \o b)[i] = a[i]
    BY <1>1
  <2> QED
    BY <1>3, <2>1 DEF OutOf
<1>4. ASSUME OutOf(a \o b, s) PROVE OutOf(b, s)
  <2> SUFFICES ASSUME NEW i \in 1..Len(b), b[i].is = "pre" PROVE b[i].of[1] = s
    BY DEF OutOf
  <2>1. /\ i + Len(a) \in 1..(Len(a) + Len(b)) /\ ~(i + Len(a) <= Len(a))
        /\ (i + Len(a)) - Len(a) = i
    BY <1>1
  <2>2. i + Len(a) \in 1..Len(a \o b) /\ (a \o b)[i + Len(a)] = b[i]
    BY <1>1, <2>1
  <2> QED
    BY <1>4, <2>2 DEF OutOf
<1> QED
  BY <1>2, <1>3, <1>4

(* What a server writes is its own.                                        *)
LEMMA OutOfParts ==
  ASSUME NEW s \in Servers
  PROVE  /\ OutOf(<<>>, s) /\ OutOf(<<Prompt>>, s)
         /\ \A r \in Replies : OutOf(Form(s, r), s)
<1>1. OutOf(<<>>, s) /\ OutOf(<<Prompt>>, s)
  BY DEF OutOf, Prompt
<1>2. ASSUME NEW r \in Replies PROVE OutOf(Form(s, r), s)
  <2> DEFINE f == Form(s, r)
  <2>1. /\ PayloadSize \in Nat /\ Len(f) = PayloadSize + 2
        /\ f[1] = Byte("pre", s, r, 0) /\ f[2] = Byte("post", s, r, 0)
        /\ \A i \in 3..(PayloadSize + 2) : f[i] = Byte("pay", s, r, i - 2)
    BY FormFacts, ProcessAssumption
  <2> HIDE DEF f
  <2>2. ASSUME NEW i \in 1..Len(f) PROVE f[i].of = <<s, r>>
    <3>1. i = 1 \/ i = 2 \/ i \in 3..(PayloadSize + 2)
      BY <2>1
    <3> QED
      BY <2>1, <3>1, ByteParts
  <2>3. OutOf(f, s)
    BY <2>2 DEF OutOf
  <2> QED
    BY <2>3 DEF f
<1> QED
  BY <1>1, <1>2

(* The replies of a server are in the buffer of Emacs and in what follows  *)
(* it.                                                                     *)
LEMMA RepliesJoin ==
  ASSUME NEW a \in Seq(Bytes), NEW b \in Seq(Bytes), NEW c \in Seq(Bytes), NEW s \in Servers
  PROVE  /\ RepliesOf(a, s) \o RepliesOf(b, s) \o RepliesOf(c, s) =
              RepliesOf(a, s) \o RepliesOf(b \o c, s)
         /\ RepliesOf(a, s) \o RepliesOf(b, s) \o RepliesOf(c, s) =
              RepliesOf(a \o b, s) \o RepliesOf(c, s)
         /\ RepliesOf(a, s) \in Seq(Replies) /\ RepliesOf(b, s) \in Seq(Replies)
         /\ RepliesOf(c, s) \in Seq(Replies)
<1>1. /\ RepliesOf(a, s) \in Seq(Replies) /\ RepliesOf(b, s) \in Seq(Replies)
      /\ RepliesOf(c, s) \in Seq(Replies)
  BY RepliesType
<1>2. /\ RepliesOf(b \o c, s) = RepliesOf(b, s) \o RepliesOf(c, s)
      /\ RepliesOf(a \o b, s) = RepliesOf(a, s) \o RepliesOf(b, s)
  BY RepliesConcat
<1>3. (RepliesOf(a, s) \o RepliesOf(b, s)) \o RepliesOf(c, s) =
        RepliesOf(a, s) \o (RepliesOf(b, s) \o RepliesOf(c, s))
  BY <1>1, ConcatAssociative
<1> QED
  BY <1>1, <1>2, <1>3

(* What a server writes comes after what it wrote before. *)
LEMMA WriteAppends ==
  ASSUME TypeOK, NEW s \in Servers, NEW out \in Seq(Bytes), Puts(s, out) \/ Flush(s, out)
  PROVE  /\ stdout'[s] \in Seq(Bytes) /\ rest'[s] \in Seq(Bytes)
         /\ stdout'[s] \o rest'[s] = (stdout[s] \o rest[s]) \o out
         /\ \A t \in Servers \ {s} : stdout'[t] = stdout[t] /\ rest'[t] = rest[t]
<1>1. /\ rest[s] \in Seq(Bytes) /\ stdout[s] \in Seq(Bytes)
      /\ stdout \in [Servers -> Seq(Bytes)] /\ rest \in [Servers -> Seq(Bytes)]
  BY DEF TypeOK
<1>2. stdout'[s] \in Seq(Bytes) /\ rest'[s] \in Seq(Bytes)
  BY WriteType
<1>3. rest[s] \o out \in Seq(Bytes) /\ Len(rest[s] \o out) \in Nat
  BY <1>1, ConcatProperties, LenProperties
<1>4. \A t \in Servers \ {s} : stdout'[t] = stdout[t] /\ rest'[t] = rest[t]
  BY <1>1 DEF Puts, Flush
<1>5. (stdout[s] \o rest[s]) \o out = stdout[s] \o (rest[s] \o out)
  BY <1>1, ConcatAssociative
<1>6. CASE Flush(s, out)
  <2>1. stdout'[s] = (stdout[s] \o rest[s]) \o out /\ rest'[s] = <<>>
    BY <1>1, <1>6 DEF Flush
  <2>2. stdout'[s] \o <<>> = stdout'[s]
    BY <1>2, ConcatEmptySeq
  <2> QED
    BY <1>2, <1>4, <2>1, <2>2
<1>7. CASE Puts(s, out)
  <2> DEFINE all == rest[s] \o out
  <2>1. PICK k \in 0..Len(all) :
          /\ stdout' = [stdout EXCEPT ![s] = @ \o SubSeq(all, 1, k)]
          /\ rest' = [rest EXCEPT ![s] = SubSeq(all, k + 1, Len(all))]
    BY <1>7 DEF Puts
  <2>2. stdout'[s] = stdout[s] \o SubSeq(all, 1, k) /\ rest'[s] = SubSeq(all, k + 1, Len(all))
    BY <1>1, <2>1
  <2> HIDE DEF all
  <2>3. all \in Seq(Bytes) /\ Len(all) \in Nat
    BY <1>3 DEF all
  <2>4. /\ SubSeq(all, 1, k) \o SubSeq(all, k + 1, Len(all)) = SubSeq(all, 1, Len(all))
        /\ SubSeq(all, 1, Len(all)) = all
    <3>1. 1 \in 1..(Len(all) + 1) /\ k \in (1 - 1)..Len(all) /\ Len(all) \in k..Len(all)
      BY <2>3
    <3> QED
      BY <2>3, <3>1, ConcatAdjacentSubSeq, SubSeqFull
  <2>5. SubSeq(all, 1, k) \in Seq(Bytes) /\ SubSeq(all, k + 1, Len(all)) \in Seq(Bytes)
    <3>1. \A i \in 1..Len(all) : all[i] \in Bytes
      BY <2>3, ElementOfSeq
    <3>2. (\A i \in 1..k : all[i] \in Bytes) /\ (\A i \in (k + 1)..Len(all) : all[i] \in Bytes)
      BY <2>3, <3>1
    <3>3. 1 \in Int /\ k \in Int /\ k + 1 \in Int /\ Len(all) \in Int
      BY <2>3
    <3> QED
      BY <3>2, <3>3, SubSeqProperties
  <2>6. (stdout[s] \o SubSeq(all, 1, k)) \o SubSeq(all, k + 1, Len(all)) = stdout[s] \o all
    <3> DEFINE l == SubSeq(all, 1, k)
               r == SubSeq(all, k + 1, Len(all))
    <3>1. l \in Seq(Bytes) /\ r \in Seq(Bytes) /\ l \o r = all /\ stdout[s] \in Seq(Bytes)
      BY <1>1, <2>4, <2>5
    <3> HIDE DEF l, r
    <3>0. \A a, b, c \in Seq(Bytes) : (a \o b) \o c = a \o (b \o c)
      BY ConcatAssociative
    <3>2. (stdout[s] \o l) \o r = stdout[s] \o (l \o r)
      BY <3>0, <3>1
    <3>3. (stdout[s] \o l) \o r = stdout[s] \o all
      BY <3>1, <3>2
    <3> QED
      BY <3>3 DEF l, r
  <2> QED
    BY <1>2, <1>4, <1>5, <2>2, <2>6 DEF all
<1> QED
  BY <1>6, <1>7

(* What a server writes adds the replies in it, and to no other server.    *)
LEMMA WriteReplies ==
  ASSUME TypeOK, NEW s \in Servers, NEW out \in Seq(Bytes), Puts(s, out) \/ Flush(s, out),
         buf' = buf
  PROVE  /\ RepliesIn(s)' = RepliesIn(s) \o RepliesOf(out, s)
         /\ \A t \in Servers \ {s} : RepliesIn(t)' = RepliesIn(t)
<1>1. /\ buf \in Seq(Bytes) /\ stdout[s] \in Seq(Bytes) /\ rest[s] \in Seq(Bytes)
      /\ stdout'[s] \in Seq(Bytes) /\ rest'[s] \in Seq(Bytes)
      /\ stdout'[s] \o rest'[s] = (stdout[s] \o rest[s]) \o out
      /\ stdout[s] \o rest[s] \in Seq(Bytes)
  <2>1. /\ stdout'[s] \in Seq(Bytes) /\ rest'[s] \in Seq(Bytes)
        /\ stdout'[s] \o rest'[s] = (stdout[s] \o rest[s]) \o out
    BY WriteAppends
  <2>2. buf \in Seq(Bytes) /\ stdout[s] \in Seq(Bytes) /\ rest[s] \in Seq(Bytes)
    BY DEF TypeOK
  <2> QED
    BY <2>1, <2>2, ConcatProperties
<1> DEFINE B == RepliesOf(buf, s)
           R == RepliesOf(stdout[s] \o rest[s], s)
           N == RepliesOf(out, s)
<1>2. RepliesIn(s) = B \o R /\ B \in Seq(Replies)
  <2>1. buf \in Seq(Bytes) /\ stdout[s] \in Seq(Bytes) /\ rest[s] \in Seq(Bytes)
    BY <1>1
  <2>2. RepliesOf(buf, s) \o RepliesOf(stdout[s], s) \o RepliesOf(rest[s], s) =
          RepliesOf(buf, s) \o RepliesOf(stdout[s] \o rest[s], s)
    <3>1. \A a, b, c \in Seq(Bytes) :
            RepliesOf(a, s) \o RepliesOf(b, s) \o RepliesOf(c, s) =
            RepliesOf(a, s) \o RepliesOf(b \o c, s)
      BY RepliesJoin
    <3> QED
      BY <2>1, <3>1
  <2> QED
    BY <2>1, <2>2, RepliesType DEF RepliesIn
<1>3. RepliesIn(s)' = B \o RepliesOf((stdout[s] \o rest[s]) \o out, s)
  <2>1. RepliesIn(s)' = RepliesOf(buf, s) \o RepliesOf(stdout'[s], s) \o RepliesOf(rest'[s], s)
    BY DEF RepliesIn
  <2>2. RepliesOf(buf, s) \o RepliesOf(stdout'[s], s) \o RepliesOf(rest'[s], s) =
          RepliesOf(buf, s) \o RepliesOf(stdout'[s] \o rest'[s], s)
    <3> DEFINE o == stdout'[s]
               r == rest'[s]
    <3>1. buf \in Seq(Bytes) /\ o \in Seq(Bytes) /\ r \in Seq(Bytes)
      BY <1>1
    <3> HIDE DEF o, r
    <3>2. \A a, b, c \in Seq(Bytes) :
            RepliesOf(a, s) \o RepliesOf(b, s) \o RepliesOf(c, s) =
            RepliesOf(a, s) \o RepliesOf(b \o c, s)
      BY RepliesJoin
    <3>3. RepliesOf(buf, s) \o RepliesOf(o, s) \o RepliesOf(r, s) =
            RepliesOf(buf, s) \o RepliesOf(o \o r, s)
      BY <3>1, <3>2
    <3> QED
      BY <3>3 DEF o, r
  <2> QED
    BY <1>1, <2>1, <2>2
<1>4. RepliesOf((stdout[s] \o rest[s]) \o out, s) = R \o N
  BY <1>1, RepliesConcat
<1>5. R \in Seq(Replies) /\ N \in Seq(Replies)
  BY <1>1, RepliesType
<1> HIDE DEF B, R, N
<1>6. B \o (R \o N) = (B \o R) \o N
  BY <1>2, <1>5, ConcatAssociative
<1>7. \A t \in Servers \ {s} : RepliesIn(t)' = RepliesIn(t)
  <2>1. \A t \in Servers \ {s} : stdout'[t] = stdout[t] /\ rest'[t] = rest[t]
    BY WriteAppends
  <2> QED
    BY <2>1 DEF RepliesIn
<1> QED
  BY <1>2, <1>3, <1>4, <1>6, <1>7 DEF N

(* A server that writes goes on with whole forms, and one that ends ended  *)
(* with one.                                                               *)
LEMMA WriteShape ==
  ASSUME TypeOK, ShapeInv, NEW s \in Servers, Alive(s), NEW out \in Seq(Bytes),
         Puts(s, out) \/ Flush(s, out), AllWhole(out), OutOf(out, s), buf' = buf,
         NEW p \in {"loop", "read", "end", "dead"}, Becomes(s, p)
  PROVE  ShapeInv'
<1>1. /\ buf \in Seq(Bytes) /\ \A t \in Servers : stdout[t] \in Seq(Bytes) /\ rest[t] \in Seq(Bytes)
      /\ \A t \in Servers : stdout[t] \o rest[t] \in Seq(Bytes)
      /\ \A t \in Servers : buf \o (stdout[t] \o rest[t]) \in Seq(Bytes)
  BY ConcatProperties DEF TypeOK
<1>2. /\ stdout'[s] \in Seq(Bytes) /\ rest'[s] \in Seq(Bytes)
      /\ stdout'[s] \o rest'[s] = (stdout[s] \o rest[s]) \o out
      /\ \A t \in Servers \ {s} : stdout'[t] = stdout[t] /\ rest'[t] = rest[t]
  BY WriteAppends
<1>3. /\ \A t \in Servers \ {s} : phase'[t] = phase[t] /\ (Alive(t)' <=> Alive(t))
      /\ phase'[s] = p /\ phase[s] \notin {"none", "gone"}
  BY DEF TypeOK, Becomes, Alive
<1>4. Processes' = Processes
  BY <1>3 DEF Processes
<1>5. OutOf(stdout'[s], s) /\ OutOf(rest'[s], s)
  <2>1. OutOf(stdout[s] \o rest[s], s)
    BY <1>1, OutOfConcat DEF ShapeInv
  <2>2. OutOf((stdout[s] \o rest[s]) \o out, s)
    BY <1>1, <2>1, OutOfConcat
  <2>3. \A a, b \in Seq(Bytes) : OutOf(a \o b, s) => OutOf(a, s) /\ OutOf(b, s)
    BY OutOfConcat
  <2> QED
    BY <1>2, <2>2, <2>3
<1>6. AllWhole(stdout'[s] \o rest'[s])
  <2>1. AllWhole(stdout[s] \o rest[s])
    BY DEF ShapeInv
  <2> QED
    BY <1>1, <1>2, <2>1, WholeConcat
<1>7. Processes = {s} => AllWhole(buf \o (stdout'[s] \o rest'[s]))
  <2> SUFFICES ASSUME Processes = {s} PROVE AllWhole(buf \o (stdout'[s] \o rest'[s]))
    OBVIOUS
  <2> DEFINE o == stdout[s] \o rest[s]
  <2>1. AllWhole(buf \o o) /\ buf \o o \in Seq(Bytes) /\ o \in Seq(Bytes)
    BY <1>1 DEF ShapeInv
  <2> HIDE DEF o
  <2>2. AllWhole((buf \o o) \o out)
    BY <2>1, WholeConcat
  <2>3. \A a, b, c \in Seq(Bytes) : (a \o b) \o c = a \o (b \o c)
    BY ConcatAssociative
  <2>4. (buf \o o) \o out = buf \o (o \o out)
    BY <1>1, <2>1, <2>3
  <2> QED
    BY <1>2, <2>2, <2>4 DEF o
<1>8. ASSUME NEW t \in Servers
      PROVE  /\ OutOf(stdout'[t], t) /\ OutOf(rest'[t], t)
             /\ phase'[t] \in {"none", "gone"} => stdout'[t] = <<>>
             /\ phase'[t] = "none" => rest'[t] = <<>>
             /\ Alive(t)' => AllWhole(stdout'[t] \o rest'[t])
             /\ Alive(t)' /\ Processes' = {t} => AllWhole(buf' \o (stdout'[t] \o rest'[t]))
  <2>1. CASE t = s
    BY <1>3, <1>4, <1>5, <1>6, <1>7, <2>1
  <2>2. CASE t # s
    BY <1>2, <1>3, <1>4, <2>2 DEF ShapeInv
  <2> QED
    BY <2>1, <2>2
<1> QED
  BY <1>8 DEF ShapeInv

(* A server that writes nothing leaves the shapes as they are.             *)
LEMMA QuietShape ==
  ASSUME TypeOK, ShapeInv, NEW s \in Servers, Alive(s), UNCHANGED <<buf, stdout, rest>>,
         NEW p \in {"loop", "read", "end", "dead"}, Becomes(s, p)
  PROVE  ShapeInv'
<1>1. /\ \A t \in Servers \ {s} : phase'[t] = phase[t] /\ (Alive(t)' <=> Alive(t))
      /\ phase'[s] = p /\ phase[s] \notin {"none", "gone"}
  BY DEF TypeOK, Becomes, Alive
<1>2. Processes' = Processes
  BY <1>1 DEF Processes
<1>3. ASSUME NEW t \in Servers
      PROVE  /\ OutOf(stdout'[t], t) /\ OutOf(rest'[t], t)
             /\ phase'[t] \in {"none", "gone"} => stdout'[t] = <<>>
             /\ phase'[t] = "none" => rest'[t] = <<>>
             /\ Alive(t)' => AllWhole(stdout'[t] \o rest'[t])
             /\ Alive(t)' /\ Processes' = {t} => AllWhole(buf' \o (stdout'[t] \o rest'[t]))
  <2>1. CASE t = s
    BY <1>1, <1>2, <2>1 DEF ShapeInv
  <2>2. CASE t # s
    BY <1>1, <1>2, <2>2 DEF ShapeInv
  <2> QED
    BY <2>1, <2>2
<1> QED
  BY <1>3 DEF ShapeInv

(* With an empty buffer every server starts anew. *)
LEMMA ClearedShape ==
  ASSUME TypeOK, ShapeInv, buf' = <<>>, UNCHANGED <<stdout, rest>>,
         \A t \in Servers : Alive(t)' => Alive(t) \/ phase[t] = "none",
         \A t \in Servers : phase'[t] = "none" => phase[t] = "none",
         \A t \in Servers : phase'[t] = "gone" => phase[t] = "gone" \/ stdout[t] = <<>>
  PROVE  ShapeInv'
<1>1. \A t \in Servers : stdout[t] \in Seq(Bytes) /\ rest[t] \in Seq(Bytes)
                         /\ stdout[t] \o rest[t] \in Seq(Bytes)
  BY ConcatProperties DEF TypeOK
<1>2. ASSUME NEW t \in Servers, Alive(t)' PROVE AllWhole(stdout[t] \o rest[t])
  <2>1. CASE Alive(t)
    BY <2>1 DEF ShapeInv
  <2>2. CASE phase[t] = "none"
    <3>1. stdout[t] = <<>> /\ rest[t] = <<>>
      BY <2>2 DEF ShapeInv
    <3>2. stdout[t] \o rest[t] = <<>>
      BY <1>1, <3>1, ConcatEmptySeq
    <3> QED
      BY <3>2, WholeParts
  <2> QED
    BY <1>2, <2>1, <2>2
<1>3. \A t \in Servers : <<>> \o (stdout[t] \o rest[t]) = stdout[t] \o rest[t]
  BY <1>1, ConcatEmptySeq
<1>4. ASSUME NEW t \in Servers
      PROVE  /\ OutOf(stdout'[t], t) /\ OutOf(rest'[t], t)
             /\ phase'[t] \in {"none", "gone"} => stdout'[t] = <<>>
             /\ phase'[t] = "none" => rest'[t] = <<>>
             /\ Alive(t)' => AllWhole(stdout'[t] \o rest'[t])
             /\ Alive(t)' /\ Processes' = {t} => AllWhole(buf' \o (stdout'[t] \o rest'[t]))
  <2>1. OutOf(stdout'[t], t) /\ OutOf(rest'[t], t)
    BY DEF ShapeInv
  <2>2. /\ phase'[t] \in {"none", "gone"} => stdout'[t] = <<>>
        /\ phase'[t] = "none" => rest'[t] = <<>>
    BY DEF ShapeInv
  <2>3. Alive(t)' => AllWhole(stdout'[t] \o rest'[t]) /\ AllWhole(buf' \o (stdout'[t] \o rest'[t]))
    BY <1>2, <1>3
  <2> QED
    BY <2>1, <2>2, <2>3
<1> QED
  BY <1>4 DEF ShapeInv

(* What is cut off the buffer, and what is left of it *)
LEMMA CutBuffer ==
  ASSUME TypeOK, NEW n \in 0..Len(buf)
  PROVE  /\ SubSeq(buf, 1, n) \in Seq(Bytes) /\ After(n) \in Seq(Bytes)
         /\ buf = SubSeq(buf, 1, n) \o After(n)
<1>1. buf \in Seq(Bytes) /\ Len(buf) \in Nat /\ \A i \in 1..Len(buf) : buf[i] \in Bytes
  BY LenProperties, ElementOfSeq DEF TypeOK
<1>2. (\A i \in 1..n : buf[i] \in Bytes) /\ (\A i \in (n + 1)..Len(buf) : buf[i] \in Bytes)
  BY <1>1
<1>3. 1 \in Int /\ n \in Int /\ n + 1 \in Int /\ Len(buf) \in Int
  BY <1>1
<1>4. SubSeq(buf, 1, n) \in Seq(Bytes) /\ SubSeq(buf, n + 1, Len(buf)) \in Seq(Bytes)
  BY <1>2, <1>3, SubSeqProperties
<1>5. 1 \in 1..(Len(buf) + 1) /\ n \in (1 - 1)..Len(buf) /\ Len(buf) \in n..Len(buf)
  BY <1>1
<1>6. SubSeq(buf, 1, n) \o SubSeq(buf, n + 1, Len(buf)) = SubSeq(buf, 1, Len(buf))
  BY <1>1, <1>5, ConcatAdjacentSubSeq
<1> QED
  BY <1>1, <1>4, <1>6, SubSeqFull DEF After

(* What is left of a buffer goes on with whole forms.                      *)
LEMMA CutShape ==
  ASSUME TypeOK, ShapeInv, NEW n \in 0..Len(buf), buf' = After(n),
         UNCHANGED <<phase, stdout, rest>>
  PROVE  ShapeInv'
<1>1. /\ SubSeq(buf, 1, n) \in Seq(Bytes) /\ After(n) \in Seq(Bytes)
      /\ buf = SubSeq(buf, 1, n) \o After(n)
  BY CutBuffer
<1>2. ASSUME NEW t \in Servers, Alive(t), Processes = {t}
      PROVE  AllWhole(After(n) \o (stdout[t] \o rest[t]))
  <2> DEFINE o == stdout[t] \o rest[t]
             x == SubSeq(buf, 1, n)
             y == After(n)
  <2>1. o \in Seq(Bytes) /\ AllWhole(buf \o o)
    BY <1>2, ConcatProperties DEF TypeOK, ShapeInv
  <2>2. x \in Seq(Bytes) /\ y \in Seq(Bytes) /\ buf = x \o y
    BY <1>1
  <2> HIDE DEF o, x, y
  <2>3. \A a, b, c \in Seq(Bytes) : (a \o b) \o c = a \o (b \o c)
    BY ConcatAssociative
  <2>4. buf \o o = x \o (y \o o)
    BY <2>1, <2>2, <2>3
  <2>5. y \o o \in Seq(Bytes)
    BY <2>1, <2>2, ConcatProperties
  <2>6. AllWhole(y \o o)
    BY <2>1, <2>2, <2>4, <2>5, WholeRest
  <2> QED
    BY <2>6 DEF o, y
<1>3. Processes' = Processes /\ \A t \in Servers : Alive(t)' <=> Alive(t)
  BY DEF Processes, Alive
<1> QED
  BY <1>2, <1>3 DEF ShapeInv

(* The first cookie, when its expression is there, lies in the buffer.     *)
LEMMA WholeBounds ==
  ASSUME TypeOK, Whole
  PROVE  /\ First \in 1..Len(buf) /\ Len(buf) \in Nat
         /\ First + 1 + PayloadSize \in 0..Len(buf) /\ First + 1 \in 0..Len(buf)
         /\ First \in Cookies /\ \A i \in Cookies : First <= i
<1>1. Len(buf) \in Nat /\ PayloadSize \in Nat
  BY LenProperties, ProcessAssumption DEF TypeOK
<1>2. Cookies \in SUBSET Nat /\ Cookies # {}
  BY <1>1 DEF Cookies, Whole
<1>3. \E c \in Cookies : \A j \in Cookies : c <= j
  BY <1>2, LeastExists
<1>4. First \in Cookies /\ \A i \in Cookies : First <= i
  BY <1>3 DEF First
<1>5. First \in 1..(Len(buf) - 1) /\ Len(buf) >= First + 1 + PayloadSize
  BY <1>2, <1>4 DEF Cookies, Whole
<1> QED
  BY <1>1, <1>4, <1>5

(* A chunk that goes from the pipe to the buffer leaves what follows whole. *)
LEMMA FilterShape ==
  ASSUME TypeOK, ShapeInv, NEW s \in Servers, Filter(s)
  PROVE  ShapeInv'
<1>1. /\ buf \in Seq(Bytes) /\ \A t \in Servers : stdout[t] \in Seq(Bytes) /\ rest[t] \in Seq(Bytes)
      /\ stdout \in [Servers -> Seq(Bytes)]
  BY DEF TypeOK
<1>2. /\ buf' = buf \o stdout[s] /\ stdout' = [stdout EXCEPT ![s] = <<>>]
      /\ stdout[s] # <<>> /\ UNCHANGED <<phase, rest>>
  BY DEF Filter
<1>3. Processes' = Processes /\ \A t \in Servers : Alive(t)' <=> Alive(t)
  BY <1>2 DEF Processes, Alive
<1>4. s \in Processes
  BY <1>2 DEF ShapeInv, Processes
<1>5. stdout'[s] = <<>> /\ \A t \in Servers \ {s} : stdout'[t] = stdout[t]
  BY <1>1, <1>2
<1>6. stdout'[s] \o rest'[s] = rest[s]
  BY <1>1, <1>2, <1>5, ConcatEmptySeq
<1>7. Alive(s) => AllWhole(rest[s])
  BY <1>1, WholeRest DEF ShapeInv
<1>8. Alive(s) /\ Processes = {s} => AllWhole(buf' \o rest[s])
  <2>1. \A a, b, c \in Seq(Bytes) : (a \o b) \o c = a \o (b \o c)
    BY ConcatAssociative
  <2>2. (buf \o stdout[s]) \o rest[s] = buf \o (stdout[s] \o rest[s])
    BY <1>1, <2>1
  <2> QED
    BY <1>2, <2>2 DEF ShapeInv
<1>9. ASSUME NEW t \in Servers
      PROVE  /\ OutOf(stdout'[t], t) /\ OutOf(rest'[t], t)
             /\ phase'[t] \in {"none", "gone"} => stdout'[t] = <<>>
             /\ phase'[t] = "none" => rest'[t] = <<>>
             /\ Alive(t)' => AllWhole(stdout'[t] \o rest'[t])
             /\ Alive(t)' /\ Processes' = {t} => AllWhole(buf' \o (stdout'[t] \o rest'[t]))
  <2>1. CASE t = s
    <3>1. OutOf(stdout'[t], t) /\ OutOf(rest'[t], t)
      BY <1>2, <1>5, <2>1, OutOfParts DEF ShapeInv
    <3>2. Alive(t)' => AllWhole(stdout'[t] \o rest'[t])
      BY <1>3, <1>6, <1>7, <2>1
    <3>3. Alive(t)' /\ Processes' = {t} => AllWhole(buf' \o (stdout'[t] \o rest'[t]))
      BY <1>3, <1>6, <1>8, <2>1
    <3> QED
      BY <1>2, <1>4, <1>5, <2>1, <3>1, <3>2, <3>3 DEF Processes
  <2>2. CASE t # s
    <3>1. Processes' # {t}
      BY <1>3, <1>4, <2>2
    <3> QED
      BY <1>2, <1>3, <1>5, <2>2, <3>1 DEF ShapeInv
  <2> QED
    BY <2>1, <2>2
<1> QED
  BY <1>9 DEF ShapeInv

(* What it sends may start a server, which has not written anything. *)
LEMMA SendPhases ==
  ASSUME TypeOK, CanSend, Command \/ Kill
  PROVE  /\ \A t \in Servers : Alive(t)' => Alive(t) \/ phase[t] = "none"
         /\ \A t \in Servers : phase'[t] = "none" => phase[t] = "none"
         /\ \A t \in Servers : phase'[t] = "gone" => phase[t] = "gone"
         /\ UNCHANGED <<stdout, rest>>
<1>1. /\ phase \in [Servers -> Phases] /\ Receiver \in Servers
      /\ ~Running => phase[Receiver] = "none"
  BY ReceiverFacts DEF TypeOK
<1>2. \A t \in Servers : Started[t] = IF t = Receiver /\ ~Running THEN "open" ELSE phase[t]
  BY DEF Started
<1>3. UNCHANGED <<stdout, rest>>
  BY DEF Command, Kill, EmacsKeeps
<1>4. CASE phase' = Started
  <2>1. \A t \in Servers : phase'[t] = IF t = Receiver /\ ~Running THEN "open" ELSE phase[t]
    BY <1>2, <1>4
  <2> QED
    BY <1>1, <1>3, <2>1 DEF Alive
<1>5. CASE phase' # Started
  <2> DEFINE s == NewestOf(Processes)
  <2>1. Kill /\ phase' = [Started EXCEPT ![s] = "dead"] /\ Processes # {}
    BY <1>5 DEF Command, Kill
  <2>2. s \in Processes
    BY <2>1, NewestExists DEF Processes
  <2>3. Started \in [Servers -> Phases]
    BY DEF Started, TypeOK, Phases
  <2>4. \A t \in Servers : phase'[t] = IF t = s THEN "dead" ELSE Started[t]
    <3> HIDE DEF s
    <3> QED
      BY <2>1, <2>3
  <2> HIDE DEF s
  <2> QED
    BY <1>1, <1>2, <1>3, <2>4 DEF Alive
<1> QED
  BY <1>4, <1>5

(* Every step keeps the shape of the output.                               *)
LEMMA ShapeStep == TypeOK /\ ShapeInv /\ [Next]_vars => ShapeInv'
<1> SUFFICES ASSUME TypeOK, ShapeInv, [Next]_vars PROVE ShapeInv'
  OBVIOUS
<1> USE DEF emacs, servers, history, ServerKeeps, EmacsKeeps
<1>1. ASSUME NEW s \in Servers, Open(s) PROVE ShapeInv'
  <2>1. Alive(s) /\ buf' = buf
    BY <1>1 DEF Open, Alive
  <2>2. CASE Gets(s)
    BY <1>1, <2>1, <2>2, QuietShape DEF Gets
  <2>3. CASE Puts(s, Form(s, 0)) /\ Becomes(s, "end")
    <3>1. 0 \in Replies
      BY ProcessAssumption DEF Replies
    <3>2. Form(s, 0) \in Seq(Bytes) /\ AllWhole(Form(s, 0)) /\ OutOf(Form(s, 0), s)
      BY <3>1, FormFacts, WholeParts, OutOfParts
    <3> QED
      BY <2>1, <2>3, <3>2, WriteShape
  <2> QED
    BY <1>1, <2>2, <2>3 DEF Open
<1>2. ASSUME NEW s \in Servers, Loop(s) PROVE ShapeInv'
  <2>1. Alive(s) /\ buf' = buf
    BY <1>2 DEF Loop, Alive
  <2>2. CASE s \in stop
    BY <1>2, <2>1, <2>2, QuietShape DEF Loop
  <2>3. CASE s \notin stop
    <3>1. Becomes(s, "read") /\ Flush(s, <<Prompt>>)
      BY <1>2, <2>3 DEF Loop
    <3>2. <<Prompt>> \in Seq(Bytes) /\ AllWhole(<<Prompt>>) /\ OutOf(<<Prompt>>, s)
      BY PromptFacts, WholeParts, OutOfParts
    <3> QED
      BY <2>1, <3>1, <3>2, WriteShape
  <2> QED
    BY <2>2, <2>3
<1>3. ASSUME NEW s \in Servers, Read(s) PROVE ShapeInv'
  <2>1. Alive(s) /\ buf' = buf /\ Becomes(s, "loop")
    BY <1>3 DEF Read, Alive
  <2>2. CASE Head(stdin[s]) = Quit
    BY <1>3, <2>1, <2>2, QuietShape DEF Read
  <2>3. CASE Head(stdin[s]) # Quit
    <3> DEFINE c == Head(stdin[s])
    <3>1. c \in Replies /\ Puts(s, Form(s, c))
      <4>1. stdin[s] \in Seq(Commands \cup {Quit}) /\ stdin[s] # <<>>
        BY <1>3 DEF Read, TypeOK
      <4>2. c \in Commands
        BY <2>3, <4>1, HeadTailProperties
      <4> QED
        BY <1>3, <2>3, <4>2, ProcessAssumption DEF Read, Commands, Replies
    <3> HIDE DEF c
    <3>2. Form(s, c) \in Seq(Bytes) /\ AllWhole(Form(s, c)) /\ OutOf(Form(s, c), s)
      BY <3>1, FormFacts, WholeParts, OutOfParts
    <3> QED
      BY <2>1, <3>1, <3>2, WriteShape
  <2> QED
    BY <2>2, <2>3
<1>4. ASSUME NEW s \in Servers, Interrupted(s) PROVE ShapeInv'
  <2>1. Alive(s) /\ UNCHANGED <<buf, stdout, rest>> /\ Becomes(s, "end")
    BY <1>4 DEF Interrupted, Alive
  <2> QED
    BY <2>1, QuietShape
<1>5. ASSUME NEW s \in Servers, Exit(s) PROVE ShapeInv'
  <2>1. Alive(s) /\ buf' = buf /\ Becomes(s, "dead") /\ Flush(s, <<>>)
    BY <1>5 DEF Exit, Alive
  <2>2. <<>> \in Seq(Bytes) /\ AllWhole(<<>>) /\ OutOf(<<>>, s)
    BY PromptFacts, WholeParts, OutOfParts
  <2> QED
    BY <2>1, <2>2, WriteShape
<1>6. ASSUME NEW s \in Servers, Crash(s) PROVE ShapeInv'
  <2>1. /\ phase \in [Servers -> Phases] /\ rest \in [Servers -> Seq(Bytes)]
        /\ phase' = [phase EXCEPT ![s] = "dead"] /\ rest' = [rest EXCEPT ![s] = <<>>]
        /\ UNCHANGED <<buf, stdout>> /\ Alive(s)
    BY <1>6 DEF Crash, Dies, TypeOK
  <2>2. /\ \A t \in Servers \ {s} : phase'[t] = phase[t] /\ rest'[t] = rest[t]
        /\ phase'[s] = "dead" /\ rest'[s] = <<>>
    BY <2>1
  <2>3. Processes' = Processes
    BY <2>1, <2>2 DEF Processes, Alive
  <2>4. \A t \in Servers : OutOf(stdout'[t], t) /\ OutOf(rest'[t], t)
    BY <2>1, <2>2, OutOfParts DEF ShapeInv
  <2>5. \A t \in Servers \ {s} : (Alive(t)' <=> Alive(t))
    BY <2>2 DEF Alive
  <2>6. ~Alive(s)'
    BY <2>2 DEF Alive
  <2>7. /\ \A t \in Servers : phase'[t] \in {"none", "gone"} => stdout'[t] = <<>>
        /\ \A t \in Servers : phase'[t] = "none" => rest'[t] = <<>>
    BY <2>1, <2>2 DEF ShapeInv
  <2>8. ASSUME NEW t \in Servers, Alive(t)'
        PROVE  /\ AllWhole(stdout'[t] \o rest'[t])
               /\ Processes' = {t} => AllWhole(buf' \o (stdout'[t] \o rest'[t]))
    <3>1. t # s
      BY <2>6, <2>8
    <3> QED
      BY <2>1, <2>2, <2>3, <2>5, <2>8, <3>1 DEF ShapeInv
  <2> QED
    BY <2>4, <2>7, <2>8 DEF ShapeInv
<1>7. CASE Command
  <2>1. CASE Running
    <3>1. UNCHANGED <<phase, buf, stdout, rest>>
      <4>1. phase' = Started /\ buf' = buf /\ UNCHANGED <<stdout, rest>>
        BY <1>7, <2>1 DEF Command
      <4>2. Started = phase
        BY <2>1 DEF Started, TypeOK
      <4> QED
        BY <4>1, <4>2
    <3> QED
      BY <3>1 DEF ShapeInv, Alive, Processes
  <2>2. CASE ~Running
    <3>1. buf' = <<>> /\ CanSend
      BY <1>7, <2>2 DEF Command
    <3> QED
      BY <1>7, <3>1, SendPhases, ClearedShape
  <2> QED
    BY <2>1, <2>2
<1>8. CASE Kill
  <2>1. buf' = <<>> /\ CanSend
    BY <1>8 DEF Kill
  <2> QED
    BY <1>8, <2>1, SendPhases, ClearedShape
<1>9. ASSUME NEW s \in Servers, Sentinel(s) PROVE ShapeInv'
  <2>1. /\ phase' = [phase EXCEPT ![s] = "gone"] /\ phase[s] = "dead" /\ stdout[s] = <<>>
        /\ buf' = <<>> /\ UNCHANGED <<stdout, rest>> /\ phase \in [Servers -> Phases]
    BY <1>9 DEF Sentinel, TypeOK
  <2>2. \A t \in Servers : phase'[t] = IF t = s THEN "gone" ELSE phase[t]
    BY <2>1
  <2>3. /\ \A t \in Servers : Alive(t)' => Alive(t) \/ phase[t] = "none"
        /\ \A t \in Servers : phase'[t] = "none" => phase[t] = "none"
        /\ \A t \in Servers : phase'[t] = "gone" => phase[t] = "gone" \/ stdout[t] = <<>>
    BY <2>1, <2>2 DEF Alive
  <2> QED
    BY <2>1, <2>3, ClearedShape
<1>10. ASSUME NEW s \in Servers, Filter(s) PROVE ShapeInv'
  BY <1>10, FilterShape
<1>11. CASE Evaluate
  <2>1. buf' = After(First + 1 + PayloadSize) /\ Whole /\ UNCHANGED <<phase, stdout, rest>>
    BY <1>11 DEF Evaluate
  <2> QED
    BY <2>1, WholeBounds, CutShape
<1>12. CASE Misread
  <2>1. /\ buf' = After(First + 1 + PayloadSize) \/ buf' = After(First + 1)
        /\ Whole /\ UNCHANGED <<phase, stdout, rest>>
    BY <1>12 DEF Misread
  <2> QED
    BY <2>1, WholeBounds, CutShape
<1>13. CASE Starved \/ UNCHANGED vars
  <2>1. UNCHANGED <<phase, buf, stdout, rest>>
    BY <1>13 DEF Starved, vars
  <2> QED
    BY <2>1 DEF ShapeInv, Alive, Processes
<1> QED
  BY <1>1, <1>2, <1>3, <1>4, <1>5, <1>6, <1>7, <1>8, <1>9, <1>10, <1>11, <1>12, <1>13
     DEF Next, Serve, Lisp

(* The replies of a server that are not evaluated yet are replies. *)
LEMMA UnreadType ==
  ASSUME TypeOK, NEW t \in Servers
  PROVE  /\ RepliesIn(t) \in Seq(Replies)
         /\ RepliesOf(buf, t) \in Seq(Replies)
         /\ RepliesOf(stdout[t], t) \in Seq(Replies) /\ RepliesOf(rest[t], t) \in Seq(Replies)
<1>1. buf \in Seq(Bytes) /\ stdout[t] \in Seq(Bytes) /\ rest[t] \in Seq(Bytes)
  BY DEF TypeOK
<1>2. /\ RepliesOf(buf, t) \in Seq(Replies)
      /\ RepliesOf(stdout[t], t) \in Seq(Replies) /\ RepliesOf(rest[t], t) \in Seq(Replies)
  BY <1>1, RepliesType
<1> QED
  BY <1>2, ConcatProperties DEF RepliesIn

(* Only servers that are around serve.                                     *)
LEMMA ServingAround ==
  /\ Processes \subseteq Servers /\ Serving \subseteq Processes
  /\ Processes' \subseteq Servers /\ Serving' \subseteq Processes'
BY DEF Processes, Serving, Alive

(* Nothing is lost of what is the same, and at the end everything may be.  *)
LEMMA NoneLost ==
  ASSUME NEW u \in Seq(Replies)
  PROVE  Channel!Remains(u, u, 0)
<1>1. <<>> \in Seq(Replies) /\ <<>> \o u = u /\ 0 \in 0..Len(<<>>)
  BY ConcatEmptySeq
<1>2. \A v, w \in Seq(Replies) : \A k \in 0..Len(v) : Channel!Remains(w, v \o w, k)
  BY FirstLost
<1>3. Channel!Remains(u, <<>> \o u, 0)
  BY <1>1, <1>2
<1> QED
  BY <1>1, <1>3

(* A step that leaves the replies alone is one of the channel, or none. *)
LEMMA KeepStep ==
  ASSUME TypeOK, evaluated' = evaluated, \A t \in Servers : RepliesIn(t)' = RepliesIn(t)
  PROVE  Channel!Next \/ UNCHANGED Channel!chan
<1>1. [t \in Servers |-> RepliesIn(t)]' = [t \in Servers |-> RepliesIn(t)]
  OBVIOUS
<1>2. CASE Processes' = Processes /\ Serving' = Serving
  BY <1>1, <1>2 DEF Channel!chan
<1>3. CASE ~(Processes' = Processes /\ Serving' = Serving)
  <2>1. \A t \in Servers : Channel!Remains(RepliesIn(t)', RepliesIn(t), 0)
    BY UnreadType, NoneLost
  <2>2. Channel!Losing
    BY <2>1 DEF Channel!Losing
  <2>3. Channel!Change
    BY <1>3, <2>2, ServingAround DEF Channel!Change
  <2> QED
    BY <2>3 DEF Channel!Next
<1> QED
  BY <1>2, <1>3

(* Replies may be lost when servers start or stop, or did already. *)
LEMMA LossStep ==
  ASSUME evaluated' = evaluated,
         \A t \in Servers : Channel!Remains(RepliesIn(t)', RepliesIn(t), 0),
         \/ ~Channel!Calm
         \/ ~(Processes' = Processes /\ Serving' = Serving)
  PROVE  Channel!Next
<1>1. Channel!Losing
  BY DEF Channel!Losing
<1>2. CASE Processes' = Processes /\ Serving' = Serving
  BY <1>1, <1>2 DEF Channel!Next, Channel!Disturbed
<1>3. CASE ~(Processes' = Processes /\ Serving' = Serving)
  BY <1>1, <1>3, ServingAround DEF Channel!Next, Channel!Change
<1> QED
  BY <1>2, <1>3

(* A server writes a reply. *)
LEMMA WriteStep ==
  ASSUME NEW s \in Servers, NEW r \in Replies, s \in Processes,
         evaluated' = evaluated, Processes' = Processes, Serving' = Serving,
         RepliesIn(s)' = Append(RepliesIn(s), r),
         \A t \in Servers \ {s} : RepliesIn(t)' = RepliesIn(t)
  PROVE  Channel!Next
<1>1. [t \in Servers |-> RepliesIn(t)]' =
        [[t \in Servers |-> RepliesIn(t)] EXCEPT ![s] = Append(@, r)]
  OBVIOUS
<1>2. Channel!Write(s, r)
  BY <1>1 DEF Channel!Write
<1> QED
  BY <1>2 DEF Channel!Next

(* When the buffer is emptied, what was in it is lost. *)
LEMMA ClearedLoss ==
  ASSUME TypeOK, buf' = <<>>, UNCHANGED <<stdout, rest>>, NEW t \in Servers
  PROVE  Channel!Remains(RepliesIn(t)', RepliesIn(t), 0)
<1> DEFINE B == RepliesOf(buf, t)
           O == RepliesOf(stdout[t], t)
           R == RepliesOf(rest[t], t)
<1>1. B \in Seq(Replies) /\ O \in Seq(Replies) /\ R \in Seq(Replies)
  BY UnreadType
<1>2. RepliesIn(t) = (B \o O) \o R
  BY DEF RepliesIn
<1>3. RepliesIn(t)' = (<<>> \o O) \o R
  BY PromptFacts DEF RepliesIn
<1> HIDE DEF B, O, R
<1>4. \A a, b, c \in Seq(Replies) : (a \o b) \o c = a \o (b \o c)
  BY ConcatAssociative
<1>5. <<>> \in Seq(Replies) /\ <<>> \o O = O
  BY <1>1, ConcatEmptySeq
<1>6. RepliesIn(t)' = O \o R /\ RepliesIn(t) = B \o (O \o R) /\ O \o R \in Seq(Replies)
  BY <1>1, <1>2, <1>3, <1>4, <1>5, ConcatProperties
<1>7. 0 \in 0..Len(B)
  BY <1>1, LenProperties
<1>8. \A v, w \in Seq(Replies) : \A k \in 0..Len(v) : Channel!Remains(w, v \o w, k)
  BY FirstLost
<1> QED
  BY <1>1, <1>6, <1>7, <1>8

(* When the first of the buffer is cut off, the replies in that go. *)
LEMMA CutReplies ==
  ASSUME TypeOK, NEW n \in 0..Len(buf), buf' = After(n), UNCHANGED <<stdout, rest>>,
         NEW t \in Servers
  PROVE  /\ RepliesIn(t)' \in Seq(Replies) /\ RepliesOf(SubSeq(buf, 1, n), t) \in Seq(Replies)
         /\ RepliesIn(t) = RepliesOf(SubSeq(buf, 1, n), t) \o RepliesIn(t)'
<1> DEFINE P == RepliesOf(SubSeq(buf, 1, n), t)
           A == RepliesOf(After(n), t)
           O == RepliesOf(stdout[t], t)
           R == RepliesOf(rest[t], t)
<1>1. /\ SubSeq(buf, 1, n) \in Seq(Bytes) /\ After(n) \in Seq(Bytes)
      /\ buf = SubSeq(buf, 1, n) \o After(n)
  BY CutBuffer
<1>2. /\ P \in Seq(Replies) /\ A \in Seq(Replies) /\ O \in Seq(Replies) /\ R \in Seq(Replies)
  BY <1>1, UnreadType, RepliesType
<1>3. RepliesOf(buf, t) = P \o A
  <2> DEFINE x == SubSeq(buf, 1, n)
             y == After(n)
  <2>1. x \in Seq(Bytes) /\ y \in Seq(Bytes) /\ buf = x \o y
    BY <1>1
  <2> HIDE DEF x, y
  <2>2. RepliesOf(buf, t) = RepliesOf(x, t) \o RepliesOf(y, t)
    BY <2>1, RepliesConcat
  <2> QED
    BY <2>2 DEF x, y
<1>4. RepliesIn(t)' = (A \o O) \o R
  BY DEF RepliesIn
<1>5. RepliesIn(t) = ((P \o A) \o O) \o R
  BY <1>3 DEF RepliesIn
<1> HIDE DEF P, A, O, R
<1>6. \A a, b, c \in Seq(Replies) : (a \o b) \o c = a \o (b \o c)
  BY ConcatAssociative
<1>7. A \o O \in Seq(Replies) /\ (A \o O) \o R \in Seq(Replies)
  BY <1>2, ConcatProperties
<1>8. RepliesIn(t) = P \o ((A \o O) \o R)
  <2>1. (P \o A) \o O = P \o (A \o O)
    BY <1>2, <1>6
  <2>2. (P \o (A \o O)) \o R = P \o ((A \o O) \o R)
    BY <1>2, <1>6, <1>7
  <2> QED
    BY <1>5, <2>1, <2>2
<1> QED
  BY <1>2, <1>4, <1>7, <1>8 DEF P

(* A server whose cookie is in the buffer has a reply that was not         *)
(* evaluated.                                                              *)
LEMMA BegunUnread ==
  ASSUME TypeOK, NEW i \in 1..Len(buf), NEW t \in Servers, buf[i].is = "pre", buf[i].of[1] = t
  PROVE  RepliesIn(t) # <<>>
<1>1. buf \in Seq(Bytes) /\ DOMAIN buf = 1..Len(buf) /\ Len(buf) \in Nat
  BY LenProperties DEF TypeOK
<1>2. i \in Begins(buf, t) /\ Begins(buf, t) \in SUBSET (1..Len(buf))
  BY <1>1 DEF Begins
<1>3. Cardinality(Begins(buf, t)) # 0 /\ Cardinality(Begins(buf, t)) \in Nat
  <2>1. IsFiniteSet(Begins(buf, t))
    BY <1>1, <1>2, RankFacts
  <2> QED
    BY <1>2, <2>1, FS_EmptySet, FS_CardinalityType
<1> DEFINE B == RepliesOf(buf, t)
           O == RepliesOf(stdout[t], t)
           R == RepliesOf(rest[t], t)
<1>4. /\ B \in Seq(Replies) /\ O \in Seq(Replies) /\ R \in Seq(Replies)
      /\ Len(B) \in Nat /\ Len(B) # 0 /\ RepliesIn(t) = (B \o O) \o R
  BY <1>1, <1>3, UnreadType, RepliesType DEF RepliesIn
<1> HIDE DEF B, O, R
<1>5. /\ Len((B \o O) \o R) = Len(B) + Len(O) + Len(R) /\ Len(O) \in Nat /\ Len(R) \in Nat
  <2>1. B \o O \in Seq(Replies) /\ Len(B \o O) = Len(B) + Len(O)
    BY <1>4, ConcatProperties
  <2>2. Len((B \o O) \o R) = Len(B \o O) + Len(R)
    BY <1>4, <2>1, ConcatProperties
  <2> QED
    BY <1>4, <2>1, <2>2, LenProperties
<1>6. Len(<<>>) = 0
  OBVIOUS
<1> QED
  BY <1>4, <1>5, <1>6

(* While it is calm, who has such a reply is the one server there is. *)
LEMMA CalmAlone ==
  ASSUME Channel!Calm, NEW s \in Servers, RepliesIn(s) # <<>>
  PROVE  Processes = {s} /\ Alive(s)
<1>1. s \in Processes
  BY DEF Channel!Calm
<1>2. Processes = Serving /\ \A t, u \in Processes : t = u
  BY DEF Channel!Calm
<1>5. Processes = {s}
  BY <1>1, <1>2
<1> QED
  BY <1>2, <1>5 DEF Serving

(* Then what is found in the buffer is a form, and the first one. *)
LEMMA AloneForms ==
  ASSUME TypeOK, ShapeInv, Whole, NEW s \in Servers, Processes = {s}, Alive(s)
  PROVE  /\ \A i \in 1..(First - 1) : buf[i].is # "pre"
         /\ \E t \in Servers, r \in Replies : Sexp = Form(t, r)
<1> DEFINE o == stdout[s] \o rest[s]
           b == buf \o o
<1>1. AllWhole(b)
  BY DEF ShapeInv
<1>2. buf \in Seq(Bytes) /\ o \in Seq(Bytes) /\ PayloadSize \in Nat
  BY ConcatProperties, ProcessAssumption DEF TypeOK
<1> HIDE DEF o
<1>3. /\ Len(b) = Len(buf) + Len(o) /\ Len(buf) \in Nat /\ Len(o) \in Nat
      /\ \A i \in 1..Len(buf) : b[i] = buf[i]
  <2>1. /\ Len(b) = Len(buf) + Len(o)
        /\ \A i \in 1..(Len(buf) + Len(o)) :
             b[i] = IF i <= Len(buf) THEN buf[i] ELSE o[i - Len(buf)]
    BY <1>2, ConcatProperties
  <2>2. Len(buf) \in Nat /\ Len(o) \in Nat
    BY <1>2, LenProperties
  <2> HIDE DEF b
  <2> QED
    BY <2>1, <2>2
<1> HIDE DEF b
<1>4. /\ First \in 1..Len(buf) /\ First + 1 + PayloadSize \in 0..Len(buf)
      /\ First \in Cookies /\ \A i \in Cookies : First <= i
  BY WholeBounds
<1>5. ASSUME NEW i \in 1..(First - 1), buf[i].is = "pre" PROVE FALSE
  <2>1. i \in 1..Len(b) /\ i \in 1..Len(buf) /\ i + 1 \in 1..Len(buf) /\ i \in 1..(Len(buf) - 1)
    BY <1>3, <1>4
  <2>2. b[i].is = "pre"
    BY <1>3, <1>5, <2>1
  <2>3. PICK t \in Servers, r \in Replies : FormAt(b, i, t, r)
    BY <1>1, <2>1, <2>2 DEF AllWhole
  <2>4. 2 \in 1..(PayloadSize + 2) /\ i + 2 - 1 = i + 1
    BY <1>2
  <2>5. b[i + 1] = Form(t, r)[2]
    BY <2>3, <2>4 DEF FormAt
  <2>6. b[i + 1].is = "post"
    BY <2>5, FormFacts, ByteParts
  <2>7. i \in Cookies
    BY <1>3, <1>5, <2>1, <2>6 DEF Cookies
  <2> QED
    BY <1>4, <2>7
<1>6. First \in 1..Len(b) /\ b[First].is = "pre"
  BY <1>3, <1>4 DEF Cookies
<1>7. PICK t \in Servers, r \in Replies : FormAt(b, First, t, r)
  BY <1>1, <1>6 DEF AllWhole
<1>8. Sexp = Form(t, r)
  <2> DEFINE n == PayloadSize + 2
             f == Form(t, r)
  <2>1. f \in Seq(Bytes) /\ Len(f) = n
    BY FormFacts
  <2>2. /\ Sexp \in Seq(Bytes) /\ Len(Sexp) = n
        /\ \A j \in 1..n : Sexp[j] = buf[First + j - 1]
    <3>1. \A j \in First..(First + 1 + PayloadSize) : buf[j] \in Bytes
      <4>1. \A j \in 1..Len(buf) : buf[j] \in Bytes
        BY <1>2, ElementOfSeq
      <4>2. \A j \in First..(First + 1 + PayloadSize) : j \in 1..Len(buf)
        BY <1>2, <1>3, <1>4
      <4> QED
        BY <4>1, <4>2
    <3>2. First \in Int /\ First + 1 + PayloadSize \in Int
      BY <1>2, <1>4
    <3>3. (First + 1 + PayloadSize) - First + 1 = n /\ First <= First + 1 + PayloadSize
          /\ n \in Nat
      BY <1>2, <1>4
    <3> DEFINE e == First + 1 + PayloadSize
    <3> HIDE DEF e
    <3>4. /\ SubSeq(buf, First, e) \in Seq(Bytes)
          /\ Len(SubSeq(buf, First, e)) = IF First <= e THEN e - First + 1 ELSE 0
          /\ \A j \in 1..(e - First + 1) : SubSeq(buf, First, e)[j] = buf[First + j - 1]
      BY <3>1, <3>2, SubSeqProperties DEF e
    <3>5. e - First + 1 = n /\ First <= e /\ Sexp = SubSeq(buf, First, e)
      BY <3>3 DEF e, Sexp
    <3> HIDE DEF n
    <3> QED
      BY <3>4, <3>5
  <2>3. ASSUME NEW j \in 1..n PROVE Sexp[j] = f[j]
    <3>1. First + j - 1 \in 1..Len(buf)
      BY <1>2, <1>3, <1>4
    <3>2. b[First + j - 1] = f[j]
      BY <1>7 DEF FormAt
    <3> HIDE DEF n, f
    <3> QED
      BY <1>3, <2>2, <3>1, <3>2
  <2> HIDE DEF n, f
  <2>4. Sexp = f
    BY <2>1, <2>2, <2>3, SeqEqual
  <2> QED
    BY <2>4 DEF f
<1> QED
  BY <1>5, <1>8

(* While it is calm the next reply is evaluated, else some before it may   *)
(* be lost.                                                                *)
LEMMA EvaluateStep ==
  ASSUME TypeOK, ShapeInv, Evaluate
  PROVE  Channel!Next
<1> DEFINE n == First + 1 + PayloadSize
           x == SubSeq(buf, 1, First - 1)
<1>1. /\ Whole /\ buf' = After(n) /\ UNCHANGED <<stdout, rest>>
      /\ UNCHANGED <<phase, asked, stop>>
  BY DEF Evaluate, servers
<1>2. /\ First \in 1..Len(buf) /\ Len(buf) \in Nat /\ n \in 0..Len(buf) /\ PayloadSize \in Nat
  BY <1>1, WholeBounds, ProcessAssumption
<1>3. Processes' = Processes /\ Serving' = Serving
  BY <1>1 DEF Processes, Serving, Alive
<1>4. PICK s \in Servers, r \in Replies :
        Sexp = Form(s, r) /\ evaluated' = Append(evaluated, <<s, r>>)
  BY DEF Evaluate
<1>5. x \in Seq(Bytes) /\ SubSeq(buf, 1, n) = x \o Sexp
  <2>0. buf \in Seq(Bytes)
    BY DEF TypeOK
  <2>1. First - 1 \in 0..Len(buf) /\ 1 \in 1..(Len(buf) + 1)
        /\ First - 1 \in (1 - 1)..Len(buf) /\ n \in (First - 1)..Len(buf)
    BY <1>2
  <2>2. SubSeq(buf, 1, First - 1) \in Seq(Bytes)
    BY <2>1, CutBuffer
  <2>3. SubSeq(buf, 1, First - 1) \o SubSeq(buf, (First - 1) + 1, n) = SubSeq(buf, 1, n)
    BY <2>0, <2>1, ConcatAdjacentSubSeq
  <2>4. (First - 1) + 1 = First
    BY <1>2
  <2> QED
    BY <2>2, <2>3, <2>4 DEF Sexp
<1> HIDE DEF n, x
<1> DEFINE own(t) == IF t = s THEN <<r>> ELSE <<>>
<1>6. ASSUME NEW t \in Servers
      PROVE  /\ RepliesOf(x, t) \in Seq(Replies) /\ RepliesIn(t)' \in Seq(Replies)
             /\ own(t) \in Seq(Replies)
             /\ RepliesIn(t) = (RepliesOf(x, t) \o own(t)) \o RepliesIn(t)'
  <2>1. /\ RepliesIn(t)' \in Seq(Replies)
        /\ RepliesIn(t) = RepliesOf(x \o Sexp, t) \o RepliesIn(t)'
    BY <1>1, <1>2, <1>5, CutReplies
  <2>2. Sexp \in Seq(Bytes) /\ RepliesOf(Sexp, t) = own(t)
    BY <1>4, FormFacts, FormReplies
  <2>3. RepliesOf(x \o Sexp, t) = RepliesOf(x, t) \o RepliesOf(Sexp, t)
    BY <1>5, <2>2, RepliesConcat
  <2>4. RepliesOf(x, t) \in Seq(Replies) /\ RepliesOf(Sexp, t) \in Seq(Replies)
    BY <1>5, <2>2, RepliesType
  <2> HIDE DEF own
  <2> QED
    BY <2>1, <2>2, <2>3, <2>4
<1>7. CASE Channel!Calm
  <2>1. RepliesIn(s) # <<>>
    <3>1. Sexp[1] = buf[First]
      <4>1. \A j \in First..n : buf[j] \in Bytes
        <5>1. \A j \in 1..Len(buf) : buf[j] \in Bytes
          BY ElementOfSeq DEF TypeOK
        <5> QED
          BY <1>2, <5>1
      <4>2. First \in Int /\ n \in Int /\ 1 \in 1..(n - First + 1) /\ First + 1 - 1 = First
        BY <1>2 DEF n
      <4>3. \A j \in 1..(n - First + 1) : SubSeq(buf, First, n)[j] = buf[First + j - 1]
        BY <4>1, <4>2, SubSeqProperties
      <4> QED
        BY <4>2, <4>3 DEF Sexp, n
    <3>2. buf[First].is = "pre" /\ buf[First].of = <<s, r>>
      BY <1>4, <3>1, FormFacts, ByteParts
    <3> QED
      BY <1>2, <3>2, BegunUnread
  <2>2. Processes = {s} /\ Alive(s)
    BY <1>7, <2>1, CalmAlone
  <2>3. \A i \in 1..(First - 1) : buf[i].is # "pre"
    BY <1>1, <2>2, AloneForms
  <2>4. Len(x) = First - 1 /\ \A i \in 1..(First - 1) : x[i] = buf[i]
    <3>1. \A j \in 1..(First - 1) : buf[j] \in Bytes
      <4>1. \A j \in 1..Len(buf) : buf[j] \in Bytes
        BY ElementOfSeq DEF TypeOK
      <4> QED
        BY <1>2, <4>1
    <3> DEFINE m == First - 1
    <3>2. m \in Nat /\ 1 \in Int /\ m \in Int
      BY <1>2
    <3> HIDE DEF m
    <3>3. /\ Len(SubSeq(buf, 1, m)) = IF 1 <= m THEN m - 1 + 1 ELSE 0
          /\ \A j \in 1..(m - 1 + 1) : SubSeq(buf, 1, m)[j] = buf[1 + j - 1]
      BY <3>1, <3>2, SubSeqProperties DEF m
    <3>4. m - 1 + 1 = m /\ (~(1 <= m) => m = 0) /\ \A j \in 1..m : 1 + j - 1 = j
      BY <3>2
    <3>5. Len(SubSeq(buf, 1, m)) = m /\ \A j \in 1..m : SubSeq(buf, 1, m)[j] = buf[j]
      BY <3>3, <3>4
    <3> QED
      BY <3>5 DEF m, x
  <2>5. \A t \in Servers : RepliesOf(x, t) = <<>>
    BY <1>5, <2>3, <2>4, NoReplies
  <2>6. ASSUME NEW t \in Servers PROVE RepliesIn(t) = own(t) \o RepliesIn(t)'
    <3>1. <<>> \o own(t) = own(t)
      BY <1>6, ConcatEmptySeq
    <3> QED
      BY <1>6, <2>5, <3>1
  <2>7. Head(RepliesIn(s)) = r /\ Tail(RepliesIn(s)) = RepliesIn(s)'
    <3>1. RepliesIn(s) = <<r>> \o RepliesIn(s)' /\ RepliesIn(s)' \in Seq(Replies)
      BY <1>6, <2>6
    <3> DEFINE w == RepliesIn(s)'
    <3>2. w \in Seq(Replies) /\ Head(<<r>> \o w) = r /\ Tail(<<r>> \o w) = w
      <4>1. w \in Seq(Replies)
        BY <3>1
      <4> HIDE DEF w
      <4> QED
        BY <4>1
    <3> QED
      BY <3>1, <3>2
  <2>8. ASSUME NEW t \in Servers \ {s} PROVE RepliesIn(t)' = RepliesIn(t)
    BY <1>6, <2>6, ConcatEmptySeq
  <2>9. [t \in Servers |-> RepliesIn(t)]' =
          [[t \in Servers |-> RepliesIn(t)] EXCEPT ![s] = Tail(@)]
    BY <2>7, <2>8
  <2>10. Channel!Evaluate(s)
    BY <1>3, <1>4, <2>1, <2>7, <2>9 DEF Channel!Evaluate
  <2> QED
    BY <2>10 DEF Channel!Next
<1>8. CASE ~Channel!Calm
  <2> DEFINE k == Len(RepliesOf(x, s)) + 1
  <2>1. ASSUME NEW t \in Servers
        PROVE  Channel!Remains(RepliesIn(t)', RepliesIn(t), 0)
    <3> DEFINE v == RepliesOf(x, t) \o own(t)
               w == RepliesIn(t)'
    <3>1. v \in Seq(Replies) /\ w \in Seq(Replies) /\ RepliesIn(t) = v \o w
      BY <1>6, ConcatProperties
    <3> HIDE DEF v, w
    <3>2. 0 \in 0..Len(v)
      BY <3>1, LenProperties
    <3>3. Channel!Remains(w, v \o w, 0)
      BY <3>1, <3>2, FirstLost
    <3> QED
      BY <3>1, <3>3 DEF w
  <2>2. /\ k \in 1..Len(RepliesIn(s)) /\ RepliesIn(s)[k] = r
        /\ Channel!Remains(RepliesIn(s)', RepliesIn(s), k)
    <3> DEFINE u == RepliesOf(x, s)
               w == RepliesIn(s)'
    <3>1. u \in Seq(Replies) /\ w \in Seq(Replies) /\ RepliesIn(s) = (u \o <<r>>) \o w
      BY <1>6
    <3>2. k = Len(u) + 1
      OBVIOUS
    <3> HIDE DEF u, w, k
    <3>3. <<r>> \in Seq(Replies) /\ Len(<<r>>) = 1 /\ <<r>>[1] = r
      OBVIOUS
    <3>4. u \o <<r>> \in Seq(Replies) /\ Len(u \o <<r>>) = k /\ Len(u) \in Nat
      BY <3>1, <3>2, <3>3, ConcatProperties, LenProperties
    <3>5. k \in 0..Len(u \o <<r>>) /\ k \in 1..k
      BY <3>2, <3>4
    <3>6. (u \o <<r>>)[k] = r
      <4>1. \A i \in 1..(Len(u) + Len(<<r>>)) :
              (u \o <<r>>)[i] = IF i <= Len(u) THEN u[i] ELSE <<r>>[i - Len(u)]
        BY <3>1, <3>3, ConcatProperties
      <4>2. k \in 1..(Len(u) + Len(<<r>>)) /\ ~(k <= Len(u)) /\ k - Len(u) = 1
        BY <3>2, <3>3, <3>4
      <4>3. (u \o <<r>>)[k] = <<r>>[k - Len(u)]
        BY <4>1, <4>2
      <4> QED
        BY <3>3, <4>2, <4>3
    <3>7. /\ Len((u \o <<r>>) \o w) = k + Len(w) /\ Len(w) \in Nat
          /\ ((u \o <<r>>) \o w)[k] = r
      <4> DEFINE v == u \o <<r>>
      <4>1. v \in Seq(Replies) /\ Len(v) = k /\ v[k] = r
        BY <3>4, <3>6
      <4> HIDE DEF v
      <4>2. /\ Len(v \o w) = Len(v) + Len(w) /\ Len(w) \in Nat
            /\ \A i \in 1..(Len(v) + Len(w)) :
                 (v \o w)[i] = IF i <= Len(v) THEN v[i] ELSE w[i - Len(v)]
        BY <3>1, <4>1, ConcatProperties, LenProperties
      <4>3. k \in 1..(Len(v) + Len(w)) /\ k <= Len(v)
        BY <3>2, <3>4, <4>1, <4>2
      <4>4. Len(v \o w) = k + Len(w) /\ Len(w) \in Nat /\ (v \o w)[k] = r
        BY <4>1, <4>2, <4>3
      <4> QED
        BY <4>4 DEF v
    <3>8. k \in 1..(k + Len(w))
      BY <3>2, <3>4, <3>7
    <3>9. Channel!Remains(w, (u \o <<r>>) \o w, k)
      BY <3>1, <3>4, <3>5, FirstLost
    <3> QED
      BY <3>1, <3>7, <3>8, <3>9 DEF w
  <2> HIDE DEF k
  <2>3. Channel!Losing
    BY <2>1 DEF Channel!Losing
  <2>4. k \in DOMAIN RepliesIn(s)
    BY <2>2, UnreadType, LenProperties
  <2>5. Channel!Disturbed
    BY <1>3, <1>4, <1>8, <2>2, <2>3, <2>4 DEF Channel!Disturbed
  <2> QED
    BY <2>5 DEF Channel!Next
<1> QED
  BY <1>7, <1>8

(* What is misread is not from the only server. *)
LEMMA MisreadStep ==
  ASSUME TypeOK, ShapeInv, Misread
  PROVE  Channel!Next
<1>1. /\ Whole /\ UNCHANGED <<stdout, rest, phase, asked, stop>>
      /\ \A t \in Servers, r \in Replies : Sexp # Form(t, r)
      /\ evaluated' \in {evaluated, Append(evaluated, Garbled)}
  BY DEF Misread, servers
<1>2. PICK n \in 0..Len(buf) : buf' = After(n)
  BY <1>1, WholeBounds DEF Misread
<1>3. Processes' = Processes /\ Serving' = Serving
  BY <1>1 DEF Processes, Serving, Alive
<1>4. ASSUME NEW t \in Servers PROVE Channel!Remains(RepliesIn(t)', RepliesIn(t), 0)
  <2> DEFINE v == RepliesOf(SubSeq(buf, 1, n), t)
             w == RepliesIn(t)'
  <2>1. v \in Seq(Replies) /\ w \in Seq(Replies) /\ RepliesIn(t) = v \o w
    BY <1>1, <1>2, CutReplies
  <2> HIDE DEF v, w
  <2>2. 0 \in 0..Len(v)
    BY <2>1, LenProperties
  <2>3. Channel!Remains(w, v \o w, 0)
    BY <2>1, <2>2, FirstLost
  <2> QED
    BY <2>1, <2>3 DEF w
<1>5. ~Channel!Calm
  <2> SUFFICES ASSUME Channel!Calm PROVE FALSE
    OBVIOUS
  <2>1. First \in 1..Len(buf) /\ buf[First].is = "pre"
    BY <1>1, WholeBounds DEF Cookies
  <2>2. buf[First] \in Bytes /\ buf[First] # Prompt
    BY <2>1, ElementOfSeq DEF TypeOK, Prompt
  <2>3. buf[First].of \in Servers \X Replies
    BY <2>2 DEF Bytes
  <2>4. PICK s \in Servers : buf[First].of[1] = s
    BY <2>3
  <2>5. RepliesIn(s) # <<>>
    BY <2>1, <2>4, BegunUnread
  <2>6. Processes = {s} /\ Alive(s)
    BY <2>5, CalmAlone
  <2> QED
    BY <1>1, <2>6, AloneForms
<1>6. Channel!Losing
  BY <1>4 DEF Channel!Losing
<1>7. Channel!Disturbed
  BY <1>1, <1>3, <1>5, <1>6 DEF Channel!Disturbed
<1> QED
  BY <1>7 DEF Channel!Next

(* What the filter takes over from a pipe is where it was. *)
LEMMA FilterKeeps ==
  ASSUME TypeOK, ShapeInv, NEW s \in Servers, Filter(s)
  PROVE  \A t \in Servers : RepliesIn(t)' = RepliesIn(t)
<1>1. /\ buf \in Seq(Bytes) /\ stdout[s] \in Seq(Bytes) /\ rest[s] \in Seq(Bytes)
      /\ buf' = buf \o stdout[s] /\ rest' = rest
      /\ stdout'[s] = <<>> /\ \A t \in Servers \ {s} : stdout'[t] = stdout[t]
  BY DEF Filter, TypeOK
<1>2. ASSUME NEW t \in Servers \ {s} PROVE RepliesIn(t)' = RepliesIn(t)
  <2>1. \A i \in 1..Len(stdout[s]) : stdout[s][i].is = "pre" => stdout[s][i].of[1] # t
    BY DEF ShapeInv, OutOf
  <2>2. RepliesOf(stdout[s], t) = <<>>
    BY <1>1, <2>1, NoReplies
  <2>3. RepliesOf(buf', t) = RepliesOf(buf, t) \o <<>>
    <3>1. RepliesOf(buf \o stdout[s], t) = RepliesOf(buf, t) \o RepliesOf(stdout[s], t)
      BY <1>1, RepliesConcat
    <3> QED
      BY <1>1, <2>2, <3>1
  <2>4. RepliesOf(buf', t) = RepliesOf(buf, t)
    BY <2>3, UnreadType, ConcatEmptySeq
  <2> QED
    BY <1>1, <2>4 DEF RepliesIn
<1>3. RepliesIn(s)' = RepliesIn(s)
  <2> DEFINE B == RepliesOf(buf, s)
             O == RepliesOf(stdout[s], s)
             R == RepliesOf(rest[s], s)
  <2>1. RepliesOf(buf', s) = B \o O /\ RepliesOf(stdout'[s], s) = <<>>
    BY <1>1, RepliesConcat, PromptFacts
  <2>2. RepliesIn(s)' = ((B \o O) \o <<>>) \o R
    BY <1>1, <2>1 DEF RepliesIn
  <2>3. RepliesIn(s) = (B \o O) \o R
    BY DEF RepliesIn
  <2>4. B \in Seq(Replies) /\ O \in Seq(Replies)
    BY UnreadType
  <2> HIDE DEF B, O, R
  <2>5. (B \o O) \o <<>> = B \o O
    BY <2>4, ConcatProperties, ConcatEmptySeq
  <2> QED
    BY <2>2, <2>3, <2>5
<1> QED
  BY <1>2, <1>3

(* A server that only goes on *)
LEMMA GoesOn ==
  ASSUME TypeOK, NEW s \in Servers, Alive(s), UNCHANGED <<asked, stop>>,
         NEW p \in {"loop", "read", "end"}, Becomes(s, p)
  PROVE  Processes' = Processes /\ Serving' = Serving /\ s \in Processes
<1>1. /\ \A t \in Servers \ {s} : phase'[t] = phase[t] /\ (Alive(t)' <=> Alive(t))
      /\ phase'[s] = p /\ phase[s] \notin {"none", "gone"} /\ Alive(s)'
  BY DEF TypeOK, Becomes, Alive
<1> QED
  BY <1>1 DEF Processes, Serving

(* Every step of Process is one of the channel, or none. *)
LEMMA ChannelStep ==
  TypeOK /\ ShapeInv /\ [Next]_vars => Channel!Next \/ UNCHANGED Channel!chan
<1> SUFFICES ASSUME TypeOK, ShapeInv, [Next]_vars
             PROVE  Channel!Next \/ UNCHANGED Channel!chan
  OBVIOUS
<1> DEFINE Good == Channel!Next \/ UNCHANGED Channel!chan
<1> USE DEF emacs, servers, history, ServerKeeps, EmacsKeeps
<1>a. ASSUME UNCHANGED <<evaluated, buf, stdout, rest>> PROVE Good
  <2>1. \A t \in Servers : RepliesIn(t)' = RepliesIn(t)
    BY <1>a DEF RepliesIn
  <2> QED
    BY <1>a, <2>1, KeepStep
<1>b. ASSUME NEW s \in Servers, NEW out \in Seq(Bytes), Puts(s, out) \/ Flush(s, out),
             UNCHANGED <<evaluated, buf>>, RepliesOf(out, s) = <<>>
      PROVE  Good
  <2>1. /\ RepliesIn(s)' = RepliesIn(s) \o <<>>
        /\ \A t \in Servers \ {s} : RepliesIn(t)' = RepliesIn(t)
    BY <1>b, WriteReplies
  <2>2. RepliesIn(s) \o <<>> = RepliesIn(s)
    BY UnreadType, ConcatEmptySeq
  <2>3. \A t \in Servers : RepliesIn(t)' = RepliesIn(t)
    BY <2>1, <2>2
  <2> QED
    BY <1>b, <2>3, KeepStep
<1>c. ASSUME NEW s \in Servers, NEW r \in Replies, Puts(s, Form(s, r)), Alive(s),
             UNCHANGED <<evaluated, buf, asked, stop>>,
             NEW p \in {"loop", "read", "end"}, Becomes(s, p)
      PROVE  Good
  <2>1. Form(s, r) \in Seq(Bytes) /\ RepliesOf(Form(s, r), s) = <<r>>
    BY FormFacts, FormReplies
  <2>2. /\ RepliesIn(s)' = RepliesIn(s) \o <<r>>
        /\ \A t \in Servers \ {s} : RepliesIn(t)' = RepliesIn(t)
    BY <1>c, <2>1, WriteReplies
  <2>3. RepliesIn(s) \o <<r>> = Append(RepliesIn(s), r)
    BY UnreadType, AppendIsConcat
  <2>4. Processes' = Processes /\ Serving' = Serving /\ s \in Processes
    BY <1>c, GoesOn
  <2> QED
    BY <1>c, <2>2, <2>3, <2>4, WriteStep
<1>d. ASSUME evaluated' = evaluated, buf' = <<>>, UNCHANGED <<stdout, rest>>,
             ~Channel!Calm \/ ~(Processes' = Processes /\ Serving' = Serving)
      PROVE  Good
  BY <1>d, ClearedLoss, LossStep
<1>1. ASSUME NEW s \in Servers, Open(s) PROVE Good
  <2>1. Alive(s) /\ UNCHANGED <<evaluated, buf, asked, stop>>
    BY <1>1 DEF Open, Alive
  <2>2. CASE Gets(s)
    BY <1>a, <2>1, <2>2 DEF Gets
  <2>3. CASE Puts(s, Form(s, 0)) /\ Becomes(s, "end")
    <3>1. 0 \in Replies
      BY ProcessAssumption DEF Replies
    <3> QED
      BY <1>c, <2>1, <2>3, <3>1
  <2> QED
    BY <1>1, <2>2, <2>3 DEF Open
<1>2. ASSUME NEW s \in Servers, Loop(s) PROVE Good
  <2>1. UNCHANGED <<evaluated, buf>>
    BY <1>2 DEF Loop
  <2>2. CASE s \in stop
    BY <1>2, <1>a, <2>1, <2>2 DEF Loop
  <2>3. CASE s \notin stop
    BY <1>2, <1>b, <2>1, <2>3, PromptFacts DEF Loop
  <2> QED
    BY <2>2, <2>3
<1>3. ASSUME NEW s \in Servers, Read(s) PROVE Good
  <2>1. Alive(s) /\ UNCHANGED <<evaluated, buf, asked>> /\ Becomes(s, "loop")
    BY <1>3 DEF Read, Alive
  <2>2. CASE Head(stdin[s]) = Quit
    BY <1>3, <1>a, <2>1, <2>2 DEF Read
  <2>3. CASE Head(stdin[s]) # Quit
    <3> DEFINE c == Head(stdin[s])
    <3>1. c \in Replies /\ Puts(s, Form(s, c)) /\ stop' = stop
      <4>1. stdin[s] \in Seq(Commands \cup {Quit}) /\ stdin[s] # <<>>
        BY <1>3 DEF Read, TypeOK
      <4>2. c \in Commands
        BY <2>3, <4>1, HeadTailProperties
      <4> QED
        BY <1>3, <2>3, <4>2, ProcessAssumption DEF Read, Commands, Replies
    <3> HIDE DEF c
    <3> QED
      BY <1>c, <2>1, <3>1
  <2> QED
    BY <2>2, <2>3
<1>4. ASSUME NEW s \in Servers, Interrupted(s) PROVE Good
  BY <1>4, <1>a DEF Interrupted
<1>5. ASSUME NEW s \in Servers, Exit(s) PROVE Good
  BY <1>5, <1>b, PromptFacts DEF Exit
<1>6. ASSUME NEW s \in Servers, Crash(s) PROVE Good
  <2>1. /\ phase \in [Servers -> Phases] /\ rest \in [Servers -> Seq(Bytes)]
        /\ phase' = [phase EXCEPT ![s] = "dead"] /\ rest' = [rest EXCEPT ![s] = <<>>]
        /\ UNCHANGED <<buf, stdout, evaluated>> /\ Alive(s)
    BY <1>6 DEF Crash, Dies, TypeOK
  <2>2. ~Alive(s)' /\ s \in Processes
    BY <2>1 DEF Alive, Processes
  <2>3. ~Channel!Calm \/ ~(Processes' = Processes /\ Serving' = Serving)
    BY <2>2 DEF Channel!Calm, Serving
  <2>4. ASSUME NEW t \in Servers PROVE Channel!Remains(RepliesIn(t)', RepliesIn(t), 0)
    <3>1. CASE t # s
      <4>1. RepliesIn(t)' = RepliesIn(t)
        BY <2>1, <3>1 DEF RepliesIn
      <4> QED
        BY <4>1, UnreadType, NoneLost
    <3>2. CASE t = s
      <4> DEFINE u == RepliesOf(buf, s) \o RepliesOf(stdout[s], s)
                 v == RepliesOf(rest[s], s)
      <4>1. u \in Seq(Replies) /\ v \in Seq(Replies) /\ RepliesIn(s) = u \o v
        BY UnreadType, ConcatProperties DEF RepliesIn
      <4>2. RepliesIn(s)' = u \o <<>>
        BY <2>1, PromptFacts DEF RepliesIn
      <4> HIDE DEF u, v
      <4>3. Channel!Remains(u \o <<>>, (u \o v) \o <<>>, 0) /\ (u \o v) \o <<>> = u \o v
        <5>1. <<>> \in Seq(Replies) /\ u \o v \in Seq(Replies)
          BY <4>1, ConcatProperties
        <5> QED
          BY <4>1, <5>1, MiddleLost, ConcatEmptySeq
      <4> QED
        BY <3>2, <4>1, <4>2, <4>3
    <3> QED
      BY <3>1, <3>2
  <2> QED
    BY <2>1, <2>3, <2>4, LossStep
<1>7. CASE Command
  <2>1. CASE Running
    BY <1>7, <1>a, <2>1 DEF Command
  <2>2. CASE ~Running
    <3>1. buf' = <<>> /\ CanSend /\ phase' = Started /\ UNCHANGED <<stdout, rest, evaluated>>
      BY <1>7, <2>2 DEF Command
    <3>2. Receiver \in Servers /\ phase[Receiver] = "none"
      BY <2>2, <3>1, ReceiverFacts
    <3>3. Receiver \notin Processes /\ Receiver \in Processes'
      BY <2>2, <3>1, <3>2 DEF Processes, Started
    <3> QED
      BY <1>d, <3>1, <3>3
  <2> QED
    BY <2>1, <2>2
<1>8. CASE Kill
  <2> DEFINE s == NewestOf(Processes)
  <2>1. /\ buf' = <<>> /\ UNCHANGED <<stdout, rest, evaluated>>
        /\ Processes # {} /\ s \in asked'
    BY <1>8 DEF Kill
  <2>2. s \in Processes
    BY <2>1, ServingAround, NewestExists
  <2> HIDE DEF s
  <2>3. ~Channel!Calm \/ ~(Processes' = Processes /\ Serving' = Serving)
    BY <2>1, <2>2 DEF Channel!Calm, Serving
  <2> QED
    BY <1>d, <2>1, <2>3
<1>9. ASSUME NEW s \in Servers, Sentinel(s) PROVE Good
  <2>1. /\ phase \in [Servers -> Phases] /\ phase[s] = "dead"
        /\ phase' = [phase EXCEPT ![s] = "gone"]
        /\ buf' = <<>> /\ UNCHANGED <<stdout, rest, evaluated>>
    BY <1>9 DEF Sentinel, TypeOK
  <2>2. s \in Processes /\ s \notin Processes'
    BY <2>1 DEF Processes
  <2> QED
    BY <1>d, <2>1, <2>2
<1>10. ASSUME NEW s \in Servers, Filter(s) PROVE Good
  <2>1. evaluated' = evaluated
    BY <1>10 DEF Filter
  <2> QED
    BY <1>10, <2>1, FilterKeeps, KeepStep
<1>11. CASE Evaluate
  BY <1>11, EvaluateStep
<1>12. CASE Misread
  BY <1>12, MisreadStep
<1>13. CASE Starved \/ UNCHANGED vars
  BY <1>13, <1>a DEF Starved, vars
<1> QED
  BY <1>1, <1>2, <1>3, <1>4, <1>5, <1>6, <1>7, <1>8, <1>9, <1>10, <1>11, <1>12, <1>13
     DEF Next, Serve, Lisp

(* In the beginning nothing was written.                                   *)
LEMMA InitChannel == Init => ShapeInv /\ Channel!Init
<1> SUFFICES ASSUME Init PROVE ShapeInv /\ Channel!Init
  OBVIOUS
<1>1. /\ \A t \in Servers : phase[t] = "none" /\ stdout[t] = <<>> /\ rest[t] = <<>>
      /\ buf = <<>> /\ evaluated = <<>>
  BY DEF Init
<1>2. \A t \in Servers : OutOf(stdout[t], t) /\ OutOf(rest[t], t) /\ ~Alive(t)
  BY <1>1, OutOfParts DEF Alive
<1>3. ShapeInv
  BY <1>1, <1>2 DEF ShapeInv
<1>4. Processes = {} /\ Serving = {}
  BY <1>1, <1>2 DEF Processes, Serving
<1>5. ASSUME NEW t \in Servers PROVE RepliesIn(t) = <<>>
  <2>1. RepliesIn(t) = (<<>> \o <<>>) \o <<>>
    BY <1>1, PromptFacts DEF RepliesIn
  <2>2. <<>> \in Seq(Replies) /\ <<>> \o <<>> = <<>>
    OBVIOUS
  <2> QED
    BY <2>1, <2>2
<1>6. Channel!Init
  BY <1>1, <1>4, <1>5 DEF Channel!Init
<1> QED
  BY <1>3, <1>6

(* Whatever the chunks, crashes and quits: the output of a server is its   *)
(* own and whole while it runs, and so is the buffer when it is the only   *)
(* one (output_sexp_stdout, mu4e~proc-filter).                             *)
THEOREM Shapes == Spec => []ShapeInv
<1>1. Init => ShapeInv
  BY InitChannel
<1>2. TypeOK /\ ShapeInv /\ [Next]_vars => ShapeInv'
  BY ShapeStep
<1> QED
  BY <1>1, <1>2, TypeCorrect, PTL DEF Spec

(* For any number of servers, commands and faults, the pipes, the buffer   *)
(* and the filter are the channel of ReplyChannel: with one server that    *)
(* nobody stopped, each of its replies is evaluated once, whole and in     *)
(* order; replies are lost or misread only when servers start or end.      *)
THEOREM Refinement == Spec => Implements
<1>1. Init => Channel!Init
  BY InitChannel
<1>2. TypeOK /\ ShapeInv /\ [Next]_vars => [Channel!Next]_(Channel!chan)
  BY ChannelStep
<1> QED
  BY <1>1, <1>2, TypeCorrect, Shapes, PTL DEF Spec, Implements, Channel!Spec
=============================================================================
