------------------------------ MODULE Contacts ------------------------------
(***************************************************************************)
(* lib/mu-contacts.cc: the contacts seen in messages, which the workers of *)
(* an indexing job add and the server saves with the store; and how mu4e   *)
(* keeps a copy of them for completion, by asking for those that changed   *)
(* since its last time stamp.  Requests and answers are pipelined.         *)
(*                                                                         *)
(* A message has one contact.  A server that was closed or crashed is      *)
(* started again by the next command, as in Process; what a crash does to  *)
(* the messages themselves is in Store.                                    *)
(***************************************************************************)
EXTENDS Naturals, Sequences, FiniteSets

CONSTANTS
  Messages,
  KeyOf,        \* the address in the contact of a message, in lower case
  FullOf,       \* its name and address as they are there
  PersonalOf,   \* whether the message was to or from one of my addresses
  DateOf,
  Recently,     \* contacts seen after this date are recent
  Before,       \* an order of the addresses
  Workers,
  None,
  MaxClock,     \* bound: the time that passes
  MaxAdds,      \* bound: messages added
  MaxRequests,  \* bound: requests and answers in the pipes
  MaxStops      \* bound: servers that are closed or crash

Keys  == {KeyOf[m] : m \in Messages}
Fulls == {FullOf[m] : m \in Messages}
Dates == {DateOf[m] : m \in Messages}
Times == 0..MaxClock

(* Before is strict and total: g_ascii_strcasecmp on different addresses.  *)
ASSUME ContactsAssumption ==
  /\ IsFiniteSet(Messages)
  /\ Dates \subseteq Nat /\ Recently \in Nat
  /\ \A m \in Messages : PersonalOf[m] \in BOOLEAN
  /\ Before \subseteq Keys \X Keys
  /\ \A j, k \in Keys : (<<j, k>> \in Before) # (<<k, j>> \in Before \/ j = k)
  /\ \A i, j, k \in Keys : <<i, j>> \in Before /\ <<j, k>> \in Before => <<i, k>> \in Before
  /\ MaxClock \in Nat /\ MaxAdds \in Nat /\ MaxRequests \in Nat /\ MaxStops \in Nat

VARIABLES
  clock,      \* g_get_monotonic_time, which survives the server
  table,      \* contacts_: what is known of an address
  saved,      \* what the store has of it
  adding,     \* for each worker, the contact it has made and will add
  request,    \* the contacts commands in the pipe to the server, by time stamp
  found,      \* what contacts_handler has collected for the first of them
  reply,      \* the answers in the pipe to mu4e
  up,         \* whether there is a server
  proc,       \* whether mu4e~proc-process is it: mu4e has not stopped it
  hash,       \* mu4e~contacts-hash
  tstamp,     \* mu4e~contacts-tstamp
  wanted,     \* mu4e-compose-complete-only-personal and -only-after
  adds,       \* not in the code: the messages that table stands for, in order
  kept,       \* not in the code: those that saved stands for
  late,       \* not in the code: addresses this server added while a request
              \* was handled
  stops       \* not in the code: the servers stopped

server == <<table, saved, adding, request, found, up, adds, kept>>
emacs  == <<proc, hash, tstamp, wanted>>
vars   == <<clock, server, reply, emacs, late, stops>>

Contact == [full : Fulls, personal : BOOLEAN, seen : Dates, freq : Nat, tstamp : Times]
Ranked  == [full : Fulls, rank : 1..Cardinality(Keys)]
Hash    == UNION {[S -> 1..Cardinality(Keys)] : S \in SUBSET Fulls}

Reply   == [contacts : SUBSET Ranked, tstamp : Times]

ASSUME NoneAssumption ==
  /\ None \notin Contact /\ None \notin Hash
  /\ \A S \in SUBSET Ranked : S # None

TypeOK ==
  /\ clock \in Times /\ tstamp \in Times
  /\ table \in [Keys -> Contact \cup {None}]
  /\ saved \in [Keys -> Contact \cup {None}]
  /\ adding \in [Workers -> [msg : Messages, tstamp : Times] \cup {None}]
  /\ request \in Seq(Times)
  /\ found = None \/ (found \subseteq Ranked /\ request # <<>>)
  /\ reply \in Seq(Reply)
  /\ up \in BOOLEAN /\ proc \in BOOLEAN
  /\ hash = None \/ hash \in Hash
  /\ wanted \in [personal : BOOLEAN, after : Nat]
  /\ adds \in Seq(Messages) /\ kept \in Seq(Messages)
  /\ late \subseteq Keys /\ stops \in 0..MaxStops

Empty == [k \in Keys |-> None]
Idle  == [w \in Workers |-> None]

Init ==
  /\ clock = 0
  /\ table = Empty /\ saved = Empty /\ adding = Idle
  /\ request = <<>> /\ found = None /\ reply = <<>>
  /\ up = TRUE /\ proc = TRUE
  /\ hash = None /\ tstamp = 0
  /\ wanted \in [personal : BOOLEAN, after : {0, Recently + 1}]
  /\ adds = <<>> /\ kept = <<>> /\ late = {} /\ stops = 0

Tick ==
  /\ clock < MaxClock /\ clock' = clock + 1
  /\ UNCHANGED <<server, reply, emacs, late, stops>>
----------------------------------------------------------------------------
(* The table *)

KeysIn(t) == {k \in Keys : t[k] # None}

(* Updates whatever the date. *)
Bug_Merged(t, m, made) ==
  LET k == KeyOf[m]
  IN  [t EXCEPT ![k] =
        [full |-> FullOf[m], seen |-> DateOf[m],
         personal |-> IF @ = None THEN PersonalOf[m] ELSE @.personal,
         freq |-> IF @ = None THEN 1 ELSE @.freq + 1,
         tstamp |-> IF @ = None THEN made ELSE clock]]

(* Contacts::add: a new contact is as it was made; one that there is gets  *)
(* the name and spelling of the latest message.                            *)
Merged(t, m, made) ==
  LET k == KeyOf[m]
      newer == [t[k] EXCEPT !.full = FullOf[m], !.seen = DateOf[m], !.tstamp = clock]
  IN  [t EXCEPT ![k] =
        IF t[k] = None
          THEN [full |-> FullOf[m], personal |-> PersonalOf[m], seen |-> DateOf[m],
                freq |-> 1, tstamp |-> made]
          ELSE [IF DateOf[m] > t[k].seen THEN newer ELSE t[k] EXCEPT !.freq = @ + 1]]

IsRecent(c) == c.seen > Recently

(* ContactInfoLessThan *)
Less(j, k) ==
  LET c == table[j]  d == table[k]
  IN  IF c.personal # d.personal THEN c.personal
      ELSE IF IsRecent(c) # IsRecent(d) THEN c.seen > d.seen
      ELSE IF c.freq # d.freq THEN c.freq > d.freq
      ELSE <<j, k>> \in Before

Rank(k) == Cardinality({j \in KeysIn(table) : Less(j, k)}) + 1
----------------------------------------------------------------------------
(* The server *)

(* each_contact_info makes the contact, with the time, before it can have  *)
(* the mutex of the contacts.                                              *)
Make(w, m) ==
  /\ up /\ adding[w] = None
  /\ Len(adds) + Cardinality({v \in Workers : adding[v] # None}) < MaxAdds
  /\ adding' = [adding EXCEPT ![w] = [msg |-> m, tstamp |-> clock]]
  /\ late' = IF found = None THEN late ELSE late \cup {KeyOf[m]}
  /\ UNCHANGED <<clock, table, saved, found, up, adds, kept, request, reply, emacs, stops>>

Add(w) ==
  /\ adding[w] # None
  /\ table' = Merged(table, adding[w].msg, adding[w].tstamp)
  /\ adds' = Append(adds, adding[w].msg)
  /\ adding' = [adding EXCEPT ![w] = None]
  /\ UNCHANGED <<clock, saved, found, up, kept, request, reply, emacs, late, stops>>

(* Leaves out what changed at the time of the last answer. *)
Bug_Sends(k) ==
  /\ Head(request) < table[k].tstamp
  /\ wanted.personal => table[k].personal
  /\ wanted.after <= table[k].seen

(* What contacts_handler sends: changed since, and of the kind asked for *)
Sends(k) ==
  /\ Head(request) <= table[k].tstamp
  /\ wanted.personal => table[k].personal
  /\ wanted.after <= table[k].seen

(* for_each, under the mutex *)
Collect ==
  /\ up /\ request # <<>> /\ found = None
  /\ found' = {[full |-> table[k].full, rank |-> Rank(k)] :
                 k \in {j \in KeysIn(table) : Sends(j)}}
  /\ late' = late \cup {KeyOf[adding[w].msg] : w \in {v \in Workers : adding[v] # None}}
  /\ UNCHANGED <<clock, table, saved, adding, up, adds, kept, request, reply, emacs, stops>>

(* The time stamp of the answer is taken after that. *)
Answer ==
  /\ found # None
  /\ reply' = Append(reply, [contacts |-> found, tstamp |-> clock])
  /\ found' = None /\ request' = Tail(request)
  /\ UNCHANGED <<clock, table, saved, adding, up, adds, kept, emacs, late, stops>>

(* What was still to be handled is lost. *)
Stopped ==
  /\ stops < MaxStops /\ stops' = stops + 1
  /\ up' = FALSE /\ table' = Empty /\ adds' = <<>>
  /\ adding' = Idle /\ found' = None /\ request' = <<>>

(* The destructor of Store::Private *)
Close ==
  /\ up /\ adding = Idle /\ found = None
  /\ Stopped
  /\ saved' = table /\ kept' = adds
  /\ UNCHANGED <<clock, reply, emacs, late>>

(* What was not saved is lost; what was written gets to mu4e. *)
Crash ==
  /\ up
  /\ Stopped
  /\ UNCHANGED <<clock, saved, kept, reply, emacs, late>>

(* deserialize() makes contacts anew. *)
Loaded == [k \in Keys |-> IF saved[k] = None THEN None
                          ELSE [saved[k] EXCEPT !.tstamp = clock]]

(* The answers that are left when mu4e~proc-buf is reset, which may have   *)
(* the first half of one.                                                  *)
AfterReset == {reply} \cup {Tail(r) : r \in {reply} \ {<<>>}}

(* mu4e~proc-start: answers of the server before may still be on their way.*)
Restart ==
  /\ ~up
  /\ up' = TRUE /\ proc' = TRUE
  /\ table' = Loaded /\ adds' = kept /\ late' = {}
  /\ reply' \in AfterReset
  /\ UNCHANGED <<clock, saved, adding, found, kept, request, hash, tstamp, wanted, stops>>
----------------------------------------------------------------------------
(* mu4e *)

(* mu4e~request-contacts-maybe: when an index found something, and when    *)
(* mu4e or a composer starts without a hash; whatever is on its way.       *)
Request ==
  /\ up /\ proc
  /\ Len(request) + Len(reply) < MaxRequests
  /\ request' = Append(request, tstamp)
  /\ UNCHANGED <<clock, table, saved, adding, found, up, adds, kept, reply, emacs, late, stops>>

With(h, contacts) ==
  LET fulls == {c.full : c \in contacts}
      old   == IF h = None THEN {} ELSE DOMAIN h
  IN  [f \in old \cup fulls |->
        IF f \in fulls THEN (CHOOSE c \in contacts : c.full = f).rank ELSE h[f]]

(* mu4e~update-contacts, from whichever server *)
Update ==
  /\ reply # <<>>
  /\ hash' = With(hash, Head(reply).contacts) /\ tstamp' = Head(reply).tstamp
  /\ reply' = Tail(reply)
  /\ UNCHANGED <<clock, server, proc, wanted, late, stops>>

(* mu4e~stop: mu4e-clear-caches and mu4e~proc-kill, whatever is on its     *)
(* way.  The server may handle what it has been sent before it closes, and *)
(* its answers still come.                                                 *)
StopMu4e ==
  /\ hash' = None /\ tstamp' = 0 /\ proc' = FALSE
  /\ reply' \in AfterReset
  /\ UNCHANGED <<clock, server, wanted, late, stops>>
----------------------------------------------------------------------------
Next ==
  \/ Tick
  \/ \E w \in Workers : Add(w) \/ \E m \in Messages : Make(w, m)
  \/ Collect \/ Answer \/ Close \/ Crash \/ Restart
  \/ Request \/ Update \/ StopMu4e

Spec == Init /\ [][Next]_vars
----------------------------------------------------------------------------
(* Properties *)

Of(k) == {i \in DOMAIN adds : KeyOf[adds[i]] = k}
Latest(k) ==
  CHOOSE i \in Of(k) : \A j \in Of(k) :
    \/ DateOf[adds[j]] < DateOf[adds[i]]
    \/ DateOf[adds[j]] = DateOf[adds[i]] /\ i <= j

(* The table says how often each address was seen, when last, and how it   *)
(* was written then, whatever the order in which the messages came, also   *)
(* after the server was closed and started; after a crash, it is as it was *)
(* saved.  And no two have one rank, so the std::set they are sorted with  *)
(* drops none.                                                             *)
TableRight ==
  /\ \A k \in Keys :
       IF Of(k) = {} THEN table[k] = None
       ELSE /\ table[k] # None
            /\ table[k].freq = Cardinality(Of(k))
            /\ table[k].seen = DateOf[adds[Latest(k)]]
            /\ table[k].full = FullOf[adds[Latest(k)]]
  /\ \A j, k \in KeysIn(table) : j # k => Rank(j) # Rank(k)

Known(k) ==
  \/ hash # None /\ table[k].full \in DOMAIN hash
  \/ found # None /\ \E c \in found : c.full = table[k].full
  \/ \E i \in DOMAIN reply : \E c \in reply[i].contacts : c.full = table[k].full

(* Since when mu4e asks, has asked or will ask, whatever it is answered    *)
Stamps == {tstamp} \cup {request[i] : i \in DOMAIN request}
                   \cup {reply[i].tstamp : i \in DOMAIN reply}

(* A contact mu4e wants of its server is known to it or on its way, or     *)
(* will come with the answer to whichever request is handled next, since   *)
(* it changed after its time stamp: however many requests and answers are  *)
(* under way, and however many servers they are from.  Not so one that was *)
(* being added while this server handled a request: mu4e may never get it. *)
(* And not so while a server goes on that mu4e has stopped: an answer of   *)
(* its that comes after mu4e~stop has cleared the table makes a new one,   *)
(* with some contacts only and a recent time stamp, until the contacts of  *)
(* the next server are sent, all of them changed when it loaded them.      *)
ComesNext ==
  proc => \A k \in KeysIn(table) \ late :
    (wanted.personal => table[k].personal) /\ wanted.after <= table[k].seen
      => Known(k) \/ \A s \in Stamps : s <= table[k].tstamp
=============================================================================
