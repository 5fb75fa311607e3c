---------------------------- MODULE ReplyChannel ----------------------------
(***************************************************************************)
(* What mu4e may rely on when servers write replies for it: as long as     *)
(* there is one server, which nobody asked to stop, its replies are        *)
(* evaluated in order, each once.  While servers start and stop, replies   *)
(* may be lost, and two servers at once may be misread.  Process           *)
(* implements this.                                                        *)
(***************************************************************************)
EXTENDS Naturals, Sequences

CONSTANTS
  Servers,
  Replies,
  Garbled     \* what is evaluated when a form is put together from pieces

VARIABLES
  unread,     \* for every server, its replies that were not evaluated yet
  evaluated,  \* what was evaluated
  around,     \* the servers mu4e may still get output from
  serving     \* those of them that nobody stopped

chan == <<unread, evaluated, around, serving>>

Evaluated == (Servers \X Replies) \cup {Garbled}

Init ==
  /\ unread = [s \in Servers |-> <<>>]
  /\ evaluated = <<>>
  /\ around = {} /\ serving = {}

(* One server, and nobody stopped it *)
Calm ==
  /\ around = serving
  /\ \A s, t \in around : s = t
  /\ \A s \in Servers \ around : unread[s] = <<>>

(* t is what is left of s when some of it, and the first k, are lost. *)
Remains(t, s, k) ==
  \E at \in [1..Len(t) -> (k + 1)..Len(s)] :
    /\ \A i, j \in 1..Len(t) : i < j => at[i] < at[j]
    /\ \A i \in 1..Len(t) : t[i] = s[at[i]]

Losing == \A s \in Servers : Remains(unread'[s], unread[s], 0)

Write(s, r) ==
  /\ s \in around
  /\ UNCHANGED <<evaluated, around, serving>>
  /\ unread' = [unread EXCEPT ![s] = Append(@, r)]

Evaluate(s) ==
  /\ UNCHANGED <<around, serving>>
  /\ unread[s] # <<>>
  /\ evaluated' = Append(evaluated, <<s, Head(unread[s])>>)
  /\ unread' = [unread EXCEPT ![s] = Tail(@)]

(* A server starts, is told to stop, or is gone. *)
Change ==
  /\ around' \subseteq Servers /\ serving' \subseteq around'
  /\ <<around', serving'>> # <<around, serving>>
  /\ UNCHANGED evaluated
  /\ Losing

(* Replies are lost, and what is evaluated may have had others before it,  *)
(* or is a mixture.                                                        *)
Disturbed ==
  /\ UNCHANGED <<around, serving>>
  /\ ~Calm
  /\ Losing
  /\ \/ evaluated' \in {evaluated, Append(evaluated, Garbled)}
     \/ \E s \in Servers : \E k \in DOMAIN unread[s] :
          /\ evaluated' = Append(evaluated, <<s, unread[s][k]>>)
          /\ Remains(unread'[s], unread[s], k)

Next ==
  \/ \E s \in Servers, r \in Replies : Write(s, r)
  \/ \E s \in Servers : Evaluate(s)
  \/ Change
  \/ Disturbed

Spec == Init /\ [][Next]_chan
=============================================================================
