---------------------------- MODULE BoundedQueue ----------------------------
(***************************************************************************)
(* What a user of lib/utils/mu-async-queue.hh may count on: a first-in     *)
(* first-out queue, of limited or unlimited size, whose operations happen  *)
(* at one instant each and tell their caller truthfully what they did.     *)
(***************************************************************************)
EXTENDS Naturals, Sequences

CONSTANTS
  Items,
  Threads,
  MaxSize,      \* the template's MaxSize; 0 is UnlimitedAsyncQueueSize
  NoItem

VARIABLES
  q,            \* the queue
  answer        \* the outcome of each thread's latest operation

Full == MaxSize # 0 /\ Len(q) >= MaxSize

(* An operation's outcome: whether it did it, and the item it did it with. *)
Answers == [ok : BOOLEAN, item : Items \cup {NoItem}]
Answer(t, b, x) == answer' = [answer EXCEPT ![t] = [ok |-> b, item |-> x]]

Init ==
  /\ q = <<>>
  /\ answer = [t \in Threads |-> [ok |-> FALSE, item |-> NoItem]]

Push(t, x) == ~Full /\ q' = Append(q, x) /\ Answer(t, TRUE, x)

PushFails(t, x) == Full /\ UNCHANGED q /\ Answer(t, FALSE, x)

Pop(t) == q # <<>> /\ q' = Tail(q) /\ Answer(t, TRUE, Head(q))

PopFails(t) == q = <<>> /\ UNCHANGED q /\ Answer(t, FALSE, NoItem)

Clear(t) == q' = <<>> /\ Answer(t, TRUE, NoItem)

Next ==
  \E t \in Threads :
    \/ \E x \in Items : Push(t, x) \/ PushFails(t, x)
    \/ Pop(t) \/ PopFails(t) \/ Clear(t)

Spec == Init /\ [][Next]_<<q, answer>>
=============================================================================
