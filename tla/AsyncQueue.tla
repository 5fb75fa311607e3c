----------------------------- MODULE AsyncQueue -----------------------------
(***************************************************************************)
(* lib/utils/mu-async-queue.hh: a queue behind a mutex, with a condition   *)
(* variable for those who wait for room and one for those who wait for     *)
(* items.  A step holds the mutex; the notification comes after it is      *)
(* released, and the thread that is woken takes the mutex later still, so  *)
(* others may get in between.                                              *)
(***************************************************************************)
EXTENDS Naturals, Sequences, FiniteSets

CONSTANTS Items, Threads, MaxSize, NoItem

ASSUME ThreadsAssumption == IsFiniteSet(Threads)

VARIABLES q, answer,
  pc,           \* where each thread is
  item          \* what a thread wants to push

vars == <<q, answer, pc, item>>

(* What the queue promises to its users *)
Implements == INSTANCE BoundedQueue WITH q <- q, answer <- answer

(* full_unlocked(); an unlimited queue never is. *)
Full == MaxSize # 0 /\ Len(q) >= MaxSize

Asleep == {"push_asleep", "pop_asleep"}        \* in wait_for
Woken  == {"push_woken", "pop_woken"}          \* notified, not running yet
Notify == {"notify_empty", "notify_full"}      \* about to notify_one

TypeOK ==
  /\ q \in Seq(Items)
  /\ answer \in [Threads -> Implements!Answers]
  /\ pc \in [Threads -> {"idle"} \cup Asleep \cup Woken \cup Notify]
  /\ item \in [Threads -> Items \cup {NoItem}]

Init ==
  /\ q = <<>>
  /\ answer = [t \in Threads |-> [ok |-> FALSE, item |-> NoItem]]
  /\ pc = [t \in Threads |-> "idle"]
  /\ item = [t \in Threads |-> NoItem]

Goes(t, to) == pc' = [pc EXCEPT ![t] = to]

----------------------------------------------------------------------------
(* What a thread does with the mutex in hand.  answer is what its call is  *)
(* going to return.                                                        *)

Answers(t, ok, x) == answer' = [answer EXCEPT ![t] = [ok |-> ok, item |-> x]]

(* q_.emplace_back(std::move(item)) *)
EmplaceBack(t, x) ==
  /\ q' = Append(q, x)
  /\ Answers(t, TRUE, x)
  /\ Goes(t, "notify_empty")

(* val = std::move(q_.front()); q_.pop_front() *)
PopFront(t) ==
  /\ q' = Tail(q)
  /\ Answers(t, TRUE, Head(q))
  /\ Goes(t, "notify_full")

GivesUp(t, x) == Answers(t, FALSE, x) /\ Goes(t, "idle") /\ UNCHANGED q

Sleeps(t, where) == Goes(t, where) /\ UNCHANGED <<q, answer>>

(* push(item, timeout): does not wait when the timeout is zero, which is   *)
(* what it is when the item is an lvalue, whatever the caller asks for.    *)
PushBegin(t, x) ==
  /\ pc[t] = "idle"
  /\ \/ ~Full /\ EmplaceBack(t, x) /\ UNCHANGED item
     \/ Full /\ GivesUp(t, x) /\ UNCHANGED item
     \/ Full /\ Sleeps(t, "push_asleep") /\ item' = [item EXCEPT ![t] = x]

(* Notified: it looks at the queue again, and waits on if it is full. *)
PushWakes(t) ==
  /\ pc[t] = "push_woken"
  /\ \/ ~Full /\ EmplaceBack(t, item[t]) /\ item' = [item EXCEPT ![t] = NoItem]
     \/ Full /\ Sleeps(t, "push_asleep") /\ UNCHANGED item

(* The time is up: wait_for() looks at the queue a last time. *)
PushTimeout(t) ==
  /\ pc[t] \in {"push_asleep", "push_woken"}
  /\ IF Full THEN GivesUp(t, item[t]) ELSE EmplaceBack(t, item[t])
  /\ item' = [item EXCEPT ![t] = NoItem]

(* pop(val, timeout) *)
PopBegin(t) ==
  /\ pc[t] = "idle"
  /\ \/ q # <<>> /\ PopFront(t)
     \/ q = <<>> /\ (GivesUp(t, NoItem) \/ Sleeps(t, "pop_asleep"))
  /\ UNCHANGED item

PopWakes(t) ==
  /\ pc[t] = "pop_woken"
  /\ IF q = <<>> THEN Sleeps(t, "pop_asleep") ELSE PopFront(t)
  /\ UNCHANGED item

(* Gives up without a last look at the queue. *)
Bug_PopTimeout(t) ==
  /\ pc[t] \in {"pop_asleep", "pop_woken"}
  /\ GivesUp(t, NoItem)
  /\ UNCHANGED item

PopTimeout(t) ==
  /\ pc[t] \in {"pop_asleep", "pop_woken"}
  /\ IF q = <<>> THEN GivesUp(t, NoItem) ELSE PopFront(t)
  /\ UNCHANGED item

ClearBegin(t) ==
  /\ pc[t] = "idle"
  /\ q' = <<>>
  /\ Answers(t, TRUE, NoItem)
  /\ Goes(t, "notify_full")
  /\ UNCHANGED item

----------------------------------------------------------------------------
(* cv.notify_one() wakes one of the threads that wait, if there are any. *)
NotifyOne(t, from, asleep, woken) ==
  /\ pc[t] = from
  /\ IF \E u \in Threads : pc[u] = asleep
     THEN \E u \in Threads :
            /\ pc[u] = asleep
            /\ pc' = [pc EXCEPT ![t] = "idle", ![u] = woken]
     ELSE Goes(t, "idle")
  /\ UNCHANGED <<q, answer, item>>

(* Notifies those who wait for room instead of those who wait for items. *)
Bug_NotifyEmpty(t) == NotifyOne(t, "notify_empty", "push_asleep", "push_woken")

NotifyEmpty(t) == NotifyOne(t, "notify_empty", "pop_asleep", "pop_woken")
NotifyFull(t)  == NotifyOne(t, "notify_full", "push_asleep", "push_woken")

Resume(t) ==
  \/ PushWakes(t) \/ PushTimeout(t) \/ PopWakes(t) \/ PopTimeout(t)
  \/ NotifyEmpty(t) \/ NotifyFull(t)

Next ==
  \E t \in Threads :
    \/ \E x \in Items : PushBegin(t, x)
    \/ PopBegin(t) \/ ClearBegin(t) \/ Resume(t)

Spec == Init /\ [][Next]_vars

----------------------------------------------------------------------------
(* Properties *)

Count(places) == Cardinality({t \in Threads : pc[t] \in places})

(* No item waits while a thread sleeps that could take it: for every item  *)
(* in the queue there is a thread that was woken for it and has not looked *)
(* yet, or one about to wake another, although threads that never slept    *)
(* take items, and sleepers time out, in between.                          *)
NoLostWakeup ==
  Count({"pop_asleep"}) > 0 => Len(q) <= Count({"pop_woken", "notify_empty"})

(* Each call does what it says, at one instant: push() fails only at a     *)
(* moment when the queue is full and pop() only when it is empty, items    *)
(* come out in the order they went in, and once.                           *)
ImplementsQueue == Implements!Spec
=============================================================================
