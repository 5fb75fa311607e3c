------------------------------ MODULE Process -------------------------------
(***************************************************************************)
(* mu4e/mu4e-proc.el and the loop of mu/mu-cmd-server.cc: mu4e starts and  *)
(* stops servers, sends them commands through a pipe, and puts the replies *)
(* together again from the chunks of output it gets, whichever server they *)
(* are from.                                                               *)
(*                                                                         *)
(* A server answers each command with one reply.  A byte of output is a    *)
(* length cookie up to its end mark, the end mark, one of PayloadSize      *)
(* bytes of a reply, or a prompt.  Emacs knows at once when a process has  *)
(* died, but runs the sentinel only when it waits for output again.  What  *)
(* the commands do is in Server.                                           *)
(***************************************************************************)
EXTENDS Naturals, Sequences, FiniteSets, SequencesExt

CONSTANTS
  MaxServers,   \* bound: servers started
  MaxCommands,  \* bound: commands sent, the quits included
  MaxFaults,    \* bound: servers that crash, and handlers that fail
  PayloadSize,  \* the length of every reply
  None,
  Garbled       \* what read-from-string makes of a mixture

ASSUME ProcessAssumption ==
  /\ MaxServers \in Nat /\ MaxCommands \in Nat /\ MaxFaults \in Nat
  /\ PayloadSize \in Nat \ {0}
  /\ None \notin 1..MaxServers
  /\ Garbled \notin (1..MaxServers) \X (0..MaxCommands)

VARIABLES
  current,      \* mu4e~proc-process
  buf,          \* mu4e~proc-buf
  filtering,    \* whether mu4e~proc-filter is evaluating what it has got
  phase,        \* where each server is
  lock,         \* the server that has the store open for writing
  stop,         \* the servers with MuTerminate, or keep_going_ unset
  stdin, stdout,  \* the pipes of each server
  rest,         \* what stdio has not written to the pipe yet
  sent,         \* not in the code: the number of commands sent
  asked,        \* not in the code: the servers mu4e told to stop
  opened,       \* not in the code: the servers that got the store, in order
  executed,     \* not in the code: the commands executed, and by whom, in order
  evaluated,    \* not in the code: the replies evaluated, in order
  faults,       \* not in the code: how many of those there were
  failed        \* not in the code: whether a handler failed

emacs   == <<current, buf, filtering>>
servers == <<phase, lock, stop, stdin, stdout, rest>>
history == <<sent, asked, opened, executed, evaluated, faults, failed>>
vars    == <<emacs, servers, history>>

Servers  == 1..MaxServers
Commands == 1..MaxCommands
Quit     == MaxCommands + 1
Replies  == 0..MaxCommands          \* 0: the store cannot be opened

Phases == {"none", "open", "loop", "read", "end", "dead", "gone"}
Alive(s) == phase[s] \in {"open", "loop", "read", "end"}

Prompt == [is |-> "prompt", of |-> None, at |-> 0]
Byte(is, s, r, i) == [is |-> is, of |-> <<s, r>>, at |-> i]

(* output_sexp_stdout: the cookie, and the expression with a newline *)
Form(s, r) ==
  <<Byte("pre", s, r, 0), Byte("post", s, r, 0)>>
    \o [i \in 1..PayloadSize |-> Byte("pay", s, r, i)]

Bytes == {Prompt} \cup
  [is : {"pre", "post", "pay"}, of : Servers \X Replies, at : 0..PayloadSize]

TypeOK ==
  /\ current \in Servers \cup {None}
  /\ buf \in Seq(Bytes)
  /\ filtering \in BOOLEAN
  /\ phase \in [Servers -> Phases]
  /\ lock \in Servers \cup {None}
  /\ stop \subseteq Servers /\ asked \subseteq Servers
  /\ stdin \in [Servers -> Seq(Commands \cup {Quit})]
  /\ stdout \in [Servers -> Seq(Bytes)]
  /\ rest \in [Servers -> Seq(Bytes)]
  /\ sent \in 0..MaxCommands /\ faults \in 0..MaxFaults /\ failed \in BOOLEAN
  /\ opened \in Seq(Servers)
  /\ executed \in Seq(Servers \X Commands)
  /\ evaluated \in Seq((Servers \X Replies) \cup {Garbled})

Init ==
  /\ current = None /\ buf = <<>> /\ filtering = FALSE
  /\ phase = [s \in Servers |-> "none"]
  /\ lock = None /\ stop = {} /\ asked = {}
  /\ stdin = [s \in Servers |-> <<>>]
  /\ stdout = [s \in Servers |-> <<>>] /\ rest = [s \in Servers |-> <<>>]
  /\ sent = 0 /\ faults = 0 /\ failed = FALSE
  /\ opened = <<>> /\ executed = <<>> /\ evaluated = <<>>
----------------------------------------------------------------------------
(* The server *)

ServerKeeps == UNCHANGED <<emacs, sent, asked, evaluated, failed>>
Fault == faults < MaxFaults /\ faults' = faults + 1

(* fflush, or stdout has no room: any part of what there is *)
Puts(s, out) ==
  LET all == rest[s] \o out
  IN  \E k \in 0..Len(all) :
        /\ stdout' = [stdout EXCEPT ![s] = @ \o SubSeq(all, 1, k)]
        /\ rest' = [rest EXCEPT ![s] = SubSeq(all, k + 1, Len(all))]

Flush(s, out) ==
  /\ stdout' = [stdout EXCEPT ![s] = @ \o rest[s] \o out]
  /\ rest' = [rest EXCEPT ![s] = <<>>]

Becomes(s, p) == phase' = [phase EXCEPT ![s] = p]

Gets(s) ==
  /\ lock' = s /\ opened' = Append(opened, s)
  /\ Becomes(s, "loop") /\ UNCHANGED <<stdout, rest>>

(* Does not look at the lock. *)
Bug_Open(s) ==
  /\ phase[s] = "open"
  /\ Gets(s)
  /\ UNCHANGED <<stop, stdin, executed, faults>> /\ ServerKeeps

(* mu_cmd_server: opens the store; when it cannot, because another server  *)
(* has the lock, it reports that and leaves with MU_OK.                    *)
Open(s) ==
  /\ phase[s] = "open"
  /\ \/ lock = None /\ Gets(s)
     \/ lock # None /\ Puts(s, Form(s, 0)) /\ Becomes(s, "end") /\ UNCHANGED <<lock, opened>>
  /\ UNCHANGED <<stop, stdin, executed, faults>> /\ ServerKeeps

(* Writes the prompt but leaves it, and the reply, to stdio. *)
Bug_Loop(s) ==
  /\ phase[s] = "loop"
  /\ \/ s \in stop /\ Becomes(s, "end") /\ UNCHANGED <<stdout, rest>>
     \/ s \notin stop /\ Becomes(s, "read") /\ UNCHANGED stdout
        /\ rest' = [rest EXCEPT ![s] = Append(@, Prompt)]
  /\ UNCHANGED <<lock, stop, stdin, opened, executed, faults>> /\ ServerKeeps

(* The head of the loop: do_quit and MuTerminate, the flush, the prompt *)
Loop(s) ==
  /\ phase[s] = "loop"
  /\ \/ s \in stop /\ Becomes(s, "end") /\ UNCHANGED <<stdout, rest>>
     \/ s \notin stop /\ Becomes(s, "read") /\ Flush(s, <<Prompt>>)
  /\ UNCHANGED <<lock, stop, stdin, opened, executed, faults>> /\ ServerKeeps

(* read_line() and invoke(): quit_handler, or a handler that replies *)
Read(s) ==
  /\ phase[s] = "read" /\ stdin[s] # <<>>
  /\ Becomes(s, "loop")
  /\ stdin' = [stdin EXCEPT ![s] = Tail(@)]
  /\ \/ /\ Head(stdin[s]) = Quit
        /\ stop' = stop \cup {s}
        /\ UNCHANGED <<stdout, rest, executed>>
     \/ /\ Head(stdin[s]) # Quit
        /\ executed' = Append(executed, <<s, Head(stdin[s])>>)
        /\ Puts(s, Form(s, Head(stdin[s])))
        /\ UNCHANGED stop
  /\ UNCHANGED <<lock, opened, faults>> /\ ServerKeeps

(* getline() fails when a signal interrupts it.  One that comes between    *)
(* the test of MuTerminate and the read interrupts nothing.                *)
Interrupted(s) ==
  /\ phase[s] = "read" /\ s \in stop /\ stdin[s] = <<>>
  /\ Becomes(s, "end")
  /\ UNCHANGED <<lock, stop, stdin, stdout, rest, opened, executed, faults>> /\ ServerKeeps

Unlocked(s) == IF lock = s THEN None ELSE lock

(* The destructors close the store, and exit() flushes. *)
Exit(s) ==
  /\ phase[s] = "end"
  /\ Becomes(s, "dead") /\ Flush(s, <<>>)
  /\ lock' = Unlocked(s) /\ stdin' = [stdin EXCEPT ![s] = <<>>]
  /\ UNCHANGED <<stop, opened, executed, faults>> /\ ServerKeeps

Dies(s) ==
  /\ phase' = [phase EXCEPT ![s] = "dead"]
  /\ rest' = [rest EXCEPT ![s] = <<>>]
  /\ stdin' = [stdin EXCEPT ![s] = <<>>]
  /\ lock' = Unlocked(s)

Crash(s) ==
  /\ Alive(s) /\ Fault
  /\ Dies(s)
  /\ UNCHANGED <<stop, stdout, opened, executed>> /\ ServerKeeps
----------------------------------------------------------------------------
(* Emacs.  It runs the user's commands, the filter and the sentinel one    *)
(* after the other.                                                        *)

EmacsKeeps == UNCHANGED <<opened, executed, faults, failed, stdout>>

(* mu4e~proc-running-p *)
Running == IF current = None THEN FALSE ELSE Alive(current)

(* get-buffer-process: the newest one whose sentinel has not run *)
Processes == {s \in Servers : phase[s] \notin {"none", "gone"}}
NewestOf(S) == CHOOSE s \in S : \A t \in S : t <= s

Fresh == {s \in Servers : phase[s] = "none"}
Next1 == CHOOSE s \in Fresh : \A t \in Fresh : s <= t

(* The server that gets the command: mu4e~proc-start makes a new one. *)
Receiver == IF Running THEN current ELSE Next1

(* mu4e~call-mu: what is in the pipes then.  Its callers set               *)
(* mu4e~proc-process and mu4e~proc-buf.                                    *)
Started == [s \in Servers |-> IF s = Receiver /\ ~Running THEN "open" ELSE phase[s]]
CanSend == Running \/ Fresh # {}
With(c) == [stdin EXCEPT ![Receiver] = Append(@, c)]

Command ==
  /\ ~filtering /\ sent < MaxCommands
  /\ CanSend
  /\ stdin' = With(sent + 1) /\ sent' = sent + 1
  /\ phase' = Started
  /\ current' = Receiver
  /\ buf' = IF Running THEN buf ELSE <<>>
  /\ UNCHANGED <<filtering, lock, stop, rest, asked, evaluated>> /\ EmacsKeeps

(* mu4e~proc-kill, from mu4e~stop.  The quit goes to the process that      *)
(* mu4e~call-mu finds or starts, and SIGINT to the newest of the buffer.   *)
(* Before install_sig_handler that kills, later it sets MuTerminate.       *)
Kill ==
  /\ ~filtering /\ sent < MaxCommands /\ Processes # {}
  /\ CanSend
  /\ LET s == NewestOf(Processes)
     IN  /\ \/ /\ phase[s] = "open"
               /\ phase' = [Started EXCEPT ![s] = "dead"]
               /\ stdin' = [With(Quit) EXCEPT ![s] = <<>>]
               /\ UNCHANGED stop
            \/ /\ phase[s] # "open"
               /\ phase' = Started /\ stdin' = With(Quit)
               /\ stop' = IF Alive(s) THEN stop \cup {s} ELSE stop
         /\ asked' = asked \cup {Receiver, s}
  /\ current' = None /\ buf' = <<>> /\ sent' = sent + 1
  /\ UNCHANGED <<filtering, lock, rest, evaluated>> /\ EmacsKeeps

(* mu4e~proc-sentinel, when all output was read.  It does not look at      *)
(* which process it is for.                                                *)
Sentinel(s) ==
  /\ ~filtering
  /\ phase[s] = "dead" /\ stdout[s] = <<>>
  /\ phase' = [phase EXCEPT ![s] = "gone"]
  /\ current' = None /\ buf' = <<>>
  /\ UNCHANGED <<filtering, lock, stop, stdin, rest, sent, asked, evaluated>> /\ EmacsKeeps

(* mu4e~proc-filter gets a chunk of the output of any process.  It is all  *)
(* there is in the pipe: what a read leaves there might as well have been  *)
(* written later.                                                          *)
Filter(s) ==
  /\ ~filtering
  /\ stdout[s] # <<>>
  /\ buf' = buf \o stdout[s]
  /\ stdout' = [stdout EXCEPT ![s] = <<>>]
  /\ filtering' = TRUE
  /\ UNCHANGED <<current, phase, lock, stop, stdin, rest, history>>

(* mu4e~proc-eat-sexp-from-buf: the first cookie there is.  What is before *)
(* it is dropped, but only when all of the expression is there.            *)
Cookies == {i \in 1..(Len(buf) - 1) : buf[i].is = "pre" /\ buf[i + 1].is = "post"}
Bug_First == CHOOSE i \in Cookies : \A j \in Cookies : j <= i
First == CHOOSE i \in Cookies : \A j \in Cookies : i <= j
Whole == IF Cookies = {} THEN FALSE ELSE Len(buf) >= First + 1 + PayloadSize
Sexp == SubSeq(buf, First, First + 1 + PayloadSize)
After(i) == SubSeq(buf, i + 1, Len(buf))

(* The handler for it runs.  When that fails the rest is left in the       *)
(* buffer, and mu4e-error-handler always fails.                            *)
Evaluate ==
  /\ filtering /\ Whole
  /\ \E s \in Servers, r \in Replies :
       /\ Sexp = Form(s, r)
       /\ evaluated' = Append(evaluated, <<s, r>>)
       /\ \/ r # 0 /\ UNCHANGED <<filtering, faults, failed>>
          \/ r # 0 /\ filtering' = FALSE /\ failed' = TRUE /\ Fault
          \/ r = 0 /\ filtering' = FALSE /\ failed' = TRUE /\ UNCHANGED faults
  /\ buf' = After(First + 1 + PayloadSize)
  /\ UNCHANGED <<current, servers, sent, asked, opened, executed>>

(* The cookie and the bytes are of several forms: read-from-string fails,  *)
(* after the cookie was taken off the buffer, or makes something of it.    *)
Misread ==
  /\ filtering /\ Whole
  /\ \A s \in Servers, r \in Replies : Sexp # Form(s, r)
  /\ \/ /\ buf' = After(First + 1) /\ filtering' = FALSE
        /\ UNCHANGED evaluated
     \/ /\ buf' = After(First + 1 + PayloadSize) /\ UNCHANGED filtering
        /\ evaluated' = Append(evaluated, Garbled)
  /\ UNCHANGED <<current, servers, sent, asked, opened, executed, faults, failed>>

Starved ==
  /\ filtering /\ ~Whole
  /\ filtering' = FALSE
  /\ UNCHANGED <<current, buf, servers, history>>
----------------------------------------------------------------------------
(* The system *)

Serve(s) == Open(s) \/ Loop(s) \/ Read(s) \/ Exit(s)
Lisp == Evaluate \/ Misread \/ Starved

Next ==
  \/ \E s \in Servers : Serve(s) \/ Interrupted(s) \/ Crash(s)
  \/ Command \/ Kill
  \/ \E s \in Servers : Filter(s) \/ Sentinel(s)
  \/ Lisp

Spec == Init /\ [][Next]_vars

(* Servers run, and Emacs reads their output and evaluates it. *)
Fairness ==
  /\ \A s \in Servers : WF_vars(Serve(s)) /\ WF_vars(Filter(s)) /\ WF_vars(Sentinel(s))
  /\ WF_vars(Lisp)

FairSpec == Spec /\ Fairness
----------------------------------------------------------------------------
(* What it implements *)

(* The replies of a server that begin in some output, in order *)
Begins(b, s) == {i \in DOMAIN b : b[i].is = "pre" /\ b[i].of[1] = s}
Nth(S, n) == CHOOSE i \in S : Cardinality({j \in S : j <= i}) = n
RepliesOf(b, s) ==
  LET S == Begins(b, s) IN [n \in 1..Cardinality(S) |-> b[Nth(S, n)].of[2]]

RepliesIn(s) == RepliesOf(buf, s) \o RepliesOf(stdout[s], s) \o RepliesOf(rest[s], s)

Serving == {s \in Servers : Alive(s)} \ (asked \cup stop)

Channel == INSTANCE ReplyChannel WITH
  unread    <- [s \in Servers |-> RepliesIn(s)],
  evaluated <- evaluated,
  around    <- Processes,
  serving   <- Serving

(* The filter puts the replies of a server together whatever the chunks    *)
(* are, none is lost or misread, unless servers start and stop meanwhile.  *)
Implements == Channel!Spec
----------------------------------------------------------------------------
(* Properties *)

(* A server that got the store before an older one did: mu4e had forgotten *)
(* the older one before it opened, and the store was free again when it    *)
(* did.                                                                    *)
Overtook(s, t) ==
  t < s /\ \E a, b \in DOMAIN opened : a < b /\ opened[a] = s /\ opened[b] = t

(* Each command is executed once at the most, and in the order in which    *)
(* they were sent, whatever servers are started, stopped or die: the lock  *)
(* on the store keeps a new server from executing any as long as an old    *)
(* one has some to do.  Only a server that was overtaken before it opened  *)
(* the store executes commands older than those of the one before it.      *)
ExecutedInOrder ==
  \A i, j \in DOMAIN executed : i < j =>
    /\ executed[i][2] # executed[j][2]
    /\ executed[i][2] > executed[j][2] => Overtook(executed[i][1], executed[j][1])

(* As long as there is one server, which nobody stops, and no handler      *)
(* fails, each command is executed and its reply evaluated in the end; and *)
(* a server that was sent quit ends, though commands were sent before it,  *)
(* and gives the store free.                                               *)
Answered ==
  /\ \A c \in Commands :
       (\E s \in Servers : Contains(stdin[s], c)) ~>
         (\E s \in Servers : Contains(evaluated, <<s, c>>)) \/ failed \/ ~Channel!Calm
  /\ \A s \in Servers : Contains(stdin[s], Quit) ~> ~Alive(s) /\ lock # s
=============================================================================
