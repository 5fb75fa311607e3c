# A formal model of mu

This directory holds TLA+ models of mu, the maildir indexer and searcher, and of mu4e,
its Emacs front end, with the TLC runs that check them and the TLAPS proofs about them.
All line numbers are of the sources beside it.

Contents: [the system](#the-system), [the modules](#the-modules), [the runs](#the-runs),
[fairness](#fairness), [refinement](#refinement), [proofs](#proofs), [what the code does
not keep](#what-the-code-does-not-keep), [not modelled](#what-is-not-modelled),
[plan](#plan), [how to run it](#how-to-run-it).

## The system

mu keeps a Xapian database with a document for every message file of a maildir. Its
state lives in three places that change independently: the maildir, which other programs
(mail fetchers, other clients) change at any time; the database, of which only what was
committed survives; and Emacs, which shows the results of a search and knows only what
the server has written.

| component | code | state | operations |
|---|---|---|---|
| Indexer | `lib/index/mu-indexer.cc` | `state_`, `fq_`, `workers_`, `conf_`, two locks | `start`, `stop`, `is_running`, the destructor; a scanner thread and a pool of workers |
| Scanner | `lib/index/mu-scanner.cc` | `running_` | `start` (recursive walk), `stop` |
| AsyncQueue | `lib/utils/mu-async-queue.hh` | a deque, a mutex, two condition variables | `push`, `pop` with a time-out, `clear` |
| Store | `lib/mu-store.cc` | the database, the open transaction, `dirtiness_`, `lock_` | add, update, remove, dirstamps, `commit`, opening and closing |
| Contacts | `lib/mu-contacts.cc`, `mu4e-utils.el` | a table of addresses, mu4e's copy of it | `add`, `for_each`, written when the store is closed; the contacts command |
| Messages and documents | `lib/mu-msg*.cc`, `mu-store.cc`, `mu-msg-sexp.cc` | a file, a document, or both | reading a file, adding it, showing it, finding it |
| MIME parts | `lib/mu-msg-part.cc`, `mu4e-view-old.el` | numbers of attachments in a view, a cache of files | view, save, open, forward |
| Maildir, flags | `lib/mu-maildir.cc`, `lib/mu-flags.cc` | none: names of files | flags from a path, new path, rename |
| Server | `lib/mu-server.cc`, `lib/utils/mu-command-parser.cc`, `mu-sexp.cc` | none of its own: store, indexer, maildir | one s-expression command after the other, each with one or more replies |
| The server process | `mu/mu-cmd-server.cc`, `mu4e-proc.el` | pipes, the lock on the store, the process buffer | starting, sending, quitting, killing; the filter and the sentinel |
| Query | `lib/mu-query*.cc` | per query: the deciders' record of message-ids seen | leader query, related query, threads |
| Query language | `lib/mu-parser.cc`, `lib/mu-tokenizer.cc`, `mu-xapian.cc` | none | text to tokens to a tree to a Xapian query; dates and sizes |
| mu4e: headers and marks | `mu4e-headers.el`, `mu4e-mark.el` | headers buffer, point, mark map | user commands; a handler for each kind of reply |
| mu4e: drafts and sending | `mu4e-draft.el`, `mu4e-compose.el`, `mu4e-context.el` | draft buffers, the context, the Fcc handlers | reply, forward, resend, edit, save, send, switch the context |
| Command line | `mu/*.cc`, `lib/mu-bookmarks.cc` | options; files that are made | one command for each file, part, contact or result; an exit code |
| the rest | `guile/`, `toys/`, views in Emacs | none | bindings and demonstrations |

How they interact:

- The caller of `Indexer` (the command line, or the server) starts a job and polls
  `is_running()`. The scanner thread calls `handler()` for each entry; this pushes paths
  on `fq_`, asks the store for dirstamps, and sets them on leaving a directory. Workers
  pop paths, add the messages (and their contacts), and add workers when the queue is
  longer than the pool. The threads share `state_` (a plain enum), `workers_` and the
  queue; `lock_` guards calls from outside, `wlock_` guards additions to the pool, and
  nothing guards both.
- Every modification of the store counts towards a batch; at the limit the transaction
  is committed. An exception of Xapian cancels what was not.
- mu4e writes commands into a pipe and never waits. If there is no server it starts one;
  while the old one has the store open the new one cannot. Replies come in chunks; the
  filter evaluates all that are whole. Handlers change the headers by document id, and
  send further commands (a reply that was sent makes mu4e mark the original as answered,
  an index that is finished makes it search again and ask for contacts).
- Drafts are files like others, with documents: saving, sending and switching the
  context send `add`, `sent`, `remove` and `move`, and come back as replies that change
  buffers.
- Other programs rename, remove and deliver files between any two of these steps.

What is hard in this code, and what "correct" means for it:

| component | hard behaviour | correctness |
|---|---|---|
| Indexer | five kinds of steps interleave; `stop()` races with a scan, workers that add workers, and the end of the job | the pool is bounded; no message queued is lost or added twice; a job ends; `stop()` leaves nothing behind |
| AsyncQueue | notification after unlocking, time-outs at the same moment | atomic first-in first-out behaviour; no wake-up is lost |
| Store | batches, failing writes and commits, crashes, `update_message()` without the lock | a crash takes at most a batch; a file has one document |
| Indexing over time | dirstamps of whole seconds, set before the workers are done, jobs stopped and killed | a whole job finds everything whatever happened before; a lazy one is wrong only for known reasons |
| Contacts | workers and the server read and write one table, time stamps taken before the lock | the table does not depend on the order of additions; mu4e gets every change |
| The server process | chunks, two servers at a time, a sentinel that comes late, signals between a test and a read | commands in order, replies evaluated once and in order, each command answered |
| Server and mu4e | replies to several commands on their way, files renamed by others, errors halfway | headers agree with the store in the end, no message has two, moves lose no flags, what is shown is marked as read |
| Drafts | handlers for replies that find a buffer by its file, which others rename | what is sent is filed once and is no draft; the original gets its flag, and only then |
| Query, threads | duplicates, unreadable files, contradicting references | a readable message is found once; threads are forests that keep every message, listed in order |
| MIME parts | three walks over the same parts, with and without decryption, whose numbers must agree | a number means the same part everywhere; a forwarded message is complete; all text is indexed |
| Documents | everything is stored at least twice (term, value, words), cleaned and cut differently each time | what is shown can be searched for; file and document say the same |
| Languages | hand-written parsers with error recovery | what the grammar gives a meaning is what is found; what is dropped is known |
| Command line | loops over several items of which some fail | exit code 0 means that all was done |

`PROJECT.json` lists the components with their status, and each hazard at the line where
it bites with the properties that would catch it.

## The modules

| module | models | on top of |
|---|---|---|
| `Indexer` | the threads of an indexing job | |
| `BoundedQueue` | what the queue promises: an atomic bounded queue | |
| `AsyncQueue` | the queue with mutex, condition variables and time-outs | refines `BoundedQueue` |
| `Store` | transactions, batches, documents, crashes | |
| `LazyIndex` | jobs over a changing maildir, dirstamps, cleanup | extends `Store` |
| `Contacts` | the table of contacts and mu4e's copy | |
| `Threads` | containers of messages, their links, pruning, paths | |
| `Query` | the queries of a search and their deciders | extends `Threads` |
| `Maildir` | flags in file names, as operators | |
| `Server` | the server's commands on messages | extends `Maildir` |
| `Mu4e` | headers, marks, process filter; user; other programs | extends `Server` |
| `Composing` | drafts, sending, contexts, with the commands they need | |
| `ReplyChannel` | what mu4e may rely on when servers write replies | |
| `Process` | servers, pipes, filter and sentinel | refines `ReplyChannel` |
| `Tokenizer`, `Parser` | the query language | |
| `Sexp`, `Commands` | s-expressions; the command map, its check, mu4e's calls | |
| `Mime` | the walk over the parts of a message, as operators | |
| `Attachments` | views, extraction, forwarding, the cache | extends `Mime` |
| `Ranges` | dates and sizes, as operators | |
| `Documents` | files, documents, s-expressions, the search for a value | extends `Ranges` |
| `Scripts` | scripts: their descriptions, their list, which one a name means | |
| `CommandLine` | the command-line tool | extends `Scripts` |
| `IndexerProofs`, `AsyncQueueProofs`, `LazyIndexProofs` (with `Store`), `QueryProofs`, `Mu4eProofs`, `ProcessProofs`, `ComposingProofs`, `ContactsProofs` | theorems | extend the modules they are about |
| `MCIndexer`, `MCAsyncQueue`, `MCStore`, `MCLazyIndex`, `MCContacts`, `MCQuery`, `MCMu4e`, `MCComposing`, `MCParts`, `MCLanguages`, `MCCommandLine`, `MCMessages`, `MCDocuments` | symmetry sets and small values for TLC | |

The operators named `Bug_...` beside a definition are the same definition with a
plausible mistake in it. Nothing uses them; put in the place of the original, each makes
TLC report the property it is meant for, and so shows that the property can fail.

**Indexer.** Each thread has a program counter (`main`, `scanner`, `wpc`) and each
action is one step that the code's locks make atomic. `main` walks through `start()`
(`StartSpawn`, `StartScanning`, `StartScanner`) and `Private::stop()` (`StopScanner` to
`StopClearWorkers`). The scanner walks through `scan_worker()`: scan, drain, clean,
commit, leave; `ScanHandle` is `handler()` with the push. A worker checks `state_`, then
the queue, then pops, adds, and goes through `maybe_start_worker()` in three steps,
since the sizes that it compares before it has the lock may have changed. `pushed`,
`handled` and `dropped` are not in the code: they record what became of each path. The
queue is the atomic `BoundedQueue` that `AsyncQueue` is proved to implement. `ReadBefore`
is what is known of the order in which `readdir()` gives the files; the proofs are for
any, none included.

**AsyncQueue.** A push or pop is: look (under the mutex), perhaps sleep, be woken or
time out, take, unlock, notify. Threads that never slept may take the item first. The
answer each call gives is a variable, so that the refinement compares answers and not
only contents.

**Store.** `disk` is what was committed, `work` what the process sees. `Dirty` counts
and commits as `dirty()` does (raise, then compare with `>`). `remove_messages()` is a
loop, so `RemoveMessages` and `RemoveNext` are steps. `update_message()` takes no lock:
`UpdateMessage` writes and reads the counter and `UpdateCounts` comes later, with other
calls in between. A write or a commit may fail; `Commit` then leaves the store without a
transaction, as the code does. `Crash` goes back to `disk`. `onto`, `unsaved` and
`raced` are bookkeeping for the properties.

**LazyIndex.** The threads are merged as far as the order of their store calls allows:
the scan reads entries one at a time, workers add what was queued at any later time.
`EnterNewCur` is the decision to pass over a directory in a lazy job, `HandleFile` the
comparison of `st_mtime` with the dirstamp, `LeaveDir` `set_dirstamp()` with the time
that `stat` gave on entering. Times are seconds, in which files may come, change and go.
A write or a commit may fail, in any call of the store; what it takes with it is not
known (`Doubts`).
`missed`, `stale` and `cut` record when the dirstamps can no longer be trusted, so that
the properties can say exactly when.

**Contacts.** A worker makes a contact, with its time stamp, and adds it later (`Make`,
`Add`), so that workers overtake each other. `Collect` and `Answer` are
`contacts_handler`: it takes its own time stamp after it has gone over the table.
Servers are closed, which saves the table, or crash. mu4e's side is `Request`, which does
not wait for the answer to the one before, so requests and answers are sequences;
`Update`; and `StopMu4e`, which clears mu4e's copy and forgets the server whatever is on
its way (`proc`), while the filter of the old process goes on taking its answers.
`AfterReset` is the half-read answer that is lost with `mu4e~proc-buf`. `adds` and `late`
record what was added and what was being added while a request was handled.

**Query, Threads.** A search is one behaviour: `Init` takes what is in the store, which
documents match, and the flags; `step` says what comes next. `DecideLeader` and
`DecideRelated` are the two match deciders, one document at a time in any order, with
the memory they share (`messageIds`, `known`, `flags`). The loop of
`determine_id_table()` is `SetAside` and `AddMatch` for each match, in any order, and
then `LinkReference` for each reference and `LinkMatch`, so that the invariants hold
after each link. `Up` is the chain of parents as the smallest set closed under them:
with it the walk of `ur_parent()` is defined without recursion, and can be reasoned
about. `Prune` takes out one container, after its children, as the recursion does.
`Paths` gives the strings as sequences of digits and separators, with the padding of
`to_string()`, since the order of the results depends on just that; the radix is a
parameter.

**Maildir, Server, Mu4e.** A path is a record of maildir, base name, `new` or `cur`, and
flags. A command that takes several moves (marking all messages with a message-id) is a
`task` that goes on one message at a time, and other programs act in between; an error
ends it. Commands and replies are sequences. `Receive` moves a chunk of any length to
`mu4e~proc-buf`, and each handler in `mu4e-headers.el` and `mu4e-utils.el` is an action
that takes one reply. Emacs is single-threaded, so user commands wait for the filter.
Marks move, refer to documents, and are executed as one command each. `outdated` records
documents that change without mu4e being told (an indexing job does that), until the
next search. Searches match everything, and give the results in some order. That is the
widest case for the order of replies.

**Composing.** One message, the original, may be answered, forwarded or sent again, and
have a copy that mu4e does not know. A buffer is known by its file's path (`buffers`),
since that is how handlers find it. Each user command, each server command and each
reply is an action, with the pipe between them. References and recipients are computed
as the code does it, from addresses that have two spellings (`ReplyConstruct`). `lastId`
never falls: Xapian does not give an id twice. `handlers` counts how many Fcc handlers
are nested, which a failed send leaves behind.

**Process.** Bytes are those of a length cookie, of a form, or of the prompt that the
server prints when it reads a line. `stdio` keeps what is not flushed (`rest`); the pipe
gives it to Emacs in chunks of any length. `Filter` and `Evaluate` are apart, since an
error of a handler ends the evaluation (`Misread`, `Starved`). A server opens the store
(`Open`, which fails while another has the lock; `Gets` when none has), tests
`MuTerminate` (`Loop`) and reads (`Read`), so that a signal may come between the two.
Emacs runs `Sentinel` some time after a server died, and knows nothing of which. `opened`
records the order in which servers got the store, and `executed` which server executed
what.

**Tokenizer, Parser, Sexp, Commands.** The tokenizer and the s-expression reader are
folds over a text of characters that matter to them. A parsed query is what it finds
among a few messages; each error, warning and dropped token is part of the result.
`Meanings` is the grammar at the head of `mu-parser.cc` as a reference: all that a query
may mean. Calls are names with parameters whose values are of nine kinds, and `Reads`
says how each handler gets them.

**Mime, Attachments.** A message is a tree of parts; `Walk` is `mu_msg_part_foreach()`
with its options, and the views, the index, the extraction and the forward are different
uses of it, each with the options that the code gives it. `Attachments` has views,
embedded views, the map from numbers to parts, the cache of files, the policy of
decryption, and changes of the files and the key.

**Ranges, Documents.** Texts are short sequences of characters: letters in both cases,
blanks, and those that matter somewhere. A file is read field by field (`FileField`); a
document has values, terms and words at positions (`Document`); the four ways in which
Emacs is told of a message (`ShowHeaders`, `ShowView`, `ShowPath`, `Move`) read the one,
the other or both. `Finds` is the search for a value with the cleaning that the parser
does. Dates are six numbers, and a range is two of their texts.

**CommandLine.** A command line is a word, parameters, a format, options, and what is
wrong with it; `Reasons` gives the tests that refuse it, in their order, with error and
exit code. Then the command goes over its items, with files that another program takes
away (`Lose`), reads and writes that fail, and directories and links that are there or
not. What a format shows of an item is as many entries as the code writes for it, commas,
headers and summaries among them; `HandleError` is what `main()` adds about an error, and
a word that is no command may be the name of a script.

`Indexer`, `AsyncQueue`, `Store`, `LazyIndex`, `Contacts`, `Query`, `Mu4e` and `Process`
have a type invariant. All but that of `Query` are proved; that one holds in the
instance below. They are not among the runs' invariants.

## The runs

| run | expects | instance |
|---|---|---|
| `indexer` | pass | 6 messages, 3 workers of 4 identifiers, any number of jobs and stops |
| `indexer_liveness` | pass | 3 messages, 2 workers |
| `indexer_abort` | violation | 3 messages, 2 workers |
| `async_queue` | pass | 4 threads, 2 items, room for 2 |
| `store` | pass | 2 paths, 3 document ids, batches of 2, a fault |
| `lazy_index` | pass | a directory with 2 files, 3 jobs, 2 changes, 3 seconds, a fault |
| `contacts` | pass | 2 workers, 3 messages with 2 addresses, 2 requests on their way, a tick of the clock, a server that ends |
| `process` | pass | 3 servers, 3 commands and quits together, a fault |
| `session` | pass | 2 maildirs, 3 messages, 3 events, 2 marks |
| `query` | pass | 4 messages, 4 message-ids, references of up to 2, radix 2 |
| `languages` | pass | queries of 6 tokens, texts of 5 characters, calls, command lines |
| `messages` | pass | a draft, 4 steps; or 2 messages of 6 shapes, 3 commands, a change; or one of 73 files |

**indexer** checks `WorkersBounded` (two workers that decide at the same time to add a
third), `Conservation` (every queued path is in exactly one place), `NothingLost` and
`QuiescentAfterStop`. `max_workers_` is 3, so that two workers can both be at the test
with room for one: without `wlock_` (`Bug_SpawnLock`) both add one, and there are four. A
worker looks at the test when the queue is longer than the pool, so this takes three
messages on the queue and three popped, six in all; the fourth identifier shows that it
is the code, not the lack of identifiers, that bounds the pool. The directory has its
messages in one order (`MCReadBefore`): nothing tells them apart but that order, so it
stands for all others.
**indexer_liveness** checks that a job that a worker attends to ends (`JobEnds`), with
three messages and `max_workers_` 2.

**async_queue** checks `NoLostWakeup` and the refinement of `BoundedQueue`
(`ImplementsQueue`). With room for two and four threads there are sleepers at both ends
at the same time, and threads that barge in.

**store** checks `BoundedLoss` and `OneDocumentPerPath`. A batch of two is the smallest
where the limit is crossed in the middle of a `remove_messages()`; a single fault is
enough to lose the transaction for good.

**lazy_index** checks `WholeJobFindsAll` and `LazyCheckSound`. Three jobs are one that
is disturbed, one that relies on its dirstamps, and one that makes good. Two changes
suffice for a file that comes after it was passed and is edited in the same second.
Whether the worker adds before or after the dirstamp is set, and a kill between the two,
are among the interleavings, and so is a write or a commit that fails anywhere.

**contacts** checks `TableRight` (the table is what the additions say, in whatever order
they came) and `ComesNext` (what mu4e does not have will be in the next answer). Two
spellings of one address, the later one personal and recent, and another address that
comes before it in the alphabet make every test of the order matter. What the properties
compare are two times, so a tick suffices for earlier, equal and later; the theorem about
`ComesNext` is for any number, as for the other bounds. Two requests on their way are an
incremental one behind one for everything, or one sent before `mu4e~stop` and one after.

**process** checks `ExecutedInOrder`, `Implements` (the refinement of `ReplyChannel`)
and `Answered`. Three servers are needed for a quit that reaches a server that mu4e has
forgotten; three commands for one before, one after and a quit. A server that is started
and has not opened the store when the next one does still executes what it was sent,
after what the next one was sent: `Overtook` says just when. Payloads of one byte
make forms of three bytes that may be cut anywhere.

**session** checks, of the headers, `NoHeaderTwice`, `HeadersFresh`, `MoveKeepsFlags`
and `ViewMarksAll`. A session starts with one of two maildirs: a message and its
copy with the same message-id, or a message with an attachment. Moving point, marking,
the server and the filter are unbounded; `MaxEvents` bounds the commands of the user,
changes by other programs and failures together. Three are enough for two searches on
their way with a change in between, for a reply that is sent and the original then
renamed, and for a removal of one of two documents. The eight kinds of marks are in the
model; the run uses the two that move and remove.

**query** checks `FoundOnce`, `NoLoops`, `LinksKept` and `ThreadsListed` (what belongs
together is together, and the list is in the order of the threads). One family of
searches has three copies of a message, of which one may have no file, with a reply, all
32 combinations of flags and several sets of matches. In the other three or four
messages refer to each other, to themselves, and to a message that is not found, so that
there are empty containers at roots and in between, contradicting references, and roots
with several children. Three containers suffice for a loop and for the code's own
example of pruning. With radix 2 the paths need one to three digits, so that the edge
that the code has at 16 containers is crossed.

**languages** has four kinds of texts that are written step by step. Queries
(`ParsedAsWritten`): six tokens, so that each operator appears on both sides of another
and of a parenthesis; the first is any of 15, with ranges, expressions that match
nothing or are invalid, and unknown fields; those after it are operators, a word or an
expression that matches nothing, and the sixth is one with which a query can end. Texts
(`CutAsWritten`, `ReadAsWritten`): all of five characters, which is an escape inside
quotes with something before and after it, and an s-expression in a list. Calls
(`CallsTaken`): all that mu4e makes; and by hand, the required parameters with any
values, and then, as long as nothing is refused, one or two more. Command lines
(`ExitTells`, `OutputReadable`): two files, one or two options, one thing that is wrong,
a store that can be opened or not, a directory for links that is new or has old ones,
six contacts of whom three want one nickname, and a fourth has the one that is
made of it.

**messages** has three kinds of messages, to which different things happen. Drafts are for
`ParentFlagged`, `SentIsFiled` and `ReplyAsWanted`. The user does each kind of step once
at most, four in all (`MaxSteps`; five have been checked as well), with one draft at a
time: answer, save, switch the context, send; or forward, send, re-open the draft while
it is being sent, and switch. The original has a copy that mu4e does not know, or none.
Some 430 other originals, with all sorts of senders, Reply-To, lists, duplicates in other
spellings, and references that name the original itself or are more than three
(`MaxRefs`), get one answer each with every option. What is viewed is for
`AskedForIsGiven`, `ForwardKeepsAll`, `TextIndexed` and
`AttachFlagListed`: two messages, each any of six trees that between them have
every kind of part that the walk tells apart (parts without a name, with the same name,
messages in messages, encrypted, signed by PGP and S/MIME, with a disposition that is
neither attachment nor inline). Three commands are view, update and save; one
change is an edit, or the key that comes or goes. The policy "yes" is left out, since
"ask" with a user who always says yes is the same; with "no" the key starts out absent,
since nobody asks for it; and the tree with nothing to list, which is there for
`AttachFlagListed`, starts beside the usual one only. The last three, `ShownIsFound`,
`SameFromBoth` and `RangeIsMeant`, are about single messages: 73 files that differ from
a plain one in a field or two, with values that are longer than a term (`MaxTermLength`
is 5), numbers that are longer than theirs (`Width` is 3), blanks and punctuation; and
every pair of fifteen dates, and of ten sizes, around the edges of months, leap years and
units as a range (`Unit` is 10 and `ManualUnit` 9, for the 1024 of the code and the 1000
of the manual).

Bounds in the modules: `MaxId` (ids given out), `MaxFaults`, `MaxChanges`, `MaxJobs`,
`Stamps` (seconds), `MaxClock`, `MaxAdds`, `MaxRequests`, `MaxStops`, `MaxServers`,
`MaxCommands`, `MaxRefs`, `Searches`, `MaxMarks`, `MaxEvents`, `MaxSteps`, `MaxBuffers`,
`MaxTokens`, `MaxText`, `MaxParams`. `Indexer` and `AsyncQueue` have none beyond their
sets of messages, items and threads. Deadlock is checked for `async_queue`, `store` and
`query` (where a search that is done may stay so). In the others the system may stop: the
indexer is destroyed, or the bounded events have been used up.

The only violation that a run expects is that of `indexer_abort`; it is told below.

## Fairness

- `Indexer!FairSpec`: weak fairness of the caller inside `start()` or `stop()`, of the
  scanner, and of each worker. The operating system schedules threads, joins end when
  the thread has, and timed waits time out. Nothing makes the caller call anything.
- `Process!FairSpec`: weak fairness of each server's loop, of Emacs reading the output
  of each server, of each sentinel, and of the evaluation of what was read. A server
  runs when it has something to read, and Emacs calls filters and sentinels whenever it
  waits for input. The user, signals and crashes are free.

The others state safety only: nothing in the code makes anybody start a job or commit,
and a search is a sequential program whose loops are over finite sets; that it does not
stop halfway is the absence of deadlock.

## Refinement

- `AsyncQueue` implements `BoundedQueue` (`ImplementsQueue`; proved and checked): a push
  or pop takes effect in one step under the mutex, and its answer is right.
- `Process` implements `ReplyChannel` (`Implements`; proved and checked). The abstract
  channel has for each server the replies that mu4e has not evaluated. As long as there is
  one server, which nobody has asked to stop, they are evaluated in order, each once.
  While servers come and go some may be lost, and what is evaluated may be a mixture. The
  map takes the replies whose cookie is still somewhere in the buffer, the pipe, or stdio.

`Meanings` (grammar), `Latest` (contacts), `IsMeant` (ranges) and the parts of
`ThreadsListed` are reference definitions, with which what the code computes is
compared.

## Proofs

Checked by TLAPS for every value of the constants that meets the named assumptions:

| theorem | says |
|---|---|
| `IndexerProofs!TypeCorrect` | `Spec => []TypeOK` |
| `IndexerProofs!PoolBounded` | the pool never outgrows `max_workers_` |
| `IndexerProofs!StopQuiesces` | `QuiescentAfterStop`: when `stop()` returns nothing is left |
| `IndexerProofs!Conserved` | `Conservation`: a queued message is in one place, and one only |
| `IndexerProofs!NothingIsLost` | `NothingLost`: a job that ends by itself has added all, or has it in hand |
| `AsyncQueueProofs!TypeCorrect` | `Spec => []TypeOK` |
| `AsyncQueueProofs!Refinement` | `Spec => ImplementsQueue` |
| `AsyncQueueProofs!NoWakeupLost` | `NoLostWakeup`: enough threads are awake for what there is to take |
| `LazyIndexProofs!TypeCorrect` | `Spec => []TypeOK` |
| `LazyIndexProofs!LossBounded` | a crash takes no more than a batch and the modification in hand |
| `LazyIndexProofs!DocumentsUnique` | two documents for a file come only from a move onto it |
| `LazyIndexProofs!IndexTypeCorrect` | `IndexSpec => []IndexTypeOK` |
| `LazyIndexProofs!IndexingUsesStore` | `IndexSpec` implements `Store!Spec`, whose invariants hold of it |
| `LazyIndexProofs!WholeJobFinds` | `WholeJobFindsAll`: an undisturbed whole job makes good for all before it |
| `LazyIndexProofs!LazyCheckIsSound` | `LazyCheckSound`: a dirstamp means what the lazy check takes it to mean |
| `QueryProofs!LoopFree` | `NoLoops`: the parents of containers form no loop, whatever the references |
| `QueryProofs!LinksAreKept` | `LinksKept`: a link is kept until pruning |
| `QueryProofs!DecidedOnce` | `Covers(found)`, `Single(found)`: what `FoundOnce` asks, of the documents that the deciders let through, before threads and sorting |
| `Mu4eProofs!TypeCorrect` | `Spec => []TypeOK` |
| `Mu4eProofs!HeadersOnce` | `NoHeaderTwice`: no message has two headers |
| `Mu4eProofs!HeadersAreFresh` | `HeadersFresh`: when all is handled, headers show what the store has |
| `Mu4eProofs!MovesKeepFlags` | `MoveKeepsFlags`: moves start where the store says, and keep flags |
| `Mu4eProofs!ViewsMarkAll` | `ViewMarksAll`: what is shown is read, with all its copies |
| `ProcessProofs!TypeCorrect` | `Spec => []TypeOK` |
| `ProcessProofs!InOrder` | `ExecutedInOrder`: no command twice, none after a later one but by a server overtaken |
| `ProcessProofs!Shapes` | the output of a server is its own and whole while it runs, and so is the buffer when it is the only one |
| `ProcessProofs!Refinement` | `Spec => Implements`: pipes, buffer and filter are a `ReplyChannel` |
| `ComposingProofs!TypeCorrect` | `Spec => []TypeOK` |
| `ComposingProofs!RepliesAsWanted` | `ReplyAsWanted`: a reply goes to whom it should, and comes in its thread |
| `ContactsProofs!TypeCorrect` | `Spec => []TypeOK` |
| `ContactsProofs!TableIsRight` | `TableRight`: the table is what the additions say, in any order |
| `ContactsProofs!ContactComesNext` | `ComesNext`: a contact that mu4e lacks comes with the next answer |

What is assumed of the constants, besides that bounds are numbers: threads, workers and
the messages with contacts are finite sets (`ThreadsAssumption`, `WorkersAssumption`,
`ContactsAssumption`: counts are cardinalities); the order of addresses is strict and
total; what stands for "nothing" is none of the things it stands beside
(`NoneAssumption`, `LazyIndexAssumption`,
`ServerAssumption`); the flags that marks set are
flags of file names (`MaildirAssumption`, `Mu4eAssumption`: S, R, and F and T if the
user has marks for them); and the maildir that a session starts with is finite and has no
more files than there are ids. For drafts (`ComposingAssumption`) at least two references
are kept, and nil is neither a message-id nor a context. The theorems about them are for
originals with any addresses, and references that do not come twice (`Messages`):
`get_references()` (`mu-msg-file.cc:574`) drops doubles. With doubles,
`cl-delete-duplicates`, which leaves the last of each, would not keep the first reference.

The inductive invariants:

- *Pool.* `WorkersBounded` is not inductive: a worker at `spawn` adds a thread without
  looking again. `PoolInv` adds that whoever is at `spawn_test` or `spawn` holds
  `wlock_`, so there is one, and that at `spawn` there is still room. It also ties
  joinable threads to live ones, and items in hand to the `add` step.
- *Stop.* `ScanInv` says what can be true while the scanner is at each place: the queue
  holds something only before cleaning starts, `running_` only during the scan, and a
  scanner that is done has left `state_` Idle. `stop()` joins the scanner before the
  workers, so from then on nobody pushes, and a joined pool has no hand.
- *Queue.* The linearisation points are the steps under the mutex. `Inv` adds to the
  types that a thread that waits for room has an item.
- *Store.* `BoundedLoss` needs that the count in `dirtiness_` never lags behind the
  modifications by more than those of an unfinished update, on each way to count, fail
  and commit. `OneDocumentPerPath` must hold of `disk` too, since a crash or a cancelled
  transaction brings it back.
- *What became of a message.* `FateInv` is `Conservation` taken apart, since a prover
  cannot count over five variables at once: `Places` says that queue, hands, `handled` and
  `dropped` make up `pushed`, `Once` that no two of them share a message and none has it
  twice. Besides, what the scan has still to read was not queued before, and `dropped` is
  empty until the job is stopped.
- *Wake-ups.* `WakeInv` is `NoLostWakeup` with its counts as cardinalities, and inductive
  with the types: a push adds an item and a thread that will notify, a notification makes
  an alert thread of a sleeper, and a thread that stops being alert takes an item or
  leaves the queue empty.
- *Jobs over time.* `LazyInv` has seven parts. `JobInv` and `TimeInv` are the order of
  steps and of time stamps; `LastInv` and `DirInv` say what is true of a directory whose
  dirstamp is its time: each message in it is in the store, on the queue, in hand, or
  among the known exceptions; `FileInv` says it of a message older than the dirstamp.
  `FoundInv` is about the job that is running: what it has passed is in the store or on
  its way; `DoomedInv`, that a document whose file is gone will be an orphan. A write
  that fails ends all claims about the current job (`FailureKeeps`).
- *Replies on their way.* `NoHeaderTwice` depends on what is in the pipe and the buffer,
  however it is cut into chunks. `HeaderInv` takes the two as one sequence: two headers
  of one message in it have an erase between them, and a header of a message that is
  shown has an erase before it. A find appends an erase first and each id once
  (`FindGood`), no other command says anything of new headers (`Mute`), and a handler
  takes one reply, after which `ReplyTaken` has the rest in the same state. `TypeInv`
  adds to the types that point is on a header that there is, that replies are about
  messages with ids, and what a half-done command may count on (`TaskInv`): with it
  `MoveKeepsFlags` and `ViewMarksAll` are facts about single steps.
- *What the headers show.* `HeadersFresh` speaks of quiet moments only. `FreshInv` holds
  always: of each message that is not in `outdated`, the last word among the replies on
  their way, an erase included, has its path or says that it is gone, and if there is no
  word, its header has it. The server says of each change of a document one thing, which
  is true at that moment (`ServerTells`), and a handler makes the headers show what the
  reply that it takes says (`ReplyFresh`). For the removal of a header it takes
  `NoHeaderTwice`: one of two would stay.
- *Order of commands.* `OrderInv`: one server has the lock at most and it is the last that
  `opened` names (`LockInv`), servers are started in the order of their numbers
  (`StartInv`), and what is in the pipe of a server is in order, newer than what it and
  those it did not overtake have executed, and sent once (`PipeInv`).
- *Replies of the server.* A step of the filter is one of the channel only because of
  what can be in the buffer. `ShapeInv`: what comes from a server, in the pipe and in
  stdio, is its own; as long as it runs, these bytes are whole replies and prompts, the
  first perhaps begun before; and with what is in the buffer in front when it is the only
  process. So in calm times what is evaluated is one whole reply, the first, and `Misread`
  or a mixture comes only while servers come and go. The map picks cookies by their rank
  (`RepliesOf`), so that it can be cut where the bytes are cut: a chunk that moves to the
  buffer changes nothing, a reply that is taken off takes one, and what a crash takes leaves
  what `Remains` allows.
- *Drafts.* Whom a reply is for is settled when it is made, but `ReplyAsWanted` is about
  what is in a buffer and what was sent, after the draft was saved, renamed, opened again
  or taken from its thread. `DraftInv` says it of each message wherever it is: in a
  buffer, on the disk or sent (`HeadGood`); what a buffer was opened for limits what its
  message can be (`DraftGood`); and what went out is without references if they had to be
  removed (`OutGood`). What lists of addresses and references become is proved of
  `Picked`, which takes what it keeps by rank: it keeps the order, and each thing once if
  only one of each was to be kept (`ToFacts`, `CcFacts`, `AllReferences`). The invariant
  does not use that the user does each thing once.
- *Contacts.* `TableInv` says that the table, and the one that was saved, stand for the
  messages added (`StandsFor`): the count is their number, date and name are those of the
  latest. `ComesNext` speaks of every time stamp since which mu4e asks, has asked or will
  ask (`Stamps`: its own, those of requests and those of answers on their way), so it does
  not depend on which is handled first. `ComesInv` adds that all of them are of the past; a
  contact that mu4e wants and neither has nor is being sent is not older than any of
  them; and one being added is not older either, or is `late`. After `mu4e~stop` the
  claim rests (`proc`), until a server starts: the contacts it loads are newer than all.
- *Deciders.* `DecidersInv` follows the two queries. In the leader query (`LeaderOK`) each
  message-id that was seen is that of a document found, or of one without a file that
  was skipped. The related query starts from nothing but the memory: `RelatedOK` says
  that what the leader query gave (`Leaders`, told from the others by its flags) covers
  the matches, is in the threads that are looked for, and is found again once Xapian has
  asked; a document that is new to the related query has a message-id that is new too.
- *Threads.* `NoLoops` says that each set of containers has one whose parent is not in
  it. `LoopInv` adds that only containers in the table have parents, and that until
  duplicates are added the keys are message-ids. The heart is `LinkedNoLoops`: a loop
  that a new link closes would go through it, so all of the new parent's ancestors are
  in the loop, the root among them; but the only member of the loop that had no parent
  is the new child, so both had the same root, and `is_reachable()` would have said so.

Only model-checked: of a search, everything after the deciders and the links (so
`FoundOnce` and `ThreadsListed` of the sorted results): sorting and paths are recursive
functions, and what the results are is left to a library's sort; the languages, messages
and the command line. What a fold or a recursive function computes for every input
(parsers, the walk over parts) is an induction that these provers cannot do. Of drafts,
`ParentFlagged` and `SentIsFiled` are only checked, and hold under the bound of `Step`,
that the user does each kind of thing once. Both need it, so that there is no theorem for
every behaviour to prove: with the bound lifted, TLC finds a draft that is opened again
while it is being sent, and sent again. It may not be filed, since the handlers are used
up; and if the user asked for the draft twice and took away In-Reply-To in between, the
first sending is taken for a forward, the draft is removed, and the server, told of the
second, finds no file. The liveness properties
(`JobEnds`, `Answered`) stay with TLC in any case: the prover does not reason about
fairness and `ENABLED`.

## What the code does not keep

One run expects a violation, of a sentence in a header: `indexer_abort`. `stop()`
iterates over and clears `workers_` under `lock_`, while a worker adds to it under
`wlock_` (`mu-indexer.cc:189`). A thread that is added late is destroyed joinable, which
ends the process, where `mu-indexer.hh:76` says that `stop()` returns.

The following was met while modelling. The models do what the code does, and the passing
properties name these cases in their exceptions, or their comments.

*Indexing and the store.*
- A directory whose scan was stopped gets its dirstamp all the same
  (`mu-indexer.cc:154`), and lazy jobs then pass over what was not read; the manual
  (`man/mu-index.1:74`) only excepts messages that were edited (`cut` in
  `LazyCheckSound`).
- A file that arrives in the second of a dirstamp is not seen by a lazy job (`missed`).
- `stop()` clears the queue while the scanner is about to push. The workers may leave,
  and the scanner waits for a queue nobody empties (`mu-indexer.cc:311`); `stop()` joins
  it for ever. `QuiescentAfterStop` is about a `stop()` that returns.
- A job whose first worker runs before `start()` has set `state_` (`mu-indexer.cc:263`)
  may be left without workers, and then never ends (`Attended` in `JobEnds`).
- A commit that throws leaves the store without a transaction (`mu-store.cc:190`); later
  commits save nothing and say nothing (`intrans` in `BoundedLoss`).
- A count of `update_message()` that is lost in a race lengthens a batch (`raced`); a
  move onto a path that a stale document has gives one file two documents (`onto`).
- `hash_str()` (`mu-store.cc:272`) has its format the wrong way round: a key is a
  literal `016` and only 13 of the 16 digits.

*Contacts.*
- A contact that was made before a request and added after it keeps its older time stamp
  (`mu-server.cc:540`): mu4e may never get it (`late` in `ComesNext`).
- `mu4e~stop` clears the hash and the time stamp, but the old process keeps its filter
  (`mu4e-proc.el:271`): an incremental answer that comes after it makes a hash of some
  contacts with a recent time stamp. `mu4e~start` (`mu4e-utils.el:847`) then does not ask,
  since there is a hash; completion lacks the others until something else asks, which is
  an index that found something. The next answer is complete, since a server that loads
  its contacts gives them new time stamps (`proc` in `ComesNext`).
- Indexing a message again counts its contacts again, and `personal` is what the first
  message said.

*The server and mu4e.*
- An error from the server leaves the process filter by a Lisp error
  (`mu4e-utils.el:669`), and the replies behind it stay in the buffer until more comes
  (`failed` in `Answered`).
- The sentinel of an old server forgets the new one, and expects exit code 19 of a
  server that could not lock the store, which exits with `MU_OK`.
- `move` declares `:no-view` (`mu-server.cc:276`) but reads `:noupdate` (line 996);
  `:my-addresses` of index and `:skip-dups` of ping are declared and not read
  (`Forgotten`). nil is accepted for required parameters, though `mu-command-parser.hh`
  says otherwise. `( )` with a blank inside is not an s-expression to the reader.
- Headers of a second document that goes with the first stay (`outdated`). After a move
  a message that is shown decrypted is sent again without decryption (line 941).

*Drafts.*
- The parent's flag is for references with an `@` only. The comment of
  `mu4e~compose-set-parent-flag` has the originals also marked as seen, and a flag `F`;
  what it sends is `+R-N` and `+P-N`.
- Of a reply that was re-opened as a draft, and lost its In-Reply-To, the references
  stay, and the original is flagged as passed on (`ParentFlagged`, `ReplyAsWanted`).
- Sending a message again keeps its message-id: its parent is flagged again, a reply to
  the original renames the open draft, and a switch of the context is refused for it.
- A draft that is opened again while it is being sent, and then switched to another
  context, takes the sent copy to the drafts; one that is opened across a switch is left
  twice (`late` in `SentIsFiled`).
- A send that fails leaves its Fcc handler in place, and the next one calls it twice.
  `mu4e-sent-func` is global, and `mu4e-icalendar.el:182` sets it too. The Fcc folder is
  that of the parent's context, also after a switch.
- `cl-delete-duplicates` in `mu4e~draft-create-to-lst` is called for a result nobody
  uses.

*Searching.*
- When messages without a file are skipped, such a copy may hide one that has a file
  (`FoundOnce`); a threaded search that is to show duplicates and related messages shows
  one of the copies only (`mu-query-match-deciders.cc:184`), and not always the one that
  matched.
- `a and /x/`, where nothing matches the expression, finds all of `a` (`NoEmptyTree`);
  what follows a `)` without a `(` is dropped without a warning.
- K is 1024 (`mu-utils.cc:453`), where `man/mu-query.7:224` says 1000: sizes between what
  the two make of a bound are found or not against the manual (`UnitsDisagree` in
  `RangeIsMeant`). A size of more than ten digits is cut. A date before 1970 or after 2286
  as a bound finds everything, and the end of `today` includes the first second of
  tomorrow (`RangeIsMeant`).
- Subjects and names with punctuation between blanks are not found as they are shown,
  nor are tags with a comma, or what is longer than a term (`ShownIsFound`). A document
  has lists cut at commas that the file has whole (`SameFromBoth`). Runs of control
  characters are one blank in the one and several in the other.

*Parts.*
- `match_cid()` (`mu-msg-part.cc:919`) takes the parts whose content-id is different.
- `mu4e~view-attach-map` is called buffer local in a comment (`mu4e-view-old.el:361`)
  and is global: numbers may be those of another message (`asked.map` in
  `AskedForIsGiven`). Extraction inside an embedded message fails, since that has no
  document id. A cached file may be of an earlier state of the message (`asked.same`).
- Messages inside a message are not forwarded (`ForwardKeepsAll`), and an encrypted
  message with text only has the attachment flag with nothing to list
  (`AttachFlagListed`). A text that is neither plain nor HTML, and whose disposition is
  neither attachment nor inline (form-data, say), gives the flag (`mu-msg-file.cc:309`)
  and is not listed, and so does a signature of S/MIME (`mu4e-view-old.el:396`;
  `OnlyLibKnows`).

*Command line.*
- `mu remove` needs the file to be readable, though `man/mu-remove.1` says that it need
  not exist, and does not tell that the removal failed. `mu add` stops at the first
  message that cannot be added. `mu tickle` leaves the store with the old path.
- `mu cfind --personal` leaves out the personal contacts (`each_contact`), and `--after`
  looks at the time of the last change. Without a match `cfind` exits with 1, `find`
  with 4. Every exception becomes 1.
- An unknown option exits with 0, as may an error of `--exec` (codes of glib;
  `ExitTells`). `--exec` runs its command for "(null)" first and last; a JSON list whose
  last message is gone ends in a comma (`OutputReadable`).
- Old links stay when `prepare_links()` fails, and the exit code is 0. A part that could
  not be written leaves a file that is cut off. `--overwrite` puts parts with one name
  over each other. A signed part that gpg makes nothing of does not count in `mu
  verify`.
- `mu init` looks at the addresses when the old store is gone.
- The path of bookmarks under XDG (`mu-runtime.cc:50`) is that of the directory.

## What is not modelled

- Guile bindings, toys, vendored headers; what scripts do; the windows, keys and faces of
  mu4e, its views (except for the numbers of parts and what they send), org links, the
  speedbar, calendar replies.
- In the library: the header `List-Post` apart from its address, encodings and charsets,
  what GMime and GLib parse, logging, paths of the home directory, `.noindex` and
  `.noupdate`, symbolic links, the size limit, read-only and in-memory stores, the
  parameters of content types, dates of more than 14 digits or that `strptime()` cuts
  elsewhere than after two digits (a day from 40 on, say), wildcards and phrases in queries.
- In `Server` and `Mu4e`: the commands that do not change a message, progress replies of
  an indexing job, sorting, folding of threads, the history of queries, marks on
  regions, deferred marks, `mu4e-change-filenames-when-moving`. "Apply" when leaving the
  headers is `Execute` followed by `Search`. Crashes of the server are in `Process`, not
  in `Mu4e`: a restarted server may give an id that mu4e still shows to another message.
- In `Query`: limits to the number of results, sorting by other fields than the date,
  messages without a message-id, the flags for drawing threads.
- In `Composing`: the text of messages, citing, signing, completion; several originals;
  headers and drafts in one session.
- In `CommandLine`: the wording of messages and help, colours, the layout of formats, and
  how long things take.

## Plan

In order of importance; what is done is marked.

1. `Indexer` with its proofs (done).
2. `BoundedQueue`, `AsyncQueue`, the refinement (done).
3. `Store` with its proofs, and `LazyIndex` on top of it (done).
4. `Maildir`, `Server`, `Mu4e` (done); `Composing` (done).
5. `Threads`, `Query` with their proofs (done).
6. `Process` and what it implements (done), with crashes.
7. `Contacts` (done).
8. The languages (done): `Tokenizer`, `Parser`, `Sexp`, `Commands`, `Scripts`, `CommandLine`.
9. Messages (done): `Mime`, `Attachments`, `Ranges`, `Documents`.
10. Left: crashes of the server in `Mu4e`, with ids given out again; drafts together
    with the headers; an abstract specification of threads (the forest that the
    references demand when they agree).

Theorems still worth proving: what the links keep of the forest when the references
agree; that ranges mean what was asked (`RangeIsMeant`); and which drafts, opened again,
are the exceptions that `ParentFlagged` needs when the user does things more than once.

## How to run it

    tlc -workers 2 -config MCIndexer.cfg MCIndexer      # any run of PROJECT.json
    tlapm IndexerProofs.tla                             # the proofs of a module

`PROJECT.json` says for each run its module, configuration and properties, for each
property a mistake that breaks it, and for each definition the lines of code it stands
for.
