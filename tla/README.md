# Verification of the cloud computing lab

TLA+ specifications, TLC models and TLAPS proofs for the repository's programs: the
sudoku solvers of lab1, the HTTP server of lab2 and the two replicated key-value stores
of lab3, of which the one with two-phase commit, `lab3/src_2pc`, is the core.

## Inventory

### lab3/src_2pc: the two-phase commit store

| part | state | operations |
| --- | --- | --- |
| `Coordinator` (one process, one thread) | `participantAddr[].vaild`; per request, as locals: the sockets, the number of living participants, the transaction id, the select set, the timeout counter, the responses, the decision | `startup` accepts one client at a time; `handleSET`, `handleDEL` run both phases over all participants; `handleGET` asks one participant after the other; `waitForPrepared`, `waitForCommitOrAbort` are select loops with resend, reconnection and eviction |
| `Participant` (one process each, one thread) | `phase`, `id`, `db`, `operationLog`, `rollbackLog`, `lastResponseMsg` | `handleConnection` serves one connection at a time; `handlePreparePhase` applies the write at once and logs the way back; `handleCommitOrAbortPhase` ends the transaction; `rollBack` undoes it |
| `MessageProcessor` | none | builds and parses the text messages |

They interact over TCP only. The coordinator opens a connection per participant and
transaction, sends PREPARED-REQUEST, waits, sends COMMIT or ABORT on the same
connection, waits and closes. A participant accepts connections into the kernel's
backlog and serves them one after the other, so requests of a killed coordinator are
handled, late, before those of its successor. Nothing is written to disk.

What is hard: the coordinator is killed between any two sends; participants are killed
and restarted empty; connections are reset or links go dead between any two messages; a timeout
races with an answer; retransmissions are handled twice; transaction ids may repeat.

### The other programs

| part | state and operations | what is hard |
| --- | --- | --- |
| `lab3/src_raft` (`Node`) | role, `currentLeader`, votes, `kvdb`; four threads (accept loop, election timer, timeout handler, heartbeats) | elections without terms, messages out of order, thread objects assigned twice, replication messages that drop fields |
| `lab1/src/Sudoku/3.cpp` | three queues with mutex and condition variable, done flags, four threads | lost wakeups, an unprotected answer queue, a file that is missing, termination |
| `lab1/src/Sudoku/DLX.h` | the four-way linked matrix of one puzzle; `build`, `insert`, `remove`, `recover`, `dance` | every removal has to be taken back exactly, in the reverse order, after any failed branch |
| `lab1/src/Sudoku/TearcherCode` | global board, list of blank cells, cache of candidates; four solvers behind one `main` | guesses taken back from the cache, swaps in the list below running activations, globals that are used again for the next puzzle |
| `lab2` (HTTP server) | `main` accepts, one thread per connection reads once, answers and closes; a heap cell hands the descriptor over; static tables | descriptors and heap blocks that are used again at once, reads that mix requests, text left in a read buffer, paths longer than their array, the descriptor and thread limits, clients that leave or are silent |
| `lab1/src/Sudoku/DLX.cpp` | job queues with semaphores | unfinished: its workers are commented out |
| `lab1/src/3.cpp`, `lab1/src/DLX.h`, `lab3/src` | earlier versions | superseded |
| test scripts, data | given by the course | not part of the programs |

How the parts of `src_raft` interact: a connection carries one message; the accept loop
of a node serves one connection after the other, its three other threads only send. The
threads share `currentState`, `currentLeader`, `candidateVotenum` and `electionTimeout` without
a lock. Nothing is written to disk.

What makes the components correct:

* participant: prepare and abort never disturb the decided data, a commit applies
  exactly the prepared write, a retransmission changes nothing;
* two-phase commit: writes are all or nothing, a success is true everywhere, the wait
  loops end, nobody stays in doubt, the client sees one store;
* Raft nodes: the four threads of a node agree about its role, votes are not made up,
  somebody leads again after the leader died, no process stops by itself, replicas hold
  the same data;
* the sudoku pipeline: every line is solved, and printed once and in order as long as the
  unlocked queue of answers is whole; all threads end unless a wakeup is missed or that
  queue is torn, in the places where the lock is missing;
* the sudoku solvers: what can be solved is solved, what cannot is rejected and leaves the
  board as it was; caches, lists and links mean what they mean after every step back;
* the HTTP server: each request is answered, whole and in order, whatever other clients do,
  and as documented where the code does not contradict its README; no descriptor or cell
  has two owners or none.

## Modules

| module | models | state |
| --- | --- | --- |
| `StoreRequests` | client requests, what they mean for one store, the answers | none |
| `ClusterMessages` | the messages of the two-phase commit | none |
| `AtomicStore` | abstract: what a client is promised, one store with atomic writes | `store`, `request`, `outcome`, `reply` |
| `PreparedStore` | abstract: what a participant promises, a stable store and at most one prepared write | `stable`, `pending`, `answer` |
| `ParticipantHandlers` | the handlers of `Participant.cpp` as functions of the object's fields | none |
| `Participant` | one participant under every message a coordinator can build | `part`, `running` |
| `TwoPhaseCommit` | coordinator, participants, connections and failures composed | see below |
| `RaftStore` | the nodes of `src_raft`, their threads, connections and the client | see below |
| `SudokuPipeline` | the threads of `Sudoku/3.cpp` with their queues, locks and condition variables | see below |
| `SudokuBoard` | cells, neighbours and what a solution is | none |
| `SudokuAnswers` | abstract: what every solver promises | `puzzle`, `board`, `verdict`, `trusting` |
| `SudokuSearch` | the recursion that the solvers have in common, as a stack of frames | `solver`, `puzzle`, `board`, `frames`, `mode` |
| `Backtracking` | the solvers of `sudoku_basic.cc`, `sudoku_min_arity.cc` and `sudoku_min_arity_cache.cc` | and `spaces`, `occupied`, `arity` |
| `DancingLinks` | the solvers of `Sudoku/DLX.h` and `sudoku_dancing_links.cc` | and `links`, `built` |
| `SudokuSolvers` | the programs that give one puzzle after the other to a solver | all of these |
| `HttpRequests` | the requests of lab2's clients, with paths as sequences of the words that are told apart | none |
| `HttpDocumented` | abstract: the answers of the tables in section 3.7 of lab2's README | none |
| `HttpAnswers` | what `get_method` and `post_method` answer, and as what a read is parsed | none |
| `HttpServer` | `main`, the threads, descriptors, heap cells and the clients | see below |
| `MC...` | the constants of the runs | none |
| `ParticipantHandlers_proofs` | lemmas about requests, messages and the participant's handlers | none |
| `Participant_proofs` | theorems about one participant | none |
| `TwoPhaseCommit_proofs` | theorems about the composed system: its types, counters and data; the agreement of its participants | none |
| `RaftStore_proofs`, `SudokuPipeline_proofs`, `HttpServer_proofs` | theorems about these components | none |
| `SudokuSolvers_proofs` | theorems and lemmas about the three backtracking solvers | none |
| `DancingLinks_proofs` | the same for the two dancing links solvers, and the theorems about all five | none |

`Participant` and `TwoPhaseCommit` share `ParticipantHandlers`, so what is proved of one
participant is about the handlers that the composed system runs. `AtomicStore` is the
abstract specification of both stores.

### ParticipantHandlers and Participant

`part` is the record of the object's fields. `rollbackLog` is a function from the keys a
transaction changed to their old values: the code pushes at most one entry per key, so
the order of the entries does not matter. `operationLog` is the request and the keys
whose entry ends in `ACK`. `handlePreparePhase`, `handleCommitOrAbortPhase` and
`rollBack` have the names of the code; `PhaseOne` and `PhaseTwo` are the two branches of
the loop of `handleConnection`, and the result `loop`, `return` or `shutdown` says how
the loop goes on (another message, return 1, return -1).

### TwoPhaseCommit

| variables | code |
| --- | --- |
| `pc`, `idx` | where the coordinator is, and the index of the loop it is in |
| `op`, `tid`, `sock`, `watch`, `alive`, `replied`, `timeout`, `response`, `decision`, `first` | the locals `split_message`, `id`, `participantSocket`, `allFdSet`, `aliveParticipantCount`, `preparedCount`/`finishedCount`, the timeout counter, `response`, `prepareResponse`, `response_split_msg` |
| `valid` | `participantAddr[i].vaild` |
| `link[p]` | the connections `p` still has to serve, in accept order; each with the messages under way to `p` and whether its other end is still open |
| `toC`, `eof` | what is under way to the coordinator's socket, and whether that is closed at the other end |
| `part`, `up`, `linkUp` | the participants' objects, processes and network links |
| `store`, `outcome`, `committed` | history: the decided data, the answer it owes, the ids decided to commit |

Every `connect`, `send`, `recv`, `select` timeout and return of the coordinator is an
action of its own, so a crash or a failure fits between any two of them:
`ConnectNext` (a turn of `connectAllParticipants`), `SendNext` (a turn of the three send
loops), `BeginWait`, `ReceivePrepared`, `ReceiveDone`, `ConnectionLost`, `Timeout` and
`LateTimeout` (the wait loops), `Decide`, `FinishWrite` (`handleSET`, `handleDEL`),
`AskNext`, `SkipNext`, `ReadFailed`, `FinishRead` (`handleGET`). A participant reads a
message and answers it in one step (`ParticipantReceive`): nothing else can reach its
state in between, and a crash in between is the same as one before it with the reply lost.

Abstractions:

* A `recv` returns what has arrived, any number `n` of messages, of which the code
  interprets the first only: the others are lost with it, as in the code.
* A timeout is free (`Timeout`) when nothing that is under way would end the wait, and
  otherwise counted (`LateTimeout`, bounded by `MaxLate`): it stands for a slow
  participant or network.
* A connection that is reset or whose link is down may lose a suffix of what was under way.
* `accept` never fails and `listen`'s backlog is not bounded; text framing and word
  splitting are left out, also the case in which a message fills the 512-byte buffer.

### RaftStore

| variables | code |
| --- | --- |
| `node[n].state`, `.leader`, `.votes`, `.heard` | `currentState`, `currentLeader`, `candidateVotenum`, `electionTimeout` |
| `node[n].main`, `.timer`, `.asks`, `.beats` | where the accept loop, the timer thread, the election thread (its loop index) and the heartbeat thread are |
| `kvdb[n]`, `up[n]` | the map, and whether the process runs |
| `inbox[n]` | the connections `n` has to accept, each with its message |
| `client`, `answer`, `reply` | the client's request with its redirections, what was sent back to it, what it last got |

`sendLeaderInfo`, `sendCommitinfo`, `handleCommitRequest`, `handleHeartBeat`,
`handleRequestVote`, `handleRecvVote`, `becomeCandidate`, `sendRequestVote` and
`SendHeartBeat` are the code's functions, one send per step where they loop over the
nodes. The function `becomeLeader` writes the role, `currentLeader` and the heartbeat
thread without a lock, while the timer and the election thread read and write the role: it
is three steps, `becomeLeader`, `nameLeader` and `startHeartBeat`, between which anything
else may happen (`Naming`, with `main` at `leading` and `named`). `startHeartBeatAgain` is
the third one with a thread object that is joinable, which terminates the process.
`CloseAgain` is the second `close` of a descriptor and `LoseRequestVote` what it may do to
a socket that another thread has just opened.

Abstractions:

* The unlocked fields are read and written atomically and in program order; values that
  the code reads uninitialised (`candidateVotenum` of a process that was never a
  candidate) are a nondeterministic outcome (`Counts`).
* Time: a timer expires freely when no leader beats or is about to, and nothing is under
  way that would restart it (`Quiet`), and otherwise as a late expiry, bounded by `MaxLate`.
  This is justified by 20 ms between heartbeats against periods of 800 to 1400 ms.
* At most one heartbeat waits at a node: a second one sets the same flag.
* A key is a word and a value is a sequence of words, because the missing key of the
  COMMIT message makes words of values into keys.
* A command that is neither SET, GET nor DEL (`other`) is in the model and the proofs, but no
  run sends one.

### SudokuPipeline

| variables | code |
| --- | --- |
| `pc` | where each of `pre_func`, `input_func`, `work_func` and `output_func` is |
| `queue["input"]`, `queue["work"]`, `queue["output"]` | `queue_of_filename`, `question_of_sudoku`, `answer_of_sudoku`, by the thread that pops them |
| `done["pre"]`, `done["input"]`, `done["work"]` | `read_file_done`, `read_question_done`, `work_done`, by the thread that sets them |
| `holder` | the owners of `filename_lock`, `input_question_lock`, `output_mutex` |
| `typed`, `terminated`, `stdin` | standard input: its names, whether the last one ends a line, what is left to read |
| `file_name`, `file`, `line`, `str` | the locals |
| `printed` | standard output as long as the queue of answers is whole |
| `torn`, `spoiled`, `crashed` | whether that queue was torn, how much was printed since, whether the process ended over it |
| `missed` | history: who was notified between its last check and its sleep |

`wait` is a step for each thing it looks at: whether the queue is empty (`Look`), whether the
producer is done (`ReadFlag`), then the release of the lock (`Sleep`) and the wakeup. A flag
or an answer that comes without the lock fits between any two of them. `notify_one` reaches
a consumer that sleeps, and nobody else. `output_func` asks for an empty queue once more
before it leaves its loop (`3.cpp:129`); a compiler may take the look of the predicate for
this one, as g++ does with -O2, since nobody holds the lock, and then the answers that
were pushed after the first look are left behind. `ReadFlag` has both outcomes.

The queue of answers is pushed without its lock; a `std::deque` that has to grow its index
(`BeginGrowing`) while the other thread pops may be torn (`PopAnswer`). The program goes on
all the same: from then on the queue looks empty or not as it likes (`Unclear`),
`output_func` prints answers a second time, leaves some out or prints other memory
(`PrintSpoiled`), or the process ends over it at any moment (`Crash`). What it prints then
is not a function of anything, so `spoiled` only counts it. The name that ends the input
without a newline is dropped, because `cin.eof()` is already true (`EndOfInput`).

### The sudoku solvers

`frames` is the stack of activations of the recursive function, and a step is what one
activation does between two calls or returns: `ChooseSpace`, `Hold`, `Unhold`,
`OutOfGuesses`, `FoundLastSpace` in `Backtracking`; `ChooseColumn`, `TryRow`,
`TakeRowBack`, `OutOfRows`, `NoColumnLeft` in `DancingLinks`, after `BuildHeaders`,
`BuildRow` and `StartDancing`. `links` has the arrays of `DLX` (`L`, `R`, `U`, `D`,
`siz`, `col`, `row`, `tot`); the pointers of `Dance` are the same functions. Both
solvers share `Cover` and `Uncover` (`remove` and `recover`), which go through rows and
columns in the order of the code, and differ in how they insert nodes, which columns and
rows they build, and when they stop looking for a smaller column. `Box` is three in the
code and a parameter here.

### The HTTP server

| variables | code |
| --- | --- |
| `main` | whether `main` is at `accept` or at `pthread_create`, and its `clinet_fd` |
| `cell` | the heap cells that hold a descriptor for a thread |
| `fdOf`, `backlog` | the descriptor table and listen queue of the process (kernel) |
| `thread[t]` | a call of `server`: where it is, its descriptor, the file it has open, the outcomes of the requests still to be answered, what its `readbuffer` holds from before |
| `leftover`, `damaged` | the heap: what freed read buffers hold of POST requests, and whether something was written beyond an array |
| `plan`, `where`, `inbox`, `sent`, `closed` | the clients and what is under way to the server |
| `taken`, `got`, `confused` | history: what the one read returned, the parts of answers that arrived, whose read met leftovers |

`Accept` and `CreateThread` are the loop of `main`, with `EndWithoutDescriptor` and
`EndWithoutThread` for its two ways out. `Start`, `Read`, `MeasureFile`, `WriteHeaders`,
`ReadFile`, `WriteBody` and `Finish` are the steps of a thread; the open files of
`get_file_length` and `echo_back` take descriptors from the same table.

*Requests.* A path is the sequence of its words (`HttpRequests`), so that `strstr` for a word
(`Contains`) and the regular expression for a query, which are not anchored in the code,
find them anywhere. `get_method`, `turn_to_api`, `post_method`, `search`, `echo_back` and
`get_status_of_the_file` are functions of the code by the same names. `HttpDocumented` shares
nothing with them but the requests: the types, the objects of `data.json`, the form of a
query and what is well formed are read from the README's tables.

*Reads.* `Pending` says what `server` makes of one read. Without POST anywhere in it, the
requests are parsed one by one (`OneByOne`). With POST anywhere, in a method or a path, the whole
buffer is parsed as one request (`ParsedAsOne`, `AsOne`), and there is one answer at most. A
request of another method has no headers that `http_request_parse` can do without: `sscanf` of
a null pointer ends the process (`Fatal`, `Crash`). A path that does not fit the 20 characters
taken for it, with `./static` before it where the code copies it, is an `overflow`: the request
is answered, and from then on the process may end at any moment (`damaged`,
`EndByOverflow`). A read buffer is neither cleared at first nor terminated after the read,
and the POST branch does not clear it before it is freed: `strstr` may find in it what an
earlier POST left behind the end of the read (`leftover`, `Kept`, `Stale`), and the client
whose read this happens to is `confused`.

*Abstractions.* A request arrives whole, with at most nine requests in one read
(`MaxRequests`; `request_arr` has ten places, one of them for a stale text), of which stale
text adds one at most. The content types and bodies fit the arrays for them, files fit
the 2048 bytes of `reqbuf`; the one path of its own that the server copies and that does not
fit, `./data/not_found.json`, answers searches, whose paths never fit either. What
an overflow destroys is not followed: it either has no effect on the answers of the run or
ends the process. `write` is never partial; a thread's writes of one status line and its
headers are one step, and so are the `close` and the `free` at its end: nobody reads the
cell after the first line of the thread, so that no other thread can tell whether the one
is given back before the other. Object numbers are small. `accept` takes its descriptor when
it returns; a kernel that reserves one while it waits leaves the files one less.

## What is checked

| run | instance | shows |
| --- | --- | --- |
| `participant` | 2 keys, 2 values, 2 ids, every message | the logs record the prepared write, a resent message is harmless, the participant implements `PreparedStore` |
| `participant_failures` | 2 participants, 2 keys, 2 values, 2 requests, one crash, one reset, two dead links, ids may repeat | counters match sockets; only decided writes commit; participants in service have converged between requests; the client sees one store |
| `coordinator_crash` | the same keys and values, 3 requests, one crash of the coordinator, one of a participant, one reset, distinct ids | an acknowledged write is in effect at every participant in service; no participant shuts itself down |
| `answers` | 2 requests; any two of a crash of the coordinator, a crash and a restart of a participant, a reset and a late timeout; fair | every request is answered, only writes decided to commit take effect |
| `raft_calm` | 3 nodes, 2 requests (SET, GET, DEL), any one node killed, timers that expire only in silence, fair | until node 0 is killed clients see one store and the followers agree; afterwards a leader is elected, a candidate becomes the leader, every request ends, no process stops by itself |
| `raft_elections` | 3 nodes, any one killed and perhaps restarted, one late expiry, one lost vote request | threads agree about the role at every step of becoming the leader, votes are accounted for, one redirection suffices |
| `late_acknowledgement` | 2 participants, one request, 2 late timeouts | violated: see findings |
| `raft_replicas_differ` | 2 nodes, one request | violated: see findings |
| `raft_two_leaders` | 3 nodes, node 0 killed and started again | violated: see findings |
| `sudoku_pipeline` | up to 2 names of 2 files with 1 and 2 lines and a name that cannot be opened, one spurious wakeup, one print from a torn queue, fair | until the queue of answers is torn they come out in order, and all but those pushed after its last look if `output_func` ends; a sleeping thread with something to do is about to be woken or was missed; what is queued is read and solved; the program ends unless a wakeup was missed, a file is missing or the queue is torn |
| `sudoku_solvers` | all five solvers, boards of 4 by 4, 268 puzzles in any sequence | the cache agrees with the board, the list of blanks with the activations, the links with the rows that are left; a failed search leaves no trace; every solver implements `SudokuAnswers` |
| `http_server` | 3 clients with 3 plans of requests, 2 descriptors, 2 threads that are sure to start, one client that leaves, fair | answers come whole and in order, and are the documented ones unless the code contradicts the README for that request; a closed connection was answered; descriptors and cells have one owner; files can be opened while half of the descriptors are free; a client that sends and stays is served |

Why the bounds are enough for what the runs are meant to show: two participants are the
fewest that can disagree; two requests let one meet what the previous one left behind
(phase 2, an evicted participant, a connection not yet served), and three let the request
after a coordinator crash be followed by another; two keys and two values tell an
overwritten, a deleted and an untouched key apart; the failures are placed between any two
steps, and one of each kind gives every pair of failures. Two dead links in
`participant_failures` are what it takes to evict both participants in one timeout.
`ResendLimit` is 3 as in the code, and 1 where a late timeout is to race with an answer,
since the number of resends adds states but no new interleaving of the last one. Three
Raft nodes are the fewest whose election needs a message; with one of them killed there is
one follower left, so that `FollowersAgree` compares two only while all live (the theorem
about it is for any number). The clients go to node 1 where
there are elections: it redirects them while it follows, which provokes the second close. Keys,
values and ids are only compared by the two-phase commit, so their permutations are
symmetries in its runs without fairness; runs with liveness use no symmetry. In `answers`
`MaxFaults` lets any two faults happen in one behaviour, of every kind but dead links,
which `participant_failures` has.

In the pipeline two names and a file with two lines let every thread meet its successor
both busy and asleep, and a second file, line or answer come after a wakeup. The solvers
do not know the size of a box, except through the neighbours; on four by four the
puzzles are chosen so that each thing happens: puzzles with one, several and no solution,
clues that clash, an empty board, and four boards on which a links solver fails with the
first of two rows, so that rows are taken back in the middle of the search. One print from
a torn queue (`MaxSpoiled`) is enough, since it leaves nothing behind that a second one
could meet. Three clients with two descriptors and two sure threads make the HTTP server
run out of either, reuse both, and have a third client wait. One plan has two GET requests,
one of them a search that overflows its array, and an upload; one an echo of malformed data
and the page `403.html`, which the README wants served otherwise; one a POST and a GET that may
come in one read or in two, and a DELETE. In each a third client is silent, and reads of the
others may find what a POST left behind.

Fairness: the coordinator is one loop and a participant is another; a process that can go
on is scheduled in the end (`WF` on `CoordinatorStep` and on each `ParticipantStep`). For
the Raft nodes weak fairness is assumed of each thread (`Accept`, `Timer`, `Election`, each
`SendHeartBeat`) and of the client. No crash, restart, loss or late timeout is fair.
The threads of the pipeline are fair each; weak fairness suffices because a lock that is
wanted is only taken finitely often by others. A solver is a single thread that never
waits. In the HTTP server `main` and each thread are fair, and no client is: those of
whom something is promised are the ones that have sent everything and stay.

Deadlock is checked in the two-phase commit runs (the coordinator can always go on, and
`ClientStops` marks the bound on requests). The Raft store may come to rest, with all nodes
but one killed and no request left, the single participant ends after a shutdown, the
pipeline ends and may also hang, and the HTTP server is at rest without clients: these
configurations say `CHECK_DEADLOCK FALSE`. The solvers are checked for deadlock
(`Stopped` is the failed assertion).

## Findings

* `Coordinator.cpp:393` takes any message of phase 2 for DONE. A PREPARED that answers a
  resent request is counted, the socket is closed, and a COMMIT that was read in one
  `recv` with the resent request is lost: the client gets `+OK` while one participant
  never commits (`late_acknowledgement`).
* `Node.cpp:253` leaves the key out of the COMMIT message, so the followers store the
  first word of the value as the key (`raft_replicas_differ`).
* `Node.h:29` makes node 0 the leader whenever it starts, also when another node was elected
  because it was dead; from then on two nodes lead (`raft_two_leaders`), and node 0 is the
  centre from the start. `labDescription/README.md:272` and 449 say that there is one leader,
  302-304 that no server is set as the centre in advance, and `raftlog.md:7` that all nodes
  start as Followers.

The models show more, for which no run is kept:

* `Participant.cpp:93` rolls a prepared transaction back when the next one arrives. If the
  coordinator was killed between two COMMITs, one replica has the write for good and the
  other does not, against `labDescription/README.md:51`; this is why
  `ConvergedWhenIdle` is checked with a coordinator that stays up;
* `Node.cpp:298`: with four or more nodes a leader gets votes after the one that made it
  the leader, and the second assignment to `heartbeatThread` ends it
  (`NodesStopOnlyWhenKilled` fails for four nodes);
* a coordinator that gives a slow participant up in phase 1 commits without it (two-phase
  commit with those who are left; `OnlyDecidedWritesCommit` is about participants in service).
  Such a participant keeps older data, and a coordinator that is started again puts it back
  into service as it is (`Coordinator.cpp:229`), since `vaild` is only in its memory;
* a restarted participant is empty, and a coordinator that has not noticed, or was
  restarted too, reads from it (`labDescription/README.md:437`);
* with repeated ids and a coordinator crash, a participant takes a new request for a
  retransmission of the one it holds prepared;
* Raft: two nodes may lead after a late timer, too; clients of a follower are redirected to
  node 0 after it died (`Node.cpp:116`), since followers never learn the new leader, so that
  a client of such a node is never served although there is a leader; with four nodes half of
  them suffice for a leadership; a command that is neither SET nor DEL makes the followers
  delete its second and later words; a vote meant for a process before its restart can
  make the new process a leader whose timer runs, and then a candidate that redirects
  clients to itself;
* the sudoku pipeline may sleep for ever after any of its unlocked flags or pushes
  (`3.cpp:50`, `82`, `114`, `119`), and does whenever a file is missing (`3.cpp:67`);
  the answers that are then in the queue are never printed. The push of an answer without
  `output_mutex` (`3.cpp:114`) may tear the deque, after which answers are printed twice, left
  out or replaced by other memory, or the process ends; and answers pushed between the last
  two looks of `output_func` (`3.cpp:128`, `129`) are left behind where the compiler merges
  these;
* the backtracking solvers do not look at the clues: when clues clash they may fill the
  board, and `TearcherCode/main.cc:43` stops the program at its assertion, where the
  other puzzles without a solution are reported with "No";
* lab2, against the tables of its README (`HttpServer!Contradicted` has these by name, and
  `HttpReadmeIsContradicted` proves it of 403.html, 502.html and uploads): a page whose name
  contains 403, 404, 501 or 502 is served with that status (`libget.c:34`), for which
  `lab2/README.md:265` has 200; any path that contains `api` is taken for an API path
  (`libget.c:154`); files of other types are served with a type of the code's own, where any
  other path is an error, and so are directories, with an empty body (`libget.c:76`); a query
  or a body is accepted when the documented form occurs anywhere in it (`libget.c:105`,
  `libpost.c:19`); an echo has the type that the client sent (`libpost.c:32`); malformed
  uploads are echoed (`libpost.c:41`) where `lab2/README.md:379` has `error.json`; a request
  of another method ends the process (`libhttp.c:35`) where `lab2/README.md:401` has
  `501.html`; and a GET whose path contains POST is parsed as one;
* lab2, what memory does: a read with a POST among several requests gets one answer for all of
  them at most (`main.c:30-34`); `malloc(20)` for a path (`libhttp.c:28`) is overflowed by
  every documented search and by every file whose path with `./static` before it has 20
  characters or more; a read buffer is not cleared before it is used or after a POST
  (`main.c:25-34`),
  so that a later read in the same block may be parsed with what an earlier client sent;
* lab2, limits: a request that arrives after the one read is not answered (`main.c:29`);
  threads are neither joined nor detached, so that `pthread_create` fails in the end and the
  process exits with everybody's answers (`main.c:159`); `accept` at the descriptor limit
  ends it as well (`main.c:147`); so may SIGPIPE when a client has left; a file that cannot
  be opened at that limit is answered with length 0, or with its length and no body
  (`libget.c:69`, `76`).

## What is proved

A theorem holds for every value of the constants that the named assumptions allow, so for
every number of requests, crashes and late timeouts, unless it has hypotheses; these are
part of its statement and given here. Each invariant was checked by TLC before it was
proved. The last step of each theorem is the usual one: the initial states satisfy the
invariant, every step preserves it, and it implies the property.

### One participant (`Participant_proofs`, on `ParticipantHandlers_proofs`)

* `ParticipantTypeOK`, `ParticipantRecordsPreparedWrite`: the invariant `IInv` is
  `TypeOK /\ PreparedWriteIsRecorded`. Type correctness alone is not inductive enough for
  the refinement: a COMMIT must know that `db` is the stable store with the prepared write
  applied. The lemma `UndoApply` says that undoing with the entries that
  `handlePreparePhase` pushes restores the store, and the lemmas about the handlers carry
  it through each branch.
* `ParticipantResendIsHarmless`: the second copy of a message finds its own id, so that
  the handler repeats `lastResponseMsg`; one lemma per kind of message.
* `ParticipantImplementsPromise`: `Spec => PreparedStore!Spec` under the mapping of
  `Participant`, by showing under `IInv` that every message is a step of the abstract
  store or a stutter.

### Two-phase commit

Three invariants, each resting on the one before it.

* `TwoPhaseCommit_proofs`, first part, without hypotheses: `TwoPhaseCommitTypeOK` and
  `TwoPhaseCommitCountersMatchSockets`. The invariant `IInv` adds to the types what the
  handler that runs knows of its request (`Phases`) and the coordinator's arithmetic
  (`Books`): `alive` is the number of open sockets as long as no answer closes one, and in
  the wait loops the answers so far and the watched sockets add up to it.
* `TwoPhaseCommit_proofs`, second part: `Delivery` says what is under way to a participant. A
  COMMIT or ABORT meets its own transaction, or none (`DecisionsMeetTheirWrite`): that is
  not evident, because connections of a dead coordinator are served before those of its
  successor, and because the code does not compare ids in `handleCommitOrAbortPhase`. It
  needs that only the last connection is the coordinator's (`LiveIsCurrent`) and that who
  has voted has nothing older before it (`VotersHaveSeen`). From it follow
  `TwoPhaseCommitOnlyCommittedWritesTakeEffect`, for ids that do not repeat and under
  every failure of the model, and `TwoPhaseCommitNoInconsistencyShutdown`, for ids that
  may repeat while no participant is started again (an empty one does meet a COMMIT that
  it knows nothing of, and then the code's `return -1` is right).
* `TwoPhaseCommit_proofs`, third part: `Agreement` follows each participant in service
  through the transaction: it is `Attached`, `Asked`, has `Voted`, is `Pending`, `Told` and
  `Over`, and each of these says what is in its fields, what is under way to it and from
  it and whether it owes an answer; an answer that is owed is sent, under way or known to
  be lost, and this is where a late timeout would break it. `OutcomeFits` and
  `RepliesFit` relate the answers to the store of the last decision. It gives
  `TwoPhaseCommitOnlyDecidedWritesCommit`, `TwoPhaseCommitConvergedWhenIdle` and the
  refinement `TwoPhaseCommitImplementsOneStore`, for participants that die, connections
  that break and links that fail in any number, and
  `TwoPhaseCommitAcknowledgedWriteIsEverywhere`, with crashes of the coordinator too.

The hypotheses of the last group are not for convenience. With `MaxLate > 0` the properties
are false: `late_acknowledgement` shows it for the acknowledgement. A participant started
again is empty (see Findings), and a coordinator that dies between two COMMITs leaves the
replicas apart, so that the first three are about one that does not;
the acknowledgement, which is about completed writes, holds with such crashes unless ids
repeat, in which case a new request may be taken for one that the dead coordinator left
prepared. A by-product of `OutcomeFits`: no participant ever answers NO
(`handlePreparePhase` has no branch that does), so ABORT is never decided, and the
rollback of the code is reached through the next PREPARED-REQUEST only.

### Raft-style nodes (`RaftStore_proofs`)

* `RaftTypeOK`: one lemma per group of actions.
* `RaftThreadsFitRole`, unless a node was started again: it is not inductive. What a node
  becomes depends on the votes that are under way, so the invariant `RoleInv` adds
  `NoStaleVotes` (for a node that was never started again and has not become a candidate, no
  request in its name and no vote for it is under way) and says that the role fits the
  threads of each node (`FirstRole`, `RoleFits`). Then a vote can only make a leader of a
  node whose timer has expired, so that its timer never runs while it leads, and no
  candidacy falls between the three writes of `becomeLeader`.
* `RaftOneRedirectSuffices`: the request of the client is in one place only, an inbox, a
  node that replicates it or an answer (`Serving`), and a node that was not started again
  believes in node 0 or leads itself (`LeaderKnown`), so that a redirection leads to node
  0, which never redirects. No hypotheses; elections and crashes may happen meanwhile.
* `RaftImplementsOneStore`: the refinement of `AtomicStore`, where node 0's `kvdb` is the
  store and a write takes effect when the node has replicated it, for every step after which
  node 0 runs. `Steady` says that node 0 leads, nobody asks for votes, and the others follow
  and never replicate; `ReadIsCurrent` that an answer to a GET still is what node 0 holds.
  Both are claimed while node 0 runs (`WhileFirstRuns`), which is over for good once it was
  killed (`StartedAgain`). The hypotheses: node 0 is not started again (nothing is written
  to disk), no timer expires between heartbeats (two nodes may lead afterwards), and the
  commands are SET, GET and DEL (another one is no operation of `AtomicStore`). Node 0 may
  be killed, and then nothing more is claimed: a new leader does not have what the old one
  knew. The other nodes may be killed and started again in any number.
* `RaftVotesAreAccounted`, without hypotheses: a ballot of a node is a request of it that
  waits anywhere or a vote that waits at it. A request that is handled becomes a vote and
  a vote that is handled is counted, so that the votes and the ballots of a process
  (`Accounted`) come to no more than those it has asked; that a candidate has no ballots
  when it starts is `NoStaleVotes`. Consuming a message takes one ballot away at least,
  which is an injection between two sets of places (`ConsumeBallots`).
* `RaftNodesStopOnlyWhenKilled`: the same count with the nodes `Z` that are asked in vain taken
  out. With three nodes at most, and without node 0, a candidate has one other node to ask,
  so that the vote that makes it a leader is the last one it gets (`NoVoteTooMany`), and
  since a node that leads or is being made the leader has had it (`Backed`), its heartbeats
  are started once (`BeatsOnce`). `Unopposed` has the reason why node 0 does not count: while
  it runs it beats and no timer expires, and it is not started again. The hypotheses are what
  the property needs: with four nodes, with a late timer, or with a vote for the process
  before a restart, there is one vote more, and `heartbeatThread` is assigned twice.
* `RaftFollowersAgree`: the COMMITs that wait at a follower would make something of its
  map; `IsCourse` gives the maps that it passes through. `Converging`: there are data at
  which every follower that runs arrives, with the write that node 0 replicates applied
  where it has been sent already. The step to the next follower appends to the course of
  that one alone, and when node 0 commits, the data are those with the write. It is
  claimed while node 0 runs, as the property is. Its hypotheses: that of the refinement about
  the timers (with two leaders the followers get their writes in different orders), and
  that nobody is started again: a new process is empty and `Node.cpp` never sends it what it
  missed.

### Sudoku pipeline (`SudokuPipeline_proofs`, for all files, numbers of lines and inputs)

* `PipelineTypeOK`, with one step per action;
* `PipelineForgetsNoWakeup`: `NoWakeupForgotten` needs to know who owns a lock while it
  is between its check and its sleep, that a consumer in that place found its queue empty
  when it checked, and that a producer with the lock cannot push in between; these are
  the further conjuncts of the invariant. What escapes them is in `missed`;
* `PipelinePrintedInOrder`, which is about what is printed before the queue of answers is
  torn: the names in the first queue are the last ones typed, the
  lines in the second continue the file that is being read, and what is printed, the
  answers that wait, the line that is being solved and the lines that wait make up, in
  this order, the answers to all that was read so far (`Ordered`). That `output_func` ends
  only when every line is solved needs what each thread has done when the next one finds
  its flag set (`EndsInOrder`). `Upto[k]` are the
  answers to the first `k` names, a recursive function whose equations are derived with
  induction in the form of a lemma about sets, `NatSetInduction`.

### Backtracking solvers (`SudokuSolvers_proofs`, for boxes of every size and all puzzles)

The code has boxes of three by three cells; the runs have two by two, the theorems any
size.

* `SudokuSpacesFollowTheFrames`: `StackInv` says that `spaces` enumerates the blank cells of
  the puzzle (`Enumerates`: each once), that the frames have the first of them, and which
  of them are filled (`Held`). `find_spaces` is a recursive function over the board, whose
  result is derived with `NatSetInduction`; the swap of `find_min_arity` keeps an
  enumeration one and reaches only behind the frames.
* `SudokuCacheMatchesBoard`: what the cache says is expressed by the puzzle and the stack.
  `CacheOf` says that a value is marked for a cell if it was at the start or if one of the
  guesses marked it, that a guess marked exactly the neighbours for which the frames before
  it had not, and that `arity` is what it was less the number of guesses that took a value
  of that cell. Marking adds a frame to this and `Unhold` takes it away (`CacheHeld`,
  `CacheUnheld`). That the guesses that took a value of the same cell are different
  (`GuessesTaken`) makes the number of them the number of values on the board that are not
  clues.
* The lemmas `SudokuBacktrackersTypes` and `SudokuBacktrackersLeaveNoTrace` follow from the
  same invariants, with no frame left for the second; `SudokuBacktrackersAnswerRight` is the
  refinement of `SudokuAnswers`, without its liveness. For the latter `NoneMissed` says of
  every solution that, as far as it follows the guesses on the stack, it is not behind them;
  so when the last activation returns there is none. `Different` says that no two neighbours
  on the board are equal unless clues clash; that a full board of this kind has every value
  in every unit needs that each row, column and box has `NUM` cells (`UnitSize`), by
  arithmetic on their coordinates. They are lemmas of the theorems about all five solvers.

### Dancing links (`DancingLinks_proofs`, for boxes of every size and all puzzles)

* Rings. `Linked(fwd, bwd, c, s)` says that `s` lists what is met from `c` along one
  direction until `c` is met again, and backwards along the other. `Ring` is a recursive
  function, and that it gives this list (and the reverse of it in the other direction) is
  derived with induction over its length. `Unlink` takes one element out of such a list and
  `Relink` puts it back where it was; this is exact, since the node that was taken out still
  has its own links.
* Covering. `Holds(k, A, M)` says that the links `k` have the rows of the columns `A` when the
  columns `M` have been taken out: the headers of the others are linked in a ring, and each
  of these columns has a ring of the nodes whose rows meet no column of `M`, of the counted
  size. `CoverIs`: covering a column `c` leads from `Holds(k, A, M)` to the same with `c` added
  to `M`, leaves the rows of `c` linked in the column `c` itself (the loop of `dance` runs over
  them later), and `Uncover` makes `k` of the result, every link and size of it. `CoverRowIs`
  says the same of the other columns of a row. The proof goes through the two nested loops
  forwards for one and backwards for the other, with the intermediate links as a function of
  the position in the loop.
* Building. `BuiltUpTo` says that the links are those of the candidates up to the last one
  built, each with one node in each of its columns, and nothing else. `DLXInsertIs` and
  `DanceRowIs` show that both ways of adding nodes keep to it, whatever the order of the
  nodes in their columns and rows, which differs between the two; `BuiltMore` that the next
  candidate is the one that the code takes.
* Searching. `Levels` lists the links at each frame of the stack, each being what `CoverRow`
  makes of the one before it after its column was covered. So the links at the top are
  known to be `Holds`, and taking a row back leads to the previous entry of the list and
  not only to links that look like it. When the list is empty the links are `built`.
* Completeness. `ExactCover` is a set of rows with one node in every column. `Missed` says of
  every exact cover that has the rows of the first frames, that the row it has in the next
  column is not behind the one that is being tried, and `Hopeless` that none has the rows
  of all frames, which is what an activation has found out when it returns 0. This is where
  the order of the loop over the rows matters, and that it runs over the rows as they were
  before any of them was tried.
* `CoverSolves` and `SolutionCovers`: the exact covers of the columns that the clues leave
  open are the solutions of the puzzle, for `DLX`, which has rows for the clues, and for
  `Dance`, which leaves out what the clues meet, and also when clues clash: then there is no
  exact cover. `ColumnFits` says that a column never has more than `NUM` rows, by arithmetic
  on their numbers.

The invariant of all steps is `LinksInv`; the links solvers and the backtracking ones share
no step, so that the theorems about all five are by cases:

* `SudokuLinksHoldWhatIsLeft`: when a column is to be chosen, the links are those of the rows
  that are left, with their sizes;
* `SudokuFailureLeavesNoTrace`: after a failed search the board, the cache and every link are
  what they were before it;
* `SudokuTypes`;
* `SudokuSolversAnswerRight`: `Spec => Promise!Spec`. All five solvers leave the clues alone,
  give up only puzzles that have no solution, and claim only solutions (the backtracking
  ones, which do not look at the clues, unless these clash).

### HTTP server (`HttpServer_proofs`, for all clients, descriptors, threads and plans)

* `HttpTypeOK` and `HttpDescriptorsAreOwned`: the ownership of descriptors and cells is
  inductive once it is split into what a thread holds in its cell, in its variable or as a
  file, what `main` is handing over, and the two facts that nothing is shared and nothing
  is lost (`Owned`);
* `HttpClosedWhenAnswered`: adds that a client is in one place only (the backlog, the hand
  of `main` or one thread) and that the parts it got and the outcomes that its thread has
  still to answer make up as many answers as its read is due (`Progress`): one for each request,
  or a single one when a POST is among them (`PendingDue`);
* `HttpAnswersInOrder`: `Ordered` says that what a client has sent, what was read and what
  is under way are a prefix of its plan in order, that each part it got is the part of that
  request's answer, and that the outcomes still pending are right for the rest of the read
  (`RightOutcome`). The lemmas `GetAsDocumented` and `PostAsDocumented` compare what the code
  answers with `Documented`, for every file, directory, type and content, and every
  request that is not `Contradicted`: there is no hypothesis about the served directory;
* `HttpReadmeIsContradicted`: that exception is not empty. If they are there, `403.html` and
  `502.html` are served with these status codes, and malformed uploads with 200, where the
  README documents 200 and 404;
* `HttpFilesOpenWithRoom`: a thread has at most one file open besides its connection, so
  when the descriptors are used up the connections are more than half of them
  (`FilesAreFewer` counts them with an injection from files to connections).

### What the proofs rest on

The named assumptions on the constants, which TLC evaluates in the runs: `IdsAssumption`,
`PathsAssumption`, `ContentsAssumption`, `RequestsAssumption`, `BodiesAssumption`,
`ClientsAssumption`, `PlansAssumption`, `LimitsAssumption`, `NumNodesAssumption`,
`ValuesAssumption`, `CommandsAssumption`, `NodesAssumption`, `BoundsAssumption`,
`KeysAssumption`, `NilAssumption`, `BoxAssumption`, `FilesAssumption`, `PuzzlesAssumption`,
`SizesAssumption` and `IdsMayRepeatAssumption`. Those about the requests of lab2 say that a
body comes with its headers, that there are at most nine requests to a client, and that the
three pages of its README are served.

### Model-checked only

* Liveness, under the fairness given above: it is out of the prover's reach, as is ENABLED.
  In particular: that a search of a solver ends, that the coordinator answers, that a leader
  is elected, that the pipeline prints and that requests over HTTP are answered. The
  refinements are proved step by step without their fairness, and checked with it.

## What is not modelled

* Reading options and configuration files; wording of logs; the RESP framing.
* Malformed requests, messages that fill a buffer exactly (`Coordinator.cpp:507`,
  `MessageProcessor.cpp:91` of `src_raft`) and errors of `select`.
* The `src_raft` constructor's races: the threads start before the address vectors are
  filled. The bounded `listen` backlog.
* `handleExceptionMessage` and `sendRequestToLeader`, which nobody calls.
* `lab1/src/Sudoku/DLX.cpp`: the threads that would use its job queue are commented out, so
  nothing meets on it. `lab1/src/3.cpp`, `lab1/src/DLX.h` and `lab3/src` are earlier
  versions of what is modelled. Test scripts and data.
* lab2: requests that are split over packets, more than nine requests in one read, content
  types and bodies longer than their arrays, bytes of the headers, what an overflow
  destroys; the functions of `libhttp.c:129-176`, which nobody calls.
* lab1: what the pipeline prints once its queue of answers is torn; it may be anything.
* The timing and the printing of `TearcherCode/main.cc`; lines shorter than a board.

## Plan

Every invariant and every action property that a run shows is stated by a theorem, and the
refinements are proved up to their liveness. What could still be added is on the side of the
models: messages that fill a buffer exactly (`Coordinator.cpp:507`), which needs messages with
lengths, and votes for a process before its restart that its successor counts in an
uninitialised variable (`Node.cpp:369`).
