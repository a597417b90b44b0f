----------------------------- MODULE HttpServer -----------------------------
(***************************************************************************)
(* The HTTP server of lab2: main accepts connections and starts a thread   *)
(* for each, which reads once, answers the requests of that read one after *)
(* the other, or as a single one if a POST is among them, and closes the   *)
(* connection.  main hands the descriptor over in a heap cell that the     *)
(* thread frees at its end.  Descriptors and cells are used again once     *)
(* they are free.  The files that are sent take descriptors too, once to   *)
(* be measured and once to be read.                                        *)
(*                                                                         *)
(* Clients send some requests, in as many packets as they like.  What the  *)
(* operating system decides (which packets one read returns, whether a     *)
(* write to a client that left raises SIGPIPE) and what memory holds that  *)
(* nobody wrote, or that was written beyond its end, is left open.         *)
(***************************************************************************)
EXTENDS HttpAnswers, HttpDocumented, FiniteSets

CONSTANTS
    Clients,       \* each connects once
    Nobody, File,  \* what a descriptor refers to that is not open, or not a connection
    Plans,         \* what the clients may want to send: a sequence of requests for each
    MaxFds,        \* the descriptors besides those of listen and the standard ones
    SafeThreads,   \* so many times pthread_create is sure to succeed
    MaxLeavers     \* bound: clients that leave before the server closes

ASSUME ClientsAssumption == Nobody \notin Clients /\ File \notin Clients /\ Nobody # File
MaxRequests == 9       \* request_arr has room for one more, a stale one
ASSUME PlansAssumption ==
    /\ Plans \subseteq [Clients -> Seq(Requests)]
    /\ \A requests \in Plans, c \in Clients : Len(requests[c]) <= MaxRequests
ASSUME LimitsAssumption == {MaxFds, SafeThreads, MaxLeavers} \subseteq Nat

(* Definitions marked "mutant" are plausible mistakes in the definition that
   follows them; no specification uses them. *)

VARIABLES
    plan,       \* the requests of each client
    where,      \* "away", "queued" in the backlog, "accepted", or "left" by itself
    inbox,      \* requests that arrived from a client and were not read
    sent,       \* how many it has sent
    taken,      \* history: what the read of its connection returned
    got,        \* the parts of answers that reached it
    closed,     \* the clients that found their connection closed
    backlog,    \* the queue of listen
    fdOf,       \* what each descriptor refers to: the client at the other end, File, or Nobody
    cell,       \* the allocated heap cells: a descriptor, or Free
    main,       \* where main is: "accept", "create" with its cell, "ended"
    thread,     \* the threads started so far
    leftover,   \* what freed read buffers hold that strstr would find
    damaged,    \* whether the heap was overwritten
    confused    \* history: the clients whose requests were read together with leftovers

clients == <<plan, where, inbox, sent>>
heard == <<taken, got, closed, confused>>
kernel == <<backlog, fdOf>>
heap == <<leftover, damaged>>
vars == <<clients, heard, kernel, cell, main, thread, heap>>

Free == 0
Fds == 1..MaxFds
Cells == 1..(MaxFds + 1)
Threads == 1..Cardinality(Clients)     \* one for each connection, in the order of their start
Running == main.pc # "ended"

Init ==
    /\ plan \in Plans
    /\ where = [c \in Clients |-> "away"]
    /\ inbox = [c \in Clients |-> <<>>]
    /\ sent = [c \in Clients |-> 0]
    /\ taken = [c \in Clients |-> <<>>]
    /\ got = [c \in Clients |-> <<>>]
    /\ closed = {}
    /\ backlog = <<>>
    /\ fdOf = [fd \in Fds |-> Nobody]
    /\ cell = [x \in Cells |-> Free]
    /\ main = [pc |-> "accept", cell |-> Free]
    /\ thread = <<>>
    /\ leftover = {}
    /\ damaged = FALSE
    /\ confused = {}

-----------------------------------------------------------------------------
(* The clients. *)

Connect(c) ==
    /\ where[c] = "away" /\ Running
    /\ where' = [where EXCEPT ![c] = "queued"]
    /\ backlog' = Append(backlog, c)
    /\ UNCHANGED <<plan, inbox, sent, heard, fdOf, cell, main, thread, heap>>

(* One packet with the next requests. *)
Send(c) ==
    /\ where[c] \in {"queued", "accepted"} /\ c \notin closed /\ Running
    /\ \E n \in (sent[c] + 1)..Len(plan[c]) :
          /\ sent' = [sent EXCEPT ![c] = n]
          /\ inbox' = [inbox EXCEPT ![c] = @ \o SubSeq(plan[c], sent[c] + 1, n)]
    /\ UNCHANGED <<plan, where, heard, kernel, cell, main, thread, heap>>

Leave(c) ==
    /\ where[c] \in {"queued", "accepted"} /\ c \notin closed /\ Running
    /\ Cardinality({d \in Clients : where[d] = "left"}) < MaxLeavers
    /\ where' = [where EXCEPT ![c] = "left"]
    /\ UNCHANGED <<plan, inbox, sent, heard, kernel, cell, main, thread, heap>>

-----------------------------------------------------------------------------
(* main *)

IsLowest(x, S) == x \in S /\ \A y \in S : x <= y

FreeFds == {fd \in Fds : fdOf[fd] = Nobody}

OneCell == {1}                                                            \* mutant
FreeCells == {x \in Cells : cell[x] = Free}

OneAtATime ==                                                             \* mutant
    main.pc = "accept" /\ backlog # <<>> /\ \A t \in DOMAIN thread : thread[t].pc = "done"
Acceptable == main.pc = "accept" /\ backlog # <<>>

(* malloc, accept: the lowest free descriptor is stored in a new cell. *)
Accept ==
    /\ Acceptable
    /\ \E fd \in Fds, x \in Cells :
          /\ IsLowest(fd, FreeFds) /\ IsLowest(x, FreeCells)
          /\ fdOf' = [fdOf EXCEPT ![fd] = Head(backlog)]
          /\ cell' = [cell EXCEPT ![x] = fd]
          /\ main' = [pc |-> "create", cell |-> x]
    /\ where' = [where EXCEPT ![Head(backlog)] = IF @ = "left" THEN @ ELSE "accepted"]
    /\ backlog' = Tail(backlog)
    /\ UNCHANGED <<plan, inbox, sent, heard, thread, heap>>

CreateThread ==
    /\ main.pc = "create"
    /\ thread' = Append(thread, [pc |-> "start", cell |-> main.cell, fd |-> Free, file |-> Free,
                                 pending |-> <<>>, buffer |-> {}])
    /\ main' = [pc |-> "accept", cell |-> Free]
    /\ UNCHANGED <<clients, heard, kernel, cell, heap>>

(* The process ends, and everything that it has and every connection with it. *)
End ==
    /\ main' = [pc |-> "ended", cell |-> Free]
    /\ closed' = closed \cup {c \in Clients : where[c] # "away"}
    /\ backlog' = <<>>
    /\ fdOf' = [fd \in Fds |-> Nobody]
    /\ cell' = [x \in Cells |-> Free]
    /\ thread' = <<>>
    /\ leftover' = {} /\ damaged' = FALSE
    /\ UNCHANGED <<clients, taken, got, confused>>

(* accept fails, and main returns. *)
EndWithoutDescriptor == Acceptable /\ FreeFds = {} /\ End

(* pthread_create fails, and main exits: threads are neither joined nor detached, so
   that those that ended take their share of the system's limit for good. *)
EndWithoutThread == main.pc = "create" /\ Len(thread) >= SafeThreads /\ End

-----------------------------------------------------------------------------
(* The threads *)

At(t, pc) == Running /\ t \in DOMAIN thread /\ thread[t].pc = pc
Client(t) == fdOf[thread[t].fd]
Present(c) == c # Nobody /\ where[c] # "left"

(* The thread reads its argument from the cell and allocates a read buffer. *)
Start(t) ==
    /\ At(t, "start")
    /\ \E buffer \in {{}, leftover} :
          thread' = [thread EXCEPT ![t].pc = "read", ![t].fd = cell[thread[t].cell],
                                   ![t].buffer = buffer]
    /\ UNCHANGED <<clients, heard, kernel, cell, main, heap>>

(* The one read returns what has arrived, or nothing when the client left. *)
Read(t) ==
    /\ At(t, "read")
    /\ LET c == Client(t)
       IN /\ inbox[c] # <<>> \/ where[c] = "left"
          /\ taken' = [taken EXCEPT ![c] = inbox[c]]
          /\ inbox' = [inbox EXCEPT ![c] = <<>>]
          /\ \E seen \in SUBSET thread[t].buffer : \E pending \in Pending(inbox[c], seen) :
                /\ thread' = [thread EXCEPT
                                 ![t].pc = "answer", ![t].pending = pending,
                                 ![t].buffer = Kept(inbox[c], seen, @)]
                /\ confused' = IF seen = {} THEN confused ELSE confused \cup {c}
    /\ UNCHANGED <<plan, where, sent, got, closed, kernel, cell, main, heap>>

Current(t) == Head(thread[t].pending)
Answer(t) == Current(t).answer
Answering(t, pc) == At(t, pc) /\ thread[t].pending # <<>>
Parsed(t) == Current(t).parse # "fatal"

(* open, by get_file_length for the length and by echo_back for the contents.  It fails
   when no descriptor is free; nobody checks. *)
OpenFile(t, before, after) ==
    /\ Answering(t, before) /\ Answer(t).file /\ Parsed(t)
    /\ \/ /\ FreeFds = {}
          /\ thread' = [thread EXCEPT ![t].pc = after, ![t].file = Free]
          /\ UNCHANGED fdOf
       \/ \E fd \in Fds :
          /\ IsLowest(fd, FreeFds)
          /\ fdOf' = [fdOf EXCEPT ![fd] = File]
          /\ thread' = [thread EXCEPT ![t].pc = after, ![t].file = fd]
    /\ UNCHANGED <<clients, heard, backlog, cell, main, heap>>

MeasureFile(t) == OpenFile(t, "answer", "headers")
ReadFile(t) == OpenFile(t, "open", "body")

Cut(t) == Answer(t).file /\ thread[t].file = Free

LeaveFileOpen(t) == UNCHANGED fdOf                                        \* mutant
CloseFile(t) ==
    fdOf' = [fd \in Fds |-> IF fd = thread[t].file THEN Nobody ELSE fdOf[fd]]

(* An answer takes two writes or more: the status line and headers, then the body.
   Without the file the length is zero and no body is sent; the length stands for what has
   that length. *)
Headers(answer, cut) ==
    [status |-> answer.status, type |-> answer.type,
     length |-> IF cut THEN <<>> ELSE answer.body]
Body(answer, cut) == [body |-> IF cut THEN <<>> ELSE answer.body]
Deliver(c, part) ==
    got' = IF Present(c) THEN [got EXCEPT ![c] = Append(@, part)] ELSE got

WriteHeaders(t) ==
    /\ \/ Answering(t, "headers")
       \/ Answering(t, "answer") /\ ~Answer(t).file /\ Parsed(t)
    /\ Deliver(Client(t), Headers(Answer(t), Cut(t)))
    /\ CloseFile(t)
    /\ thread' = [thread EXCEPT ![t].pc = IF Answer(t).file THEN "open" ELSE "body",
                                ![t].file = Free]
    /\ UNCHANGED <<clients, taken, closed, confused, backlog, cell, main, heap>>

WriteBody(t) ==
    /\ Answering(t, "body")
    /\ Deliver(Client(t), Body(Answer(t), Cut(t)))
    /\ CloseFile(t)
    /\ thread' = [thread EXCEPT
                     ![t].pc = "answer", ![t].pending = Tail(@), ![t].file = Free]
    /\ damaged' = (damaged \/ Current(t).parse = "overflow")
    /\ UNCHANGED <<clients, taken, closed, confused, backlog, cell, main, leftover>>

(* Nobody handles SIGPIPE: writing to a client that left may end the process. *)
EndWhileAnswering(t) ==
    /\ \/ Answering(t, "answer") /\ Parsed(t)
       \/ Answering(t, "headers")
       \/ Answering(t, "body") /\ ~Cut(t)
    /\ ~Present(Client(t))
    /\ End

(* http_request_parse follows what strstr did not find. *)
Crash(t) == Answering(t, "answer") /\ ~Parsed(t) /\ End

(* What was written beyond a path of 20 characters may end the process from then on. *)
EndByOverflow ==
    /\ Running
    /\ damaged \/ \E t \in DOMAIN thread :
                     thread[t].pending # <<>> /\ Current(t).parse = "overflow"
    /\ End

LeaveOpen(fd) == UNCHANGED <<fdOf, closed>>                               \* mutant
CloseFd(fd) ==
    /\ fdOf' = [fdOf EXCEPT ![fd] = Nobody]
    /\ closed' = closed \cup ({fdOf[fd]} \ {Nobody})

Finish(t) ==
    /\ At(t, "answer") /\ thread[t].pending = <<>>
    /\ CloseFd(thread[t].fd)
    /\ cell' = [cell EXCEPT ![thread[t].cell] = Free]
    /\ thread' = [thread EXCEPT ![t].pc = "done"]
    /\ leftover' = leftover \cup thread[t].buffer
    /\ UNCHANGED <<clients, taken, got, confused, backlog, main, damaged>>

ThreadStep(t) ==
    \/ Start(t) \/ Read(t)
    \/ MeasureFile(t) \/ WriteHeaders(t) \/ ReadFile(t) \/ WriteBody(t)
    \/ Crash(t) \/ Finish(t)
MainStep == Accept \/ CreateThread \/ EndWithoutDescriptor \/ EndWithoutThread

Next ==
    \/ \E c \in Clients : Connect(c) \/ Send(c) \/ Leave(c)
    \/ MainStep
    \/ \E t \in Threads : ThreadStep(t) \/ EndWhileAnswering(t)
    \/ EndByOverflow

Spec == Init /\ [][Next]_vars

(* Every thread of the process is scheduled; clients may stop at any point. *)
FairSpec ==
    /\ Spec
    /\ WF_vars(MainStep)
    /\ \A t \in Threads : WF_vars(ThreadStep(t))

-----------------------------------------------------------------------------
ThreadRecords ==
    [pc : {"start", "read", "answer", "headers", "open", "body", "done"}, cell : Cells,
     fd : Fds \cup {Free}, file : Fds \cup {Free},
     pending : Seq(Outcomes), buffer : SUBSET Texts]

Parts ==
    {Headers(answer, cut) : answer \in Answers, cut \in BOOLEAN} \cup
    {Body(answer, cut) : answer \in Answers, cut \in BOOLEAN}

TypeOK ==
    /\ plan \in [Clients -> Seq(Requests)]
    /\ where \in [Clients -> {"away", "queued", "accepted", "left"}]
    /\ inbox \in [Clients -> Seq(Requests)]
    /\ sent \in [Clients -> Nat]
    /\ taken \in [Clients -> Seq(Requests)]
    /\ got \in [Clients -> Seq(Parts)]
    /\ closed \subseteq Clients
    /\ backlog \in Seq(Clients)
    /\ fdOf \in [Fds -> Clients \cup {Nobody, File}]
    /\ cell \in [Cells -> Fds \cup {Free}]
    /\ main \in [pc : {"accept", "create", "ended"}, cell : Cells \cup {Free}]
    /\ thread \in Seq(ThreadRecords)
    /\ \A t \in DOMAIN thread : thread[t].pc # "start" => thread[t].fd \in Fds
    /\ leftover \subseteq Texts
    /\ damaged \in BOOLEAN
    /\ confused \subseteq Clients

(* The requests that the README of lab2 has answered otherwise than get_method and
   post_method answer them: pages whose name contains "api", "404" or the like, files of an
   undocumented type, directories, queries that only contain the documented form; an echo
   of data that only contain it or of an undocumented type, uploads of malformed data, a
   POST without headers; a GET whose path contains POST, and the other methods. *)
ContradictedGet(path) ==
    \/ Contains(path, "POST")
    \/ path \in Directories
    \/ /\ path \in StaticFiles \ OwnPages
       /\ \/ \E word \in {"api", "404", "403", "501", "502"} : Contains(path, word)
          \/ Extension(path) \notin DOMAIN TypeOf
    \/ Contains(path, "search?") /\ Queries(path) # {} /\ ~IsSearch(path)
ContradictedPost(path, type, content) ==
    \/ type = NoType
    \/ path = ApiPath("echo") /\ content \in Matching /\ ~(content \in WellFormed /\ type = Form)
    \/ path = ApiPath("upload") /\ content \notin WellFormedUploads
Contradicted(request) ==
    \/ request.method \notin {"GET", "POST"}
    \/ request.method = "GET" /\ ContradictedGet(request.path)
    \/ request.method = "POST" /\
          (ContradictedPost(request.path, request.type, request.content)
           \/ Contains(request.path, "GET"))

(* What reaches a client is answers to its own requests, whole, in the order in which it
   sent them, and each is the answer that the README of lab2 documents for a request that
   it does not contradict, but for a length of zero or a missing body because no descriptor
   was free for the file.  A read with a POST request among others gets one answer at
   most, and what the memory held besides the requests is nobody's promise. *)
Alone(requests) == Len(requests) <= 1 \/ ~Mentioned(TextsOf(requests), "POST")
Is(answered, documented) ==
    answered = documented.body \/ (documented.file /\ answered = <<>>)
IsPart(part, number, documented) ==
    IF number % 2 = 1
    THEN /\ DOMAIN part = {"status", "type", "length"}
         /\ part.status = documented.status /\ part.type = documented.type
         /\ Is(part.length, documented)
    ELSE DOMAIN part = {"body"} /\ Is(part.body, documented)
AnswersInOrder ==
    \A c \in Clients \ confused : \A i \in DOMAIN got[c] :
        IF Alone(taken[c])
        THEN LET n == (i + 1) \div 2
             IN /\ n \in DOMAIN plan[c]
                /\ Contradicted(plan[c][n]) \/ IsPart(got[c][i], i, Documented(plan[c][n]))
        ELSE i <= 2

(* A connection that the server closes while it goes on has got a whole answer for every
   request of the one read, or the single one that a POST among them leaves, unless the
   client left. *)
Due(requests) == IF Mentioned(TextsOf(requests), "POST") THEN 1 ELSE Len(requests)
ClosedWhenAnswered ==
    Running => \A c \in closed \ confused :
        where[c] # "left" => taken[c] # <<>> /\ Len(got[c]) = 2 * Due(taken[c])

(* A descriptor is open exactly as long as one thread has it, for its connection or for a
   file, or main is handing it over, and nobody frees a cell or closes a descriptor that
   somebody else has by then. *)
Held(t) == IF thread[t].pc = "start" THEN cell[thread[t].cell] ELSE thread[t].fd
Has(t) == {Held(t), thread[t].file} \ {Free}
DescriptorsAreOwned ==
    Running =>
        LET live == {t \in DOMAIN thread : thread[t].pc # "done"}
            handed == IF main.pc = "create" THEN {main.cell} ELSE {}
        IN /\ \A s, t \in live :
                 s # t => Has(s) \cap Has(t) = {} /\ thread[s].cell # thread[t].cell
           /\ \A t \in live : Held(t) # thread[t].file
           /\ {fd \in Fds : fdOf[fd] # Nobody} =
                 (UNION {Has(t) : t \in live}) \cup {cell[x] : x \in handed}
           /\ {x \in Cells : cell[x] # Free} = {thread[t].cell : t \in live} \cup handed

(* A connection needs one descriptor more for its files, never two, and gives it back:
   open fails only while more than half of the descriptors are connections. *)
Connections == {fd \in Fds : fdOf[fd] \in Clients}
FilesOpenWithRoom ==
    [][\A t \in DOMAIN thread :
          MeasureFile(t) \/ ReadFile(t) =>
              thread'[t].file # Free \/ 2 * Cardinality(Connections) > MaxFds]_vars

(* A client that sends its requests in one packet and stays is answered, whatever the
   others do: neither one that never sends anything nor one that leaves holds it up.  It
   may only lose to the end of the process, and to leftovers of others in its read. *)
SentAtOnce(c) ==
    where[c] \in {"queued", "accepted"} /\ inbox[c] # <<>> /\ inbox[c] = plan[c]
Served(c) == c \in closed /\ (c \in confused \/ Len(got[c]) = 2 * Due(plan[c]))
PatientClientsAreServed ==
    \A c \in Clients : SentAtOnce(c) ~> Served(c) \/ where[c] = "left" \/ ~Running
=============================================================================
