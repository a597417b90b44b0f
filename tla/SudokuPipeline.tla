--------------------------- MODULE SudokuPipeline ---------------------------
(***************************************************************************)
(* The sudoku program of lab1/src/Sudoku/3.cpp: four threads joined by     *)
(* three queues.  pre_func reads file names from standard input,           *)
(* input_func reads the lines of the files, work_func solves them and      *)
(* output_func prints the answers.  Each consumer waits on a condition     *)
(* variable for its queue or for the done flag of its producer.            *)
(***************************************************************************)
EXTENDS Naturals, Sequences

CONSTANTS
    Files,        \* the files that can be opened
    Absent,       \* a name that cannot
    LinesOf,      \* the number of lines of each file
    MaxNames,     \* bound: names typed on standard input
    MaxSpurious,  \* bound: wakeups of a condition variable that nobody notified
    MaxSpoiled    \* bound: what is printed after the queue of answers was torn

Names == Files \cup {Absent}

ASSUME FilesAssumption == Absent \notin Files /\ LinesOf \in [Files -> Nat]
ASSUME BoundsAssumption == {MaxNames, MaxSpurious, MaxSpoiled} \subseteq Nat

(* Definitions marked "mutant" are plausible mistakes in the definition that
   follows them; no specification uses them.  PROJECT.json names, for each
   property of a run, a mutant that violates it. *)

VARIABLES
    typed, terminated,  \* standard input: its names, and whether the last ends a line
    stdin,              \* what pre_func has still to read of it
    pc,                 \* where each thread is
    queue,              \* queue_of_filename, question_of_sudoku and answer_of_sudoku,
                        \* by the thread that pops them
    done,               \* read_file_done, read_question_done and work_done,
                        \* by the thread that sets them
    holder,             \* the owners of filename_lock, input_question_lock and
                        \* output_mutex, by the thread that waits with them
    file_name,          \* the local of pre_func
    file, line,         \* the locals of input_func: the open file, lines read from it
    str,                \* the local of work_func
    printed,            \* standard output, as long as the queue of answers is whole
    torn,               \* whether it was torn
    spoiled,            \* how much was printed since: what it was is left open
    crashed,            \* whether the process ended over it
    spurious,           \* counter of the bound
    missed              \* history: consumers that were notified between their last check
                        \* and their sleep

input == <<typed, terminated>>
locals == <<file_name, file, line, str>>
tear == <<torn, spoiled, crashed>>
vars == <<input, stdin, pc, queue, done, holder, locals, printed, tear, spurious, missed>>

Threads == {"pre", "input", "work", "output"}
Consumers == {"input", "work", "output"}
Producers == {"pre", "input", "work"}
ProducerOf == [input |-> "pre", work |-> "input", output |-> "work"]
ConsumerOf == [pre |-> "input", input |-> "work", work |-> "output"]

Nobody == "nobody"
NoFile == "no file"
NoLine == <<NoFile, 0>>

(* What DLX::dance makes of a line is a function of the line. *)
Answer(q) == <<"answer", q>>

Init ==
    /\ typed \in UNION {[1..n -> Names] : n \in 0..MaxNames}
    /\ terminated \in BOOLEAN
    /\ stdin = typed
    /\ pc = [t \in Threads |-> IF t = "pre" THEN "read" ELSE "lock"]
    /\ queue = [c \in Consumers |-> <<>>]
    /\ done = [p \in Producers |-> FALSE]
    /\ holder = [c \in Consumers |-> Nobody]
    /\ file_name = NoFile /\ file = NoFile /\ line = 0 /\ str = NoLine
    /\ printed = <<>> /\ spurious = 0 /\ missed = {}
    /\ torn = FALSE /\ spoiled = 0 /\ crashed = FALSE

-----------------------------------------------------------------------------
(* Queues, locks and condition variables.  Each has one thread that pops it,
   respectively waits for it. *)

Goto(t, label) == pc' = [pc EXCEPT ![t] = label]

(* notify_one wakes the consumer if it sleeps, and is lost otherwise. *)
GotoSilently(p, label) == Goto(p, label) /\ UNCHANGED missed              \* mutant
GotoNotifying(p, label) ==
    LET c == ConsumerOf[p]
    IN /\ pc' = [pc EXCEPT ![p] = label, ![c] = IF @ = "asleep" THEN "lock" ELSE @]
       /\ missed' = IF pc[c] \in {"flag", "sleep"} /\ (queue[c] # <<>> \/ done[p])
                    THEN missed \cup {c} ELSE missed

Hold(c) == holder' = [holder EXCEPT ![c] = c]
KeepHolding(c) == UNCHANGED holder                                        \* mutant
Release(c) == holder' = [holder EXCEPT ![c] = Nobody]

Push(c, x) == queue' = [queue EXCEPT ![c] = Append(@, x)]
Copy(c) == UNCHANGED queue                                                \* mutant
Pop(c) == queue' = [queue EXCEPT ![c] = Tail(@)]

Ready(c) == queue[c] # <<>>

(* A torn queue may look empty or not. *)
Unclear(c) == c = "output" /\ torn

(* A consumer takes its lock and evaluates the predicate of wait, to which a wakeup
   leads back: is the queue empty, and if so ... *)
Look(c) ==
    /\ pc[c] = "lock" /\ holder[c] = Nobody
    /\ \/ (Ready(c) \/ Unclear(c)) /\ Goto(c, "take")
       \/ (~Ready(c) \/ Unclear(c)) /\ Goto(c, "flag")
    /\ Hold(c)
    /\ missed' = missed \ {c}
    /\ UNCHANGED <<input, stdin, queue, done, locals, printed, tear, spurious>>

(* ... is the producer done?  Then the code looks at the queue again, to leave the loop,
   which releases the lock, only if it is still empty.  Nobody can have pushed to it but
   work_func, which has no lock for the answers: for these an optimizing compiler takes
   the first look for the second one. *)
ReadFlag(c) ==
    /\ pc[c] = "flag"
    /\ \/ ~done[ProducerOf[c]] /\ Goto(c, "sleep") /\ UNCHANGED <<holder, missed>>
       \/ /\ done[ProducerOf[c]] /\ (Ready(c) \/ Unclear(c))
          /\ Goto(c, "take")
          /\ missed' = missed \ {c}
          /\ UNCHANGED holder
       \/ /\ done[ProducerOf[c]]
          /\ Goto(c, IF c = "output" THEN "ended" ELSE "leave")
          /\ missed' = missed \ {c}
          /\ Release(c)
    /\ UNCHANGED <<input, stdin, queue, done, locals, printed, tear, spurious>>

(* wait releases the lock and sleeps, whatever happened since the predicate was
   evaluated. *)
Sleep(c) ==
    /\ pc[c] = "sleep"
    /\ Goto(c, "asleep")
    /\ Release(c)
    /\ UNCHANGED <<input, stdin, queue, done, locals, printed, tear, spurious, missed>>

SpuriousWakeup(c) ==
    /\ pc[c] = "asleep" /\ spurious < MaxSpurious
    /\ Goto(c, "lock")
    /\ spurious' = spurious + 1
    /\ UNCHANGED <<input, stdin, queue, done, holder, locals, printed, tear, missed>>

(* A producer that left its loop sets its flag and then notifies, both without the
   lock under which the consumer looks at the flag. *)
Finish(p) ==
    /\ pc[p] = "leave"
    /\ done' = [done EXCEPT ![p] = TRUE]
    /\ Goto(p, "last notify")
    /\ UNCHANGED <<input, stdin, queue, holder, locals, printed, tear, spurious, missed>>

LastNotify(p) ==
    /\ pc[p] = "last notify"
    /\ GotoNotifying(p, "ended")
    /\ UNCHANGED <<input, stdin, queue, done, holder, locals, printed, tear, spurious>>

-----------------------------------------------------------------------------
(* pre_func.  The name that the end of the input terminates sets eof and is not
   queued. *)

EndOfInput == stdin = <<>> \/ (Len(stdin) = 1 /\ ~terminated)

ReadName ==
    /\ pc["pre"] = "read"
    /\ IF EndOfInput
       THEN Goto("pre", "leave") /\ UNCHANGED <<stdin, file_name>>
       ELSE /\ file_name' = Head(stdin)
            /\ stdin' = Tail(stdin)
            /\ Goto("pre", "push")
    /\ UNCHANGED <<input, queue, done, holder, file, line, str, printed, tear, spurious, missed>>

(* Under filename_lock; the notification follows when the lock is released. *)
NoLockNeeded == TRUE                                                      \* mutant
FilenameLockFree == holder["input"] = Nobody

PushName ==
    /\ pc["pre"] = "push" /\ FilenameLockFree
    /\ Push("input", file_name)
    /\ Goto("pre", "notify")
    /\ UNCHANGED <<input, stdin, done, holder, locals, printed, tear, spurious, missed>>

NotifyName ==
    /\ pc["pre"] = "notify"
    /\ GotoNotifying("pre", "read")
    /\ UNCHANGED <<input, stdin, queue, done, holder, locals, printed, tear, spurious>>

-----------------------------------------------------------------------------
(* input_func, which holds filename_lock while it reads a file. *)

TakeName ==
    /\ pc["input"] = "take"
    /\ Pop("input")
    /\ file' = Head(queue["input"]) /\ line' = 0
    /\ IF file' \in Files
       THEN Goto("input", "lines") /\ UNCHANGED holder
       ELSE Goto("input", "ended") /\ Release("input")     \* the function returns
    /\ UNCHANGED <<input, stdin, done, file_name, str, printed, tear, spurious, missed>>

MoreLinesOrEof == line <= LinesOf[file]                                   \* mutant
MoreLines == line < LinesOf[file]

(* Under input_question_lock, the notification as well. *)
PushLine ==
    /\ pc["input"] = "lines" /\ MoreLines /\ holder["work"] = Nobody
    /\ line' = line + 1
    /\ Push("work", <<file, line'>>)
    /\ GotoNotifying("input", "lines")
    /\ UNCHANGED <<input, stdin, done, holder, file_name, file, str, printed, tear, spurious>>

CloseFile ==
    /\ pc["input"] = "lines" /\ ~MoreLines
    /\ Goto("input", "lock")
    /\ Release("input")
    /\ UNCHANGED <<input, stdin, queue, done, locals, printed, tear, spurious, missed>>

-----------------------------------------------------------------------------
(* work_func, which holds input_question_lock while it solves, but not output_mutex
   when it pushes the answer. *)

TakeLine ==
    /\ pc["work"] = "take"
    /\ Pop("work")
    /\ str' = Head(queue["work"])
    /\ Goto("work", "solve")
    /\ UNCHANGED <<input, stdin, done, holder, file_name, file, line, printed, tear, spurious, missed>>

(* A push for which the container has to grow its index moves the index in several
   steps (std::deque in libstdc++). *)
BeginGrowing ==
    /\ pc["work"] = "solve"
    /\ Goto("work", "growing")
    /\ UNCHANGED <<input, stdin, queue, done, holder, locals, printed, tear, spurious, missed>>

PushAnswer ==
    /\ pc["work"] \in {"solve", "growing"}
    /\ Push("output", Answer(str))
    /\ Goto("work", "notify")
    /\ UNCHANGED <<input, stdin, done, holder, locals, printed, tear, spurious, missed>>

NotifyAnswer ==
    /\ pc["work"] = "notify"
    /\ GotoNotifying("work", "lock")
    /\ Release("work")
    /\ UNCHANGED <<input, stdin, queue, done, locals, printed, tear, spurious>>

-----------------------------------------------------------------------------
(* output_func. *)

PrintAnswer ==
    /\ pc["output"] = "take" /\ ~torn
    /\ printed' = Append(printed, Head(queue["output"]))
    /\ Goto("output", "pop")
    /\ UNCHANGED <<input, stdin, queue, done, holder, locals, tear, spurious, missed>>

(* A pop while the index is moved may leave the front of the queue anywhere: from then on
   output_func prints answers a second time, leaves some out, or prints other memory. *)
PopAnswer ==
    /\ pc["output"] = "pop"
    /\ torn' \in {torn, pc["work"] = "growing" \/ torn}
    /\ IF torn THEN UNCHANGED queue ELSE Pop("output")
    /\ Goto("output", "lock")
    /\ Release("output")
    /\ UNCHANGED <<input, stdin, done, locals, printed, spoiled, crashed, spurious,
                   missed>>

PrintSpoiled ==
    /\ pc["output"] = "take" /\ torn /\ spoiled < MaxSpoiled
    /\ spoiled' = spoiled + 1
    /\ Goto("output", "pop")
    /\ UNCHANGED <<input, stdin, queue, done, holder, locals, printed, torn, crashed, spurious,
                   missed>>

(* Reading, writing or freeing what the torn index points to may end the process. *)
Crash ==
    /\ torn /\ ~crashed
    /\ crashed' = TRUE
    /\ UNCHANGED <<input, stdin, pc, queue, done, holder, locals, printed, torn, spoiled,
                   spurious, missed>>

-----------------------------------------------------------------------------
Consume(c) == Look(c) \/ ReadFlag(c) \/ Sleep(c)
Produce(p) == Finish(p) \/ LastNotify(p)

Pre == ~crashed /\ (ReadName \/ PushName \/ NotifyName \/ Produce("pre"))
Input ==
    /\ ~crashed
    /\ Consume("input") \/ TakeName \/ PushLine \/ CloseFile \/ Produce("input")
Work ==
    /\ ~crashed
    /\ \/ Consume("work") \/ TakeLine \/ BeginGrowing \/ PushAnswer \/ NotifyAnswer
       \/ Produce("work")
Output ==
    ~crashed /\ (Consume("output") \/ PrintAnswer \/ PrintSpoiled \/ PopAnswer)

Next ==
    \/ Pre \/ Input \/ Work \/ Output \/ Crash
    \/ ~crashed /\ \E c \in Consumers : SpuriousWakeup(c)

Spec == Init /\ [][Next]_vars

(* The threads are scheduled and get the locks they wait for.  Nobody keeps a lock
   for ever, and a lock that is wanted is free again and again only finitely often
   before it stays free, since names, lines and spurious wakeups are finite: weak
   fairness suffices. *)
Fairness == WF_vars(Pre) /\ WF_vars(Input) /\ WF_vars(Work) /\ WF_vars(Output)

FairSpec == Spec /\ Fairness

-----------------------------------------------------------------------------
Lines == Files \X Nat
Answers == {"answer"} \X Lines
Loop == {"lock", "flag", "sleep", "asleep", "take"}
End == {"leave", "last notify", "ended"}
Labels == Loop \cup End \cup {"read", "push", "notify", "lines", "solve", "growing", "pop"}

ThreadsOK ==
    /\ pc \in [Threads -> Labels]
    /\ pc["pre"] \in {"read", "push", "notify"} \cup End
    /\ pc["input"] \in Loop \cup {"lines"} \cup End
    /\ pc["work"] \in Loop \cup {"solve", "growing", "notify"} \cup End
    /\ pc["output"] \in Loop \cup {"pop", "ended"}

SyncOK ==
    /\ done \in [Producers -> BOOLEAN]
    /\ holder \in [Consumers -> Consumers \cup {Nobody}]
    /\ missed \subseteq Consumers /\ spurious \in 0..MaxSpurious
    /\ torn \in BOOLEAN /\ spoiled \in 0..MaxSpoiled /\ crashed \in BOOLEAN

QueuesOK ==
    /\ stdin \in Seq(Names)
    /\ queue \in [Consumers -> Seq(Names) \cup Seq(Lines) \cup Seq(Answers)]
    /\ queue["input"] \in Seq(Names)
    /\ queue["work"] \in Seq(Lines)
    /\ queue["output"] \in Seq(Answers)
    /\ printed \in Seq(Answers)

LocalsOK ==
    /\ file_name \in Names \cup {NoFile}
    /\ pc["pre"] = "push" => file_name \in Names
    /\ file \in Names \cup {NoFile} /\ line \in Nat
    /\ pc["input"] = "lines" => file \in Files /\ line <= LinesOf[file]
    /\ str \in Lines \cup {NoLine}
    /\ pc["work"] \in {"solve", "growing"} => str \in Lines

TypeOK == ThreadsOK /\ SyncOK /\ QueuesOK /\ LocalsOK

(* What the program would print if it were one loop: the answers to the lines of the
   files, in order, up to the first name that cannot be opened and without a name
   that the end of the input cuts off. *)
IsRead(k) == (\A j \in 1..k : typed[j] \in Files) /\ (terminated \/ k < Len(typed))
AnswersTo(f) == [n \in 1..LinesOf[f] |-> Answer(<<f, n>>)]
Upto[k \in Nat] ==
    IF k = 0 THEN <<>>
    ELSE Upto[k - 1] \o (IF IsRead(k) THEN AnswersTo(typed[k]) ELSE <<>>)
Expected == Upto[Len(typed)]

(* The answers come out in the order of the lines and none twice, although nothing but
   the queues orders the threads, as long as the queue of answers was not torn; and
   output_func leaves its loop only when all lines were solved, so that what it has not
   printed then, since it does not look again, is what was pushed after its look. *)
PrintedInOrder ==
    /\ Len(printed) <= Len(Expected)
    /\ printed = SubSeq(Expected, 1, Len(printed))
    /\ pc["output"] = "ended" /\ ~torn => printed \o queue["output"] = Expected

(* A name or a line that is queued wakes its consumer, or is about to.  The pushes of
   the answers and the done flags are not under the lock of the consumer: there the
   wakeup can be missed, but only between its check and its sleep. *)
NoWakeupForgotten ==
    /\ queue["input"] # <<>> /\ pc["input"] = "asleep" => pc["pre"] = "notify"
    /\ queue["work"] # <<>> => pc["work"] # "asleep"
    /\ queue["output"] # <<>> /\ pc["output"] = "asleep" =>
           pc["work"] = "notify" \/ "output" \in missed \/ torn
    /\ \A c \in Consumers : done[ProducerOf[c]] /\ pc[c] = "asleep" =>
           pc[ProducerOf[c]] = "last notify" \/ c \in missed

(* Every queued name is read in the end, unless a file cannot be opened: pre_func gets
   the lock between two files.  And every line that was read is solved, even when the
   program then sleeps for ever, whatever notifications are missed, unless the torn queue
   of answers ends the process. *)
Failed == pc["input"] = "ended" /\ ~done["input"]
EveryLineIsSolved ==
    <>[](\/ /\ EndOfInput /\ (Failed \/ queue["input"] = <<>>)
            /\ queue["work"] = <<>> /\ pc["work"] \in {"lock", "asleep", "ended"}
         \/ crashed)

(* The program ends unless a file could not be opened, the last notification of a
   thread came between its check and its sleep, or the unlocked queue of answers was
   torn. *)
EndsUnlessMissed ==
    <>[](\/ \A t \in DOMAIN pc : pc[t] = "ended"
       \/ Failed \/ missed # {} \/ torn)
=============================================================================
