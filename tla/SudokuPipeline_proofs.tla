----------------------- MODULE SudokuPipeline_proofs -----------------------
(* The types of SudokuPipeline, the invariant that no wakeup is forgotten and the
   order of the answers, for every set of files and whatever is typed. *)
EXTENDS SudokuPipeline, WellFoundedInduction, TLAPS

(* Who is past its check holds its lock, and finds what it takes. *)
LocksHeld ==
    /\ pc["input"] \in {"flag", "sleep", "take", "lines"} => holder["input"] = "input"
    /\ pc["work"] \in {"flag", "sleep", "take", "solve", "growing", "notify"} =>
           holder["work"] = "work"
    /\ pc["input"] = "take" => queue["input"] # <<>>
    /\ pc["work"] = "take" => queue["work"] # <<>>
    /\ pc["output"] \in {"take", "pop"} /\ ~torn => queue["output"] # <<>>

(* The queues that are pushed under the lock of their consumer are still empty between
   its check and its sleep. *)
QueuesWake ==
    /\ pc["input"] \in {"flag", "sleep"} => queue["input"] = <<>>
    /\ pc["work"] \in {"flag", "sleep"} => queue["work"] = <<>>
    /\ queue["input"] # <<>> /\ pc["input"] = "asleep" => pc["pre"] = "notify"
    /\ queue["work"] # <<>> => pc["work"] # "asleep"

(* For what is not under that lock a consumer between its check and its sleep is as
   good as asleep. *)
Idle(c) == pc[c] = "sleep" \/ pc[c] = "asleep"

AnswersWake ==
    queue["output"] # <<>> /\ (pc["output"] = "flag" \/ Idle("output")) =>
        pc["work"] = "notify" \/ "output" \in missed \/ torn

FlagsWake ==
    /\ pc["pre"] = "last notify" => done["pre"]
    /\ pc["input"] = "last notify" => done["input"]
    /\ pc["work"] = "last notify" => done["work"]
    /\ done["pre"] /\ Idle("input") => pc["pre"] = "last notify" \/ "input" \in missed
    /\ done["input"] /\ Idle("work") => pc["input"] = "last notify" \/ "work" \in missed
    /\ done["work"] /\ Idle("output") => pc["work"] = "last notify" \/ "output" \in missed

IInv == TypeOK /\ LocksHeld /\ QueuesWake /\ AnswersWake /\ FlagsWake

-----------------------------------------------------------------------------
(* The threads and queues by name. *)
LEMMA Wiring ==
    /\ ProducerOf["input"] = "pre" /\ ProducerOf["work"] = "input"
    /\ ProducerOf["output"] = "work"
    /\ ConsumerOf["pre"] = "input" /\ ConsumerOf["input"] = "work"
    /\ ConsumerOf["work"] = "output"
BY DEF ProducerOf, ConsumerOf

(* One thread moves. *)
LEMMA Moved ==
    ASSUME ThreadsOK, NEW t \in Threads, NEW l \in Labels, Goto(t, l)
    PROVE  /\ pc' \in [Threads -> Labels] /\ pc'[t] = l
           /\ \A u \in Threads : u # t => pc'[u] = pc[u]
BY DEF ThreadsOK, Goto

(* A producer moves and notifies: its consumer is woken, or misses it. *)
LEMMA Notified ==
    ASSUME ThreadsOK, NEW p \in Producers, NEW l \in Labels, GotoNotifying(p, l)
    PROVE  /\ pc' \in [Threads -> Labels] /\ pc'[p] = l
           /\ \A u \in Threads : u # p /\ u # ConsumerOf[p] => pc'[u] = pc[u]
           /\ pc'[ConsumerOf[p]] =
                 IF pc[ConsumerOf[p]] = "asleep" THEN "lock" ELSE pc[ConsumerOf[p]]
           /\ missed \subseteq missed' /\ missed' \subseteq missed \cup {ConsumerOf[p]}
           /\ pc[ConsumerOf[p]] \in {"flag", "sleep"} /\ (queue[ConsumerOf[p]] # <<>> \/ done[p]) =>
                 ConsumerOf[p] \in missed'
<1>1. ConsumerOf[p] \in Threads /\ ConsumerOf[p] # p /\ p \in Threads /\ "lock" \in Labels
    BY Wiring DEF Producers, Threads, Labels, Loop
<1> DEFINE c == ConsumerOf[p]
<1>2. pc' = [pc EXCEPT ![p] = l, ![c] = IF @ = "asleep" THEN "lock" ELSE @]
    BY DEF GotoNotifying
<1>3. pc \in [Threads -> Labels]
    BY DEF ThreadsOK
<1>4. /\ pc' \in [Threads -> Labels] /\ pc'[p] = l
      /\ \A u \in Threads : u # p /\ u # c => pc'[u] = pc[u]
      /\ pc'[c] = IF pc[c] = "asleep" THEN "lock" ELSE pc[c]
    <2> HIDE DEF c
    <2> QED BY <1>1, <1>2, <1>3 DEF c
<1>5. missed' = IF pc[c] \in {"flag", "sleep"} /\ (queue[c] # <<>> \/ done[p])
                THEN missed \cup {c} ELSE missed
    BY DEF GotoNotifying
<1> HIDE DEF c
<1>6. /\ missed \subseteq missed' /\ missed' \subseteq missed \cup {c}
      /\ pc[c] \in {"flag", "sleep"} /\ (queue[c] # <<>> \/ done[p]) => c \in missed'
    BY <1>5
<1> QED BY <1>4, <1>6 DEF c

LEMMA AppendNotEmpty ==
    ASSUME NEW S, NEW s \in Seq(S), NEW x \in S
    PROVE  Append(s, x) \in Seq(S) /\ Append(s, x) # <<>>
<1>1. Append(s, x) \in Seq(S) /\ Len(Append(s, x)) = Len(s) + 1 /\ Len(s) \in Nat
    OBVIOUS
<1>2. Len(<<>>) = 0
    OBVIOUS
<1> QED BY <1>1, <1>2

LEMMA InitIInv == Init => IInv
<1> SUFFICES ASSUME Init PROVE IInv
    OBVIOUS
<1>1. typed \in Seq(Names) /\ stdin \in Seq(Names)
    BY DEF Init
<1>2. pc \in [Threads -> Labels] /\ done \in [Producers -> BOOLEAN]
    BY DEF Init, Threads, Labels, Loop
<1>3. /\ pc["pre"] = "read" /\ pc["input"] = "lock" /\ pc["work"] = "lock"
      /\ pc["output"] = "lock"
    BY DEF Init, Threads
<1>4. /\ queue \in [Consumers -> Seq(Names) \cup Seq(Lines) \cup Seq(Answers)]
      /\ queue["input"] = <<>> /\ queue["work"] = <<>> /\ queue["output"] = <<>>
    BY DEF Init, Consumers
<1>5. holder \in [Consumers -> Consumers \cup {Nobody}]
    BY DEF Init
<1>6. /\ file_name \in Names \cup {NoFile} /\ file \in Names \cup {NoFile}
      /\ line \in Nat /\ str \in Lines \cup {NoLine}
      /\ printed \in Seq(Answers) /\ spurious \in 0..MaxSpurious /\ missed \subseteq Consumers
      /\ torn \in BOOLEAN /\ spoiled \in 0..MaxSpoiled /\ crashed \in BOOLEAN
    <2>1. MaxSpurious \in Nat /\ MaxSpoiled \in Nat
        BY BoundsAssumption
    <2>2. 0 \in 0..MaxSpurious /\ 0 \in 0..MaxSpoiled
        BY <2>1
    <2>3. spurious = 0 /\ spoiled = 0 /\ torn = FALSE /\ crashed = FALSE /\ missed = {}
        BY DEF Init
    <2>4. /\ file_name = NoFile /\ file = NoFile /\ line = 0 /\ str = NoLine
          /\ printed = <<>>
        BY DEF Init
    <2>5. printed \in Seq(Answers)
        BY <2>4
    <2> QED BY <2>2, <2>3, <2>4, <2>5
<1>7. ThreadsOK /\ SyncOK /\ QueuesOK /\ LocalsOK
    BY <1>1, <1>2, <1>3, <1>4, <1>5, <1>6
       DEF ThreadsOK, SyncOK, QueuesOK, LocalsOK, Loop, End
<1>8. LocksHeld /\ QueuesWake /\ AnswersWake /\ FlagsWake
    BY <1>3, <1>4 DEF Init, LocksHeld, QueuesWake, AnswersWake, FlagsWake, Idle, Producers
<1> QED BY <1>7, <1>8 DEF IInv, TypeOK

LEMMA LookInputKeeps == ASSUME IInv, Look("input") PROVE IInv'
<1> USE DEF IInv, TypeOK, tear
<1>1. UNCHANGED <<stdin, queue, done, file_name, file, line, str, printed, torn, spoiled,
                  crashed, spurious>>
    BY DEF Look, locals
<1>2. PICK l \in {"take", "flag"} :
          /\ Goto("input", l)
          /\ holder' = [holder EXCEPT !["input"] = "input"]
          /\ l = "take" => queue["input"] # <<>>
          /\ l = "flag" => queue["input"] = <<>>
    BY DEF Look, Hold, Ready, Unclear
<1>3. /\ pc' \in [Threads -> Labels] /\ pc'["input"] = l
      /\ \A u \in Threads : u # "input" => pc'[u] = pc[u]
    BY <1>2, Moved DEF Threads, Labels, Loop, End
<1>4. /\ missed' \subseteq missed /\ UNCHANGED done
      /\ \A d \in Consumers : d # "input" /\ d \in missed => d \in missed'
    BY DEF Look
<1>5. /\ l # "last notify" /\ l # "asleep" /\ pc["input"] = "lock"
      /\ pc'["pre"] = pc["pre"] /\ pc'["work"] = pc["work"] /\ pc'["output"] = pc["output"]
      /\ "work" \in missed => "work" \in missed'
      /\ "output" \in missed => "output" \in missed'
    BY <1>2, <1>3, <1>4 DEF Look, Threads, Consumers
<1>t. ThreadsOK'
    BY <1>1, <1>2, <1>3, <1>4, <1>5
       DEF ThreadsOK, Labels, Loop, End, Threads, Consumers, Producers
<1>s. SyncOK'
    BY <1>1, <1>2, <1>3, <1>4, <1>5 DEF ThreadsOK, SyncOK, Threads, Consumers, Producers
<1>q. QueuesOK'
    BY <1>1, <1>2, <1>3, <1>4, <1>5
       DEF ThreadsOK, QueuesOK, LocksHeld, LocalsOK, Threads, Consumers, Producers
<1>l. LocalsOK'
    BY <1>1, <1>2, <1>3, <1>4, <1>5
       DEF ThreadsOK, LocalsOK, QueuesOK, LocksHeld, Threads, Consumers, Producers
<1>h. LocksHeld'
    BY <1>1, <1>2, <1>3, <1>4, <1>5
       DEF ThreadsOK, SyncOK, LocksHeld, QueuesWake, QueuesOK, Threads, Consumers, Producers
<1>w. QueuesWake'
    BY <1>1, <1>2, <1>3, <1>4, <1>5
       DEF ThreadsOK, SyncOK, LocksHeld, QueuesWake, Nobody, Threads, Consumers, Producers
<1>a. AnswersWake'
    BY <1>1, <1>2, <1>3, <1>4, <1>5
       DEF ThreadsOK, SyncOK, AnswersWake, Idle, Threads, Consumers, Producers
<1>f. FlagsWake'
    BY <1>1, <1>2, <1>3, <1>4, <1>5
       DEF ThreadsOK, SyncOK, FlagsWake, Idle, Threads, Consumers, Producers
<1> QED BY <1>t, <1>s, <1>q, <1>l, <1>h, <1>w, <1>a, <1>f

LEMMA ReadFlagInputKeeps == ASSUME IInv, ReadFlag("input") PROVE IInv'
<1> USE DEF IInv, TypeOK, tear
<1>1. UNCHANGED <<stdin, queue, done, file_name, file, line, str, printed, torn, spoiled,
                  crashed, spurious>>
    BY DEF ReadFlag, locals
<1>2. PICK l \in {"take", "sleep", "leave"} :
          /\ Goto("input", l)
          /\ l # "leave" => UNCHANGED holder
          /\ l = "leave" => holder' = [holder EXCEPT !["input"] = Nobody]
          /\ l = "take" => queue["input"] # <<>>
          /\ l = "sleep" => ~done["pre"] /\ UNCHANGED missed
    BY Wiring DEF ReadFlag, Release, Ready, Unclear
<1>3. /\ pc' \in [Threads -> Labels] /\ pc'["input"] = l
      /\ \A u \in Threads : u # "input" => pc'[u] = pc[u]
    BY <1>2, Moved DEF Threads, Labels, Loop, End
<1>4. /\ missed' \subseteq missed /\ UNCHANGED done
      /\ \A d \in Consumers : d # "input" /\ d \in missed => d \in missed'
    BY DEF ReadFlag
<1>5. /\ l # "last notify" /\ l # "asleep" /\ pc["input"] = "flag"
      /\ pc'["pre"] = pc["pre"] /\ pc'["work"] = pc["work"] /\ pc'["output"] = pc["output"]
      /\ "work" \in missed => "work" \in missed'
      /\ "output" \in missed => "output" \in missed'
    BY <1>2, <1>3, <1>4 DEF ReadFlag, Threads, Consumers
<1>t. ThreadsOK'
    BY <1>1, <1>2, <1>3, <1>4, <1>5
       DEF ThreadsOK, Labels, Loop, End, Threads, Consumers, Producers
<1>s. SyncOK'
    BY <1>1, <1>2, <1>3, <1>4, <1>5 DEF ThreadsOK, SyncOK, Threads, Consumers, Producers
<1>q. QueuesOK'
    BY <1>1, <1>2, <1>3, <1>4, <1>5
       DEF ThreadsOK, QueuesOK, LocksHeld, LocalsOK, Threads, Consumers, Producers
<1>l. LocalsOK'
    BY <1>1, <1>2, <1>3, <1>4, <1>5
       DEF ThreadsOK, LocalsOK, QueuesOK, LocksHeld, Threads, Consumers, Producers
<1>h. LocksHeld'
    BY <1>1, <1>2, <1>3, <1>4, <1>5
       DEF ThreadsOK, SyncOK, LocksHeld, QueuesWake, QueuesOK, Threads, Consumers, Producers
<1>w. QueuesWake'
    BY <1>1, <1>2, <1>3, <1>4, <1>5
       DEF ThreadsOK, SyncOK, LocksHeld, QueuesWake, Nobody, Threads, Consumers, Producers
<1>a. AnswersWake'
    BY <1>1, <1>2, <1>3, <1>4, <1>5
       DEF ThreadsOK, SyncOK, AnswersWake, Idle, Threads, Consumers, Producers
<1>f. FlagsWake'
    BY <1>1, <1>2, <1>3, <1>4, <1>5
       DEF ThreadsOK, SyncOK, FlagsWake, Idle, Threads, Consumers, Producers
<1> QED BY <1>t, <1>s, <1>q, <1>l, <1>h, <1>w, <1>a, <1>f

LEMMA LookWorkKeeps == ASSUME IInv, Look("work") PROVE IInv'
<1> USE DEF IInv, TypeOK, tear
<1>1. UNCHANGED <<stdin, queue, done, file_name, file, line, str, printed, torn, spoiled,
                  crashed, spurious>>
    BY DEF Look, locals
<1>2. PICK l \in {"take", "flag"} :
          /\ Goto("work", l)
          /\ holder' = [holder EXCEPT !["work"] = "work"]
          /\ l = "take" => queue["work"] # <<>>
          /\ l = "flag" => queue["work"] = <<>>
    BY DEF Look, Hold, Ready, Unclear
<1>3. /\ pc' \in [Threads -> Labels] /\ pc'["work"] = l
      /\ \A u \in Threads : u # "work" => pc'[u] = pc[u]
    BY <1>2, Moved DEF Threads, Labels, Loop, End
<1>4. /\ missed' \subseteq missed /\ UNCHANGED done
      /\ \A d \in Consumers : d # "work" /\ d \in missed => d \in missed'
    BY DEF Look
<1>5. /\ l # "last notify" /\ l # "asleep" /\ pc["work"] = "lock"
      /\ pc'["pre"] = pc["pre"] /\ pc'["input"] = pc["input"] /\ pc'["output"] = pc["output"]
      /\ "input" \in missed => "input" \in missed'
      /\ "output" \in missed => "output" \in missed'
    BY <1>2, <1>3, <1>4 DEF Look, Threads, Consumers
<1>t. ThreadsOK'
    BY <1>1, <1>2, <1>3, <1>4, <1>5
       DEF ThreadsOK, Labels, Loop, End, Threads, Consumers, Producers
<1>s. SyncOK'
    BY <1>1, <1>2, <1>3, <1>4, <1>5 DEF ThreadsOK, SyncOK, Threads, Consumers, Producers
<1>q. QueuesOK'
    BY <1>1, <1>2, <1>3, <1>4, <1>5
       DEF ThreadsOK, QueuesOK, LocksHeld, LocalsOK, Threads, Consumers, Producers
<1>l. LocalsOK'
    BY <1>1, <1>2, <1>3, <1>4, <1>5
       DEF ThreadsOK, LocalsOK, QueuesOK, LocksHeld, Threads, Consumers, Producers
<1>h. LocksHeld'
    BY <1>1, <1>2, <1>3, <1>4, <1>5
       DEF ThreadsOK, SyncOK, LocksHeld, QueuesWake, QueuesOK, Threads, Consumers, Producers
<1>w. QueuesWake'
    BY <1>1, <1>2, <1>3, <1>4, <1>5
       DEF ThreadsOK, SyncOK, LocksHeld, QueuesWake, Nobody, Threads, Consumers, Producers
<1>a. AnswersWake'
    BY <1>1, <1>2, <1>3, <1>4, <1>5
       DEF ThreadsOK, SyncOK, AnswersWake, Idle, Threads, Consumers, Producers
<1>f. FlagsWake'
    BY <1>1, <1>2, <1>3, <1>4, <1>5
       DEF ThreadsOK, SyncOK, FlagsWake, Idle, Threads, Consumers, Producers
<1> QED BY <1>t, <1>s, <1>q, <1>l, <1>h, <1>w, <1>a, <1>f

LEMMA ReadFlagWorkKeeps == ASSUME IInv, ReadFlag("work") PROVE IInv'
<1> USE DEF IInv, TypeOK, tear
<1>1. UNCHANGED <<stdin, queue, done, file_name, file, line, str, printed, torn, spoiled,
                  crashed, spurious>>
    BY DEF ReadFlag, locals
<1>2. PICK l \in {"take", "sleep", "leave"} :
          /\ Goto("work", l)
          /\ l # "leave" => UNCHANGED holder
          /\ l = "leave" => holder' = [holder EXCEPT !["work"] = Nobody]
          /\ l = "take" => queue["work"] # <<>>
          /\ l = "sleep" => ~done["input"] /\ UNCHANGED missed
    BY Wiring DEF ReadFlag, Release, Ready, Unclear
<1>3. /\ pc' \in [Threads -> Labels] /\ pc'["work"] = l
      /\ \A u \in Threads : u # "work" => pc'[u] = pc[u]
    BY <1>2, Moved DEF Threads, Labels, Loop, End
<1>4. /\ missed' \subseteq missed /\ UNCHANGED done
      /\ \A d \in Consumers : d # "work" /\ d \in missed => d \in missed'
    BY DEF ReadFlag
<1>5. /\ l # "last notify" /\ l # "asleep" /\ pc["work"] = "flag"
      /\ pc'["pre"] = pc["pre"] /\ pc'["input"] = pc["input"] /\ pc'["output"] = pc["output"]
      /\ "input" \in missed => "input" \in missed'
      /\ "output" \in missed => "output" \in missed'
    BY <1>2, <1>3, <1>4 DEF ReadFlag, Threads, Consumers
<1>t. ThreadsOK'
    BY <1>1, <1>2, <1>3, <1>4, <1>5
       DEF ThreadsOK, Labels, Loop, End, Threads, Consumers, Producers
<1>s. SyncOK'
    BY <1>1, <1>2, <1>3, <1>4, <1>5 DEF ThreadsOK, SyncOK, Threads, Consumers, Producers
<1>q. QueuesOK'
    BY <1>1, <1>2, <1>3, <1>4, <1>5
       DEF ThreadsOK, QueuesOK, LocksHeld, LocalsOK, Threads, Consumers, Producers
<1>l. LocalsOK'
    BY <1>1, <1>2, <1>3, <1>4, <1>5
       DEF ThreadsOK, LocalsOK, QueuesOK, LocksHeld, Threads, Consumers, Producers
<1>h. LocksHeld'
    BY <1>1, <1>2, <1>3, <1>4, <1>5
       DEF ThreadsOK, SyncOK, LocksHeld, QueuesWake, QueuesOK, Threads, Consumers, Producers
<1>w. QueuesWake'
    BY <1>1, <1>2, <1>3, <1>4, <1>5
       DEF ThreadsOK, SyncOK, LocksHeld, QueuesWake, Nobody, Threads, Consumers, Producers
<1>a. AnswersWake'
    BY <1>1, <1>2, <1>3, <1>4, <1>5
       DEF ThreadsOK, SyncOK, AnswersWake, Idle, Threads, Consumers, Producers
<1>f. FlagsWake'
    BY <1>1, <1>2, <1>3, <1>4, <1>5
       DEF ThreadsOK, SyncOK, FlagsWake, Idle, Threads, Consumers, Producers
<1> QED BY <1>t, <1>s, <1>q, <1>l, <1>h, <1>w, <1>a, <1>f

LEMMA LookOutputKeeps == ASSUME IInv, Look("output") PROVE IInv'
<1> USE DEF IInv, TypeOK, tear
<1>1. UNCHANGED <<stdin, queue, done, file_name, file, line, str, printed, torn, spoiled,
                  crashed, spurious>>
    BY DEF Look, locals
<1>2. PICK l \in {"take", "flag"} :
          /\ Goto("output", l)
          /\ holder' = [holder EXCEPT !["output"] = "output"]
          /\ l = "take" => queue["output"] # <<>> \/ torn
          /\ l = "flag" => queue["output"] = <<>> \/ torn
    BY DEF Look, Hold, Ready, Unclear
<1>3. /\ pc' \in [Threads -> Labels] /\ pc'["output"] = l
      /\ \A u \in Threads : u # "output" => pc'[u] = pc[u]
    BY <1>2, Moved DEF Threads, Labels, Loop, End
<1>4. /\ missed' \subseteq missed /\ UNCHANGED done
      /\ \A d \in Consumers : d # "output" /\ d \in missed => d \in missed'
    BY DEF Look
<1>5. /\ l # "last notify" /\ l # "asleep" /\ pc["output"] = "lock"
      /\ pc'["pre"] = pc["pre"] /\ pc'["input"] = pc["input"] /\ pc'["work"] = pc["work"]
      /\ "input" \in missed => "input" \in missed'
      /\ "work" \in missed => "work" \in missed'
    BY <1>2, <1>3, <1>4 DEF Look, Threads, Consumers
<1>t. ThreadsOK'
    BY <1>1, <1>2, <1>3, <1>4, <1>5
       DEF ThreadsOK, Labels, Loop, End, Threads, Consumers, Producers
<1>s. SyncOK'
    BY <1>1, <1>2, <1>3, <1>4, <1>5 DEF ThreadsOK, SyncOK, Threads, Consumers, Producers
<1>q. QueuesOK'
    BY <1>1, <1>2, <1>3, <1>4, <1>5
       DEF ThreadsOK, QueuesOK, LocksHeld, LocalsOK, Threads, Consumers, Producers
<1>l. LocalsOK'
    BY <1>1, <1>2, <1>3, <1>4, <1>5
       DEF ThreadsOK, LocalsOK, QueuesOK, LocksHeld, Threads, Consumers, Producers
<1>h. LocksHeld'
    BY <1>1, <1>2, <1>3, <1>4, <1>5
       DEF ThreadsOK, SyncOK, LocksHeld, QueuesWake, QueuesOK, Threads, Consumers, Producers
<1>w. QueuesWake'
    BY <1>1, <1>2, <1>3, <1>4, <1>5
       DEF ThreadsOK, SyncOK, LocksHeld, QueuesWake, Nobody, Threads, Consumers, Producers
<1>a. AnswersWake'
    BY <1>1, <1>2, <1>3, <1>4, <1>5
       DEF ThreadsOK, SyncOK, AnswersWake, Idle, Threads, Consumers, Producers
<1>f. FlagsWake'
    BY <1>1, <1>2, <1>3, <1>4, <1>5
       DEF ThreadsOK, SyncOK, FlagsWake, Idle, Threads, Consumers, Producers
<1> QED BY <1>t, <1>s, <1>q, <1>l, <1>h, <1>w, <1>a, <1>f

LEMMA ReadFlagOutputKeeps == ASSUME IInv, ReadFlag("output") PROVE IInv'
<1> USE DEF IInv, TypeOK, tear
<1>1. UNCHANGED <<stdin, queue, done, file_name, file, line, str, printed, torn, spoiled,
                  crashed, spurious>>
    BY DEF ReadFlag, locals
<1>2. PICK l \in {"take", "sleep", "ended"} :
          /\ Goto("output", l)
          /\ l # "ended" => UNCHANGED holder
          /\ l = "ended" => holder' = [holder EXCEPT !["output"] = Nobody]
          /\ l = "take" => queue["output"] # <<>> \/ torn
          /\ l = "sleep" => ~done["work"] /\ UNCHANGED missed
    BY Wiring DEF ReadFlag, Release, Ready, Unclear
<1>3. /\ pc' \in [Threads -> Labels] /\ pc'["output"] = l
      /\ \A u \in Threads : u # "output" => pc'[u] = pc[u]
    BY <1>2, Moved DEF Threads, Labels, Loop, End
<1>4. /\ missed' \subseteq missed /\ UNCHANGED done
      /\ \A d \in Consumers : d # "output" /\ d \in missed => d \in missed'
    BY DEF ReadFlag
<1>5. /\ l # "last notify" /\ l # "asleep" /\ pc["output"] = "flag"
      /\ pc'["pre"] = pc["pre"] /\ pc'["input"] = pc["input"] /\ pc'["work"] = pc["work"]
      /\ "input" \in missed => "input" \in missed'
      /\ "work" \in missed => "work" \in missed'
    BY <1>2, <1>3, <1>4 DEF ReadFlag, Threads, Consumers
<1>t. ThreadsOK'
    BY <1>1, <1>2, <1>3, <1>4, <1>5
       DEF ThreadsOK, Labels, Loop, End, Threads, Consumers, Producers
<1>s. SyncOK'
    BY <1>1, <1>2, <1>3, <1>4, <1>5 DEF ThreadsOK, SyncOK, Threads, Consumers, Producers
<1>q. QueuesOK'
    BY <1>1, <1>2, <1>3, <1>4, <1>5
       DEF ThreadsOK, QueuesOK, LocksHeld, LocalsOK, Threads, Consumers, Producers
<1>l. LocalsOK'
    BY <1>1, <1>2, <1>3, <1>4, <1>5
       DEF ThreadsOK, LocalsOK, QueuesOK, LocksHeld, Threads, Consumers, Producers
<1>h. LocksHeld'
    BY <1>1, <1>2, <1>3, <1>4, <1>5
       DEF ThreadsOK, SyncOK, LocksHeld, QueuesWake, QueuesOK, Threads, Consumers, Producers
<1>w. QueuesWake'
    BY <1>1, <1>2, <1>3, <1>4, <1>5
       DEF ThreadsOK, SyncOK, LocksHeld, QueuesWake, Nobody, Threads, Consumers, Producers
<1>a. AnswersWake'
    BY <1>1, <1>2, <1>3, <1>4, <1>5
       DEF ThreadsOK, SyncOK, AnswersWake, Idle, Threads, Consumers, Producers
<1>f. FlagsWake'
    BY <1>1, <1>2, <1>3, <1>4, <1>5
       DEF ThreadsOK, SyncOK, FlagsWake, Idle, Threads, Consumers, Producers
<1> QED BY <1>t, <1>s, <1>q, <1>l, <1>h, <1>w, <1>a, <1>f

LEMMA SleepInputKeeps == ASSUME IInv, Sleep("input") PROVE IInv'
<1> USE DEF IInv, TypeOK, tear
<1>t. ThreadsOK'
    BY
       DEF ThreadsOK, Labels, Loop, End, Sleep, Goto, Release, locals, Threads, Consumers,
           Producers
<1>s. SyncOK'
    BY DEF ThreadsOK, SyncOK, Sleep, Goto, Release, locals, Threads, Consumers, Producers
<1>q. QueuesOK'
    BY
       DEF ThreadsOK, QueuesOK, LocksHeld, LocalsOK, Sleep, Goto, Release, locals,
           Threads, Consumers, Producers
<1>l. LocalsOK'
    BY
       DEF ThreadsOK, LocalsOK, QueuesOK, LocksHeld, Sleep, Goto, Release, locals,
           Threads, Consumers, Producers
<1>h. LocksHeld'
    BY
       DEF ThreadsOK, SyncOK, LocksHeld, QueuesOK, Sleep, Goto, Release, locals, Threads,
           Consumers, Producers
<1>w. QueuesWake'
    BY
       DEF ThreadsOK, SyncOK, LocksHeld, QueuesWake, Nobody, Sleep, Goto, Release, locals,
           Threads, Consumers, Producers
<1>a. AnswersWake'
    BY
       DEF ThreadsOK, SyncOK, AnswersWake, Idle, Sleep, Goto, Release, locals, Threads,
           Consumers, Producers
<1>f. FlagsWake'
    BY
       DEF ThreadsOK, SyncOK, FlagsWake, Idle, Sleep, Goto, Release, locals, Threads,
           Consumers, Producers
<1> QED BY <1>t, <1>s, <1>q, <1>l, <1>h, <1>w, <1>a, <1>f

LEMMA SleepWorkKeeps == ASSUME IInv, Sleep("work") PROVE IInv'
<1> USE DEF IInv, TypeOK, tear
<1>t. ThreadsOK'
    BY
       DEF ThreadsOK, Labels, Loop, End, Sleep, Goto, Release, locals, Threads, Consumers,
           Producers
<1>s. SyncOK'
    BY DEF ThreadsOK, SyncOK, Sleep, Goto, Release, locals, Threads, Consumers, Producers
<1>q. QueuesOK'
    BY
       DEF ThreadsOK, QueuesOK, LocksHeld, LocalsOK, Sleep, Goto, Release, locals,
           Threads, Consumers, Producers
<1>l. LocalsOK'
    BY
       DEF ThreadsOK, LocalsOK, QueuesOK, LocksHeld, Sleep, Goto, Release, locals,
           Threads, Consumers, Producers
<1>h. LocksHeld'
    BY
       DEF ThreadsOK, SyncOK, LocksHeld, QueuesOK, Sleep, Goto, Release, locals, Threads,
           Consumers, Producers
<1>w. QueuesWake'
    BY
       DEF ThreadsOK, SyncOK, LocksHeld, QueuesWake, Nobody, Sleep, Goto, Release, locals,
           Threads, Consumers, Producers
<1>a. AnswersWake'
    BY
       DEF ThreadsOK, SyncOK, AnswersWake, Idle, Sleep, Goto, Release, locals, Threads,
           Consumers, Producers
<1>f. FlagsWake'
    BY
       DEF ThreadsOK, SyncOK, FlagsWake, Idle, Sleep, Goto, Release, locals, Threads,
           Consumers, Producers
<1> QED BY <1>t, <1>s, <1>q, <1>l, <1>h, <1>w, <1>a, <1>f

LEMMA SleepOutputKeeps == ASSUME IInv, Sleep("output") PROVE IInv'
<1> USE DEF IInv, TypeOK, tear
<1>t. ThreadsOK'
    BY
       DEF ThreadsOK, Labels, Loop, End, Sleep, Goto, Release, locals, Threads, Consumers,
           Producers
<1>s. SyncOK'
    BY DEF ThreadsOK, SyncOK, Sleep, Goto, Release, locals, Threads, Consumers, Producers
<1>q. QueuesOK'
    BY
       DEF ThreadsOK, QueuesOK, LocksHeld, LocalsOK, Sleep, Goto, Release, locals,
           Threads, Consumers, Producers
<1>l. LocalsOK'
    BY
       DEF ThreadsOK, LocalsOK, QueuesOK, LocksHeld, Sleep, Goto, Release, locals,
           Threads, Consumers, Producers
<1>h. LocksHeld'
    BY
       DEF ThreadsOK, SyncOK, LocksHeld, QueuesOK, Sleep, Goto, Release, locals, Threads,
           Consumers, Producers
<1>w. QueuesWake'
    BY
       DEF ThreadsOK, SyncOK, LocksHeld, QueuesWake, Nobody, Sleep, Goto, Release, locals,
           Threads, Consumers, Producers
<1>a. AnswersWake'
    BY
       DEF ThreadsOK, SyncOK, AnswersWake, Idle, Sleep, Goto, Release, locals, Threads,
           Consumers, Producers
<1>f. FlagsWake'
    BY
       DEF ThreadsOK, SyncOK, FlagsWake, Idle, Sleep, Goto, Release, locals, Threads,
           Consumers, Producers
<1> QED BY <1>t, <1>s, <1>q, <1>l, <1>h, <1>w, <1>a, <1>f

LEMMA SpuriousWakeupKeeps == ASSUME IInv, NEW c \in Consumers, SpuriousWakeup(c) PROVE IInv'
<1> USE DEF IInv, TypeOK, tear
<1>t. ThreadsOK'
    BY BoundsAssumption
       DEF ThreadsOK, Labels, Loop, End, SpuriousWakeup, Goto, locals, Threads, Consumers,
           Producers
<1>s. SyncOK'
    BY BoundsAssumption
       DEF ThreadsOK, SyncOK, SpuriousWakeup, Goto, locals, Threads, Consumers, Producers
<1>q. QueuesOK'
    BY BoundsAssumption
       DEF ThreadsOK, QueuesOK, LocksHeld, LocalsOK, SpuriousWakeup, Goto, locals,
           Threads, Consumers, Producers
<1>l. LocalsOK'
    BY BoundsAssumption
       DEF ThreadsOK, LocalsOK, QueuesOK, LocksHeld, SpuriousWakeup, Goto, locals,
           Threads, Consumers, Producers
<1>h. LocksHeld'
    BY BoundsAssumption
       DEF ThreadsOK, SyncOK, LocksHeld, QueuesOK, SpuriousWakeup, Goto, locals, Threads,
           Consumers, Producers
<1>w. QueuesWake'
    BY BoundsAssumption
       DEF ThreadsOK, SyncOK, LocksHeld, QueuesWake, Nobody, SpuriousWakeup, Goto, locals,
           Threads, Consumers, Producers
<1>a. AnswersWake'
    BY BoundsAssumption
       DEF ThreadsOK, SyncOK, AnswersWake, Idle, SpuriousWakeup, Goto, locals, Threads,
           Consumers, Producers
<1>f. FlagsWake'
    BY BoundsAssumption
       DEF ThreadsOK, SyncOK, FlagsWake, Idle, SpuriousWakeup, Goto, locals, Threads,
           Consumers, Producers
<1> QED BY <1>t, <1>s, <1>q, <1>l, <1>h, <1>w, <1>a, <1>f

LEMMA FinishKeeps == ASSUME IInv, NEW p \in Producers, Finish(p) PROVE IInv'
<1> USE DEF IInv, TypeOK, tear
<1>t. ThreadsOK'
    BY DEF ThreadsOK, Labels, Loop, End, Finish, Goto, locals, Threads, Consumers, Producers
<1>s. SyncOK'
    BY DEF ThreadsOK, SyncOK, Finish, Goto, locals, Threads, Consumers, Producers
<1>q. QueuesOK'
    BY
       DEF ThreadsOK, QueuesOK, LocksHeld, LocalsOK, Finish, Goto, locals, Threads,
           Consumers, Producers
<1>l. LocalsOK'
    BY
       DEF ThreadsOK, LocalsOK, QueuesOK, LocksHeld, Finish, Goto, locals, Threads,
           Consumers, Producers
<1>h. LocksHeld'
    BY
       DEF ThreadsOK, SyncOK, LocksHeld, QueuesOK, Finish, Goto, locals, Threads,
           Consumers, Producers
<1>w. QueuesWake'
    BY
       DEF ThreadsOK, SyncOK, LocksHeld, QueuesWake, Nobody, Finish, Goto, locals,
           Threads, Consumers, Producers
<1>a. AnswersWake'
    BY
       DEF ThreadsOK, SyncOK, AnswersWake, Idle, Finish, Goto, locals, Threads, Consumers,
           Producers
<1>f. FlagsWake'
    BY
       DEF ThreadsOK, SyncOK, FlagsWake, Idle, Finish, Goto, locals, Threads, Consumers,
           Producers
<1> QED BY <1>t, <1>s, <1>q, <1>l, <1>h, <1>w, <1>a, <1>f

LEMMA LastNotifyPreKeeps == ASSUME IInv, LastNotify("pre") PROVE IInv'
<1> USE DEF IInv, TypeOK, tear
<1>1. /\ pc' \in [Threads -> Labels] /\ pc'["pre"] = "ended"
      /\ pc'["work"] = pc["work"] /\ pc'["output"] = pc["output"]
      /\ pc'["input"] = IF pc["input"] = "asleep" THEN "lock" ELSE pc["input"]
      /\ missed \subseteq missed' /\ missed' \subseteq missed \cup {"input"}
      /\ pc["input"] \in {"flag", "sleep"} /\ (queue["input"] # <<>> \/ done["pre"]) =>
             "input" \in missed'
    BY Notified, Wiring DEF LastNotify, Threads, Producers, Labels, Loop, End
<1>2. /\ UNCHANGED <<stdin, queue, done, file_name, file, line, str, printed, torn, spoiled,
                  crashed, spurious>>
      /\ pc["pre"] = "last notify"
    BY DEF LastNotify, locals
<1>3. UNCHANGED holder
    BY DEF LastNotify
<1>t. ThreadsOK'
    BY <1>1, <1>2, <1>3 DEF ThreadsOK, Labels, Loop, End, Threads, Consumers, Producers
<1>s. SyncOK'
    BY <1>1, <1>2, <1>3 DEF ThreadsOK, SyncOK, Threads, Consumers, Producers
<1>q. QueuesOK'
    BY <1>1, <1>2, <1>3
       DEF ThreadsOK, QueuesOK, LocksHeld, LocalsOK, Threads, Consumers, Producers
<1>l. LocalsOK'
    BY <1>1, <1>2, <1>3
       DEF ThreadsOK, LocalsOK, QueuesOK, LocksHeld, Threads, Consumers, Producers
<1>h. LocksHeld'
    BY <1>1, <1>2, <1>3
       DEF ThreadsOK, SyncOK, LocksHeld, QueuesOK, Threads, Consumers, Producers
<1>w. QueuesWake'
    BY <1>1, <1>2, <1>3
       DEF ThreadsOK, SyncOK, LocksHeld, QueuesWake, Nobody, Threads, Consumers, Producers
<1>a. AnswersWake'
    BY <1>1, <1>2, <1>3
       DEF ThreadsOK, SyncOK, AnswersWake, Idle, Threads, Consumers, Producers
<1>f. FlagsWake'
    BY <1>1, <1>2, <1>3
       DEF ThreadsOK, SyncOK, FlagsWake, Idle, Threads, Consumers, Producers
<1> QED BY <1>t, <1>s, <1>q, <1>l, <1>h, <1>w, <1>a, <1>f

LEMMA LastNotifyInputKeeps == ASSUME IInv, LastNotify("input") PROVE IInv'
<1> USE DEF IInv, TypeOK, tear
<1>1. /\ pc' \in [Threads -> Labels] /\ pc'["input"] = "ended"
      /\ pc'["pre"] = pc["pre"] /\ pc'["output"] = pc["output"]
      /\ pc'["work"] = IF pc["work"] = "asleep" THEN "lock" ELSE pc["work"]
      /\ missed \subseteq missed' /\ missed' \subseteq missed \cup {"work"}
      /\ pc["work"] \in {"flag", "sleep"} /\ (queue["work"] # <<>> \/ done["input"]) =>
             "work" \in missed'
    BY Notified, Wiring DEF LastNotify, Threads, Producers, Labels, Loop, End
<1>2. /\ UNCHANGED <<stdin, queue, done, file_name, file, line, str, printed, torn, spoiled,
                  crashed, spurious>>
      /\ pc["input"] = "last notify"
    BY DEF LastNotify, locals
<1>3. UNCHANGED holder
    BY DEF LastNotify
<1>t. ThreadsOK'
    BY <1>1, <1>2, <1>3 DEF ThreadsOK, Labels, Loop, End, Threads, Consumers, Producers
<1>s. SyncOK'
    BY <1>1, <1>2, <1>3 DEF ThreadsOK, SyncOK, Threads, Consumers, Producers
<1>q. QueuesOK'
    BY <1>1, <1>2, <1>3
       DEF ThreadsOK, QueuesOK, LocksHeld, LocalsOK, Threads, Consumers, Producers
<1>l. LocalsOK'
    BY <1>1, <1>2, <1>3
       DEF ThreadsOK, LocalsOK, QueuesOK, LocksHeld, Threads, Consumers, Producers
<1>h. LocksHeld'
    BY <1>1, <1>2, <1>3
       DEF ThreadsOK, SyncOK, LocksHeld, QueuesOK, Threads, Consumers, Producers
<1>w. QueuesWake'
    BY <1>1, <1>2, <1>3
       DEF ThreadsOK, SyncOK, LocksHeld, QueuesWake, Nobody, Threads, Consumers, Producers
<1>a. AnswersWake'
    BY <1>1, <1>2, <1>3
       DEF ThreadsOK, SyncOK, AnswersWake, Idle, Threads, Consumers, Producers
<1>f. FlagsWake'
    BY <1>1, <1>2, <1>3
       DEF ThreadsOK, SyncOK, FlagsWake, Idle, Threads, Consumers, Producers
<1> QED BY <1>t, <1>s, <1>q, <1>l, <1>h, <1>w, <1>a, <1>f

LEMMA LastNotifyWorkKeeps == ASSUME IInv, LastNotify("work") PROVE IInv'
<1> USE DEF IInv, TypeOK, tear
<1>1. /\ pc' \in [Threads -> Labels] /\ pc'["work"] = "ended"
      /\ pc'["pre"] = pc["pre"] /\ pc'["input"] = pc["input"]
      /\ pc'["output"] = IF pc["output"] = "asleep" THEN "lock" ELSE pc["output"]
      /\ missed \subseteq missed' /\ missed' \subseteq missed \cup {"output"}
      /\ pc["output"] \in {"flag", "sleep"} /\ (queue["output"] # <<>> \/ done["work"]) =>
             "output" \in missed'
    BY Notified, Wiring DEF LastNotify, Threads, Producers, Labels, Loop, End
<1>2. /\ UNCHANGED <<stdin, queue, done, file_name, file, line, str, printed, torn, spoiled,
                  crashed, spurious>>
      /\ pc["work"] = "last notify"
    BY DEF LastNotify, locals
<1>3. UNCHANGED holder
    BY DEF LastNotify
<1>t. ThreadsOK'
    BY <1>1, <1>2, <1>3 DEF ThreadsOK, Labels, Loop, End, Threads, Consumers, Producers
<1>s. SyncOK'
    BY <1>1, <1>2, <1>3 DEF ThreadsOK, SyncOK, Threads, Consumers, Producers
<1>q. QueuesOK'
    BY <1>1, <1>2, <1>3
       DEF ThreadsOK, QueuesOK, LocksHeld, LocalsOK, Threads, Consumers, Producers
<1>l. LocalsOK'
    BY <1>1, <1>2, <1>3
       DEF ThreadsOK, LocalsOK, QueuesOK, LocksHeld, Threads, Consumers, Producers
<1>h. LocksHeld'
    BY <1>1, <1>2, <1>3
       DEF ThreadsOK, SyncOK, LocksHeld, QueuesOK, Threads, Consumers, Producers
<1>w. QueuesWake'
    BY <1>1, <1>2, <1>3
       DEF ThreadsOK, SyncOK, LocksHeld, QueuesWake, Nobody, Threads, Consumers, Producers
<1>a. AnswersWake'
    BY <1>1, <1>2, <1>3
       DEF ThreadsOK, SyncOK, AnswersWake, Idle, Threads, Consumers, Producers
<1>f. FlagsWake'
    BY <1>1, <1>2, <1>3
       DEF ThreadsOK, SyncOK, FlagsWake, Idle, Threads, Consumers, Producers
<1> QED BY <1>t, <1>s, <1>q, <1>l, <1>h, <1>w, <1>a, <1>f

LEMMA NotifyNameKeeps == ASSUME IInv, NotifyName PROVE IInv'
<1> USE DEF IInv, TypeOK, tear
<1>1. /\ pc' \in [Threads -> Labels] /\ pc'["pre"] = "read"
      /\ pc'["work"] = pc["work"] /\ pc'["output"] = pc["output"]
      /\ pc'["input"] = IF pc["input"] = "asleep" THEN "lock" ELSE pc["input"]
      /\ missed \subseteq missed' /\ missed' \subseteq missed \cup {"input"}
      /\ pc["input"] \in {"flag", "sleep"} /\ (queue["input"] # <<>> \/ done["pre"]) =>
             "input" \in missed'
    BY Notified, Wiring DEF NotifyName, Threads, Producers, Labels, Loop, End
<1>2. /\ UNCHANGED <<stdin, queue, done, file_name, file, line, str, printed, torn, spoiled,
                  crashed, spurious>>
      /\ pc["pre"] = "notify"
    BY DEF NotifyName, locals
<1>3. UNCHANGED holder
    BY DEF NotifyName
<1>t. ThreadsOK'
    BY <1>1, <1>2, <1>3 DEF ThreadsOK, Labels, Loop, End, Threads, Consumers, Producers
<1>s. SyncOK'
    BY <1>1, <1>2, <1>3 DEF ThreadsOK, SyncOK, Threads, Consumers, Producers
<1>q. QueuesOK'
    BY <1>1, <1>2, <1>3
       DEF ThreadsOK, QueuesOK, LocksHeld, LocalsOK, Threads, Consumers, Producers
<1>l. LocalsOK'
    BY <1>1, <1>2, <1>3
       DEF ThreadsOK, LocalsOK, QueuesOK, LocksHeld, Threads, Consumers, Producers
<1>h. LocksHeld'
    BY <1>1, <1>2, <1>3
       DEF ThreadsOK, SyncOK, LocksHeld, QueuesOK, Threads, Consumers, Producers
<1>w. QueuesWake'
    BY <1>1, <1>2, <1>3
       DEF ThreadsOK, SyncOK, LocksHeld, QueuesWake, Nobody, Threads, Consumers, Producers
<1>a. AnswersWake'
    BY <1>1, <1>2, <1>3
       DEF ThreadsOK, SyncOK, AnswersWake, Idle, Threads, Consumers, Producers
<1>f. FlagsWake'
    BY <1>1, <1>2, <1>3
       DEF ThreadsOK, SyncOK, FlagsWake, Idle, Threads, Consumers, Producers
<1> QED BY <1>t, <1>s, <1>q, <1>l, <1>h, <1>w, <1>a, <1>f

LEMMA NotifyAnswerKeeps == ASSUME IInv, NotifyAnswer PROVE IInv'
<1> USE DEF IInv, TypeOK, tear
<1>1. /\ pc' \in [Threads -> Labels] /\ pc'["work"] = "lock"
      /\ pc'["pre"] = pc["pre"] /\ pc'["input"] = pc["input"]
      /\ pc'["output"] = IF pc["output"] = "asleep" THEN "lock" ELSE pc["output"]
      /\ missed \subseteq missed' /\ missed' \subseteq missed \cup {"output"}
      /\ pc["output"] \in {"flag", "sleep"} /\ (queue["output"] # <<>> \/ done["work"]) =>
             "output" \in missed'
    BY Notified, Wiring DEF NotifyAnswer, Threads, Producers, Labels, Loop, End
<1>2. /\ UNCHANGED <<stdin, queue, done, file_name, file, line, str, printed, torn, spoiled,
                  crashed, spurious>>
      /\ pc["work"] = "notify"
    BY DEF NotifyAnswer, locals
<1>3. holder' = [holder EXCEPT !["work"] = Nobody]
    BY DEF NotifyAnswer, Release
<1>t. ThreadsOK'
    BY <1>1, <1>2, <1>3 DEF ThreadsOK, Labels, Loop, End, Threads, Consumers, Producers
<1>s. SyncOK'
    BY <1>1, <1>2, <1>3 DEF ThreadsOK, SyncOK, Threads, Consumers, Producers
<1>q. QueuesOK'
    BY <1>1, <1>2, <1>3
       DEF ThreadsOK, QueuesOK, LocksHeld, LocalsOK, Threads, Consumers, Producers
<1>l. LocalsOK'
    BY <1>1, <1>2, <1>3
       DEF ThreadsOK, LocalsOK, QueuesOK, LocksHeld, Threads, Consumers, Producers
<1>h. LocksHeld'
    BY <1>1, <1>2, <1>3
       DEF ThreadsOK, SyncOK, LocksHeld, QueuesOK, Threads, Consumers, Producers
<1>w. QueuesWake'
    BY <1>1, <1>2, <1>3
       DEF ThreadsOK, SyncOK, LocksHeld, QueuesWake, Nobody, Threads, Consumers, Producers
<1>a. AnswersWake'
    BY <1>1, <1>2, <1>3
       DEF ThreadsOK, SyncOK, AnswersWake, Idle, Threads, Consumers, Producers
<1>f. FlagsWake'
    BY <1>1, <1>2, <1>3
       DEF ThreadsOK, SyncOK, FlagsWake, Idle, Threads, Consumers, Producers
<1> QED BY <1>t, <1>s, <1>q, <1>l, <1>h, <1>w, <1>a, <1>f

LEMMA TakeNameKeeps == ASSUME IInv, TakeName PROVE IInv'
<1> USE DEF IInv, TypeOK, tear
<1>t. ThreadsOK'
    BY
       DEF ThreadsOK, Labels, Loop, End, TakeName, Pop, Goto, Release, Threads, Consumers,
           Producers
<1>s. SyncOK'
    BY DEF ThreadsOK, SyncOK, TakeName, Pop, Goto, Release, Threads, Consumers, Producers
<1>q. QueuesOK'
    BY
       DEF ThreadsOK, QueuesOK, LocksHeld, LocalsOK, TakeName, Pop, Goto, Release,
           Threads, Consumers, Producers
<1>l. LocalsOK'
    BY FilesAssumption
       DEF ThreadsOK, LocalsOK, QueuesOK, LocksHeld, TakeName, Pop, Goto, Release,
           Threads, Consumers, Producers
<1>h. LocksHeld'
    BY
       DEF ThreadsOK, SyncOK, LocksHeld, QueuesOK, TakeName, Pop, Goto, Release, Threads,
           Consumers, Producers
<1>w. QueuesWake'
    BY
       DEF ThreadsOK, SyncOK, LocksHeld, QueuesWake, Nobody, TakeName, Pop, Goto, Release,
           Threads, Consumers, Producers
<1>a. AnswersWake'
    BY
       DEF ThreadsOK, SyncOK, AnswersWake, Idle, TakeName, Pop, Goto, Release, Threads,
           Consumers, Producers
<1>f. FlagsWake'
    BY
       DEF ThreadsOK, SyncOK, FlagsWake, Idle, TakeName, Pop, Goto, Release, Threads,
           Consumers, Producers
<1> QED BY <1>t, <1>s, <1>q, <1>l, <1>h, <1>w, <1>a, <1>f

LEMMA CloseFileKeeps == ASSUME IInv, CloseFile PROVE IInv'
<1> USE DEF IInv, TypeOK, tear
<1>t. ThreadsOK'
    BY
       DEF ThreadsOK, Labels, Loop, End, CloseFile, MoreLines, Goto, Release, locals,
           Threads, Consumers, Producers
<1>s. SyncOK'
    BY
       DEF ThreadsOK, SyncOK, CloseFile, MoreLines, Goto, Release, locals, Threads,
           Consumers, Producers
<1>q. QueuesOK'
    BY
       DEF ThreadsOK, QueuesOK, LocksHeld, LocalsOK, CloseFile, MoreLines, Goto, Release,
           locals, Threads, Consumers, Producers
<1>l. LocalsOK'
    BY
       DEF ThreadsOK, LocalsOK, QueuesOK, LocksHeld, CloseFile, MoreLines, Goto, Release,
           locals, Threads, Consumers, Producers
<1>h. LocksHeld'
    BY
       DEF ThreadsOK, SyncOK, LocksHeld, QueuesOK, CloseFile, MoreLines, Goto, Release,
           locals, Threads, Consumers, Producers
<1>w. QueuesWake'
    BY
       DEF ThreadsOK, SyncOK, LocksHeld, QueuesWake, Nobody, CloseFile, MoreLines, Goto,
           Release, locals, Threads, Consumers, Producers
<1>a. AnswersWake'
    BY
       DEF ThreadsOK, SyncOK, AnswersWake, Idle, CloseFile, MoreLines, Goto, Release,
           locals, Threads, Consumers, Producers
<1>f. FlagsWake'
    BY
       DEF ThreadsOK, SyncOK, FlagsWake, Idle, CloseFile, MoreLines, Goto, Release,
           locals, Threads, Consumers, Producers
<1> QED BY <1>t, <1>s, <1>q, <1>l, <1>h, <1>w, <1>a, <1>f

LEMMA TakeLineKeeps == ASSUME IInv, TakeLine PROVE IInv'
<1> USE DEF IInv, TypeOK, tear
<1>t. ThreadsOK'
    BY DEF ThreadsOK, Labels, Loop, End, TakeLine, Pop, Goto, Threads, Consumers, Producers
<1>s. SyncOK'
    BY DEF ThreadsOK, SyncOK, TakeLine, Pop, Goto, Threads, Consumers, Producers
<1>q. QueuesOK'
    BY
       DEF ThreadsOK, QueuesOK, LocksHeld, LocalsOK, TakeLine, Pop, Goto, Threads,
           Consumers, Producers
<1>l. LocalsOK'
    BY
       DEF ThreadsOK, LocalsOK, QueuesOK, LocksHeld, TakeLine, Pop, Goto, Threads,
           Consumers, Producers
<1>h. LocksHeld'
    BY
       DEF ThreadsOK, SyncOK, LocksHeld, QueuesOK, TakeLine, Pop, Goto, Threads,
           Consumers, Producers
<1>w. QueuesWake'
    BY
       DEF ThreadsOK, SyncOK, LocksHeld, QueuesWake, Nobody, TakeLine, Pop, Goto, Threads,
           Consumers, Producers
<1>a. AnswersWake'
    BY
       DEF ThreadsOK, SyncOK, AnswersWake, Idle, TakeLine, Pop, Goto, Threads, Consumers,
           Producers
<1>f. FlagsWake'
    BY
       DEF ThreadsOK, SyncOK, FlagsWake, Idle, TakeLine, Pop, Goto, Threads, Consumers,
           Producers
<1> QED BY <1>t, <1>s, <1>q, <1>l, <1>h, <1>w, <1>a, <1>f

LEMMA BeginGrowingKeeps == ASSUME IInv, BeginGrowing PROVE IInv'
<1> USE DEF IInv, TypeOK, tear
<1>t. ThreadsOK'
    BY
       DEF ThreadsOK, Labels, Loop, End, BeginGrowing, Goto, locals, Threads, Consumers,
           Producers
<1>s. SyncOK'
    BY DEF ThreadsOK, SyncOK, BeginGrowing, Goto, locals, Threads, Consumers, Producers
<1>q. QueuesOK'
    BY
       DEF ThreadsOK, QueuesOK, LocksHeld, LocalsOK, BeginGrowing, Goto, locals, Threads,
           Consumers, Producers
<1>l. LocalsOK'
    BY
       DEF ThreadsOK, LocalsOK, QueuesOK, LocksHeld, BeginGrowing, Goto, locals, Threads,
           Consumers, Producers
<1>h. LocksHeld'
    BY
       DEF ThreadsOK, SyncOK, LocksHeld, QueuesOK, BeginGrowing, Goto, locals, Threads,
           Consumers, Producers
<1>w. QueuesWake'
    BY
       DEF ThreadsOK, SyncOK, LocksHeld, QueuesWake, Nobody, BeginGrowing, Goto, locals,
           Threads, Consumers, Producers
<1>a. AnswersWake'
    BY
       DEF ThreadsOK, SyncOK, AnswersWake, Idle, BeginGrowing, Goto, locals, Threads,
           Consumers, Producers
<1>f. FlagsWake'
    BY
       DEF ThreadsOK, SyncOK, FlagsWake, Idle, BeginGrowing, Goto, locals, Threads,
           Consumers, Producers
<1> QED BY <1>t, <1>s, <1>q, <1>l, <1>h, <1>w, <1>a, <1>f

LEMMA PrintAnswerKeeps == ASSUME IInv, PrintAnswer PROVE IInv'
<1> USE DEF IInv, TypeOK, tear
<1>t. ThreadsOK'
    BY
       DEF ThreadsOK, Labels, Loop, End, PrintAnswer, Goto, locals, Threads, Consumers,
           Producers
<1>s. SyncOK'
    BY DEF ThreadsOK, SyncOK, PrintAnswer, Goto, locals, Threads, Consumers, Producers
<1>q. QueuesOK'
    BY
       DEF ThreadsOK, QueuesOK, LocksHeld, LocalsOK, PrintAnswer, Goto, locals, Threads,
           Consumers, Producers
<1>l. LocalsOK'
    BY
       DEF ThreadsOK, LocalsOK, QueuesOK, LocksHeld, PrintAnswer, Goto, locals, Threads,
           Consumers, Producers
<1>h. LocksHeld'
    BY
       DEF ThreadsOK, SyncOK, LocksHeld, QueuesOK, PrintAnswer, Goto, locals, Threads,
           Consumers, Producers
<1>w. QueuesWake'
    BY
       DEF ThreadsOK, SyncOK, LocksHeld, QueuesWake, Nobody, PrintAnswer, Goto, locals,
           Threads, Consumers, Producers
<1>a. AnswersWake'
    BY
       DEF ThreadsOK, SyncOK, AnswersWake, Idle, PrintAnswer, Goto, locals, Threads,
           Consumers, Producers
<1>f. FlagsWake'
    BY
       DEF ThreadsOK, SyncOK, FlagsWake, Idle, PrintAnswer, Goto, locals, Threads,
           Consumers, Producers
<1> QED BY <1>t, <1>s, <1>q, <1>l, <1>h, <1>w, <1>a, <1>f

LEMMA PopAnswerKeeps == ASSUME IInv, PopAnswer PROVE IInv'
<1> USE DEF IInv, TypeOK, tear
<1>1. /\ UNCHANGED <<stdin, done, file_name, file, line, str, printed, spoiled, crashed,
                     spurious, missed>>
      /\ pc["output"] = "pop" /\ holder' = [holder EXCEPT !["output"] = Nobody]
    BY DEF PopAnswer, Release, locals
<1>2. /\ pc' \in [Threads -> Labels] /\ pc'["output"] = "lock"
      /\ pc'["pre"] = pc["pre"] /\ pc'["input"] = pc["input"] /\ pc'["work"] = pc["work"]
    BY Moved DEF PopAnswer, Threads, Labels, Loop
<1>3. torn' \in BOOLEAN /\ (torn => torn')
    BY DEF PopAnswer, SyncOK
<1>4. /\ queue' \in [Consumers -> Seq(Names) \cup Seq(Lines) \cup Seq(Answers)]
      /\ queue'["output"] \in Seq(Answers)
      /\ queue'["input"] = queue["input"] /\ queue'["work"] = queue["work"]
    <2>1. CASE torn
        BY <2>1 DEF PopAnswer, QueuesOK
    <2>2. CASE ~torn
        <3>1. queue["output"] \in Seq(Answers) /\ queue["output"] # <<>>
            BY <2>2, <1>1 DEF QueuesOK, LocksHeld
        <3>2. Tail(queue["output"]) \in Seq(Answers)
            BY <3>1
        <3>3. queue' = [queue EXCEPT !["output"] = Tail(queue["output"])]
            BY <2>2 DEF PopAnswer, Pop
        <3> QED BY <3>2, <3>3 DEF QueuesOK, Consumers
    <2> QED BY <2>1, <2>2
<1>t. ThreadsOK'
    BY <1>1, <1>2, <1>3, <1>4
       DEF ThreadsOK, Labels, Loop, End, Threads, Consumers, Producers
<1>s. SyncOK'
    BY <1>1, <1>2, <1>3, <1>4 DEF ThreadsOK, SyncOK, Threads, Consumers, Producers
<1>q. QueuesOK'
    BY <1>1, <1>2, <1>3, <1>4
       DEF ThreadsOK, QueuesOK, LocksHeld, LocalsOK, Threads, Consumers, Producers
<1>l. LocalsOK'
    BY <1>1, <1>2, <1>3, <1>4
       DEF ThreadsOK, LocalsOK, QueuesOK, LocksHeld, Threads, Consumers, Producers
<1>h. LocksHeld'
    BY <1>1, <1>2, <1>3, <1>4
       DEF ThreadsOK, SyncOK, LocksHeld, QueuesWake, QueuesOK, Threads, Consumers, Producers
<1>w. QueuesWake'
    BY <1>1, <1>2, <1>3, <1>4
       DEF ThreadsOK, SyncOK, LocksHeld, QueuesWake, Nobody, Threads, Consumers, Producers
<1>a. AnswersWake'
    BY <1>1, <1>2, <1>3, <1>4
       DEF ThreadsOK, SyncOK, AnswersWake, Idle, Threads, Consumers, Producers
<1>f. FlagsWake'
    BY <1>1, <1>2, <1>3, <1>4
       DEF ThreadsOK, SyncOK, FlagsWake, Idle, Threads, Consumers, Producers
<1> QED BY <1>t, <1>s, <1>q, <1>l, <1>h, <1>w, <1>a, <1>f

LEMMA PrintSpoiledKeeps == ASSUME IInv, PrintSpoiled PROVE IInv'
<1> USE DEF IInv, TypeOK, tear
<1>t. ThreadsOK'
    BY
       DEF ThreadsOK, Labels, Loop, End, PrintSpoiled, Goto, locals, Threads, Consumers,
           Producers
<1>s. SyncOK'
    <2>1. spoiled' \in 0..MaxSpoiled
        BY BoundsAssumption DEF SyncOK, PrintSpoiled
    <2> QED BY <2>1 DEF SyncOK, PrintSpoiled, locals
<1>q. QueuesOK'
    BY
       DEF ThreadsOK, QueuesOK, LocksHeld, LocalsOK, PrintSpoiled, Goto, locals, Threads,
           Consumers, Producers
<1>l. LocalsOK'
    BY
       DEF ThreadsOK, LocalsOK, QueuesOK, LocksHeld, PrintSpoiled, Goto, locals, Threads,
           Consumers, Producers
<1>h. LocksHeld'
    BY
       DEF ThreadsOK, SyncOK, LocksHeld, QueuesOK, PrintSpoiled, Goto, locals, Threads,
           Consumers, Producers
<1>w. QueuesWake'
    BY
       DEF ThreadsOK, SyncOK, LocksHeld, QueuesWake, Nobody, PrintSpoiled, Goto, locals,
           Threads, Consumers, Producers
<1>a. AnswersWake'
    BY
       DEF ThreadsOK, SyncOK, AnswersWake, Idle, PrintSpoiled, Goto, locals, Threads, Consumers,
           Producers
<1>f. FlagsWake'
    BY
       DEF ThreadsOK, SyncOK, FlagsWake, Idle, PrintSpoiled, Goto, locals, Threads, Consumers,
           Producers
<1> QED BY <1>t, <1>s, <1>q, <1>l, <1>h, <1>w, <1>a, <1>f

LEMMA CrashKeeps == ASSUME IInv, Crash PROVE IInv'
<1>0. /\ UNCHANGED <<stdin, pc, queue, done, holder, file_name, file, line, str, printed>>
      /\ UNCHANGED <<torn, spoiled, spurious, missed>> /\ crashed' \in BOOLEAN
  BY DEF Crash, locals
<1>t. ThreadsOK'
  <2>1. ThreadsOK
    BY DEF IInv, TypeOK
  <2> QED BY <1>0, <2>1 DEF ThreadsOK
<1>s. SyncOK'
  BY <1>0 DEF IInv, TypeOK, SyncOK
<1>q. QueuesOK'
  BY <1>0 DEF IInv, TypeOK, QueuesOK
<1>l. LocalsOK'
  BY <1>0 DEF IInv, TypeOK, LocalsOK
<1>h. LocksHeld'
  BY <1>0 DEF IInv, LocksHeld
<1>w. QueuesWake'
  BY <1>0 DEF IInv, QueuesWake
<1>a. AnswersWake'
  BY <1>0 DEF IInv, AnswersWake, Idle
<1>f. FlagsWake'
  BY <1>0 DEF IInv, FlagsWake, Idle
<1> QED BY <1>t, <1>s, <1>q, <1>l, <1>h, <1>w, <1>a, <1>f DEF IInv, TypeOK

LEMMA ReadNameKeeps == ASSUME IInv, ReadName PROVE IInv'
<1> USE DEF IInv, TypeOK, tear
<1>1. stdin' \in Seq(Names) /\ (pc'["pre"] = "push" => file_name' \in Names)
    <2>1. CASE EndOfInput
        BY <2>1 DEF ReadName, Goto, QueuesOK, ThreadsOK, Threads
    <2>2. CASE ~EndOfInput
        <3>1. stdin # <<>> /\ stdin \in Seq(Names)
            BY <2>2 DEF EndOfInput, QueuesOK
        <3>2. Head(stdin) \in Names /\ Tail(stdin) \in Seq(Names)
            BY <3>1
        <3> QED BY <2>2, <3>2 DEF ReadName
    <2> QED BY <2>1, <2>2
<1>t. ThreadsOK'
    BY <1>1 DEF ThreadsOK, Labels, Loop, End, ReadName, Goto, Threads, Consumers, Producers
<1>s. SyncOK'
    BY <1>1 DEF ThreadsOK, SyncOK, ReadName, Goto, Threads, Consumers, Producers
<1>q. QueuesOK'
    BY <1>1
       DEF ThreadsOK, QueuesOK, LocksHeld, LocalsOK, ReadName, Goto, Threads, Consumers,
           Producers
<1>l. LocalsOK'
    BY <1>1
       DEF ThreadsOK, LocalsOK, QueuesOK, LocksHeld, ReadName, Goto, Threads, Consumers,
           Producers
<1>h. LocksHeld'
    BY <1>1
       DEF ThreadsOK, SyncOK, LocksHeld, QueuesOK, ReadName, Goto, Threads, Consumers,
           Producers
<1>w. QueuesWake'
    BY <1>1
       DEF ThreadsOK, SyncOK, LocksHeld, QueuesWake, Nobody, ReadName, Goto, Threads,
           Consumers, Producers
<1>a. AnswersWake'
    BY <1>1
       DEF ThreadsOK, SyncOK, AnswersWake, Idle, ReadName, Goto, Threads, Consumers,
           Producers
<1>f. FlagsWake'
    BY <1>1
       DEF ThreadsOK, SyncOK, FlagsWake, Idle, ReadName, Goto, Threads, Consumers, Producers
<1> QED BY <1>t, <1>s, <1>q, <1>l, <1>h, <1>w, <1>a, <1>f

LEMMA PushNameKeeps == ASSUME IInv, PushName PROVE IInv'
<1> USE DEF IInv, TypeOK, tear
<1>1. /\ queue'["input"] # <<>> /\ queue'["input"] \in Seq(Names)
      /\ queue' \in [Consumers -> Seq(Names) \cup Seq(Lines) \cup Seq(Answers)]
      /\ \A d \in Consumers : d # "input" => queue'[d] = queue[d]
    <2>1. file_name \in Names
        BY DEF PushName, LocalsOK, Answer, Answers
    <2>2. /\ Append(queue["input"], file_name) # <<>>
          /\ Append(queue["input"], file_name) \in Seq(Names)
        BY <2>1, AppendNotEmpty DEF QueuesOK
    <2> QED BY <2>2 DEF PushName, Push, QueuesOK, Consumers
<1>t. ThreadsOK'
    BY <1>1
       DEF ThreadsOK, Labels, Loop, End, PushName, FilenameLockFree, Goto, locals,
           Threads, Consumers, Producers
<1>s. SyncOK'
    BY <1>1
       DEF ThreadsOK, SyncOK, PushName, FilenameLockFree, Goto, locals, Threads,
           Consumers, Producers
<1>q. QueuesOK'
    BY <1>1
       DEF ThreadsOK, QueuesOK, LocksHeld, LocalsOK, PushName, FilenameLockFree, Goto,
           locals, Threads, Consumers, Producers
<1>l. LocalsOK'
    BY <1>1
       DEF ThreadsOK, LocalsOK, QueuesOK, LocksHeld, PushName, FilenameLockFree, Goto,
           locals, Threads, Consumers, Producers
<1>h. LocksHeld'
    BY <1>1
       DEF ThreadsOK, SyncOK, LocksHeld, QueuesOK, PushName, FilenameLockFree, Goto,
           locals, Threads, Consumers, Producers
<1>w. QueuesWake'
    BY <1>1
       DEF ThreadsOK, SyncOK, LocksHeld, QueuesWake, Nobody, PushName, FilenameLockFree,
           Goto, locals, Threads, Consumers, Producers
<1>a. AnswersWake'
    BY <1>1
       DEF ThreadsOK, SyncOK, AnswersWake, Idle, PushName, FilenameLockFree, Goto, locals,
           Threads, Consumers, Producers
<1>f. FlagsWake'
    BY <1>1
       DEF ThreadsOK, SyncOK, FlagsWake, Idle, PushName, FilenameLockFree, Goto, locals,
           Threads, Consumers, Producers
<1> QED BY <1>t, <1>s, <1>q, <1>l, <1>h, <1>w, <1>a, <1>f

LEMMA PushAnswerKeeps == ASSUME IInv, PushAnswer PROVE IInv'
<1> USE DEF IInv, TypeOK, tear
<1>1. /\ queue'["output"] # <<>> /\ queue'["output"] \in Seq(Answers)
      /\ queue' \in [Consumers -> Seq(Names) \cup Seq(Lines) \cup Seq(Answers)]
      /\ \A d \in Consumers : d # "output" => queue'[d] = queue[d]
    <2>1. Answer(str) \in Answers
        BY DEF PushAnswer, LocalsOK, Answer, Answers
    <2>2. /\ Append(queue["output"], Answer(str)) # <<>>
          /\ Append(queue["output"], Answer(str)) \in Seq(Answers)
        BY <2>1, AppendNotEmpty DEF QueuesOK
    <2> QED BY <2>2 DEF PushAnswer, Push, QueuesOK, Consumers
<1>t. ThreadsOK'
    BY <1>1
       DEF ThreadsOK, Labels, Loop, End, PushAnswer, Goto, locals, Threads, Consumers,
           Producers
<1>s. SyncOK'
    BY <1>1 DEF ThreadsOK, SyncOK, PushAnswer, Goto, locals, Threads, Consumers, Producers
<1>q. QueuesOK'
    BY <1>1
       DEF ThreadsOK, QueuesOK, LocksHeld, LocalsOK, PushAnswer, Goto, locals, Threads,
           Consumers, Producers
<1>l. LocalsOK'
    BY <1>1
       DEF ThreadsOK, LocalsOK, QueuesOK, LocksHeld, PushAnswer, Goto, locals, Threads,
           Consumers, Producers
<1>h. LocksHeld'
    BY <1>1
       DEF ThreadsOK, SyncOK, LocksHeld, QueuesOK, PushAnswer, Goto, locals, Threads,
           Consumers, Producers
<1>w. QueuesWake'
    BY <1>1
       DEF ThreadsOK, SyncOK, LocksHeld, QueuesWake, Nobody, PushAnswer, Goto, locals,
           Threads, Consumers, Producers
<1>a. AnswersWake'
    BY <1>1
       DEF ThreadsOK, SyncOK, AnswersWake, Idle, PushAnswer, Goto, locals, Threads,
           Consumers, Producers
<1>f. FlagsWake'
    BY <1>1
       DEF ThreadsOK, SyncOK, FlagsWake, Idle, PushAnswer, Goto, locals, Threads,
           Consumers, Producers
<1> QED BY <1>t, <1>s, <1>q, <1>l, <1>h, <1>w, <1>a, <1>f

LEMMA PushLineKeeps == ASSUME IInv, PushLine PROVE IInv'
<1> USE DEF IInv, TypeOK, tear
<1>1. /\ pc' \in [Threads -> Labels] /\ pc'["input"] = "lines"
      /\ pc'["pre"] = pc["pre"] /\ pc'["output"] = pc["output"]
      /\ pc'["work"] = IF pc["work"] = "asleep" THEN "lock" ELSE pc["work"]
      /\ missed \subseteq missed' /\ missed' \subseteq missed \cup {"work"}
    BY Notified, Wiring DEF PushLine, Threads, Producers, Labels, Loop, End
<1>2. /\ UNCHANGED <<stdin, done, holder, file_name, file, str, printed, torn, spoiled,
                  crashed, spurious>>
      /\ pc["input"] = "lines" /\ holder["work"] = Nobody
    BY DEF PushLine
<1>3. /\ file \in Files /\ line' \in Nat /\ line' <= LinesOf[file]
    BY FilesAssumption DEF PushLine, MoreLines, LocalsOK
<1>4. /\ queue'["work"] \in Seq(Lines) /\ queue'["work"] # <<>>
      /\ queue' \in [Consumers -> Seq(Names) \cup Seq(Lines) \cup Seq(Answers)]
      /\ \A d \in Consumers : d # "work" => queue'[d] = queue[d]
    <2>1. <<file, line'>> \in Lines
        BY <1>3 DEF Lines
    <2>2. /\ Append(queue["work"], <<file, line'>>) \in Seq(Lines)
          /\ Append(queue["work"], <<file, line'>>) # <<>>
        BY <2>1, AppendNotEmpty DEF QueuesOK
    <2> QED BY <2>2 DEF PushLine, Push, QueuesOK, Consumers
<1>t. ThreadsOK'
    BY <1>1, <1>2, <1>3, <1>4
       DEF ThreadsOK, Labels, Loop, End, Threads, Consumers, Producers
<1>s. SyncOK'
    BY <1>1, <1>2, <1>3, <1>4 DEF ThreadsOK, SyncOK, Threads, Consumers, Producers
<1>q. QueuesOK'
    BY <1>1, <1>2, <1>3, <1>4
       DEF ThreadsOK, QueuesOK, LocksHeld, LocalsOK, Threads, Consumers, Producers
<1>l. LocalsOK'
    BY <1>1, <1>2, <1>3, <1>4
       DEF ThreadsOK, LocalsOK, QueuesOK, LocksHeld, Threads, Consumers, Producers
<1>h. LocksHeld'
    BY <1>1, <1>2, <1>3, <1>4
       DEF ThreadsOK, SyncOK, LocksHeld, QueuesOK, Threads, Consumers, Producers
<1>w. QueuesWake'
    BY <1>1, <1>2, <1>3, <1>4
       DEF ThreadsOK, SyncOK, LocksHeld, QueuesWake, Nobody, Threads, Consumers, Producers
<1>a. AnswersWake'
    BY <1>1, <1>2, <1>3, <1>4
       DEF ThreadsOK, SyncOK, AnswersWake, Idle, Threads, Consumers, Producers
<1>f. FlagsWake'
    BY <1>1, <1>2, <1>3, <1>4
       DEF ThreadsOK, SyncOK, FlagsWake, Idle, Threads, Consumers, Producers
<1> QED BY <1>t, <1>s, <1>q, <1>l, <1>h, <1>w, <1>a, <1>f

-----------------------------------------------------------------------------
LEMMA StepKeepsIInv == IInv /\ [Next]_vars => IInv'
<1> SUFFICES ASSUME IInv, [Next]_vars PROVE IInv'
    OBVIOUS
<1>1. CASE Pre
    BY <1>1, ReadNameKeeps, PushNameKeeps, NotifyNameKeeps, FinishKeeps, LastNotifyPreKeeps
       DEF Pre, Produce, Producers
<1>2. CASE Input
    BY <1>2, LookInputKeeps, ReadFlagInputKeeps, SleepInputKeeps, TakeNameKeeps,
       PushLineKeeps, CloseFileKeeps, FinishKeeps, LastNotifyInputKeeps
       DEF Input, Consume, Produce, Producers
<1>3. CASE Work
    BY <1>3, LookWorkKeeps, ReadFlagWorkKeeps, SleepWorkKeeps, TakeLineKeeps,
       BeginGrowingKeeps, PushAnswerKeeps, NotifyAnswerKeeps, FinishKeeps, LastNotifyWorkKeeps
       DEF Work, Consume, Produce, Producers
<1>4. CASE Output
    BY <1>4, LookOutputKeeps, ReadFlagOutputKeeps, SleepOutputKeeps,
       PrintAnswerKeeps, PrintSpoiledKeeps, PopAnswerKeeps
       DEF Output, Consume
<1>7. CASE Crash
    BY <1>7, CrashKeeps
<1>5. CASE \E c \in Consumers : SpuriousWakeup(c)
    BY <1>5, SpuriousWakeupKeeps
<1>6. CASE UNCHANGED vars
    <2> USE <1>6 DEF vars, input, locals, tear
    <2>1. ThreadsOK' /\ SyncOK' /\ QueuesOK' /\ LocalsOK'
        BY DEF IInv, TypeOK, ThreadsOK, SyncOK, QueuesOK, LocalsOK
    <2>2. LocksHeld' /\ QueuesWake'
        BY DEF IInv, LocksHeld, QueuesWake
    <2>3. AnswersWake' /\ FlagsWake'
        BY DEF IInv, TypeOK, SyncOK, Producers, AnswersWake, FlagsWake, Idle
    <2> QED BY <2>1, <2>2, <2>3 DEF IInv, TypeOK
<1> QED BY <1>1, <1>2, <1>3, <1>4, <1>5, <1>6, <1>7 DEF Next

LEMMA InvariantHolds == Spec => []IInv
<1> QED BY InitIInv, StepKeepsIInv, PTL DEF Spec

(* The threads, locks, queues and locals keep their types, whatever files there are
   and whatever is typed. *)
THEOREM PipelineTypeOK == Spec => []TypeOK
<1>1. IInv => TypeOK
    BY DEF IInv
<1> QED BY <1>1, InvariantHolds, PTL

(* A queued name or line always wakes its consumer; an answer or a done flag is only
   missed by a consumer that was notified between its check and its sleep. *)
THEOREM PipelineForgetsNoWakeup == Spec => []NoWakeupForgotten
<1>1. IInv => NoWakeupForgotten
    BY Wiring DEF IInv, QueuesWake, AnswersWake, FlagsWake, Idle, NoWakeupForgotten, Consumers
<1> QED BY <1>1, InvariantHolds, PTL

-----------------------------------------------------------------------------
(* Induction, and the concatenation of the sequences step[1], step[2], ... *)
(* Induction on the natural numbers, as a fact about sets. *)
LEMMA NatSetInduction ==
    ASSUME NEW S, 0 \in S, \A n \in Nat : n \in S => n + 1 \in S
    PROVE  Nat \subseteq S
<1> SUFFICES ASSUME NEW k \in Nat \ S PROVE FALSE
  OBVIOUS
<1>1. PICK m \in Nat \ S : \A n \in Nat \ S : ~(<<n, m>> \in OpToRel(<, Nat))
  BY NatLessThanWellFounded, WFMin
<1>2. m # 0
  OBVIOUS
<1>3. m - 1 \in Nat /\ m - 1 < m
  BY <1>2
<1>4. m - 1 \notin S
  BY <1>3
<1>5. <<m - 1, m>> \in OpToRel(<, Nat)
  BY <1>3 DEF OpToRel
<1> QED
  BY <1>1, <1>3, <1>4, <1>5

(* g holds the concatenations up to n. *)
Concat(R, step, n, g) ==
    /\ g \in [0 .. n -> Seq(R)]
    /\ g[0] = <<>>
    /\ \A k \in 1 .. n : g[k] = g[k - 1] \o step[k]

(* There are such concatenations up to every n. *)
LEMMA ConcatExists ==
    ASSUME NEW R, NEW step \in [Nat -> Seq(R)]
    PROVE  \A n \in Nat : \E g : Concat(R, step, n, g)
<1> DEFINE S == {n \in Nat : \E g : Concat(R, step, n, g)}
<1>1. 0 \in S
  <2>1. Concat(R, step, 0, [k \in 0 .. 0 |-> <<>>])
    BY DEF Concat
  <2> QED
    BY <2>1
<1>2. \A n \in Nat : n \in S => n + 1 \in S
  <2> SUFFICES ASSUME NEW n \in Nat, NEW g, Concat(R, step, n, g)
               PROVE  \E h : Concat(R, step, n + 1, h)
    OBVIOUS
  <2> DEFINE h == [k \in 0 .. n + 1 |-> IF k = n + 1 THEN g[n] \o step[n + 1] ELSE g[k]]
  <2>0. g \in [0 .. n -> Seq(R)] /\ n \in 0 .. n /\ n + 1 \in Nat
    BY DEF Concat
  <2>1. h \in [0 .. n + 1 -> Seq(R)]
    <3>1. g[n] \o step[n + 1] \in Seq(R)
      BY <2>0
    <3>2. \A k \in 0 .. n + 1 : k # n + 1 => k \in 0 .. n
      OBVIOUS
    <3> QED
      BY <2>0, <3>1, <3>2
  <2>2. h[0] = <<>>
    BY DEF Concat
  <2>3. ASSUME NEW k \in 1 .. n + 1 PROVE h[k] = h[k - 1] \o step[k]
    <3>1. k - 1 \in 0 .. n + 1 /\ k - 1 # n + 1 /\ k \in 0 .. n + 1
      OBVIOUS
    <3>2. h[k - 1] = g[k - 1]
      BY <3>1
    <3>3. CASE k = n + 1
      <4>1. k - 1 = n
        BY <3>3
      <4> QED
        BY <3>1, <3>2, <3>3, <4>1
    <3>4. CASE k # n + 1
      <4>1. k \in 1 .. n
        BY <3>4
      <4>2. g[k] = g[k - 1] \o step[k]
        BY <4>1 DEF Concat
      <4> QED
        BY <3>1, <3>2, <3>4, <4>2
    <3> QED
      BY <3>3, <3>4
  <2> HIDE DEF h
  <2> QED
    BY <2>1, <2>2, <2>3 DEF Concat
<1> QED
  BY <1>1, <1>2, NatSetInduction

(* Two of them agree as far as both go. *)
LEMMA ConcatUnique ==
    ASSUME NEW R, NEW step
    PROVE  \A n, m \in Nat : \A g, h : Concat(R, step, n, g) /\ Concat(R, step, m, h) =>
               \A k \in Nat : k <= n /\ k <= m => g[k] = h[k]
<1> SUFFICES ASSUME NEW n \in Nat, NEW m \in Nat,
                    NEW g, Concat(R, step, n, g), NEW h, Concat(R, step, m, h)
             PROVE  \A k \in Nat : k <= n /\ k <= m => g[k] = h[k]
  OBVIOUS
<1> DEFINE S == {k \in Nat : k <= n /\ k <= m => g[k] = h[k]}
<1>1. 0 \in S
  BY DEF Concat
<1>2. \A k \in Nat : k \in S => k + 1 \in S
  <2> SUFFICES ASSUME NEW k \in Nat, k \in S, k + 1 <= n, k + 1 <= m
               PROVE  g[k + 1] = h[k + 1]
    OBVIOUS
  <2>1. g[k] = h[k]
    OBVIOUS
  <2>2. k + 1 \in 1 .. n /\ k + 1 \in 1 .. m /\ (k + 1) - 1 = k
    OBVIOUS
  <2>3. g[k + 1] = g[k] \o step[k + 1] /\ h[k + 1] = h[k] \o step[k + 1]
    BY <2>2 DEF Concat
  <2> QED
    BY <2>1, <2>3
<1> QED
  BY <1>1, <1>2, NatSetInduction

LEMMA ConcatSame ==
    ASSUME NEW R, NEW step
    PROVE  \A n, m \in Nat : \A g, h :
               m <= n /\ Concat(R, step, n, g) /\ Concat(R, step, m, h) => g[m] = h[m]
<1> SUFFICES ASSUME NEW n \in Nat, NEW m \in Nat, m <= n,
                    NEW g, Concat(R, step, n, g), NEW h, Concat(R, step, m, h)
             PROVE  g[m] = h[m]
  OBVIOUS
<1>1. m <= m
  OBVIOUS
<1>2. \A k \in Nat : k <= n /\ k <= m => g[k] = h[k]
  BY ConcatUnique
<1> QED
  BY <1>1, <1>2

(* So the recursive definition has a solution. *)
LEMMA ConcatFunction ==
    ASSUME NEW R, NEW step \in [Nat -> Seq(R)]
    PROVE  \E f : /\ f \in [Nat -> Seq(R)]
                  /\ f = [k \in Nat |-> IF k = 0 THEN <<>> ELSE f[k - 1] \o step[k]]
<1> DEFINE part(n) == CHOOSE g : Concat(R, step, n, g)
           f == [n \in Nat |-> part(n)[n]]
<1>1. \A n \in Nat : Concat(R, step, n, part(n))
  BY ConcatExists
<1>2. f \in [Nat -> Seq(R)]
  <2> HIDE DEF part
  <2>1. ASSUME NEW n \in Nat PROVE part(n)[n] \in Seq(R)
    <3>0. PICK g : g = part(n)
      OBVIOUS
    <3>1. g \in [0 .. n -> Seq(R)] /\ n \in 0 .. n
      <4>1. Concat(R, step, n, g)
        BY <1>1, <3>0
      <4> QED
        BY <4>1 DEF Concat
    <3> QED
      BY <3>0, <3>1
  <2> QED
    BY <2>1
<1>3. \A k \in Nat : f[k] = IF k = 0 THEN <<>> ELSE f[k - 1] \o step[k]
  <2> SUFFICES ASSUME NEW k \in Nat PROVE f[k] = IF k = 0 THEN <<>> ELSE f[k - 1] \o step[k]
    OBVIOUS
  <2> HIDE DEF part
  <2>1. CASE k = 0
    BY <1>1, <2>1 DEF Concat
  <2>2. CASE k # 0
    <3>1. k - 1 \in Nat /\ k - 1 <= k - 1 /\ k - 1 <= k
      BY <2>2
    <3>2. part(k)[k - 1] = part(k - 1)[k - 1]
      <4>1. Concat(R, step, k, part(k)) /\ Concat(R, step, k - 1, part(k - 1))
        BY <1>1, <3>1
      <4>2. PICK g, h : g = part(k) /\ h = part(k - 1)
        OBVIOUS
      <4>3. PICK j \in Nat : j = k - 1
        BY <3>1
      <4>4. Concat(R, step, k, g) /\ Concat(R, step, j, h)
        BY <4>1, <4>2, <4>3
      <4>5. g[j] = h[j]
        BY <3>1, <4>3, <4>4, ConcatSame
      <4> QED
        BY <4>2, <4>3, <4>5
    <3>3. part(k)[k] = part(k)[k - 1] \o step[k]
      <4>1. Concat(R, step, k, part(k)) /\ k \in 1 .. k
        BY <1>1, <2>2
      <4> QED
        BY <4>1 DEF Concat
    <3> QED
      BY <3>1, <3>2, <3>3, <2>2
  <2> QED
    BY <2>1, <2>2
<1>4. f = [k \in Nat |-> IF k = 0 THEN <<>> ELSE f[k - 1] \o step[k]]
  <2> HIDE DEF f
  <2>1. f = [k \in Nat |-> f[k]]
    BY <1>2
  <2> QED
    BY <2>1, <1>3
<1> HIDE DEF f
<1> QED
  BY <1>2, <1>4

-----------------------------------------------------------------------------
(* The expected output. *)

(* A name after one that is not read is not read. *)
LEMMA ReadBefore ==
    ASSUME typed \in Seq(Names), NEW k \in Nat, IsRead(k + 1)
    PROVE  IsRead(k)
BY DEF IsRead

(* A name that is read has been typed and can be opened. *)
LEMMA ReadOpens ==
    ASSUME NEW k \in Nat, k >= 1, IsRead(k)
    PROVE  typed[k] \in Files /\ LinesOf[typed[k]] \in Nat
BY FilesAssumption DEF IsRead

(* The answers to a file. *)
LEMMA AnswersToType ==
    ASSUME NEW f \in Files
    PROVE  /\ AnswersTo(f) \in Seq(Answers)
           /\ Len(AnswersTo(f)) = LinesOf[f]
           /\ \A n \in 1 .. LinesOf[f] : AnswersTo(f)[n] = Answer(<<f, n>>)
<1>1. LinesOf[f] \in Nat
  BY FilesAssumption
<1>2. PICK m \in Nat : m = LinesOf[f]
  BY <1>1
<1>3. \A n \in 1 .. m : Answer(<<f, n>>) \in Answers
  BY DEF Answer, Answers, Lines
<1>4. AnswersTo(f) = [n \in 1 .. m |-> Answer(<<f, n>>)]
  BY <1>2 DEF AnswersTo
<1>5. AnswersTo(f) \in [1 .. m -> Answers]
  BY <1>3, <1>4
<1>6. AnswersTo(f) \in Seq(Answers) /\ DOMAIN AnswersTo(f) = 1 .. m
  BY <1>5
<1>7. Len(AnswersTo(f)) = m
  BY <1>6
<1> QED
  BY <1>2, <1>4, <1>6, <1>7

(* Upto satisfies its recursive definition. *)
LEMMA UptoDefined ==
    /\ Upto \in [Nat -> Seq(Answers)]
    /\ Upto[0] = <<>>
    /\ \A k \in Nat \ {0} :
          /\ IsRead(k) => Upto[k] = Upto[k - 1] \o AnswersTo(typed[k])
          /\ ~IsRead(k) => Upto[k] = Upto[k - 1]
<1> DEFINE step == [k \in Nat |-> IF k # 0 /\ IsRead(k) THEN AnswersTo(typed[k]) ELSE <<>>]
<1>1. step \in [Nat -> Seq(Answers)]
  <2>1. ASSUME NEW k \in Nat, k # 0, IsRead(k) PROVE AnswersTo(typed[k]) \in Seq(Answers)
    <3>1. typed[k] \in Files
      BY <2>1, ReadOpens
    <3> QED
      BY <3>1, AnswersToType
  <2>2. <<>> \in Seq(Answers)
    OBVIOUS
  <2> QED
    BY <2>1, <2>2
<1>2. PICK f : /\ f \in [Nat -> Seq(Answers)]
               /\ f = [k \in Nat |-> IF k = 0 THEN <<>> ELSE f[k - 1] \o step[k]]
  <2> HIDE DEF step
  <2> QED
    BY <1>1, ConcatFunction
<1>3. \A k \in Nat \ {0} :
         f[k - 1] \o step[k] = f[k - 1] \o (IF IsRead(k) THEN AnswersTo(typed[k]) ELSE <<>>)
  OBVIOUS
<1>4. f = [k \in Nat |-> IF k = 0 THEN <<>>
                         ELSE f[k - 1] \o (IF IsRead(k) THEN AnswersTo(typed[k]) ELSE <<>>)]
  <2> HIDE DEF step
  <2> QED
    BY <1>2, <1>3
<1>5. Upto = [k \in Nat |-> IF k = 0 THEN <<>>
                 ELSE Upto[k - 1] \o (IF IsRead(k) THEN AnswersTo(typed[k]) ELSE <<>>)]
  BY <1>4 DEF Upto
<1>6. ASSUME NEW g, g = [k \in Nat |-> IF k = 0 THEN <<>>
                  ELSE g[k - 1] \o (IF IsRead(k) THEN AnswersTo(typed[k]) ELSE <<>>)]
      PROVE  g \in [Nat -> Seq(Answers)]
  <2> DEFINE S == {k \in Nat : g[k] \in Seq(Answers)}
  <2>1. 0 \in S
    BY <1>6
  <2>2. ASSUME NEW k \in Nat, k \in S PROVE k + 1 \in S
    <3>0. PICK p \in Nat : p = k + 1 /\ p # 0 /\ p - 1 = k
      OBVIOUS
    <3>1. g[p] = g[k] \o (IF IsRead(p) THEN AnswersTo(typed[p]) ELSE <<>>)
      BY <1>6, <3>0
    <3>2. step[p] \in Seq(Answers)
      <4> HIDE DEF step
      <4> QED
        BY <1>1
    <3>3. (IF IsRead(p) THEN AnswersTo(typed[p]) ELSE <<>>) \in Seq(Answers)
      BY <3>0, <3>2
    <3>4. PICK u \in Seq(Answers), v \in Seq(Answers) :
             u = g[k] /\ v = IF IsRead(p) THEN AnswersTo(typed[p]) ELSE <<>>
      BY <2>2, <3>3
    <3>5. g[p] = u \o v
      BY <3>1, <3>4
    <3>6. u \o v \in Seq(Answers)
      OBVIOUS
    <3> QED
      BY <3>0, <3>5, <3>6
  <2>3. Nat \subseteq S
    <3> HIDE DEF S
    <3> QED
      BY <2>1, <2>2, NatSetInduction
  <2>4. DOMAIN g = Nat /\ g = [k \in DOMAIN g |-> g[k]]
    BY <1>6
  <2> QED
    BY <2>3, <2>4
<1>7. Upto \in [Nat -> Seq(Answers)]
  BY <1>5, <1>6
<1>8. Upto[0] = <<>>
  BY <1>5
<1>9. ASSUME NEW k \in Nat \ {0}
      PROVE  /\ IsRead(k) => Upto[k] = Upto[k - 1] \o AnswersTo(typed[k])
             /\ ~IsRead(k) => Upto[k] = Upto[k - 1]
  <2>1. Upto[k] = Upto[k - 1] \o (IF IsRead(k) THEN AnswersTo(typed[k]) ELSE <<>>)
    BY <1>5
  <2>2. CASE IsRead(k)
    BY <2>1, <2>2
  <2>3. CASE ~IsRead(k)
    <3>1. PICK u \in Seq(Answers) : u = Upto[k - 1]
      BY <1>7
    <3>2. Upto[k] = u \o <<>>
      BY <2>1, <2>3, <3>1
    <3>3. u \o <<>> = u
      OBVIOUS
    <3> QED
      BY <2>3, <3>1, <3>2, <3>3
  <2> QED
    BY <2>2, <2>3
<1> QED
  BY <1>7, <1>8, <1>9

(* What one more name adds. *)
LEMMA UptoNext ==
    ASSUME NEW k \in Nat, k >= 1
    PROVE  /\ Upto[k - 1] \in Seq(Answers) /\ Upto[k] \in Seq(Answers)
           /\ ~IsRead(k) => Upto[k] = Upto[k - 1]
           /\ IsRead(k) =>
                /\ Len(Upto[k]) = Len(Upto[k - 1]) + LinesOf[typed[k]]
                /\ \A i \in 1 .. Len(Upto[k - 1]) : Upto[k][i] = Upto[k - 1][i]
                /\ \A l \in 1 .. LinesOf[typed[k]] :
                      Upto[k][Len(Upto[k - 1]) + l] = Answer(<<typed[k], l>>)
<1>0. k \in Nat \ {0} /\ k - 1 \in Nat
  OBVIOUS
<1>1. Upto[k - 1] \in Seq(Answers) /\ Upto[k] \in Seq(Answers)
  BY <1>0, UptoDefined
<1>2. CASE ~IsRead(k)
  BY <1>0, <1>1, <1>2, UptoDefined
<1>3. CASE IsRead(k)
  <2>1. PICK a \in Seq(Answers) : a = AnswersTo(typed[k])
    BY <1>3, ReadOpens, AnswersToType
  <2>2. PICK u \in Seq(Answers) : u = Upto[k - 1]
    BY <1>1
  <2>3. Upto[k] = u \o a
    BY <1>0, <1>3, <2>1, <2>2, UptoDefined
  <2>4. Len(a) = LinesOf[typed[k]] /\ \A l \in 1 .. Len(a) : a[l] = Answer(<<typed[k], l>>)
    BY <1>3, <2>1, ReadOpens, AnswersToType
  <2>5. /\ Len(u \o a) = Len(u) + Len(a)
        /\ \A i \in 1 .. Len(u) : (u \o a)[i] = u[i]
        /\ \A l \in 1 .. Len(a) : (u \o a)[Len(u) + l] = a[l]
    OBVIOUS
  <2> QED
    BY <1>1, <1>3, <2>2, <2>3, <2>4, <2>5
<1> QED
  BY <1>2, <1>3

(* What the first names give is the beginning of what more names give. *)
LEMMA UptoPrefix ==
    ASSUME NEW k \in Nat, NEW m \in Nat, k <= m
    PROVE  /\ Len(Upto[k]) <= Len(Upto[m])
           /\ \A i \in 1 .. Len(Upto[k]) : Upto[m][i] = Upto[k][i]
<1> DEFINE S == {n \in Nat : /\ Len(Upto[k]) <= Len(Upto[k + n])
                             /\ \A i \in 1 .. Len(Upto[k]) : Upto[k + n][i] = Upto[k][i]}
<1>0. PICK u \in Seq(Answers) : u = Upto[k]
  BY UptoDefined
<1>1. 0 \in S
  BY <1>0
<1>2. ASSUME NEW n \in Nat, n \in S PROVE n + 1 \in S
  <2>1. PICK v \in Seq(Answers), w \in Seq(Answers) : v = Upto[k + n] /\ w = Upto[k + (n + 1)]
    BY UptoDefined
  <2>2. PICK p \in Nat : p = k + (n + 1) /\ p >= 1 /\ p - 1 = k + n
    OBVIOUS
  <2>3. Len(v) <= Len(w) /\ \A i \in 1 .. Len(v) : w[i] = v[i]
    <3>1. CASE ~IsRead(p)
      BY <2>1, <2>2, <3>1, UptoNext
    <3>2. CASE IsRead(p)
      <4>1. PICK l \in Nat : l = LinesOf[typed[p]]
        BY <2>2, <3>2, ReadOpens
      <4> QED
        BY <2>1, <2>2, <3>2, <4>1, UptoNext
    <3> QED
      BY <3>1, <3>2
  <2>4. Len(u) <= Len(v) /\ \A i \in 1 .. Len(u) : v[i] = u[i]
    BY <1>0, <1>2, <2>1
  <2>5. Len(u) <= Len(w) /\ \A i \in 1 .. Len(u) : w[i] = u[i]
    BY <2>3, <2>4
  <2> QED
    BY <1>0, <2>1, <2>5
<1>3. Nat \subseteq S
  <2> HIDE DEF S
  <2> QED
    BY <1>1, <1>2, NatSetInduction
<1>4. PICK n \in Nat : m = k + n
  <2>1. m - k \in Nat /\ m = k + (m - k)
    OBVIOUS
  <2> QED
    BY <2>1
<1> QED
  BY <1>3, <1>4

(* What is expected of a line that is read. *)
LEMMA LineExpected ==
    ASSUME typed \in Seq(Names), NEW k \in 1 .. Len(typed), IsRead(k),
           NEW l \in 1 .. LinesOf[typed[k]]
    PROVE  /\ Len(Upto[k - 1]) + l <= Len(Expected)
           /\ Expected[Len(Upto[k - 1]) + l] = Answer(<<typed[k], l>>)
<1>0. PICK u \in Seq(Answers), v \in Seq(Answers), e \in Seq(Answers) :
         u = Upto[k - 1] /\ v = Upto[k] /\ e = Upto[Len(typed)]
  <2>1. k \in Nat /\ k - 1 \in Nat /\ Len(typed) \in Nat
    OBVIOUS
  <2> QED
    BY <2>1, UptoDefined
<1>1. PICK n \in Nat : n = LinesOf[typed[k]]
  BY ReadOpens
<1>2. Len(v) = Len(u) + n /\ v[Len(u) + l] = Answer(<<typed[k], l>>)
  <2>1. k \in Nat /\ k >= 1
    OBVIOUS
  <2>2. /\ Len(Upto[k]) = Len(Upto[k - 1]) + LinesOf[typed[k]]
        /\ \A i \in 1 .. LinesOf[typed[k]] :
              Upto[k][Len(Upto[k - 1]) + i] = Answer(<<typed[k], i>>)
    BY <2>1, UptoNext
  <2> QED
    BY <1>0, <1>1, <2>2
<1>3. Len(v) <= Len(e) /\ \A i \in 1 .. Len(v) : e[i] = v[i]
  <2>1. PICK m \in Nat : m = Len(typed) /\ k \in Nat /\ k <= m
    OBVIOUS
  <2> QED
    BY <1>0, <2>1, UptoPrefix
<1>4. Len(u) + l \in 1 .. Len(v) /\ Len(u) + l <= Len(e)
  <2>1. l \in Nat /\ 1 <= l /\ l <= n
    BY <1>1
  <2>2. PICK a \in Nat, b \in Nat, c \in Nat : a = Len(u) /\ b = Len(v) /\ c = Len(e)
    OBVIOUS
  <2>3. b = a + n /\ b <= c
    BY <1>2, <1>3, <2>2
  <2>4. a + l \in 1 .. b /\ a + l <= c
    BY <2>1, <2>2, <2>3
  <2> QED
    BY <2>2, <2>4
<1>5. e[Len(u) + l] = Answer(<<typed[k], l>>)
  BY <1>2, <1>3, <1>4
<1>6. Expected = e
  BY <1>0 DEF Expected
<1> QED
  BY <1>0, <1>4, <1>5, <1>6

(* Nothing is expected of the names after one that is not read. *)
LEMMA NothingAfter ==
    ASSUME typed \in Seq(Names), NEW k \in Nat, ~IsRead(k + 1), NEW m \in Nat, k <= m
    PROVE  Upto[m] = Upto[k]
<1> DEFINE S == {n \in Nat : Upto[k + n] = Upto[k] /\ ~IsRead(k + n + 1)}
<1>1. 0 \in S
  OBVIOUS
<1>2. ASSUME NEW n \in Nat, n \in S PROVE n + 1 \in S
  <2>1. PICK p \in Nat : p = k + n + 1 /\ p >= 1 /\ p - 1 = k + n
    OBVIOUS
  <2>2. Upto[p] = Upto[k]
    BY <1>2, <2>1, UptoNext
  <2>3. ~IsRead(p + 1)
    BY <1>2, <2>1, ReadBefore
  <2>4. k + (n + 1) = p /\ k + (n + 1) + 1 = p + 1
    BY <2>1
  <2> QED
    BY <2>2, <2>3, <2>4
<1>3. Nat \subseteq S
  <2> HIDE DEF S
  <2> QED
    BY <1>1, <1>2, NatSetInduction
<1>4. PICK n \in Nat : m = k + n
  <2>1. m - k \in Nat /\ m = k + (m - k)
    OBVIOUS
  <2> QED
    BY <2>1
<1> QED
  BY <1>3, <1>4

(* What is typed does not change, nor what is expected. *)
LEMMA SameInput ==
    ASSUME UNCHANGED input
    PROVE  /\ typed' = typed /\ terminated' = terminated
           /\ Expected' = Expected /\ Upto' = Upto
           /\ \A k \in Nat : IsRead(k)' = IsRead(k)
BY DEF input, Expected, Upto, IsRead

-----------------------------------------------------------------------------
(* The invariant of the order. *)

(* How far each thread has come: the names pre_func has read, those input_func has
   taken, the answers output_func has popped, work_func has pushed and begun, and the
   lines input_func has read. *)
NamesRead == Len(typed) - Len(stdin)
NamesTaken ==
    NamesRead - (IF pc["pre"] = "push" THEN 1 ELSE 0) - Len(queue["input"])
AnswersPopped == Len(printed) - (IF pc["output"] = "pop" /\ ~torn THEN 1 ELSE 0)
AnswersPushed == AnswersPopped + Len(queue["output"])
LinesTaken == AnswersPushed + (IF pc["work"] \in {"solve", "growing"} THEN 1 ELSE 0)
LinesRead == LinesTaken + Len(queue["work"])

(* The names on their way are those that were typed. *)
NamesInOrder ==
    /\ typed \in Seq(Names) /\ terminated \in BOOLEAN
    /\ Len(stdin) <= Len(typed)
    /\ \A i \in 1 .. Len(stdin) : stdin[i] = typed[NamesRead + i]
    /\ NamesRead = 0 \/ terminated \/ NamesRead < Len(typed)
    /\ pc["pre"] = "push" => NamesRead >= 1 /\ file_name = typed[NamesRead]
    /\ NamesTaken >= 0
    /\ \A i \in 1 .. Len(queue["input"]) : queue["input"][i] = typed[NamesTaken + i]

(* The lines that were read are those of the names that were taken, up to the one that
   could not be opened. *)
FilesInOrder ==
    /\ pc["input"] = "lines" =>
          /\ NamesTaken >= 1 /\ file = typed[NamesTaken]
          /\ LinesRead = Len(Upto[NamesTaken - 1]) + line
    /\ pc["input"] # "lines" => LinesRead = Len(Upto[NamesTaken])
    /\ NamesTaken >= 1 => IsRead(NamesTaken) \/ Failed

(* What is printed, what is queued for printing, what is being solved and what is queued
   for solving follow each other in the expected output. *)
AnswersInOrder ==
    /\ pc["output"] = "pop" /\ ~torn => queue["output"] # <<>> /\ printed # <<>>
    /\ LinesRead <= Len(Expected)
    /\ \A i \in 1 .. Len(printed) : printed[i] = Expected[i]
    /\ \A i \in 1 .. Len(queue["output"]) : queue["output"][i] = Expected[AnswersPopped + i]
    /\ pc["work"] \in {"solve", "growing"} => Answer(str) = Expected[LinesTaken]
    /\ \A i \in 1 .. Len(queue["work"]) : Answer(queue["work"][i]) = Expected[LinesTaken + i]

(* A thread leaves its loop when the one before it is done and their queue is empty;
   output_func does not look at its queue again. *)
EndsInOrder ==
    /\ pc["pre"] \in End => EndOfInput
    /\ done["pre"] => pc["pre"] \in {"last notify", "ended"}
    /\ done["input"] => pc["input"] \in {"last notify", "ended"}
    /\ done["work"] => pc["work"] \in {"last notify", "ended"}
    /\ pc["input"] \in {"leave", "last notify"} \/ done["input"] =>
          done["pre"] /\ queue["input"] = <<>>
    /\ pc["work"] \in End => done["input"] /\ queue["work"] = <<>>
    /\ pc["output"] = "ended" => done["work"]

Ordered == NamesInOrder /\ FilesInOrder /\ AnswersInOrder

InOrder == Ordered /\ EndsInOrder

-----------------------------------------------------------------------------
(* Steps that leave the order alone. *)

(* The lengths and counters are numbers. *)
LEMMA Counters ==
    ASSUME TypeOK, NamesInOrder
    PROVE  /\ Len(typed) \in Nat /\ Len(stdin) \in Nat /\ Len(printed) \in Nat
           /\ Len(queue["input"]) \in Nat /\ Len(queue["work"]) \in Nat
           /\ Len(queue["output"]) \in Nat
           /\ NamesRead \in Nat /\ NamesTaken \in Nat /\ NamesTaken <= NamesRead
           /\ NamesRead <= Len(typed)
           /\ AnswersPopped \in Int /\ AnswersPushed \in Int /\ LinesTaken \in Int
           /\ LinesRead \in Int
<1>1. /\ Len(typed) \in Nat /\ Len(stdin) \in Nat /\ Len(printed) \in Nat
      /\ Len(queue["input"]) \in Nat /\ Len(queue["work"]) \in Nat
      /\ Len(queue["output"]) \in Nat
  BY DEF TypeOK, QueuesOK, NamesInOrder
<1>2. Len(stdin) <= Len(typed) /\ NamesTaken >= 0
  BY DEF NamesInOrder
<1>3. NamesRead \in Nat /\ NamesRead <= Len(typed)
  BY <1>1, <1>2 DEF NamesRead
<1>4. PICK h \in {0, 1} : NamesTaken = NamesRead - h - Len(queue["input"])
  BY DEF NamesTaken
<1>5. /\ NamesRead \in Nat /\ NamesTaken \in Nat /\ NamesTaken <= NamesRead
      /\ NamesRead <= Len(typed)
  BY <1>1, <1>2, <1>3, <1>4
<1>6. /\ AnswersPopped \in Int /\ AnswersPushed \in Int /\ LinesTaken \in Int
      /\ LinesRead \in Int
  BY <1>1 DEF AnswersPopped, AnswersPushed, LinesTaken, LinesRead
<1> QED
  BY <1>1, <1>5, <1>6

(* pre_func and its queue stand still. *)
LEMMA SameNames ==
    ASSUME NamesInOrder, UNCHANGED <<input, stdin, file_name>>,
           queue'["input"] = queue["input"], pc'["pre"] = "push" <=> pc["pre"] = "push"
    PROVE  NamesInOrder' /\ NamesTaken' = NamesTaken
BY DEF NamesInOrder, NamesRead, NamesTaken, input

(* input_func stands still. *)
LEMMA SameFiles ==
    ASSUME FilesInOrder, UNCHANGED <<input, file, line>>, NamesTaken \in Nat,
           NamesTaken' = NamesTaken, LinesRead' = LinesRead,
           pc'["input"] = "lines" <=> pc["input"] = "lines", Failed => Failed'
    PROVE  FilesInOrder'
<1>1. Upto' = Upto /\ typed' = typed /\ terminated' = terminated
  BY SameInput
<1>2. /\ pc'["input"] = "lines" =>
             /\ NamesTaken' >= 1 /\ file' = typed'[NamesTaken']
             /\ LinesRead' = Len(Upto'[NamesTaken' - 1]) + line'
      /\ pc'["input"] # "lines" => LinesRead' = Len(Upto'[NamesTaken'])
  BY <1>1 DEF FilesInOrder
<1>3. NamesTaken' >= 1 => IsRead(NamesTaken)' \/ Failed'
  BY <1>1 DEF FilesInOrder, IsRead
<1> QED
  BY <1>2, <1>3 DEF FilesInOrder

(* work_func, output_func and their queues stand still. *)
LEMMA SameAnswers ==
    ASSUME AnswersInOrder, UNCHANGED <<input, printed, torn, str>>,
           queue'["output"] = queue["output"], queue'["work"] = queue["work"],
           torn \/ (pc'["output"] = "pop" <=> pc["output"] = "pop"),
           pc'["work"] \in {"solve", "growing"} <=> pc["work"] \in {"solve", "growing"}
    PROVE  AnswersInOrder' /\ LinesRead' = LinesRead
<1>1. Expected' = Expected
  BY SameInput
<1>2. /\ AnswersPopped' = AnswersPopped /\ AnswersPushed' = AnswersPushed
      /\ LinesTaken' = LinesTaken /\ LinesRead' = LinesRead
  BY DEF AnswersPopped, AnswersPushed, LinesTaken, LinesRead
<1> QED
  BY <1>1, <1>2 DEF AnswersInOrder

(* A step that only moves threads, none to another stage of its loop. *)
LEMMA SameStages ==
    ASSUME TypeOK, Ordered, UNCHANGED <<input, stdin, queue, locals, printed, torn>>,
           pc'["pre"] = "push" <=> pc["pre"] = "push",
           pc'["input"] = "lines" <=> pc["input"] = "lines",
           torn \/ (pc'["output"] = "pop" <=> pc["output"] = "pop"),
           pc'["work"] \in {"solve", "growing"} <=> pc["work"] \in {"solve", "growing"},
           Failed => Failed'
    PROVE  Ordered'
<1>1. NamesInOrder' /\ NamesTaken' = NamesTaken
  BY SameNames DEF Ordered, locals
<1>2. AnswersInOrder' /\ LinesRead' = LinesRead
  BY SameAnswers DEF Ordered, locals
<1>3. FilesInOrder'
  <2>1. NamesTaken \in Nat
    BY Counters DEF Ordered
  <2> QED
    BY <1>1, <1>2, <2>1, SameFiles DEF Ordered, locals
<1> QED
  BY <1>1, <1>2, <1>3 DEF Ordered

(* A thread that moves within its stage, with or without a notification. *)
LEMMA ThreadMoves ==
    ASSUME TypeOK, NEW t \in Threads, NEW l \in Labels, Goto(t, l)
    PROVE  /\ pc'[t] = l /\ \A u \in Threads : u # t => pc'[u] = pc[u]
BY Moved DEF TypeOK

LEMMA LookKeepsOrder == ASSUME IInv, Ordered, NEW c \in Consumers, Look(c) PROVE Ordered'
<1>1. PICK l \in {"take", "flag"} : Goto(c, l)
  BY DEF Look
<1>2. pc[c] = "lock" /\ UNCHANGED <<input, stdin, queue, locals, printed, torn>>
  BY DEF Look, tear
<1>3. /\ pc'[c] = l /\ \A u \in Threads : u # c => pc'[u] = pc[u]
  BY <1>1, ThreadMoves DEF IInv, Consumers, Threads, Labels, Loop, End
<1>4. Failed => Failed'
  BY <1>2, <1>3 DEF Failed, Look, Threads, Consumers
<1> QED
  BY <1>2, <1>3, <1>4, SameStages DEF IInv, Consumers, Threads

LEMMA ReadFlagKeepsOrder == ASSUME IInv, Ordered, NEW c \in Consumers, ReadFlag(c) PROVE Ordered'
<1>1. PICK l \in {"sleep", "take", "ended", "leave"} : Goto(c, l)
  BY DEF ReadFlag
<1>2. pc[c] = "flag" /\ UNCHANGED <<input, stdin, queue, locals, printed, torn>>
  BY DEF ReadFlag, tear
<1>3. /\ pc'[c] = l /\ \A u \in Threads : u # c => pc'[u] = pc[u]
  BY <1>1, ThreadMoves DEF IInv, Consumers, Threads, Labels, Loop, End
<1>4. Failed => Failed'
  BY <1>2, <1>3 DEF Failed, ReadFlag, Threads, Consumers
<1> QED
  BY <1>2, <1>3, <1>4, SameStages DEF IInv, Consumers, Threads

LEMMA SleepKeepsOrder == ASSUME IInv, Ordered, NEW c \in Consumers, Sleep(c) PROVE Ordered'
<1>1. /\ Goto(c, "asleep") /\ pc[c] = "sleep"
      /\ UNCHANGED <<input, stdin, queue, locals, printed, torn>>
  BY DEF tear, Sleep
<1>2. /\ pc'[c] = "asleep" /\ \A u \in Threads : u # c => pc'[u] = pc[u]
  BY <1>1, ThreadMoves DEF IInv, Consumers, Threads, Labels, Loop
<1>3. Failed => Failed'
  BY <1>1, <1>2 DEF Failed, Sleep, Threads, Consumers
<1> QED
  BY <1>1, <1>2, <1>3, SameStages DEF IInv, Consumers, Threads

LEMMA SpuriousWakeupKeepsOrder ==
    ASSUME IInv, Ordered, NEW c \in Consumers, SpuriousWakeup(c) PROVE Ordered'
<1>1. /\ Goto(c, "lock") /\ pc[c] = "asleep"
      /\ UNCHANGED <<input, stdin, queue, locals, printed, torn>>
  BY DEF tear, SpuriousWakeup
<1>2. /\ pc'[c] = "lock" /\ \A u \in Threads : u # c => pc'[u] = pc[u]
  BY <1>1, ThreadMoves DEF IInv, Consumers, Threads, Labels, Loop
<1>3. Failed => Failed'
  BY <1>1, <1>2 DEF Failed, SpuriousWakeup, Threads, Consumers
<1> QED
  BY <1>1, <1>2, <1>3, SameStages DEF IInv, Consumers, Threads

LEMMA FinishKeepsOrder == ASSUME IInv, Ordered, NEW p \in Producers, Finish(p) PROVE Ordered'
<1>1. /\ Goto(p, "last notify") /\ pc[p] = "leave"
      /\ UNCHANGED <<input, stdin, queue, locals, printed, torn>>
  BY DEF tear, Finish
<1>2. /\ pc'[p] = "last notify" /\ \A u \in Threads : u # p => pc'[u] = pc[u]
  BY <1>1, ThreadMoves DEF IInv, Producers, Threads, Labels, End
<1>3. Failed => Failed'
  BY <1>1, <1>2 DEF Failed, Finish, Threads, Producers, IInv, TypeOK, SyncOK
<1> QED
  BY <1>1, <1>2, <1>3, SameStages DEF IInv, Producers, Threads

(* A notification moves the consumer to its lock if at all, which no stage minds. *)
LEMMA Woken ==
    ASSUME TypeOK, NEW p \in Producers, NEW l \in Labels, GotoNotifying(p, l)
    PROVE  /\ pc'[p] = l
           /\ \A u \in Threads : u # p => pc'[u] = pc[u] \/ (pc[u] = "asleep" /\ pc'[u] = "lock")
BY Notified, Wiring DEF TypeOK, Producers, Threads, GotoNotifying, ThreadsOK

LEMMA LastNotifyKeepsOrder ==
    ASSUME IInv, Ordered, NEW p \in Producers, LastNotify(p) PROVE Ordered'
<1>1. /\ GotoNotifying(p, "ended") /\ pc[p] = "last notify"
      /\ UNCHANGED <<input, stdin, queue, locals, printed, torn, done>>
  BY DEF tear, LastNotify
<1>2. /\ pc'[p] = "ended"
      /\ \A u \in Threads : u # p => pc'[u] = pc[u] \/ (pc[u] = "asleep" /\ pc'[u] = "lock")
  BY <1>1, Woken DEF IInv, Labels, End
<1>3. Failed => Failed'
  BY <1>1, <1>2 DEF Failed, Threads, Producers
<1> QED
  BY <1>1, <1>2, <1>3, SameStages DEF IInv, Producers, Threads

LEMMA NotifyNameKeepsOrder == ASSUME IInv, Ordered, NotifyName PROVE Ordered'
<1>1. /\ GotoNotifying("pre", "read") /\ pc["pre"] = "notify"
      /\ UNCHANGED <<input, stdin, queue, locals, printed, torn, done>>
  BY DEF tear, NotifyName
<1>2. /\ pc'["pre"] = "read"
      /\ \A u \in Threads : u # "pre" => pc'[u] = pc[u] \/ (pc[u] = "asleep" /\ pc'[u] = "lock")
  BY <1>1, Woken DEF IInv, Labels, Producers
<1>3. Failed => Failed'
  BY <1>1, <1>2 DEF Failed, Threads
<1> QED
  BY <1>1, <1>2, <1>3, SameStages DEF IInv, Threads

LEMMA NotifyAnswerKeepsOrder == ASSUME IInv, Ordered, NotifyAnswer PROVE Ordered'
<1>1. /\ GotoNotifying("work", "lock") /\ pc["work"] = "notify"
      /\ UNCHANGED <<input, stdin, queue, locals, printed, torn, done>>
  BY DEF tear, NotifyAnswer
<1>2. /\ pc'["work"] = "lock"
      /\ \A u \in Threads : u # "work" => pc'[u] = pc[u] \/ (pc[u] = "asleep" /\ pc'[u] = "lock")
  BY <1>1, Woken DEF IInv, Labels, Producers, Loop
<1>3. Failed => Failed'
  BY <1>1, <1>2 DEF Failed, Threads
<1> QED
  BY <1>1, <1>2, <1>3, SameStages DEF IInv, Threads

LEMMA BeginGrowingKeepsOrder == ASSUME IInv, Ordered, BeginGrowing PROVE Ordered'
<1>1. /\ Goto("work", "growing") /\ pc["work"] = "solve"
      /\ UNCHANGED <<input, stdin, queue, locals, printed, torn, done>>
  BY DEF tear, BeginGrowing
<1>2. /\ pc'["work"] = "growing" /\ \A u \in Threads : u # "work" => pc'[u] = pc[u]
  BY <1>1, ThreadMoves DEF IInv, Threads, Labels
<1>3. Failed => Failed'
  BY <1>1, <1>2 DEF Failed, Threads
<1> QED
  BY <1>1, <1>2, <1>3, SameStages DEF IInv, Threads

LEMMA PrintSpoiledKeepsOrder == ASSUME IInv, Ordered, PrintSpoiled PROVE Ordered'
<1>1. /\ Goto("output", "pop") /\ pc["output"] = "take" /\ torn
      /\ UNCHANGED <<input, stdin, queue, locals, printed, torn, done>>
  BY DEF PrintSpoiled
<1>2. /\ pc'["output"] = "pop" /\ \A u \in Threads : u # "output" => pc'[u] = pc[u]
  BY <1>1, ThreadMoves DEF IInv, Threads, Labels
<1>3. Failed => Failed'
  BY <1>1, <1>2 DEF Failed, Threads
<1> QED
  BY <1>1, <1>2, <1>3, SameStages DEF IInv, Threads

LEMMA CrashKeepsOrder == ASSUME IInv, Ordered, Crash PROVE Ordered'
<1>1. UNCHANGED <<input, stdin, pc, queue, locals, printed, torn, done>>
  BY DEF Crash
<1>2. Failed => Failed'
  BY <1>1 DEF Failed
<1> QED
  BY <1>1, <1>2, SameStages DEF IInv

-----------------------------------------------------------------------------
(* Names. *)

(* A sequence without its first element. *)
LEMMA Rest ==
    ASSUME NEW S, NEW s \in Seq(S), s # <<>>
    PROVE  /\ Len(s) \in Nat /\ Len(s) >= 1 /\ Head(s) = s[1]
           /\ Tail(s) \in Seq(S) /\ Len(Tail(s)) = Len(s) - 1
           /\ \A i \in 1 .. Len(s) - 1 : Tail(s)[i] = s[i + 1]
OBVIOUS

(* A sequence with one more element. *)
LEMMA OneMore ==
    ASSUME NEW S, NEW s \in Seq(S), NEW e
    PROVE  /\ Len(Append(s, e)) = Len(s) + 1
           /\ \A i \in 1 .. Len(s) : Append(s, e)[i] = s[i]
           /\ Append(s, e)[Len(s) + 1] = e
OBVIOUS

LEMMA ReadNameKeepsOrder == ASSUME IInv, Ordered, ReadName PROVE Ordered'
<1>1. CASE EndOfInput
  <2>1. /\ Goto("pre", "leave") /\ pc["pre"] = "read"
        /\ UNCHANGED <<input, stdin, queue, locals, printed, torn, done>>
    BY <1>1 DEF tear, ReadName, locals
  <2>2. /\ pc'["pre"] = "leave" /\ \A u \in Threads : u # "pre" => pc'[u] = pc[u]
    BY <2>1, ThreadMoves DEF IInv, Threads, Labels, End
  <2>3. Failed => Failed'
    BY <2>1, <2>2 DEF Failed, Threads
  <2> QED
    BY <2>1, <2>2, <2>3, SameStages DEF IInv, Threads
<1>2. CASE ~EndOfInput
  <2>1. /\ Goto("pre", "push") /\ pc["pre"] = "read"
        /\ file_name' = Head(stdin) /\ stdin' = Tail(stdin)
        /\ UNCHANGED <<input, queue, file, line, str, printed, torn, done>>
    BY <1>2 DEF tear, ReadName
  <2>2. /\ pc'["pre"] = "push" /\ \A u \in Threads : u # "pre" => pc'[u] = pc[u]
    BY <2>1, ThreadMoves DEF IInv, Threads, Labels, End
  <2>3. stdin \in Seq(Names) /\ stdin # <<>> /\ (terminated \/ Len(stdin) > 1)
    <3>1. stdin \in Seq(Names)
      BY DEF IInv, TypeOK, QueuesOK
    <3>2. stdin # <<>> /\ (Len(stdin) = 1 => terminated)
      BY <1>2 DEF EndOfInput
    <3>3. PICK s \in Nat : s = Len(stdin) /\ s >= 1
      BY <3>1, <3>2, Rest
    <3>4. s = 1 \/ s > 1
      BY <3>3
    <3> QED
      BY <3>1, <3>2, <3>3, <3>4
  <2>4. PICK n \in Nat, m \in Nat, s \in Nat :
           n = NamesRead /\ m = Len(typed) /\ s = Len(stdin) /\ n = m - s /\ s >= 1
    BY <2>3, Counters, Rest DEF IInv, Ordered, NamesRead
  <2>5. /\ Len(stdin') = s - 1 /\ file_name' = stdin[1]
        /\ \A i \in 1 .. s - 1 : stdin'[i] = stdin[i + 1]
    BY <2>1, <2>3, <2>4, Rest
  <2>6. typed' = typed /\ terminated' = terminated /\ Len(typed') = m
    BY <2>1, <2>4 DEF input
  <2>7. NamesRead' = n + 1
    BY <2>4, <2>5, <2>6 DEF NamesRead
  <2>8. NamesTaken' = NamesTaken
    BY <2>1, <2>2, <2>4, <2>7, Counters DEF NamesTaken, IInv, Ordered
  <2>9. \A i \in 1 .. s : stdin[i] = typed[n + i]
    BY <2>4 DEF Ordered, NamesInOrder
  <2>10. \A i \in 1 .. Len(stdin') : stdin'[i] = typed'[NamesRead' + i]
    <3>1. ASSUME NEW i \in 1 .. s - 1 PROVE stdin'[i] = typed[(n + 1) + i]
      <4>1. i + 1 \in 1 .. s /\ n + (i + 1) = (n + 1) + i
        OBVIOUS
      <4> QED
        BY <2>5, <2>9, <4>1
    <3> QED
      BY <2>5, <2>6, <2>7, <3>1
  <2>11. file_name' = typed'[NamesRead'] /\ NamesRead' >= 1
    BY <2>4, <2>5, <2>6, <2>7, <2>9
  <2>12. NamesInOrder'
    <3>1. terminated' \/ NamesRead' < Len(typed')
      BY <2>3, <2>4, <2>6, <2>7
    <3>2. Len(stdin') <= Len(typed')
      BY <2>4, <2>5, <2>6
    <3>3. /\ NamesTaken >= 0
          /\ \A i \in 1 .. Len(queue["input"]) : queue["input"][i] = typed[NamesTaken + i]
          /\ typed \in Seq(Names) /\ terminated \in BOOLEAN
      BY DEF Ordered, NamesInOrder
    <3> QED
      BY <2>1, <2>6, <2>8, <2>10, <2>11, <3>1, <3>2, <3>3 DEF NamesInOrder
  <2>13. AnswersInOrder' /\ LinesRead' = LinesRead
    BY <2>1, <2>2, SameAnswers DEF Ordered, Threads
  <2>14. FilesInOrder'
    <3>1. Failed => Failed'
      BY <2>1, <2>2 DEF Failed, Threads
    <3>2. NamesTaken \in Nat
      BY Counters DEF IInv, Ordered
    <3> QED
      BY <2>1, <2>2, <2>8, <2>13, <3>1, <3>2, SameFiles DEF Ordered, Threads
  <2> QED
    BY <2>12, <2>13, <2>14 DEF Ordered
<1> QED
  BY <1>1, <1>2

LEMMA PushNameKeepsOrder == ASSUME IInv, Ordered, PushName PROVE Ordered'
<1>1. /\ Goto("pre", "notify") /\ pc["pre"] = "push" /\ Push("input", file_name)
      /\ UNCHANGED <<input, stdin, locals, printed, torn, done>>
  BY DEF tear, PushName
<1>2. /\ pc'["pre"] = "notify" /\ \A u \in Threads : u # "pre" => pc'[u] = pc[u]
  BY <1>1, ThreadMoves DEF IInv, Threads, Labels, End
<1>3. PICK q \in Seq(Names) : q = queue["input"]
  BY DEF IInv, TypeOK, QueuesOK
<1>4. /\ queue'["input"] = Append(q, file_name)
      /\ queue'["work"] = queue["work"] /\ queue'["output"] = queue["output"]
  BY <1>1, <1>3 DEF Push, IInv, TypeOK, QueuesOK, Consumers
<1>5. PICK n \in Nat, k \in Nat :
         n = NamesRead /\ k = NamesTaken /\ Len(q) \in Nat /\ k = n - 1 - Len(q)
  BY <1>1, <1>3, Counters DEF IInv, Ordered, NamesTaken
<1>6. typed' = typed /\ terminated' = terminated /\ file_name' = file_name
  BY <1>1 DEF input, locals
<1>7. NamesRead' = n
  BY <1>1, <1>5, <1>6 DEF NamesRead
<1>8. Len(queue'["input"]) = Len(q) + 1
  BY <1>4, OneMore
<1>9. NamesTaken' = k
  <2>1. NamesTaken' = NamesRead' - 0 - Len(queue'["input"])
    BY <1>2 DEF NamesTaken
  <2> QED
    BY <1>5, <1>7, <1>8, <2>1
<1>10. file_name = typed[n] /\ \A i \in 1 .. Len(q) : q[i] = typed[k + i]
  BY <1>1, <1>3, <1>5 DEF Ordered, NamesInOrder
<1>11. \A i \in 1 .. Len(queue'["input"]) : queue'["input"][i] = typed'[NamesTaken' + i]
  <2>1. ASSUME NEW i \in 1 .. Len(q) + 1 PROVE queue'["input"][i] = typed[k + i]
    <3>1. CASE i = Len(q) + 1
      <4>1. k + i = n
        BY <1>5, <3>1
      <4> QED
        BY <1>4, <1>10, <3>1, <4>1, OneMore
    <3>2. CASE i # Len(q) + 1
      <4>1. i \in 1 .. Len(q)
        BY <1>5, <3>2
      <4> QED
        BY <1>4, <1>10, <4>1, OneMore
    <3> QED
      BY <3>1, <3>2
  <2> QED
    BY <1>6, <1>8, <1>9, <2>1
<1>12. NamesInOrder'
  <2>1. /\ typed \in Seq(Names) /\ terminated \in BOOLEAN /\ Len(stdin) <= Len(typed)
        /\ \A i \in 1 .. Len(stdin) : stdin[i] = typed[n + i]
        /\ n = 0 \/ terminated \/ n < Len(typed)
    BY <1>5 DEF Ordered, NamesInOrder
  <2> QED
    BY <1>1, <1>2, <1>5, <1>6, <1>7, <1>9, <1>11, <2>1 DEF NamesInOrder
<1>13. AnswersInOrder' /\ LinesRead' = LinesRead
  BY <1>1, <1>2, <1>4, SameAnswers DEF Ordered, Threads, locals
<1>14. FilesInOrder'
  <2>1. Failed => Failed'
    BY <1>1, <1>2 DEF Failed, Threads
  <2> QED
    BY <1>1, <1>2, <1>5, <1>9, <1>13, <2>1, SameFiles DEF Ordered, Threads, locals
<1> QED
  BY <1>12, <1>13, <1>14 DEF Ordered

-----------------------------------------------------------------------------
(* Files. *)

LEMMA TakeNameKeepsOrder == ASSUME IInv, EndsInOrder, Ordered, TakeName PROVE Ordered'
<1>1. /\ pc["input"] = "take" /\ Pop("input") /\ file' = Head(queue["input"]) /\ line' = 0
      /\ UNCHANGED <<input, stdin, file_name, str, printed, torn, done>>
  BY DEF tear, TakeName
<1>2. PICK l \in {"lines", "ended"} : Goto("input", l) /\ (l = "lines" <=> file' \in Files)
  BY DEF TakeName
<1>3. /\ pc'["input"] = l /\ \A u \in Threads : u # "input" => pc'[u] = pc[u]
  BY <1>2, ThreadMoves DEF IInv, Threads, Labels, End
<1>4. PICK q \in Seq(Names) : q = queue["input"] /\ q # <<>>
  BY <1>1 DEF IInv, TypeOK, QueuesOK, LocksHeld
<1>5. /\ queue'["input"] = Tail(q)
      /\ queue'["work"] = queue["work"] /\ queue'["output"] = queue["output"]
  BY <1>1, <1>4 DEF Pop, IInv, TypeOK, QueuesOK, Consumers
<1>6. PICK n \in Nat, k \in Nat, h \in {0, 1}, m \in Nat :
         /\ n = NamesRead /\ k = NamesTaken /\ m = Len(typed) /\ n <= m
         /\ Len(q) \in Nat /\ Len(q) >= 1
         /\ h = (IF pc["pre"] = "push" THEN 1 ELSE 0) /\ k = n - h - Len(q)
  BY <1>4, Counters, Rest DEF IInv, Ordered, NamesTaken
<1>7. typed' = typed /\ terminated' = terminated
  BY <1>1 DEF input
<1>8. NamesRead' = n
  BY <1>1, <1>6, <1>7 DEF NamesRead
<1>9. Len(queue'["input"]) = Len(q) - 1 /\ file' = q[1]
      /\ \A i \in 1 .. Len(q) - 1 : queue'["input"][i] = q[i + 1]
  BY <1>1, <1>4, <1>5, Rest
<1>10. NamesTaken' = k + 1
  <2>1. NamesTaken' = NamesRead' - h - Len(queue'["input"])
    BY <1>3, <1>6 DEF NamesTaken, Threads
  <2> QED
    BY <1>6, <1>8, <1>9, <2>1
<1>11. \A i \in 1 .. Len(q) : q[i] = typed[k + i]
  BY <1>4, <1>6 DEF Ordered, NamesInOrder
<1>12. file' = typed[k + 1]
  BY <1>6, <1>9, <1>11
<1>13. NamesInOrder'
  <2>1. /\ typed \in Seq(Names) /\ terminated \in BOOLEAN /\ Len(stdin) <= Len(typed)
        /\ \A i \in 1 .. Len(stdin) : stdin[i] = typed[n + i]
        /\ n = 0 \/ terminated \/ n < Len(typed)
        /\ pc["pre"] = "push" => n >= 1 /\ file_name = typed[n]
    BY <1>6 DEF Ordered, NamesInOrder
  <2>2. \A i \in 1 .. Len(queue'["input"]) : queue'["input"][i] = typed'[NamesTaken' + i]
    <3>1. ASSUME NEW i \in 1 .. Len(q) - 1 PROVE queue'["input"][i] = typed[(k + 1) + i]
      <4>1. i + 1 \in 1 .. Len(q) /\ k + (i + 1) = (k + 1) + i
        BY <1>6
      <4> QED
        BY <1>9, <1>11, <4>1
    <3> QED
      BY <1>7, <1>9, <1>10, <3>1
  <2>3. NamesTaken' >= 0 /\ pc'["pre"] = pc["pre"]
    BY <1>3, <1>6, <1>10 DEF Threads
  <2> QED
    BY <1>1, <1>7, <1>8, <2>1, <2>2, <2>3 DEF NamesInOrder
<1>14. AnswersInOrder' /\ LinesRead' = LinesRead
  BY <1>1, <1>3, <1>5, SameAnswers DEF Ordered, Threads
<1>15. LinesRead = Len(Upto[k])
  BY <1>1, <1>6 DEF Ordered, FilesInOrder
<1>16. k >= 1 => IsRead(k)
  BY <1>1, <1>6 DEF Ordered, FilesInOrder, Failed
<1>17. ~done["input"] /\ done' = done
  BY <1>1 DEF EndsInOrder
<1>18. Upto' = Upto
  BY <1>1, SameInput
<1>19. FilesInOrder'
  <2>1. CASE l = "lines"
    <3>1. typed[k + 1] \in Files
      BY <1>2, <1>12, <2>1
    <3>2. IsRead(k + 1)
      <4>1. terminated \/ k + 1 < m
        BY <1>6 DEF Ordered, NamesInOrder
      <4>2. \A j \in 1 .. k : typed[j] \in Files
        BY <1>16 DEF IsRead
      <4>3. \A j \in 1 .. k + 1 : typed[j] \in Files
        BY <3>1, <4>2
      <4> QED
        BY <1>6, <4>1, <4>3 DEF IsRead
    <3>3. IsRead(NamesTaken)'
      BY <1>7, <1>10, <3>2 DEF IsRead
    <3>4. /\ NamesTaken' >= 1 /\ file' = typed'[NamesTaken'] /\ NamesTaken' - 1 = k
      BY <1>7, <1>10, <1>12
    <3>5. Len(Upto[k]) \in Nat
      BY UptoDefined
    <3>6. LinesRead' = Len(Upto'[NamesTaken' - 1]) + line'
      BY <1>1, <1>14, <1>15, <1>18, <3>4, <3>5
    <3> QED
      BY <1>3, <2>1, <3>3, <3>4, <3>6 DEF FilesInOrder
  <2>2. CASE l = "ended"
    <3>1. typed[k + 1] \notin Files
      BY <1>2, <1>12, <2>2
    <3>2. ~IsRead(k + 1)
      BY <3>1 DEF IsRead
    <3>3. Upto[k + 1] = Upto[k]
      <4>1. typed \in Seq(Names) /\ k + 1 \in Nat /\ k <= k + 1
        BY <1>6 DEF Ordered, NamesInOrder
      <4> QED
        BY <1>6, <3>2, <4>1, NothingAfter
    <3>4. LinesRead' = Len(Upto'[NamesTaken'])
      BY <1>10, <1>14, <1>15, <1>18, <3>3
    <3>5. Failed'
      BY <1>3, <1>17, <2>2 DEF Failed
    <3> QED
      BY <1>3, <2>2, <3>4, <3>5 DEF FilesInOrder
  <2> QED
    BY <2>1, <2>2
<1> QED
  BY <1>13, <1>14, <1>19 DEF Ordered

LEMMA CloseFileKeepsOrder == ASSUME IInv, Ordered, CloseFile PROVE Ordered'
<1>1. /\ Goto("input", "lock") /\ pc["input"] = "lines" /\ ~MoreLines
      /\ UNCHANGED <<input, stdin, queue, locals, printed, torn, done>>
  BY DEF tear, CloseFile
<1>2. /\ pc'["input"] = "lock" /\ \A u \in Threads : u # "input" => pc'[u] = pc[u]
  BY <1>1, ThreadMoves DEF IInv, Threads, Labels, Loop
<1>3. NamesInOrder' /\ NamesTaken' = NamesTaken
  BY <1>1, <1>2, SameNames DEF Ordered, Threads, locals
<1>4. AnswersInOrder' /\ LinesRead' = LinesRead
  BY <1>1, <1>2, SameAnswers DEF Ordered, Threads, locals
<1>5. PICK k \in Nat : k = NamesTaken /\ k >= 1
  BY <1>1, Counters DEF IInv, Ordered, FilesInOrder
<1>6. file = typed[k] /\ LinesRead = Len(Upto[k - 1]) + line /\ IsRead(k)
  BY <1>1, <1>5 DEF Ordered, FilesInOrder, Failed
<1>7. PICK n \in Nat : n = LinesOf[typed[k]] /\ n = LinesOf[file]
  BY <1>5, <1>6, ReadOpens
<1>8. line = n
  BY <1>1, <1>7 DEF MoreLines, IInv, TypeOK, LocalsOK
<1>9. LinesRead = Len(Upto[k])
  BY <1>5, <1>6, <1>7, <1>8, UptoNext
<1>10. Upto' = Upto /\ typed' = typed /\ terminated' = terminated
  BY <1>1, SameInput
<1>11. IsRead(NamesTaken)'
  BY <1>3, <1>5, <1>6, <1>10 DEF IsRead
<1>12. FilesInOrder'
  BY <1>2, <1>3, <1>4, <1>5, <1>9, <1>10, <1>11 DEF FilesInOrder
<1> QED
  BY <1>3, <1>4, <1>12 DEF Ordered

LEMMA PushLineKeepsOrder == ASSUME IInv, Ordered, PushLine PROVE Ordered'
<1>1. /\ pc["input"] = "lines" /\ MoreLines /\ line' = line + 1
      /\ Push("work", <<file, line'>>) /\ GotoNotifying("input", "lines")
      /\ UNCHANGED <<input, stdin, done, file_name, file, str, printed, torn>>
  BY DEF tear, PushLine
<1>2. /\ pc'["input"] = "lines"
      /\ \A u \in Threads : u # "input" => pc'[u] = pc[u] \/ (pc[u] = "asleep" /\ pc'[u] = "lock")
  BY <1>1, Woken DEF IInv, Labels, Producers
<1>3. PICK q \in Seq(Lines) : q = queue["work"]
  BY DEF IInv, TypeOK, QueuesOK
<1>4. /\ queue'["work"] = Append(q, <<file, line'>>)
      /\ queue'["input"] = queue["input"] /\ queue'["output"] = queue["output"]
  BY <1>1, <1>3 DEF Push, IInv, TypeOK, QueuesOK, Consumers
<1>5. NamesInOrder' /\ NamesTaken' = NamesTaken
  BY <1>1, <1>2, <1>4, SameNames DEF Ordered, Threads
<1>6. PICK k \in Nat, m \in Nat : k = NamesTaken /\ k >= 1 /\ m = Len(typed) /\ k <= m
  BY <1>1, Counters DEF IInv, Ordered, FilesInOrder
<1>7. file = typed[k] /\ LinesRead = Len(Upto[k - 1]) + line /\ IsRead(k)
  BY <1>1, <1>6 DEF Ordered, FilesInOrder, Failed
<1>8. PICK n \in Nat : n = LinesOf[typed[k]] /\ n = LinesOf[file]
  BY <1>6, <1>7, ReadOpens
<1>9. PICK l \in 1 .. n : l = line'
  BY <1>1, <1>8 DEF MoreLines, IInv, TypeOK, LocalsOK
<1>10. PICK u \in Nat : u = Len(Upto[k - 1])
  <2>1. k - 1 \in Nat
    BY <1>6
  <2> QED
    BY <2>1, UptoDefined
<1>11. u + l <= Len(Expected) /\ Expected[u + l] = Answer(<<file, l>>)
  <2>1. typed \in Seq(Names) /\ k \in 1 .. Len(typed) /\ l \in 1 .. LinesOf[typed[k]]
    BY <1>6, <1>8 DEF Ordered, NamesInOrder
  <2> QED
    BY <1>7, <1>10, <2>1, LineExpected
<1>12. PICK r \in Int, t \in Int : r = LinesRead /\ t = LinesTaken /\ r = t + Len(q)
                                /\ Len(q) \in Nat
  BY <1>3, Counters DEF IInv, Ordered, LinesRead
<1>13. u + l = r + 1
  <2>1. line \in Nat
    BY DEF IInv, TypeOK, LocalsOK
  <2>2. r = u + line /\ l = line + 1
    BY <1>1, <1>7, <1>9, <1>10, <1>12
  <2> QED
    BY <2>1, <2>2
<1>14. AnswersPopped' = AnswersPopped /\ AnswersPushed' = AnswersPushed /\ LinesTaken' = t
  BY <1>1, <1>2, <1>4, <1>12 DEF AnswersPopped, AnswersPushed, LinesTaken, Threads
<1>15. Len(queue'["work"]) = Len(q) + 1
  BY <1>4, OneMore
<1>16. LinesRead' = r + 1
  BY <1>12, <1>14, <1>15 DEF LinesRead
<1>17. Expected' = Expected /\ Upto' = Upto /\ typed' = typed /\ terminated' = terminated
  BY <1>1, SameInput
<1>18. \A i \in 1 .. Len(queue'["work"]) :
          Answer(queue'["work"][i]) = Expected'[LinesTaken' + i]
  <2>1. \A i \in 1 .. Len(q) : Answer(q[i]) = Expected[t + i]
    BY <1>3, <1>12 DEF Ordered, AnswersInOrder
  <2>2. ASSUME NEW i \in 1 .. Len(q) + 1 PROVE Answer(queue'["work"][i]) = Expected[t + i]
    <3>1. CASE i = Len(q) + 1
      <4>1. t + i = u + l
        BY <1>12, <1>13, <3>1
      <4> QED
        BY <1>4, <1>9, <1>11, <3>1, <4>1, OneMore
    <3>2. CASE i # Len(q) + 1
      <4>1. i \in 1 .. Len(q)
        BY <1>12, <3>2
      <4> QED
        BY <1>4, <2>1, <4>1, OneMore
    <3> QED
      BY <3>1, <3>2
  <2> QED
    BY <1>14, <1>15, <1>17, <2>2
<1>19. AnswersInOrder'
  <2>1. LinesRead' <= Len(Expected')
    BY <1>11, <1>13, <1>16, <1>17
  <2>2. /\ pc'["output"] = "pop" <=> pc["output"] = "pop"
        /\ pc'["work"] \in {"solve", "growing"} <=> pc["work"] \in {"solve", "growing"}
    BY <1>2 DEF Threads
  <2> QED
    BY <1>1, <1>4, <1>12, <1>14, <1>17, <1>18, <2>1, <2>2 DEF Ordered, AnswersInOrder
<1>20. FilesInOrder'
  <2>1. IsRead(NamesTaken)'
    BY <1>5, <1>6, <1>7, <1>17 DEF IsRead
  <2>2. LinesRead' = Len(Upto'[NamesTaken' - 1]) + line'
    BY <1>5, <1>6, <1>9, <1>10, <1>13, <1>16, <1>17
  <2>3. NamesTaken' >= 1 /\ file' = typed'[NamesTaken']
    BY <1>1, <1>5, <1>6, <1>7, <1>17
  <2> QED
    BY <1>2, <2>1, <2>2, <2>3 DEF FilesInOrder
<1> QED
  BY <1>5, <1>19, <1>20 DEF Ordered

-----------------------------------------------------------------------------
(* Lines and answers. *)

LEMMA TakeLineKeepsOrder == ASSUME IInv, Ordered, TakeLine PROVE Ordered'
<1>1. /\ pc["work"] = "take" /\ Pop("work") /\ str' = Head(queue["work"])
      /\ Goto("work", "solve")
      /\ UNCHANGED <<input, stdin, file_name, file, line, printed, torn, done>>
  BY DEF tear, TakeLine
<1>2. /\ pc'["work"] = "solve" /\ \A u \in Threads : u # "work" => pc'[u] = pc[u]
  BY <1>1, ThreadMoves DEF IInv, Threads, Labels
<1>3. PICK q \in Seq(Lines) : q = queue["work"] /\ q # <<>>
  BY <1>1 DEF IInv, TypeOK, QueuesOK, LocksHeld
<1>4. /\ queue'["work"] = Tail(q)
      /\ queue'["input"] = queue["input"] /\ queue'["output"] = queue["output"]
  BY <1>1, <1>3 DEF Pop, IInv, TypeOK, QueuesOK, Consumers
<1>5. NamesInOrder' /\ NamesTaken' = NamesTaken
  BY <1>1, <1>2, <1>4, SameNames DEF Ordered, Threads
<1>6. PICK t \in Int, r \in Int : t = LinesTaken /\ r = LinesRead /\ r = t + Len(q)
                                /\ t = AnswersPushed /\ Len(q) \in Nat /\ Len(q) >= 1
  BY <1>1, <1>3, Counters, Rest DEF IInv, Ordered, LinesRead, LinesTaken
<1>7. /\ Len(queue'["work"]) = Len(q) - 1 /\ str' = q[1]
      /\ \A i \in 1 .. Len(q) - 1 : queue'["work"][i] = q[i + 1]
  BY <1>1, <1>3, <1>4, Rest
<1>8. AnswersPopped' = AnswersPopped /\ AnswersPushed' = AnswersPushed
  BY <1>1, <1>2, <1>4 DEF AnswersPopped, AnswersPushed, Threads
<1>9. LinesTaken' = t + 1
  BY <1>2, <1>6, <1>8 DEF LinesTaken
<1>10. LinesRead' = r
  <2>1. LinesRead' = (t + 1) + (Len(q) - 1)
    BY <1>7, <1>9 DEF LinesRead
  <2> QED
    BY <1>6, <2>1
<1>11. Expected' = Expected
  BY <1>1, SameInput
<1>12. \A i \in 1 .. Len(q) : Answer(q[i]) = Expected[t + i]
  BY <1>3, <1>6 DEF Ordered, AnswersInOrder
<1>13. Answer(str') = Expected'[LinesTaken']
  BY <1>6, <1>7, <1>9, <1>11, <1>12
<1>14. \A i \in 1 .. Len(queue'["work"]) :
          Answer(queue'["work"][i]) = Expected'[LinesTaken' + i]
  <2>1. ASSUME NEW i \in 1 .. Len(q) - 1 PROVE Answer(queue'["work"][i]) = Expected[(t + 1) + i]
    <3>1. i + 1 \in 1 .. Len(q) /\ t + (i + 1) = (t + 1) + i
      BY <1>6
    <3> QED
      BY <1>7, <1>12, <3>1
  <2> QED
    BY <1>7, <1>9, <1>11, <2>1
<1>15. AnswersInOrder'
  <2>1. pc'["output"] = pc["output"]
    BY <1>2 DEF Threads
  <2> QED
    BY <1>1, <1>4, <1>6, <1>8, <1>10, <1>11, <1>13, <1>14, <2>1 DEF Ordered, AnswersInOrder
<1>16. FilesInOrder'
  <2>1. Failed => Failed'
    BY <1>1, <1>2 DEF Failed, Threads
  <2>2. NamesTaken \in Nat
    BY Counters DEF IInv, Ordered
  <2> QED
    BY <1>1, <1>2, <1>5, <1>6, <1>10, <2>1, <2>2, SameFiles DEF Ordered, Threads
<1> QED
  BY <1>5, <1>15, <1>16 DEF Ordered

LEMMA PushAnswerKeepsOrder == ASSUME IInv, Ordered, PushAnswer PROVE Ordered'
<1>1. /\ pc["work"] \in {"solve", "growing"} /\ Push("output", Answer(str))
      /\ Goto("work", "notify")
      /\ UNCHANGED <<input, stdin, locals, printed, torn, done>>
  BY DEF tear, PushAnswer
<1>2. /\ pc'["work"] = "notify" /\ \A u \in Threads : u # "work" => pc'[u] = pc[u]
  BY <1>1, ThreadMoves DEF IInv, Threads, Labels
<1>3. PICK q \in Seq(Answers) : q = queue["output"]
  BY DEF IInv, TypeOK, QueuesOK
<1>4. /\ queue'["output"] = Append(q, Answer(str))
      /\ queue'["input"] = queue["input"] /\ queue'["work"] = queue["work"]
  BY <1>1, <1>3 DEF Push, IInv, TypeOK, QueuesOK, Consumers
<1>5. NamesInOrder' /\ NamesTaken' = NamesTaken
  BY <1>1, <1>2, <1>4, SameNames DEF Ordered, Threads, locals
<1>6. PICK o \in Int, t \in Int : o = AnswersPopped /\ t = LinesTaken /\ t = (o + Len(q)) + 1
                                /\ AnswersPushed = o + Len(q) /\ Len(q) \in Nat
  BY <1>1, <1>3, Counters DEF IInv, Ordered, LinesTaken, AnswersPushed
<1>7. Len(queue'["output"]) = Len(q) + 1
  BY <1>4, OneMore
<1>8. AnswersPopped' = o
  BY <1>1, <1>2, <1>6 DEF AnswersPopped, Threads
<1>9. AnswersPushed' = t
  BY <1>6, <1>7, <1>8 DEF AnswersPushed
<1>10. LinesTaken' = t /\ LinesRead' = LinesRead
  <2>1. LinesTaken' = AnswersPushed' + 0
    BY <1>2 DEF LinesTaken
  <2> QED
    BY <1>4, <1>6, <1>9, <2>1 DEF LinesRead
<1>11. Expected' = Expected
  BY <1>1, SameInput
<1>12. \A i \in 1 .. Len(queue'["output"]) : queue'["output"][i] = Expected'[AnswersPopped' + i]
  <2>1. \A i \in 1 .. Len(q) : q[i] = Expected[o + i]
    BY <1>3, <1>6 DEF Ordered, AnswersInOrder
  <2>2. Answer(str) = Expected[t]
    BY <1>1, <1>6 DEF Ordered, AnswersInOrder
  <2>3. ASSUME NEW i \in 1 .. Len(q) + 1 PROVE queue'["output"][i] = Expected[o + i]
    <3>1. CASE i = Len(q) + 1
      <4>1. o + i = t
        BY <1>6, <3>1
      <4> QED
        BY <1>4, <2>2, <3>1, <4>1, OneMore
    <3>2. CASE i # Len(q) + 1
      <4>1. i \in 1 .. Len(q)
        BY <1>6, <3>2
      <4> QED
        BY <1>4, <2>1, <4>1, OneMore
    <3> QED
      BY <3>1, <3>2
  <2> QED
    BY <1>7, <1>8, <1>11, <2>3
<1>13. AnswersInOrder'
  <2>1. pc'["output"] = pc["output"]
    BY <1>2 DEF Threads
  <2>2. queue'["output"] # <<>>
    BY <1>3, <1>4
  <2> QED
    BY <1>1, <1>2, <1>4, <1>6, <1>10, <1>11, <1>12, <2>1, <2>2
       DEF Ordered, AnswersInOrder, locals
<1>14. FilesInOrder'
  <2>1. Failed => Failed'
    BY <1>1, <1>2 DEF Failed, Threads
  <2>2. NamesTaken \in Nat
    BY Counters DEF IInv, Ordered
  <2> QED
    BY <1>1, <1>2, <1>5, <1>10, <2>1, <2>2, SameFiles DEF Ordered, Threads, locals
<1> QED
  BY <1>5, <1>13, <1>14 DEF Ordered

LEMMA PrintAnswerKeepsOrder == ASSUME IInv, Ordered, PrintAnswer PROVE Ordered'
<1>1. /\ pc["output"] = "take" /\ printed' = Append(printed, Head(queue["output"]))
      /\ Goto("output", "pop") /\ ~torn
      /\ UNCHANGED <<input, stdin, queue, locals, torn, done>>
  BY DEF PrintAnswer, tear
<1>2. /\ pc'["output"] = "pop" /\ \A u \in Threads : u # "output" => pc'[u] = pc[u]
  BY <1>1, ThreadMoves DEF IInv, Threads, Labels
<1>3. PICK q \in Seq(Answers), p \in Seq(Answers) : q = queue["output"] /\ q # <<>> /\ p = printed
  BY <1>1 DEF IInv, TypeOK, QueuesOK, LocksHeld
<1>4. NamesInOrder' /\ NamesTaken' = NamesTaken
  BY <1>1, <1>2, SameNames DEF Ordered, Threads, locals
<1>5. /\ Len(p) \in Nat /\ Len(printed') = Len(p) + 1
      /\ \A i \in 1 .. Len(p) : printed'[i] = p[i]
      /\ printed'[Len(p) + 1] = q[1] /\ 1 \in 1 .. Len(q)
  BY <1>1, <1>3, OneMore, Rest
<1>6. AnswersPopped = Len(p)
  BY <1>1, <1>3, <1>5 DEF AnswersPopped
<1>7. AnswersPopped' = AnswersPopped
  BY <1>1, <1>2, <1>5, <1>6 DEF AnswersPopped
<1>8. LinesTaken' = LinesTaken /\ LinesRead' = LinesRead
  BY <1>1, <1>2, <1>7 DEF AnswersPushed, LinesTaken, LinesRead, Threads
<1>9. Expected' = Expected
  BY <1>1, SameInput
<1>10. \A i \in 1 .. Len(printed') : printed'[i] = Expected'[i]
  <2>1. \A i \in 1 .. Len(p) : p[i] = Expected[i]
    BY <1>3 DEF Ordered, AnswersInOrder
  <2>2. q[1] = Expected[Len(p) + 1]
    BY <1>3, <1>5, <1>6 DEF Ordered, AnswersInOrder
  <2>3. ASSUME NEW i \in 1 .. Len(p) + 1 PROVE printed'[i] = Expected[i]
    <3>1. CASE i = Len(p) + 1
      <4>1. printed'[i] = q[1]
        BY <1>5, <3>1
      <4> QED
        BY <2>2, <3>1, <4>1
    <3>2. CASE i # Len(p) + 1
      <4>1. i \in 1 .. Len(p)
        BY <1>3, <3>2
      <4> QED
        BY <1>5, <2>1, <4>1
    <3> QED
      BY <3>1, <3>2
  <2> QED
    BY <1>5, <1>9, <2>3
<1>11. AnswersInOrder'
  <2>1. pc'["work"] = pc["work"]
    BY <1>2 DEF Threads
  <2>2. printed' # <<>> /\ queue'["output"] # <<>>
    BY <1>1, <1>3
  <2> QED
    BY <1>1, <1>7, <1>8, <1>9, <1>10, <2>1, <2>2 DEF Ordered, AnswersInOrder, locals
<1>12. FilesInOrder'
  <2>1. Failed => Failed'
    BY <1>1, <1>2 DEF Failed, Threads
  <2>2. NamesTaken \in Nat
    BY Counters DEF IInv, Ordered
  <2> QED
    BY <1>1, <1>2, <1>4, <1>8, <2>1, <2>2, SameFiles DEF Ordered, Threads, locals
<1> QED
  BY <1>4, <1>11, <1>12 DEF Ordered

(* A pop while the queue is whole. *)
LEMMA PopWholeKeepsOrder == ASSUME IInv, Ordered, PopAnswer, ~torn PROVE Ordered'
<1>1. /\ pc["output"] = "pop" /\ Pop("output") /\ Goto("output", "lock")
      /\ UNCHANGED <<input, stdin, locals, printed, done>>
  BY DEF PopAnswer
<1>2. /\ pc'["output"] = "lock" /\ \A u \in Threads : u # "output" => pc'[u] = pc[u]
  BY <1>1, ThreadMoves DEF IInv, Threads, Labels, Loop
<1>3. PICK q \in Seq(Answers) : q = queue["output"] /\ q # <<>>
  BY <1>1 DEF IInv, TypeOK, QueuesOK, LocksHeld
<1>4. /\ queue'["output"] = Tail(q)
      /\ queue'["input"] = queue["input"] /\ queue'["work"] = queue["work"]
  BY <1>1, <1>3 DEF Pop, IInv, TypeOK, QueuesOK, Consumers
<1>5. NamesInOrder' /\ NamesTaken' = NamesTaken
  BY <1>1, <1>2, <1>4, SameNames DEF Ordered, Threads, locals
<1>6. /\ Len(queue'["output"]) = Len(q) - 1 /\ Len(q) \in Nat /\ Len(q) >= 1
      /\ \A i \in 1 .. Len(q) - 1 : queue'["output"][i] = q[i + 1]
  BY <1>3, <1>4, Rest
<1>7. PICK o \in Int : o = AnswersPopped
  BY Counters DEF IInv, Ordered
<1>8. AnswersPopped' = o + 1
  <2>1. Len(printed) \in Nat /\ o = Len(printed) - 1 /\ AnswersPopped' = Len(printed) - 0
    BY <1>1, <1>2, <1>7, Counters DEF AnswersPopped, IInv, Ordered
  <2> QED
    BY <2>1
<1>9. AnswersPushed' = AnswersPushed
  <2>1. AnswersPushed = o + Len(q) /\ AnswersPushed' = (o + 1) + (Len(q) - 1)
    BY <1>3, <1>6, <1>7, <1>8 DEF AnswersPushed
  <2> QED
    BY <1>6, <2>1
<1>10. LinesTaken' = LinesTaken /\ LinesRead' = LinesRead
  BY <1>2, <1>4, <1>9 DEF LinesTaken, LinesRead, Threads
<1>11. Expected' = Expected
  BY <1>1, SameInput
<1>12. \A i \in 1 .. Len(queue'["output"]) : queue'["output"][i] = Expected'[AnswersPopped' + i]
  <2>1. \A i \in 1 .. Len(q) : q[i] = Expected[o + i]
    BY <1>3, <1>7 DEF Ordered, AnswersInOrder
  <2>2. ASSUME NEW i \in 1 .. Len(q) - 1 PROVE queue'["output"][i] = Expected[(o + 1) + i]
    <3>1. i + 1 \in 1 .. Len(q) /\ o + (i + 1) = (o + 1) + i
      BY <1>3
    <3> QED
      BY <1>6, <2>1, <3>1
  <2> QED
    BY <1>6, <1>8, <1>11, <2>2
<1>13. AnswersInOrder'
  <2>1. pc'["work"] = pc["work"]
    BY <1>2 DEF Threads
  <2> QED
    BY <1>1, <1>2, <1>4, <1>10, <1>11, <1>12, <2>1 DEF Ordered, AnswersInOrder, locals
<1>14. FilesInOrder'
  <2>1. Failed => Failed'
    BY <1>1, <1>2 DEF Failed, Threads
  <2>2. NamesTaken \in Nat
    BY Counters DEF IInv, Ordered
  <2> QED
    BY <1>1, <1>2, <1>5, <1>10, <2>1, <2>2, SameFiles DEF Ordered, Threads, locals
<1> QED
  BY <1>5, <1>13, <1>14 DEF Ordered

LEMMA PopAnswerKeepsOrder == ASSUME IInv, Ordered, PopAnswer PROVE Ordered'
<1>1. CASE torn
  <2>1. /\ Goto("output", "lock") /\ UNCHANGED <<input, stdin, queue, locals, printed, torn, done>>
    BY <1>1 DEF PopAnswer, IInv, TypeOK, SyncOK
  <2>2. /\ pc'["output"] = "lock" /\ \A u \in Threads : u # "output" => pc'[u] = pc[u]
    BY <2>1, ThreadMoves DEF IInv, Threads, Labels, Loop
  <2>3. Failed => Failed'
    BY <2>1, <2>2 DEF Failed, Threads
  <2> QED
    BY <1>1, <2>1, <2>2, <2>3, SameStages DEF IInv, Threads
<1> QED
  BY <1>1, PopWholeKeepsOrder

-----------------------------------------------------------------------------
(* The ends of the threads. *)

(* A step that leaves no loop, sets no flag and queues nothing behind a flag. *)
LEMMA SameEnds ==
    ASSUME TypeOK, EndsInOrder, UNCHANGED <<input, done>>,
           \A t \in Threads :
              /\ pc[t] \in {"last notify", "ended"} => pc'[t] \in {"last notify", "ended"}
              /\ pc'[t] \in End =>
                    pc[t] = pc'[t]
                      \/ (pc'[t] = "ended" /\ (pc[t] = "last notify" \/ t = "input")),
           pc["pre"] \in End => stdin' = stdin,
           \A c \in {"input", "work"} :
              queue[c] = <<>> => queue'[c] = <<>> \/ ~done[ProducerOf[c]]
    PROVE  EndsInOrder'
<1>1. pc["output"] # "last notify"
  BY DEF TypeOK, ThreadsOK, Loop
<1>2. pc'["pre"] \in End => pc["pre"] \in End
  BY DEF Threads, End
<1>3. pc'["pre"] \in End => EndOfInput'
  BY <1>2 DEF EndsInOrder, EndOfInput, input
<1>4. /\ done'["pre"] => pc'["pre"] \in {"last notify", "ended"}
      /\ done'["input"] => pc'["input"] \in {"last notify", "ended"}
      /\ done'["work"] => pc'["work"] \in {"last notify", "ended"}
  BY DEF EndsInOrder, Threads
<1>5. pc'["input"] \in {"leave", "last notify"} \/ done'["input"] =>
         done'["pre"] /\ queue'["input"] = <<>>
  <2>1. pc'["input"] \in {"leave", "last notify"} => pc'["input"] = pc["input"]
    BY DEF Threads, End
  <2>2. queue["input"] = <<>> /\ done["pre"] => queue'["input"] = <<>>
    BY Wiring DEF Consumers
  <2> QED
    BY <2>1, <2>2 DEF EndsInOrder
<1>6. pc'["work"] \in End => done'["input"] /\ queue'["work"] = <<>>
  <2>1. pc'["work"] \in End => pc["work"] \in End
    BY DEF Threads, End
  <2>2. queue["work"] = <<>> /\ done["input"] => queue'["work"] = <<>>
    BY Wiring DEF Consumers
  <2> QED
    BY <2>1, <2>2 DEF EndsInOrder
<1>7. pc'["output"] = "ended" => done'["work"]
  <2>1. pc'["output"] = "ended" => pc["output"] = "ended"
    BY <1>1 DEF Threads, End
  <2> QED
    BY <2>1 DEF EndsInOrder
<1> QED
  BY <1>3, <1>4, <1>5, <1>6, <1>7 DEF EndsInOrder

LEMMA LookKeepsEnds == ASSUME IInv, EndsInOrder, NEW c \in Consumers, Look(c) PROVE EndsInOrder'
<1>1. PICK l \in {"take", "flag"} : Goto(c, l)
  BY DEF Look
<1>2. pc[c] = "lock" /\ UNCHANGED <<input, stdin, queue, done>>
  BY DEF Look
<1>3. /\ pc'[c] = l /\ \A u \in Threads : u # c => pc'[u] = pc[u]
  BY <1>1, ThreadMoves DEF IInv, Consumers, Threads, Labels, Loop
<1> QED
  BY <1>2, <1>3, SameEnds DEF IInv, Consumers, Threads, End

LEMMA ReadFlagKeepsEnds ==
    ASSUME IInv, EndsInOrder, NEW c \in Consumers, ReadFlag(c) PROVE EndsInOrder'
<1>1. PICK l \in {"take", "sleep", "ended", "leave"} :
         /\ Goto(c, l)
         /\ l \in {"ended", "leave"} => done[ProducerOf[c]] /\ (l = "ended" <=> c = "output")
  BY DEF ReadFlag
<1>2. pc[c] = "flag" /\ UNCHANGED <<input, stdin, queue, done>>
  BY DEF ReadFlag
<1>3. /\ pc'[c] = l /\ \A u \in Threads : u # c => pc'[u] = pc[u]
  BY <1>1, ThreadMoves DEF IInv, Consumers, Threads, Labels, Loop, End
<1>4. CASE l \notin {"ended", "leave"}
  BY <1>2, <1>3, <1>4, SameEnds DEF IInv, Consumers, Threads, End
<1>5. CASE l \in {"ended", "leave"}
  <2>1. done[ProducerOf[c]] /\ (c # "output" => queue[c] = <<>>)
    BY <1>1, <1>2, <1>5 DEF IInv, QueuesWake, Consumers
  <2>2. EndOfInput' = EndOfInput
    BY <1>2 DEF EndOfInput, input
  <2>3. CASE c = "input"
    BY <1>1, <1>2, <1>3, <1>5, <2>1, <2>2, <2>3, Wiring DEF EndsInOrder, Threads, End
  <2>4. CASE c = "work"
    BY <1>1, <1>2, <1>3, <1>5, <2>1, <2>2, <2>4, Wiring DEF EndsInOrder, Threads, End
  <2>5. CASE c = "output"
    BY <1>1, <1>2, <1>3, <1>5, <2>1, <2>2, <2>5, Wiring DEF EndsInOrder, Threads, End
  <2> QED
    BY <2>3, <2>4, <2>5 DEF Consumers
<1> QED
  BY <1>4, <1>5

LEMMA FinishKeepsEnds == ASSUME IInv, EndsInOrder, NEW p \in Producers, Finish(p) PROVE EndsInOrder'
<1>1. /\ Goto(p, "last notify") /\ pc[p] = "leave" /\ UNCHANGED <<input, stdin, queue>>
      /\ done' = [done EXCEPT ![p] = TRUE]
  BY DEF Finish
<1>2. /\ pc'[p] = "last notify" /\ \A u \in Threads : u # p => pc'[u] = pc[u]
  BY <1>1, ThreadMoves DEF IInv, Producers, Threads, Labels, End
<1>3. done'[p] /\ \A q \in Producers : q # p => done'[q] = done[q]
  BY <1>1 DEF IInv, TypeOK, SyncOK
<1>4. EndOfInput' = EndOfInput
  BY <1>1 DEF EndOfInput, input
<1>5. CASE p = "pre"
  BY <1>1, <1>2, <1>3, <1>4, <1>5 DEF EndsInOrder, Threads, End, Producers
<1>6. CASE p = "input"
  BY <1>1, <1>2, <1>3, <1>4, <1>6 DEF EndsInOrder, Threads, End, Producers
<1>7. CASE p = "work"
  BY <1>1, <1>2, <1>3, <1>4, <1>7 DEF EndsInOrder, Threads, End, Producers
<1> QED
  BY <1>5, <1>6, <1>7 DEF Producers

LEMMA ReadNameKeepsEnds == ASSUME IInv, EndsInOrder, ReadName PROVE EndsInOrder'
<1>1. pc["pre"] = "read" /\ UNCHANGED <<input, queue, done>>
  BY DEF ReadName
<1>2. CASE EndOfInput
  <2>1. Goto("pre", "leave") /\ stdin' = stdin
    BY <1>2 DEF ReadName
  <2>2. /\ pc'["pre"] = "leave" /\ \A u \in Threads : u # "pre" => pc'[u] = pc[u]
    BY <2>1, ThreadMoves DEF IInv, Threads, Labels, End
  <2>3. EndOfInput'
    BY <1>1, <1>2, <2>1 DEF EndOfInput, input
  <2> QED
    BY <1>1, <2>2, <2>3 DEF EndsInOrder, Threads
<1>3. CASE ~EndOfInput
  <2>1. Goto("pre", "push")
    BY <1>3 DEF ReadName
  <2>2. /\ pc'["pre"] = "push" /\ \A u \in Threads : u # "pre" => pc'[u] = pc[u]
    BY <2>1, ThreadMoves DEF IInv, Threads, Labels, End
  <2> QED
    BY <1>1, <2>2, SameEnds DEF IInv, Threads, End
<1> QED
  BY <1>2, <1>3

(* The steps of one thread that push or pop. *)
LEMMA QueueStepsKeepEnds ==
    ASSUME IInv, EndsInOrder,
           PushName \/ TakeName \/ TakeLine \/ PushAnswer \/ PopAnswer
    PROVE  EndsInOrder'
<1>1. UNCHANGED <<input, done, stdin>>
  BY DEF PushName, TakeName, TakeLine, PushAnswer, PopAnswer
<1>2. queue \in [Consumers -> Seq(Names) \cup Seq(Lines) \cup Seq(Answers)]
  BY DEF IInv, TypeOK, QueuesOK
<1>3. CASE PushName
  <2>1. Goto("pre", "notify") /\ pc["pre"] = "push" /\ Push("input", file_name)
    BY <1>3 DEF PushName
  <2>2. /\ pc'["pre"] = "notify" /\ \A u \in Threads : u # "pre" => pc'[u] = pc[u]
    BY <2>1, ThreadMoves DEF IInv, Threads, Labels, End
  <2>3. ~done["pre"]
    BY <2>1 DEF EndsInOrder
  <2>4. \A c \in Consumers : c # "input" => queue'[c] = queue[c]
    BY <1>2, <2>1 DEF Push, Consumers
  <2> QED
    BY <1>1, <2>1, <2>2, <2>3, <2>4, Wiring, SameEnds DEF IInv, Threads, Consumers, End
<1>5. CASE TakeName
  <2>1. pc["input"] = "take" /\ Pop("input") /\ \E l \in {"lines", "ended"} : Goto("input", l)
    BY <1>5 DEF TakeName
  <2>2. /\ pc'["input"] \in {"lines", "ended"} /\ \A u \in Threads : u # "input" => pc'[u] = pc[u]
    BY <2>1, ThreadMoves DEF IInv, Threads, Labels, End
  <2>3. queue["input"] # <<>>
    BY <2>1 DEF IInv, LocksHeld
  <2>4. \A c \in Consumers : c # "input" => queue'[c] = queue[c]
    BY <1>2, <2>1 DEF Pop, Consumers
  <2> QED
    BY <1>1, <2>1, <2>2, <2>3, <2>4, SameEnds DEF IInv, Threads, Consumers, End
<1>6. CASE TakeLine
  <2>1. pc["work"] = "take" /\ Pop("work") /\ Goto("work", "solve")
    BY <1>6 DEF TakeLine
  <2>2. /\ pc'["work"] = "solve" /\ \A u \in Threads : u # "work" => pc'[u] = pc[u]
    BY <2>1, ThreadMoves DEF IInv, Threads, Labels, End
  <2>3. queue["work"] # <<>>
    BY <2>1 DEF IInv, LocksHeld
  <2>4. \A c \in Consumers : c # "work" => queue'[c] = queue[c]
    BY <1>2, <2>1 DEF Pop, Consumers
  <2> QED
    BY <1>1, <2>1, <2>2, <2>3, <2>4, SameEnds DEF IInv, Threads, Consumers, End
<1>7. CASE PushAnswer
  <2>1. Goto("work", "notify") /\ pc["work"] \in {"solve", "growing"} /\ Push("output", Answer(str))
    BY <1>7 DEF PushAnswer
  <2>2. /\ pc'["work"] = "notify" /\ \A u \in Threads : u # "work" => pc'[u] = pc[u]
    BY <2>1, ThreadMoves DEF IInv, Threads, Labels, End
  <2>3. \A c \in Consumers : c # "output" => queue'[c] = queue[c]
    BY <1>2, <2>1 DEF Push, Consumers
  <2> QED
    BY <1>1, <2>1, <2>2, <2>3, SameEnds DEF IInv, Threads, Consumers, End
<1>8. CASE PopAnswer
  <2>1. pc["output"] = "pop" /\ (UNCHANGED queue \/ Pop("output")) /\ Goto("output", "lock")
    BY <1>8 DEF PopAnswer
  <2>2. /\ pc'["output"] = "lock" /\ \A u \in Threads : u # "output" => pc'[u] = pc[u]
    BY <2>1, ThreadMoves DEF IInv, Threads, Labels, Loop
  <2>3. \A c \in Consumers : c # "output" => queue'[c] = queue[c]
    BY <1>2, <2>1 DEF Pop, Consumers
  <2> QED
    BY <1>1, <2>1, <2>2, <2>3, SameEnds DEF IInv, Threads, Consumers, End
<1> QED
  BY <1>3, <1>5, <1>6, <1>7, <1>8

LEMMA PushLineKeepsEnds == ASSUME IInv, EndsInOrder, PushLine PROVE EndsInOrder'
<1>1. /\ pc["input"] = "lines" /\ Push("work", <<file, line'>>)
      /\ GotoNotifying("input", "lines") /\ UNCHANGED <<input, stdin, done>>
  BY DEF PushLine
<1>2. /\ pc'["input"] = "lines"
      /\ \A u \in Threads : u # "input" => pc'[u] = pc[u] \/ (pc[u] = "asleep" /\ pc'[u] = "lock")
  BY <1>1, Woken DEF IInv, Labels, Producers
<1>3. ~done["input"]
  BY <1>1 DEF EndsInOrder
<1>4. \A c \in Consumers : c # "work" => queue'[c] = queue[c]
  BY <1>1 DEF Push, IInv, TypeOK, QueuesOK
<1> QED
  BY <1>1, <1>2, <1>3, <1>4, Wiring, SameEnds DEF IInv, Threads, Consumers, End

(* The steps that only move threads, within their loops or from the last notification
   to the end. *)
LEMMA MovesKeepEnds ==
    ASSUME IInv, EndsInOrder,
           \/ \E c \in Consumers : Sleep(c) \/ SpuriousWakeup(c)
           \/ CloseFile \/ BeginGrowing \/ PrintAnswer \/ PrintSpoiled
    PROVE  EndsInOrder'
<1>1. UNCHANGED <<input, stdin, queue, done>>
  BY DEF Sleep, SpuriousWakeup, CloseFile, BeginGrowing, PrintAnswer, PrintSpoiled
<1>2. PICK t \in Threads, l \in {"asleep", "lock", "growing", "pop"} :
         Goto(t, l) /\ pc[t] \notin End
  BY DEF Sleep, SpuriousWakeup, CloseFile, BeginGrowing, PrintAnswer, PrintSpoiled, Consumers,
         Threads, End
<1>3. pc'[t] = l /\ \A u \in Threads : u # t => pc'[u] = pc[u]
  BY <1>2, ThreadMoves DEF IInv, Labels, Loop
<1> QED
  BY <1>1, <1>2, <1>3, SameEnds DEF IInv, End

LEMMA NotificationsKeepEnds ==
    ASSUME IInv, EndsInOrder,
           (\E p \in Producers : LastNotify(p)) \/ NotifyName \/ NotifyAnswer
    PROVE  EndsInOrder'
<1>1. UNCHANGED <<input, stdin, queue, done>>
  BY DEF LastNotify, NotifyName, NotifyAnswer
<1>2. PICK p \in Producers, l \in {"ended", "read", "lock"} :
         /\ GotoNotifying(p, l)
         /\ IF l = "ended" THEN pc[p] = "last notify" ELSE pc[p] \notin End
  BY DEF LastNotify, NotifyName, NotifyAnswer, Producers, End
<1>3. /\ pc'[p] = l
      /\ \A u \in Threads : u # p => pc'[u] = pc[u] \/ (pc[u] = "asleep" /\ pc'[u] = "lock")
  BY <1>2, Woken DEF IInv, Labels, Loop, End
<1> QED
  BY <1>1, <1>2, <1>3, SameEnds DEF IInv, End, Threads, Producers

-----------------------------------------------------------------------------
(* The theorem. *)

LEMMA InitInOrder == Init => InOrder
<1> SUFFICES ASSUME Init PROVE InOrder
  OBVIOUS
<1>1. typed \in Seq(Names) /\ terminated \in BOOLEAN /\ stdin = typed /\ Len(typed) \in Nat
  BY BoundsAssumption DEF Init
<1>2. NamesRead = 0
  BY <1>1 DEF NamesRead
<1>3. /\ pc["pre"] = "read" /\ pc["input"] = "lock" /\ pc["work"] = "lock" /\ pc["output"] = "lock"
      /\ queue["input"] = <<>> /\ queue["work"] = <<>> /\ queue["output"] = <<>>
      /\ done["pre"] = FALSE /\ done["input"] = FALSE /\ done["work"] = FALSE
      /\ printed = <<>>
  BY DEF Init, Threads, Consumers, Producers
<1>4. NamesTaken = 0 /\ AnswersPopped = 0
  <2>1. Len(queue["input"]) = 0 /\ Len(printed) = 0
    BY <1>3
  <2>2. NamesTaken = NamesRead - 0 - Len(queue["input"]) /\ AnswersPopped = Len(printed) - 0
    BY <1>3 DEF NamesTaken, AnswersPopped
  <2> QED
    BY <1>2, <2>1, <2>2
<1>5. AnswersPushed = 0 /\ LinesTaken = 0 /\ LinesRead = 0
  BY <1>3, <1>4 DEF AnswersPushed, LinesTaken, LinesRead
<1>6. NamesInOrder
  BY <1>1, <1>2, <1>3, <1>4 DEF NamesInOrder
<1>7. FilesInOrder
  <2>1. Upto[0] = <<>>
    BY UptoDefined
  <2> QED
    BY <1>3, <1>4, <1>5, <2>1 DEF FilesInOrder
<1>8. AnswersInOrder
  <2>1. Len(Expected) \in Nat
    BY <1>1, UptoDefined DEF Expected
  <2> QED
    BY <1>3, <1>5, <2>1 DEF AnswersInOrder
<1>9. EndsInOrder
  BY <1>3 DEF EndsInOrder, End
<1> QED
  BY <1>6, <1>7, <1>8, <1>9 DEF InOrder, Ordered

LEMMA StepKeepsOrder == IInv /\ InOrder /\ [Next]_vars => InOrder'
<1> SUFFICES ASSUME IInv, Ordered, EndsInOrder, [Next]_vars PROVE Ordered' /\ EndsInOrder'
  BY DEF InOrder
<1>1. CASE Pre
  <2>1. Ordered'
    BY <1>1, ReadNameKeepsOrder, PushNameKeepsOrder, NotifyNameKeepsOrder, FinishKeepsOrder,
       LastNotifyKeepsOrder
       DEF Pre, Produce, Producers
  <2>2. EndsInOrder'
    BY <1>1, ReadNameKeepsEnds, QueueStepsKeepEnds, NotificationsKeepEnds, FinishKeepsEnds
       DEF Pre, Produce, Producers
  <2> QED
    BY <2>1, <2>2
<1>2. CASE Input
  <2>1. Ordered'
    BY <1>2, LookKeepsOrder, ReadFlagKeepsOrder, SleepKeepsOrder, TakeNameKeepsOrder,
       PushLineKeepsOrder, CloseFileKeepsOrder, FinishKeepsOrder, LastNotifyKeepsOrder
       DEF Input, Consume, Produce, Producers, Consumers
  <2>2. EndsInOrder'
    BY <1>2, LookKeepsEnds, ReadFlagKeepsEnds, MovesKeepEnds, QueueStepsKeepEnds,
       PushLineKeepsEnds, NotificationsKeepEnds, FinishKeepsEnds
       DEF Input, Consume, Produce, Producers, Consumers
  <2> QED
    BY <2>1, <2>2
<1>3. CASE Work
  <2>1. Ordered'
    BY <1>3, LookKeepsOrder, ReadFlagKeepsOrder, SleepKeepsOrder, TakeLineKeepsOrder,
       BeginGrowingKeepsOrder, PushAnswerKeepsOrder, NotifyAnswerKeepsOrder, FinishKeepsOrder,
       LastNotifyKeepsOrder
       DEF Work, Consume, Produce, Producers, Consumers
  <2>2. EndsInOrder'
    BY <1>3, LookKeepsEnds, ReadFlagKeepsEnds, MovesKeepEnds, QueueStepsKeepEnds,
       NotificationsKeepEnds, FinishKeepsEnds
       DEF Work, Consume, Produce, Producers, Consumers
  <2> QED
    BY <2>1, <2>2
<1>4. CASE Output
  <2>1. Ordered'
    BY <1>4, LookKeepsOrder, ReadFlagKeepsOrder, SleepKeepsOrder, PrintAnswerKeepsOrder,
       PrintSpoiledKeepsOrder, PopAnswerKeepsOrder
       DEF Output, Consume, Consumers
  <2>2. EndsInOrder'
    BY <1>4, LookKeepsEnds, ReadFlagKeepsEnds, MovesKeepEnds, QueueStepsKeepEnds
       DEF Output, Consume, Consumers
  <2> QED
    BY <2>1, <2>2
<1>5. CASE \E c \in Consumers : SpuriousWakeup(c)
  BY <1>5, SpuriousWakeupKeepsOrder, MovesKeepEnds
<1>6. CASE Crash
  <2>1. EndsInOrder'
    BY <1>6, SameEnds DEF Crash, IInv, End
  <2> QED
    BY <1>6, <2>1, CrashKeepsOrder
<1>7. CASE UNCHANGED vars
  <2> USE <1>7 DEF vars, tear
  <2>1. Ordered'
    BY SameStages DEF IInv, Failed
  <2>2. EndsInOrder'
    BY SameEnds DEF IInv, End
  <2> QED
    BY <2>1, <2>2
<1> QED
  BY <1>1, <1>2, <1>3, <1>4, <1>5, <1>7, <1>6 DEF Next

(* When output_func has ended, everything that is expected has been printed or queued
   for it. *)
LEMMA AllPrinted ==
    ASSUME IInv, InOrder, pc["output"] = "ended"
    PROVE  Len(printed) + Len(queue["output"]) = Len(Expected)
<1>1. /\ done["work"] /\ done["input"] /\ done["pre"]
      /\ queue["work"] = <<>> /\ queue["input"] = <<>>
      /\ pc["work"] \in {"last notify", "ended"} /\ pc["input"] \in {"last notify", "ended"}
      /\ pc["pre"] \in {"last notify", "ended"} /\ EndOfInput
  BY DEF InOrder, EndsInOrder, End
<1>2. PICK p \in Nat : p = Len(printed) + Len(queue["output"])
  BY Counters DEF IInv, InOrder, Ordered
<1>3. LinesRead = p
  <2>1. AnswersPopped = Len(printed) - 0
    BY DEF AnswersPopped
  <2>2. Len(printed) \in Nat /\ Len(queue["output"]) \in Nat /\ Len(queue["work"]) = 0
    BY <1>1, Counters DEF IInv, InOrder, Ordered
  <2>3. AnswersPushed = p
    BY <1>2, <2>1, <2>2 DEF AnswersPushed
  <2>4. LinesTaken = p
    <3>1. LinesTaken = AnswersPushed + 0
      BY <1>1 DEF LinesTaken
    <3> QED
      BY <1>2, <2>3, <3>1
  <2> QED
    BY <1>2, <2>2, <2>4 DEF LinesRead
<1>4. PICK n \in Nat, m \in Nat, s \in Nat :
         n = NamesRead /\ m = Len(typed) /\ s = Len(stdin) /\ n = m - s /\ n <= m
  BY Counters DEF IInv, InOrder, Ordered, NamesRead
<1>5. NamesTaken = n
  <2>1. queue["input"] = <<>>
    BY <1>1
  <2>2. Len(queue["input"]) = 0
    BY <2>1
  <2>3. pc["pre"] # "push"
    BY <1>1
  <2>4. NamesTaken = NamesRead - 0 - Len(queue["input"])
    BY <2>3 DEF NamesTaken
  <2>5. NamesTaken = n - 0 - 0
    BY <1>4, <2>2, <2>4
  <2> QED
    BY <2>5
<1>6. p = Len(Upto[n])
  BY <1>1, <1>3, <1>5 DEF InOrder, Ordered, FilesInOrder
<1>7. CASE s = 0
  <2>1. n = m
    BY <1>4, <1>7
  <2> QED
    BY <1>2, <1>4, <1>6, <2>1 DEF Expected
<1>8. CASE s # 0
  <2>1. s = 1 /\ ~terminated
    <3>1. stdin # <<>>
      BY <1>4, <1>8
    <3> QED
      BY <1>1, <1>4, <3>1 DEF EndOfInput
  <2>2. n + 1 = m
    BY <1>4, <2>1
  <2>3. ~IsRead(n + 1)
    BY <1>4, <2>1, <2>2 DEF IsRead
  <2>4. Upto[m] = Upto[n]
    BY <1>4, <2>3, NothingAfter DEF InOrder, Ordered, NamesInOrder
  <2> QED
    BY <1>2, <1>4, <1>6, <2>4 DEF Expected
<1> QED
  BY <1>7, <1>8

(* As long as the queue of answers is whole the answers come out in the order of the
   lines and none twice, whatever is typed, however many lines the files have and however
   the threads are scheduled; and what output_func leaves behind when it ends is the rest
   of the answers, in their order. *)
THEOREM PipelinePrintedInOrder == Spec => []PrintedInOrder
<1>1. IInv /\ InOrder => PrintedInOrder
  <2> SUFFICES ASSUME IInv, InOrder PROVE PrintedInOrder
    OBVIOUS
  <2>1. PICK p \in Seq(Answers), e \in Seq(Answers) : p = printed /\ e = Expected
    <3>1. Len(typed) \in Nat
      BY Counters DEF IInv, InOrder, Ordered
    <3> QED
      BY <3>1, UptoDefined DEF IInv, TypeOK, QueuesOK, Expected
  <2>2. /\ LinesRead >= AnswersPushed /\ LinesRead \in Int /\ AnswersPushed \in Int
        /\ Len(p) \in Nat
    <3>1. LinesTaken >= AnswersPushed /\ LinesTaken \in Int /\ AnswersPushed \in Int
      BY Counters DEF LinesTaken, IInv, InOrder, Ordered
    <3>2. LinesRead >= LinesTaken /\ LinesRead \in Int
      BY <3>1, Counters DEF LinesRead, IInv, InOrder, Ordered
    <3>3. Len(p) \in Nat
      BY <2>1
    <3> QED
      BY <3>1, <3>2, <3>3
  <2>3. Len(p) <= Len(e)
    <3>1. CASE queue["output"] = <<>>
      <4>1. AnswersPopped = Len(p) /\ AnswersPushed = Len(p)
        BY <2>1, <3>1, Counters
           DEF AnswersPopped, AnswersPushed, IInv, InOrder, Ordered, AnswersInOrder
      <4>2. LinesRead >= Len(p)
        BY <2>1, <2>2, <4>1
      <4> QED
        BY <2>1, <4>2, Counters DEF IInv, InOrder, Ordered, AnswersInOrder
    <3>2. CASE queue["output"] # <<>>
      <4>1. Len(queue["output"]) \in Nat /\ Len(queue["output"]) >= 1
        BY <3>2, Rest DEF IInv, TypeOK, QueuesOK
      <4>2. AnswersPushed >= Len(p)
        BY <2>1, <4>1, Counters DEF AnswersPopped, AnswersPushed, IInv, InOrder, Ordered
      <4>3. LinesRead >= Len(p)
        BY <2>1, <2>2, <4>2
      <4> QED
        BY <2>1, <4>3, Counters DEF IInv, InOrder, Ordered, AnswersInOrder
    <3> QED
      BY <3>1, <3>2
  <2>4. \A i \in 1 .. Len(p) : p[i] = e[i]
    BY <2>1 DEF InOrder, Ordered, AnswersInOrder
  <2>5. p = SubSeq(e, 1, Len(p))
    <3>1. SubSeq(e, 1, Len(p)) \in Seq(Answers) /\ Len(SubSeq(e, 1, Len(p))) = Len(p)
          /\ \A i \in 1 .. Len(p) : SubSeq(e, 1, Len(p))[i] = e[i]
      BY <2>3
    <3> QED
      BY <2>4, <3>1
  <2>6. PICK q \in Seq(Answers) : q = queue["output"]
    BY DEF IInv, TypeOK, QueuesOK
  <2>7. pc["output"] = "ended" => p \o q = e
    <3> SUFFICES ASSUME pc["output"] = "ended" PROVE p \o q = e
      OBVIOUS
    <3>1. Len(p) + Len(q) = Len(e) /\ Len(p) \in Nat /\ Len(q) \in Nat
      BY <2>1, <2>6, AllPrinted
    <3>2. /\ p \o q \in Seq(Answers) /\ Len(p \o q) = Len(p) + Len(q)
          /\ \A i \in 1 .. Len(p) : (p \o q)[i] = p[i]
          /\ \A i \in 1 .. Len(q) : (p \o q)[Len(p) + i] = q[i]
      OBVIOUS
    <3>3. AnswersPopped = Len(p)
      BY <2>1, <3>1 DEF AnswersPopped
    <3>4. \A i \in 1 .. Len(q) : q[i] = e[Len(p) + i]
      BY <2>1, <2>6, <3>3 DEF InOrder, Ordered, AnswersInOrder
    <3>5. ASSUME NEW i \in 1 .. Len(e) PROVE (p \o q)[i] = e[i]
      <4>1. CASE i <= Len(p)
        BY <2>4, <3>1, <3>2, <4>1
      <4>2. CASE i > Len(p)
        <5>1. PICK j \in 1 .. Len(q) : i = Len(p) + j
          <6>1. i - Len(p) \in 1 .. Len(q) /\ i = Len(p) + (i - Len(p))
            BY <3>1, <4>2
          <6> QED
            BY <6>1
        <5> QED
          BY <3>2, <3>4, <5>1
      <4> QED
        BY <3>1, <4>1, <4>2
    <3>6. PICK r \in Seq(Answers) : r = p \o q
      BY <3>2
    <3>7. Len(r) = Len(e) /\ \A i \in 1 .. Len(e) : r[i] = e[i]
      BY <3>1, <3>2, <3>5, <3>6
    <3>8. r = e
      BY <3>7
    <3> QED
      BY <3>6, <3>8
  <2> QED
    BY <2>1, <2>3, <2>5, <2>6, <2>7 DEF PrintedInOrder
<1>2. Spec => []InOrder
  BY InvariantHolds, InitInOrder, StepKeepsOrder, PTL DEF Spec
<1> QED
  BY <1>1, <1>2, InvariantHolds, PTL
=============================================================================
