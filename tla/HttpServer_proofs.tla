------------------------- MODULE HttpServer_proofs -------------------------
(* The types of HttpServer, the ownership of its descriptors and cells, the completeness
   of what reaches a client before its connection is closed, its order and the room for the
   files, for every set of clients, whatever they send and however many descriptors there
   are. *)
EXTENDS HttpServer, SequenceTheorems, FiniteSetTheorems, TLAPS

Live == {t \in DOMAIN thread : thread[t].pc # "done"}
Fd(t) == cell[thread[t].cell]

(* A thread that lives has its cell, and in the cell its connection. *)
CellsHold ==
    \A t \in Live :
        /\ Fd(t) \in Fds /\ fdOf[Fd(t)] \in Clients
        /\ thread[t].pc # "start" => thread[t].fd = Fd(t)

FilesHold ==
    \A t \in DOMAIN thread :
        thread[t].file # Free =>
            thread[t].pc \in {"headers", "body"} /\ fdOf[thread[t].file] = File

MainHolds ==
    main.pc = "create" =>
        /\ main.cell \in Cells /\ cell[main.cell] \in Fds
        /\ fdOf[cell[main.cell]] \in Clients
        /\ \A t \in Live : thread[t].cell # main.cell /\ Fd(t) # cell[main.cell]

NothingShared ==
    \A s, t \in Live :
        s # t =>
            /\ thread[s].cell # thread[t].cell /\ Fd(s) # Fd(t)
            /\ thread[s].file # Free => thread[s].file # thread[t].file

(* Nothing is open or allocated that nobody has. *)
NothingLost ==
    /\ \A fd \in Fds : fdOf[fd] \in Clients =>
           \/ \E t \in Live : Fd(t) = fd
           \/ main.pc = "create" /\ cell[main.cell] = fd
    /\ \A fd \in Fds : fdOf[fd] = File => \E t \in Live : thread[t].file = fd
    /\ \A x \in Cells : cell[x] # Free =>
           \/ \E t \in Live : thread[t].cell = x
           \/ main.pc = "create" /\ main.cell = x

Owned == CellsHold /\ FilesHold /\ MainHolds /\ NothingShared /\ NothingLost

IInv == TypeOK /\ Owned

-----------------------------------------------------------------------------
(* A sequence with one element replaced. *)
LEMMA Replaced ==
  ASSUME NEW R, NEW s \in Seq(R), NEW t \in DOMAIN s, NEW r \in R
  PROVE  LET new == [s EXCEPT ![t] = r]
         IN /\ new \in Seq(R) /\ DOMAIN new = DOMAIN s
            /\ \A i \in DOMAIN s : i # t => new[i] = s[i]
            /\ new[t] = r
OBVIOUS

(* Free is no descriptor. *)
LEMMA FreeIsNone == Free \notin Fds /\ Fds \subseteq Nat /\ Cells \subseteq Nat \ {0}
BY LimitsAssumption DEF Free, Fds, Cells

LEMMA Fields ==
  ASSUME TypeOK
  PROVE  \A s \in DOMAIN thread :
            /\ thread[s] \in ThreadRecords
            /\ thread[s].cell \in Cells /\ thread[s].file \in Fds \cup {Free}
            /\ thread[s].pending \in Seq(Outcomes) /\ thread[s].buffer \in SUBSET Texts
<1> SUFFICES ASSUME NEW s \in DOMAIN thread
             PROVE  /\ thread[s] \in ThreadRecords
                    /\ thread[s].cell \in Cells /\ thread[s].file \in Fds \cup {Free}
                    /\ thread[s].pending \in Seq(Outcomes) /\ thread[s].buffer \in SUBSET Texts
  OBVIOUS
<1>1. thread \in Seq(ThreadRecords)
  BY DEF TypeOK
<1>2. thread[s] \in ThreadRecords
  BY <1>1
<1>. QED BY <1>2 DEF ThreadRecords

(* The step of thread t to the record r changes nobody else. *)
Becomes(t, r) ==
    /\ t \in DOMAIN thread /\ r \in ThreadRecords
    /\ r.cell = thread[t].cell
    /\ thread' = [thread EXCEPT ![t] = r]

LEMMA OnlyOneBecomes ==
  ASSUME TypeOK, NEW t, NEW r, Becomes(t, r)
  PROVE  /\ thread' \in Seq(ThreadRecords) /\ DOMAIN thread' = DOMAIN thread
         /\ \A s \in DOMAIN thread : s # t => thread'[s] = thread[s]
         /\ thread'[t] = r
<1>1. thread \in Seq(ThreadRecords)
  BY DEF TypeOK
<1>. QED
  BY <1>1, Replaced DEF Becomes

-----------------------------------------------------------------------------
(* What a thread does with its file.  It has the file old before and new after, where
   Free stands for none; all its steps but the last are of this form. *)
FileMoves(t, r) ==
    /\ Becomes(t, r)
    /\ thread[t].pc # "done" /\ r.pc \notin {"start", "done"}
    /\ r.fd = Fd(t)
    /\ r.file # Free => r.pc \in {"headers", "body"}
    /\ r.file = Free \/ (r.file \in Fds /\ fdOf[r.file] = Nobody /\ thread[t].file = Free)
    /\ fdOf' = [fd \in Fds |-> IF fd = r.file THEN File
                               ELSE IF fd = thread[t].file THEN Nobody ELSE fdOf[fd]]
    /\ UNCHANGED <<cell, main>>

LEMMA FileMovesKeepsOwners ==
  ASSUME IInv, NEW t, NEW r, FileMoves(t, r)
  PROVE  Owned'
<1> USE ClientsAssumption, FreeIsNone
<1>1. /\ thread' \in Seq(ThreadRecords) /\ DOMAIN thread' = DOMAIN thread
      /\ \A s \in DOMAIN thread : s # t => thread'[s] = thread[s]
      /\ thread'[t] = r /\ t \in DOMAIN thread /\ r.cell = thread[t].cell
  BY OnlyOneBecomes DEF IInv, FileMoves, Becomes
<1>2. Live' = Live /\ t \in Live
  BY <1>1 DEF Live, FileMoves
<1>3. \A s \in Live : Fd(s)' = Fd(s) /\ thread'[s].cell = thread[s].cell
  BY <1>1, <1>2 DEF Live, Fd, FileMoves
<1>4. \A s \in Live : Fd(s) \in Fds /\ fdOf[Fd(s)] \in Clients
  BY DEF IInv, Owned, CellsHold
<1>5. thread[t].file # Free => fdOf[thread[t].file] = File
  BY <1>1 DEF IInv, Owned, FilesHold
<1>6. \A fd \in Fds : fdOf[fd] \in Clients => fdOf'[fd] = fdOf[fd]
  BY <1>5 DEF FileMoves
<1>7. \A fd \in Fds : fdOf'[fd] \in Clients => fdOf[fd] = fdOf'[fd]
  BY DEF FileMoves
<1>8. CellsHold'
  <2>1. \A s \in Live : Fd(s)' \in Fds /\ fdOf'[Fd(s)'] \in Clients
    BY <1>3, <1>4, <1>6
  <2>2. \A s \in Live : thread'[s].pc # "start" => thread'[s].fd = Fd(s)'
    BY <1>1, <1>3 DEF IInv, Owned, CellsHold, FileMoves, Live
  <2>. QED BY <1>2, <2>1, <2>2 DEF CellsHold
<1>9. FilesHold'
  <2> SUFFICES ASSUME NEW s \in DOMAIN thread, thread'[s].file # Free
               PROVE  thread'[s].pc \in {"headers", "body"} /\ fdOf'[thread'[s].file] = File
    BY <1>1 DEF FilesHold
  <2>1. CASE s = t
    BY <2>1, <1>1 DEF FileMoves
  <2>2. CASE s # t
    <3>1. thread'[s] = thread[s]
      BY <2>2, <1>1
    <3>2. thread[s].pc \in {"headers", "body"} /\ fdOf[thread[s].file] = File
      BY <3>1 DEF IInv, Owned, FilesHold
    <3>3. s \in Live /\ thread[s].file # thread[t].file
      BY <2>2, <1>2, <3>1, <3>2 DEF IInv, Owned, NothingShared, Live
    <3>4. thread[s].file \in Fds
      BY <3>1, Fields DEF IInv
    <3>5. thread[s].file # r.file
      BY <3>2, <3>4 DEF FileMoves
    <3>6. fdOf'[thread[s].file] = fdOf[thread[s].file]
      BY <3>3, <3>4, <3>5 DEF FileMoves
    <3>. QED BY <3>1, <3>2, <3>6
  <2>. QED BY <2>1, <2>2
<1>10. MainHolds'
  <2>1. cell' = cell /\ main' = main
    BY DEF FileMoves
  <2> SUFFICES ASSUME main.pc = "create"
               PROVE  /\ main.cell \in Cells /\ cell[main.cell] \in Fds
                      /\ fdOf'[cell[main.cell]] \in Clients
                      /\ \A s \in Live : thread'[s].cell # main.cell /\ Fd(s)' # cell[main.cell]
    BY <1>2, <2>1 DEF MainHolds
  <2>2. /\ main.cell \in Cells /\ cell[main.cell] \in Fds
        /\ fdOf[cell[main.cell]] \in Clients
        /\ \A s \in Live : thread[s].cell # main.cell /\ Fd(s) # cell[main.cell]
    BY DEF IInv, Owned, MainHolds
  <2>3. fdOf'[cell[main.cell]] \in Clients
    BY <1>6, <2>2
  <2>. QED BY <1>3, <2>2, <2>3
<1>11. NothingShared'
  <2> SUFFICES ASSUME NEW s \in Live, NEW u \in Live, s # u
               PROVE  /\ thread'[s].cell # thread'[u].cell /\ Fd(s)' # Fd(u)'
                      /\ thread'[s].file # Free => thread'[s].file # thread'[u].file
    BY <1>2 DEF NothingShared
  <2>1. thread'[s].cell # thread'[u].cell /\ Fd(s)' # Fd(u)'
    BY <1>3 DEF IInv, Owned, NothingShared
  <2>2. \A v \in Live : thread[v].file # Free => fdOf[thread[v].file] = File
    BY DEF IInv, Owned, FilesHold, Live
  <2>3. thread'[s].file # Free => thread'[s].file # thread'[u].file
    BY <1>1, <2>2 DEF IInv, Owned, NothingShared, FileMoves, Live
  <2>. QED BY <2>1, <2>3
<1>12. NothingLost'
  <2>1. \A fd \in Fds : fdOf'[fd] \in Clients =>
           \/ \E s \in Live' : Fd(s)' = fd
           \/ main'.pc = "create" /\ cell'[main'.cell] = fd
    BY <1>2, <1>3, <1>7 DEF IInv, Owned, NothingLost, FileMoves
  <2>2. \A fd \in Fds : fdOf'[fd] = File => \E s \in Live' : thread'[s].file = fd
    <3> SUFFICES ASSUME NEW fd \in Fds, fdOf'[fd] = File
                 PROVE  \E s \in Live : thread'[s].file = fd
      BY <1>2
    <3>1. CASE fd = r.file
      BY <3>1, <1>1, <1>2
    <3>2. CASE fd # r.file
      <4>1. fdOf[fd] = File /\ fd # thread[t].file
        BY <3>2 DEF FileMoves
      <4>2. PICK s \in Live : thread[s].file = fd
        BY <4>1 DEF IInv, Owned, NothingLost
      <4>. QED BY <4>1, <4>2, <1>1 DEF Live
    <3>. QED BY <3>1, <3>2
  <2>3. \A x \in Cells : cell'[x] # Free =>
           \/ \E s \in Live' : thread'[s].cell = x
           \/ main'.pc = "create" /\ main'.cell = x
    <3> SUFFICES ASSUME NEW x \in Cells, cell[x] # Free
                 PROVE  \/ \E s \in Live : thread'[s].cell = x
                        \/ main.pc = "create" /\ main.cell = x
      BY <1>2 DEF FileMoves
    <3>1. \/ \E s \in Live : thread[s].cell = x
          \/ main.pc = "create" /\ main.cell = x
      BY DEF IInv, Owned, NothingLost
    <3>. QED BY <3>1, <1>3
  <2>. QED BY <2>1, <2>2, <2>3 DEF NothingLost
<1>. QED BY <1>8, <1>9, <1>10, <1>11, <1>12 DEF Owned

-----------------------------------------------------------------------------
(* The end of a thread gives back its descriptor and its cell. *)
LEMMA FinishKeepsOwners ==
  ASSUME IInv, NEW t, Finish(t)
  PROVE  Owned'
<1> USE ClientsAssumption, FreeIsNone
<1> DEFINE r == [thread[t] EXCEPT !.pc = "done"]
<1>1. t \in DOMAIN thread /\ thread[t] \in ThreadRecords /\ thread[t].pc = "answer"
  BY DEF Finish, At, IInv, TypeOK
<1>2. r \in ThreadRecords /\ r.cell = thread[t].cell /\ r.pc = "done"
      /\ r.file = thread[t].file
  BY <1>1 DEF ThreadRecords
<1>3. thread' = [thread EXCEPT ![t] = r]
  BY <1>1 DEF Finish
<1> HIDE DEF r
<1>4. /\ DOMAIN thread' = DOMAIN thread
      /\ \A s \in DOMAIN thread : s # t => thread'[s] = thread[s]
      /\ thread'[t] = r
  BY <1>1, <1>2, <1>3, OnlyOneBecomes DEF IInv, Becomes
<1>5. Live' = Live \ {t} /\ t \in Live
  BY <1>1, <1>2, <1>4 DEF Live
<1>6. thread[t].fd = Fd(t) /\ thread[t].file = Free
  BY <1>1, <1>5 DEF IInv, Owned, CellsHold, FilesHold
<1>7. /\ fdOf' = [fdOf EXCEPT ![Fd(t)] = Nobody]
      /\ cell' = [cell EXCEPT ![thread[t].cell] = Free]
      /\ main' = main
  BY <1>6 DEF Finish, CloseFd
<1>8. Fd(t) \in Fds /\ fdOf[Fd(t)] \in Clients /\ thread[t].cell \in Cells
  BY <1>1, <1>5 DEF IInv, Owned, CellsHold, ThreadRecords
<1>9. /\ \A fd \in Fds : fdOf'[fd] = IF fd = Fd(t) THEN Nobody ELSE fdOf[fd]
      /\ \A x \in Cells : cell'[x] = IF x = thread[t].cell THEN Free ELSE cell[x]
  BY <1>7, <1>8 DEF IInv, TypeOK
<1>10. \A s \in Live' :
          /\ s \in Live /\ thread'[s] = thread[s] /\ thread[s].cell \in Cells
          /\ thread[s].cell # thread[t].cell /\ Fd(s) # Fd(t) /\ Fd(s)' = Fd(s)
          /\ thread[s].file # Fd(t)
  <2> SUFFICES ASSUME NEW s \in Live, s # t
               PROVE  /\ thread'[s] = thread[s] /\ thread[s].cell \in Cells
                      /\ thread[s].cell # thread[t].cell /\ Fd(s) # Fd(t) /\ Fd(s)' = Fd(s)
                      /\ thread[s].file # Fd(t)
    BY <1>5
  <2>1. thread'[s] = thread[s] /\ thread[s].cell \in Cells
    BY <1>4, Fields DEF Live, IInv
  <2>2. thread[s].cell # thread[t].cell /\ Fd(s) # Fd(t)
    BY <1>5 DEF IInv, Owned, NothingShared
  <2>3. Fd(s)' = Fd(s)
    BY <2>1, <2>2, <1>9 DEF Fd
  <2>4. thread[s].file # Fd(t)
    BY <1>8 DEF IInv, Owned, FilesHold, Live
  <2>. QED BY <2>1, <2>2, <2>3, <2>4
<1>11. CellsHold'
  <2> SUFFICES ASSUME NEW s \in Live'
               PROVE  /\ Fd(s)' \in Fds /\ fdOf'[Fd(s)'] \in Clients
                      /\ thread'[s].pc # "start" => thread'[s].fd = Fd(s)'
    BY DEF CellsHold
  <2>1. /\ Fd(s) \in Fds /\ fdOf[Fd(s)] \in Clients
        /\ thread[s].pc # "start" => thread[s].fd = Fd(s)
    BY <1>10 DEF IInv, Owned, CellsHold
  <2>. QED BY <2>1, <1>9, <1>10
<1>12. FilesHold'
  <2> SUFFICES ASSUME NEW s \in DOMAIN thread, thread'[s].file # Free
               PROVE  thread'[s].pc \in {"headers", "body"} /\ fdOf'[thread'[s].file] = File
    BY <1>4 DEF FilesHold
  <2>1. s # t /\ thread'[s] = thread[s]
    BY <1>2, <1>4, <1>6
  <2>2. thread[s].pc \in {"headers", "body"} /\ fdOf[thread[s].file] = File
    BY <2>1 DEF IInv, Owned, FilesHold
  <2>3. thread[s].file \in Fds /\ thread[s].file # Fd(t)
    BY <2>1, <2>2, <1>8, Fields DEF IInv
  <2>. QED BY <2>1, <2>2, <2>3, <1>9
<1>13. MainHolds'
  BY <1>5, <1>7, <1>9, <1>10 DEF IInv, Owned, MainHolds
<1>14. NothingShared'
  BY <1>10 DEF IInv, Owned, NothingShared
<1>15. NothingLost'
  <2>1. ASSUME NEW fd \in Fds, fdOf'[fd] \in Clients
        PROVE  \/ \E s \in Live' : Fd(s)' = fd
               \/ main'.pc = "create" /\ cell'[main'.cell] = fd
    <3>1. fd # Fd(t) /\ fdOf[fd] \in Clients
      BY <2>1, <1>9
    <3>2. CASE \E s \in Live : Fd(s) = fd
      BY <3>1, <3>2, <1>5, <1>10
    <3>3. CASE main.pc = "create" /\ cell[main.cell] = fd
      BY <3>3, <1>5, <1>7, <1>9 DEF IInv, Owned, MainHolds
    <3>. QED BY <3>1, <3>2, <3>3 DEF IInv, Owned, NothingLost
  <2>2. ASSUME NEW fd \in Fds, fdOf'[fd] = File
        PROVE  \E s \in Live' : thread'[s].file = fd
    <3>1. PICK s \in Live : thread[s].file = fd
      BY <2>2, <1>9 DEF IInv, Owned, NothingLost
    <3>. QED BY <3>1, <1>5, <1>6, <1>10
  <2>3. ASSUME NEW x \in Cells, cell'[x] # Free
        PROVE  \/ \E s \in Live' : thread'[s].cell = x
               \/ main'.pc = "create" /\ main'.cell = x
    <3>1. x # thread[t].cell /\ cell[x] # Free
      BY <2>3, <1>9
    <3>2. CASE \E s \in Live : thread[s].cell = x
      BY <3>1, <3>2, <1>5, <1>10
    <3>3. CASE main.pc = "create" /\ main.cell = x
      BY <3>3, <1>7
    <3>. QED BY <3>1, <3>2, <3>3 DEF IInv, Owned, NothingLost
  <2>. QED BY <2>1, <2>2, <2>3 DEF NothingLost
<1>. QED BY <1>11, <1>12, <1>13, <1>14, <1>15 DEF Owned

(* main hands over what was free. *)
LEMMA AcceptKeepsOwners ==
  ASSUME IInv, Accept
  PROVE  Owned'
<1> USE ClientsAssumption, FreeIsNone
<1>1. PICK fd \in Fds, x \in Cells :
          /\ fdOf[fd] = Nobody /\ cell[x] = Free
          /\ fdOf' = [fdOf EXCEPT ![fd] = Head(backlog)]
          /\ cell' = [cell EXCEPT ![x] = fd]
          /\ main' = [pc |-> "create", cell |-> x]
  BY DEF Accept, IsLowest, FreeFds, FreeCells
<1>2. Head(backlog) \in Clients /\ thread' = thread /\ main.pc = "accept"
  BY DEF Accept, Acceptable, IInv, TypeOK
<1>3. /\ \A f \in Fds : fdOf'[f] = IF f = fd THEN Head(backlog) ELSE fdOf[f]
      /\ \A y \in Cells : cell'[y] = IF y = x THEN fd ELSE cell[y]
      /\ main'.pc = "create" /\ main'.cell = x
  BY <1>1 DEF IInv, TypeOK
<1>4. Live' = Live
  BY <1>2 DEF Live
<1>5. \A s \in Live : thread[s] \in ThreadRecords /\ thread[s].cell \in Cells
  BY Fields DEF Live, IInv
<1>6. \A s \in Live : Fd(s) \in Fds /\ fdOf[Fd(s)] \in Clients
  BY DEF IInv, Owned, CellsHold
<1>7. \A s \in Live : thread[s].cell # x /\ Fd(s) # fd
  BY <1>1, <1>6 DEF Fd
<1>8. \A s \in Live : Fd(s)' = Fd(s)
  BY <1>2, <1>3, <1>5, <1>7 DEF Fd
<1>9. CellsHold'
  <2>1. CellsHold
    BY DEF IInv, Owned
  <2> SUFFICES ASSUME NEW s \in Live
               PROVE  /\ Fd(s)' \in Fds /\ fdOf'[Fd(s)'] \in Clients
                      /\ thread'[s].pc # "start" => thread'[s].fd = Fd(s)'
    BY <1>4 DEF CellsHold
  <2>. QED BY <2>1, <1>2, <1>3, <1>6, <1>7, <1>8 DEF CellsHold
<1>10. FilesHold'
  <2> SUFFICES ASSUME NEW s \in DOMAIN thread, thread[s].file # Free
               PROVE  thread[s].pc \in {"headers", "body"} /\ fdOf'[thread[s].file] = File
    BY <1>2 DEF FilesHold
  <2>1. thread[s].pc \in {"headers", "body"} /\ fdOf[thread[s].file] = File
    BY DEF IInv, Owned, FilesHold
  <2>2. thread[s].file \in Fds /\ thread[s].file # fd
    BY <2>1, <1>1, Fields DEF IInv
  <2>. QED BY <2>1, <2>2, <1>3
<1>11. MainHolds'
  <2>1. main'.cell = x /\ cell'[x] = fd /\ fdOf'[fd] \in Clients
    BY <1>2, <1>3
  <2>2. \A s \in Live : thread'[s].cell # x /\ Fd(s)' # fd
    BY <1>2, <1>7, <1>8
  <2>. QED BY <2>1, <2>2, <1>4 DEF MainHolds
<1>12. NothingShared'
  BY <1>2, <1>4, <1>8 DEF IInv, Owned, NothingShared
<1>13. NothingLost'
  <2>1. ASSUME NEW f \in Fds, fdOf'[f] \in Clients
        PROVE  \/ \E s \in Live : Fd(s)' = f
               \/ main'.pc = "create" /\ cell'[main'.cell] = f
    <3>1. CASE f = fd
      BY <3>1, <1>3
    <3>2. CASE f # fd
      BY <3>2, <2>1, <1>2, <1>3, <1>8 DEF IInv, Owned, NothingLost
    <3>. QED BY <3>1, <3>2
  <2>2. ASSUME NEW f \in Fds, fdOf'[f] = File
        PROVE  \E s \in Live : thread[s].file = f
    BY <2>2, <1>2, <1>3 DEF IInv, Owned, NothingLost
  <2>3. ASSUME NEW y \in Cells, cell'[y] # Free
        PROVE  \/ \E s \in Live : thread[s].cell = y
               \/ main'.pc = "create" /\ main'.cell = y
    <3>1. CASE y = x
      BY <3>1, <1>3
    <3>2. CASE y # x
      BY <3>2, <2>3, <1>2, <1>3 DEF IInv, Owned, NothingLost
    <3>. QED BY <3>1, <3>2
  <2>. QED BY <2>1, <2>2, <2>3, <1>2, <1>4 DEF NothingLost
<1>. QED BY <1>9, <1>10, <1>11, <1>12, <1>13 DEF Owned

(* The new thread takes over the cell of main. *)
LEMMA CreateThreadKeepsOwners ==
  ASSUME IInv, CreateThread
  PROVE  Owned'
<1> USE ClientsAssumption, FreeIsNone
<1>n. PICK n : n = Len(thread) + 1
  OBVIOUS
<1> DEFINE r == [pc |-> "start", cell |-> main.cell, fd |-> Free, file |-> Free,
                pending |-> <<>>, buffer |-> {}]
<1>1. /\ thread' = Append(thread, r) /\ main.pc = "create" /\ main'.pc = "accept"
      /\ fdOf' = fdOf /\ cell' = cell
  BY DEF CreateThread, kernel
<1>2. thread \in Seq(ThreadRecords)
  BY DEF IInv, TypeOK
<1>3. /\ DOMAIN thread' = DOMAIN thread \cup {n} /\ n \notin DOMAIN thread
      /\ \A s \in DOMAIN thread : thread'[s] = thread[s]
      /\ thread'[n] = r
  BY <1>1, <1>2, <1>n
<1>4. r.pc = "start" /\ r.cell = main.cell /\ r.file = Free
  OBVIOUS
<1> HIDE DEF r
<1>5. Live' = Live \cup {n} /\ n \notin Live
  BY <1>3, <1>4 DEF Live
<1>6. /\ \A s \in Live : thread'[s] = thread[s] /\ Fd(s)' = Fd(s)
      /\ Fd(n)' = cell[main.cell]
  BY <1>1, <1>3, <1>4 DEF Live, Fd
<1>7. /\ main.cell \in Cells /\ cell[main.cell] \in Fds /\ fdOf[cell[main.cell]] \in Clients
      /\ \A s \in Live : thread[s].cell # main.cell /\ Fd(s) # cell[main.cell]
  BY <1>1 DEF IInv, Owned, MainHolds
<1>8. CellsHold'
  BY <1>1, <1>3, <1>4, <1>5, <1>6, <1>7 DEF IInv, Owned, CellsHold
<1>9. FilesHold'
  BY <1>1, <1>3, <1>4 DEF IInv, Owned, FilesHold
<1>10. MainHolds'
  BY <1>1 DEF MainHolds
<1>11. NothingShared'
  <2> SUFFICES ASSUME NEW s \in Live', NEW u \in Live', s # u
               PROVE  /\ thread'[s].cell # thread'[u].cell /\ Fd(s)' # Fd(u)'
                      /\ thread'[s].file # Free => thread'[s].file # thread'[u].file
    BY DEF NothingShared
  <2>1. CASE s \in Live /\ u \in Live
    BY <2>1, <1>6 DEF IInv, Owned, NothingShared
  <2>2. CASE s = n /\ u \in Live
    BY <2>2, <1>3, <1>4, <1>6, <1>7
  <2>3. CASE s \in Live /\ u = n
    BY <2>3, <1>3, <1>4, <1>6, <1>7
  <2>. QED BY <2>1, <2>2, <2>3, <1>5
<1>12. NothingLost'
  <2>1. ASSUME NEW fd \in Fds, fdOf[fd] \in Clients
        PROVE  \E s \in Live' : Fd(s)' = fd
    BY <2>1, <1>5, <1>6 DEF IInv, Owned, NothingLost
  <2>2. ASSUME NEW fd \in Fds, fdOf[fd] = File
        PROVE  \E s \in Live' : thread'[s].file = fd
    BY <2>2, <1>5, <1>6 DEF IInv, Owned, NothingLost
  <2>3. ASSUME NEW x \in Cells, cell[x] # Free
        PROVE  \E s \in Live' : thread'[s].cell = x
    BY <2>3, <1>3, <1>4, <1>5, <1>6 DEF IInv, Owned, NothingLost
  <2>. QED BY <2>1, <2>2, <2>3, <1>1 DEF NothingLost
<1>. QED BY <1>8, <1>9, <1>10, <1>11, <1>12 DEF Owned

LEMMA EndKeepsOwners ==
  ASSUME End
  PROVE  Owned'
<1>1. thread' = <<>> /\ main'.pc = "ended"
      /\ fdOf' = [fd \in Fds |-> Nobody] /\ cell' = [x \in Cells |-> Free]
  BY DEF End
<1>2. Live' = {} /\ DOMAIN thread' = {}
  BY <1>1 DEF Live
<1>. QED
  BY <1>1, <1>2, ClientsAssumption
  DEF Owned, CellsHold, FilesHold, MainHolds, NothingShared, NothingLost

(* The steps of clients. *)
LEMMA OthersKeepOwners ==
  ASSUME IInv, UNCHANGED <<fdOf, cell, main, thread>>
  PROVE  Owned'
BY DEF IInv, Owned, CellsHold, FilesHold, MainHolds, NothingShared, NothingLost, Live, Fd

-----------------------------------------------------------------------------
(* The steps of a thread but its last are moves of its file, perhaps from none to none. *)
ThreadTypes ==
    /\ fdOf \in [Fds -> Clients \cup {Nobody, File}]
    /\ cell \in [Cells -> Fds \cup {Free}]
    /\ main \in [pc : {"accept", "create", "ended"}, cell : Cells \cup {Free}]
    /\ thread \in Seq(ThreadRecords)
    /\ \A t \in DOMAIN thread : thread[t].pc # "start" => thread[t].fd \in Fds

ClientTypes ==
    /\ plan \in [Clients -> Seq(Requests)]
    /\ where \in [Clients -> {"away", "queued", "accepted", "left"}]
    /\ inbox \in [Clients -> Seq(Requests)]
    /\ sent \in [Clients -> Nat]
    /\ taken \in [Clients -> Seq(Requests)]
    /\ got \in [Clients -> Seq(Parts)]
    /\ closed \subseteq Clients
    /\ backlog \in Seq(Clients)
    /\ leftover \subseteq Texts
    /\ damaged \in BOOLEAN
    /\ confused \subseteq Clients

LEMMA TypesSplit == TypeOK <=> ClientTypes /\ ThreadTypes
BY DEF TypeOK, ClientTypes, ThreadTypes

LEMMA TypesSplitNext == TypeOK' <=> ClientTypes' /\ ThreadTypes'
BY DEF TypeOK, ClientTypes, ThreadTypes

LEMMA FileMovesKeepsTypes ==
  ASSUME IInv, NEW t, NEW r, FileMoves(t, r)
  PROVE  ThreadTypes'
<1>1. /\ thread' \in Seq(ThreadRecords) /\ DOMAIN thread' = DOMAIN thread
      /\ \A s \in DOMAIN thread : s # t => thread'[s] = thread[s]
      /\ thread'[t] = r
  BY OnlyOneBecomes DEF IInv, FileMoves
<1>2. Fd(t) \in Fds
  BY DEF IInv, Owned, CellsHold, FileMoves, Becomes, Live
<1>3. fdOf' \in [Fds -> Clients \cup {Nobody, File}]
  BY DEF FileMoves, IInv, TypeOK
<1>4. \A s \in DOMAIN thread' : thread'[s].pc # "start" => thread'[s].fd \in Fds
  BY <1>1, <1>2 DEF IInv, TypeOK, FileMoves
<1>. QED
  BY <1>1, <1>3, <1>4 DEF ThreadTypes, FileMoves, IInv, TypeOK

(* A thread that is past its start serves one of the clients. *)
LEMMA Serving ==
  ASSUME IInv, NEW t \in DOMAIN thread, thread[t].pc \notin {"start", "done"}
  PROVE  /\ thread[t].fd = Fd(t) /\ Fd(t) \in Fds /\ Client(t) \in Clients
         /\ thread[t].file # Free => thread[t].pc \in {"headers", "body"}
BY DEF IInv, Owned, CellsHold, FilesHold, Live, Client

(* What a read may become are outcomes, and what it leaves behind is texts. *)
LEMMA TextsAreTexts ==
  ASSUME NEW requests \in Seq(Requests)
  PROVE  /\ TextsOf(requests) \subseteq Requests
         /\ requests # <<>> =>
               /\ Head(requests) \in Requests /\ Tail(requests) \in Seq(Requests)
               /\ TextsOf(Tail(requests)) \subseteq Requests
<1>1. \A s \in Seq(Requests) : TextsOf(s) \subseteq Requests
  BY DEF TextsOf
<1>2. requests # <<>> => Head(requests) \in Requests /\ Tail(requests) \in Seq(Requests)
  OBVIOUS
<1>3. requests # <<>> => TextsOf(Tail(requests)) \subseteq Requests
  BY <1>1, <1>2
<1>4. TextsOf(requests) \subseteq Requests
  BY <1>1
<1>. QED BY <1>2, <1>3, <1>4

LEMMA OutcomeTypes ==
  /\ Fatal \in Outcomes
  /\ \A fits : Outcome(fits, ErrorPage) \in Outcomes
  /\ \A request \in Requests : ByGet(request.path) \in Outcomes
  /\ \A path, type, content :
        path \notin {ApiPath("echo"), ApiPath("upload")} \/ (type \in Types /\ content \in Contents)
            => ByPost(path, type, content) \in Outcomes
<1>0. ErrorPage \in Answers
  BY DEF Answers
<1>1. \A fits, answer : answer \in Answers => Outcome(fits, answer) \in Outcomes
  BY DEF Outcome, Outcomes
<1>2. Fatal \in Outcomes
  BY <1>0 DEF Fatal, Outcomes
<1>3. \A request \in Requests : get_method(request.path) \in Answers
  BY DEF Answers
<1>4. ASSUME NEW path, NEW type, NEW content,
             \/ path \notin {ApiPath("echo"), ApiPath("upload")}
             \/ type \in Types /\ content \in Contents
      PROVE  post_method(path, type, content) \in Answers
  <2>1. CASE path \notin {ApiPath("echo"), ApiPath("upload")}
    BY <2>1, <1>0 DEF post_method
  <2>2. CASE path \in {ApiPath("echo"), ApiPath("upload")} /\ type \in Types /\ content \in Contents
    BY <2>2 DEF Answers
  <2>. QED BY <1>4, <2>1, <2>2
<1>. QED BY <1>0, <1>1, <1>2, <1>3, <1>4 DEF ByGet, ByPost

LEMMA StaleTypes ==
  ASSUME NEW seen \in SUBSET Texts
  PROVE  Stale(seen) \subseteq Outcomes
<1>1. \A text \in Texts : \E request \in Requests : text.path = request.path
  <2>1. \A request \in Requests : [request EXCEPT !.method = Torn].path = request.path
    BY RequestsAssumption
  <2>. QED BY <2>1 DEF Texts
<1>2. \A text \in seen : ByGet(text.path) \in Outcomes
  BY <1>1, OutcomeTypes
<1>. QED BY <1>2, OutcomeTypes DEF Stale

LEMMA AsOneTypes ==
  ASSUME NEW requests \in Seq(Requests), requests # <<>>, NEW seen \in SUBSET Texts
  PROVE  AsOne(requests, seen) \subseteq Outcomes
<1> DEFINE first == Head(requests)
           texts == TextsOf(requests) \cup seen
           somehow == IF first.path \in {ApiPath("echo"), ApiPath("upload")}
                      THEN {Fatal} \cup {ByPost(first.path, type, content) :
                                            type \in Types, content \in Contents}
                      ELSE {Outcome(PathLength(first.path) < Room, ErrorPage)}
<1>1. first \in Requests
  BY TextsAreTexts
<1>2. first.type \in Types \cup {NoType} /\ first.content \in Contents
  BY <1>1, RequestsAssumption
<1> HIDE DEF first
<1>3. somehow \subseteq Outcomes
  BY OutcomeTypes
<1>4. first.type # NoType => ByPost(first.path, first.type, first.content) \in Outcomes
  BY <1>2, OutcomeTypes
<1> DEFINE maybe == {Fatal} \cup (IF \E text \in texts : text.type # NoType THEN somehow ELSE {})
<1>5. AsOne(requests, seen) =
         CASE Mentioned(texts, "GET") -> somehow
           [] ~Mentioned(texts, "GET") /\ first.type # NoType ->
                 {ByPost(first.path, first.type, first.content)}
           [] ~Mentioned(texts, "GET") /\ first.type = NoType -> maybe
  BY DEF AsOne, first
<1>6. maybe \subseteq {Fatal} \cup somehow
  <2> HIDE DEF somehow
  <2>. QED OBVIOUS
<1> HIDE DEF somehow, texts, maybe
<1>7. CASE Mentioned(texts, "GET")
  <2>1. AsOne(requests, seen) = somehow
    BY <1>5, <1>7
  <2>. QED BY <2>1, <1>3
<1>8. CASE ~Mentioned(texts, "GET") /\ first.type # NoType
  <2>1. AsOne(requests, seen) = {ByPost(first.path, first.type, first.content)}
    BY <1>5, <1>8
  <2>. QED BY <2>1, <1>4, <1>8
<1>9. CASE ~Mentioned(texts, "GET") /\ first.type = NoType
  <2>1. AsOne(requests, seen) = maybe
    BY <1>5, <1>9
  <2>. QED BY <2>1, <1>3, <1>6, OutcomeTypes
<1>. QED BY <1>7, <1>8, <1>9

LEMMA OneByOneTypes ==
  ASSUME NEW requests \in Seq(Requests)
  PROVE  OneByOne(requests) \in Seq(Outcomes) /\ Len(OneByOne(requests)) = Len(requests)
<1>1. \A i \in DOMAIN requests : OneByOne(requests)[i] \in Outcomes
  BY OutcomeTypes DEF OneByOne
<1>2. DOMAIN OneByOne(requests) = 1..Len(requests) /\ Len(requests) \in Nat
  BY DEF OneByOne
<1>3. OneByOne(requests) \in [1..Len(requests) -> Outcomes]
  BY <1>1, <1>2 DEF OneByOne
<1>. QED BY <1>2, <1>3

LEMMA PendingTypes ==
  ASSUME NEW requests \in Seq(Requests), NEW seen \in SUBSET Texts,
         NEW pending \in Pending(requests, seen)
  PROVE  pending \in Seq(Outcomes)
<1>1. \A o \in Outcomes : <<o>> \in Seq(Outcomes)
  OBVIOUS
<1>2. CASE requests = <<>>
  <2>1. pending = <<>> \/ \E o \in Stale(seen) : pending = <<o>>
    BY <1>2 DEF Pending
  <2>2. <<>> \in Seq(Outcomes) /\ \A o \in Stale(seen) : o \in Outcomes
    BY StaleTypes
  <2>. QED BY <2>1, <2>2, <1>1
<1>3. CASE requests # <<>> /\ ParsedAsOne(requests, seen)
  <2>1. \E o \in AsOne(requests, seen) : pending = <<o>>
    BY <1>3 DEF Pending
  <2>. QED BY <2>1, <1>1, <1>3, AsOneTypes
<1>4. CASE requests # <<>> /\ ~ParsedAsOne(requests, seen)
  <2>1. \/ pending = OneByOne(requests)
        \/ \E o \in Stale(seen) : pending = Append(OneByOne(requests), o)
    <3>1. CASE seen = {}
      BY <1>4, <3>1 DEF Pending
    <3>2. CASE seen # {}
      BY <1>4, <3>2 DEF Pending
    <3>. QED BY <3>1, <3>2
  <2>2. \A o \in Stale(seen) : o \in Outcomes
    BY StaleTypes
  <2>3. \A s \in Seq(Outcomes), o \in Outcomes : Append(s, o) \in Seq(Outcomes)
    OBVIOUS
  <2>. QED BY <2>1, <2>2, <2>3, OneByOneTypes
<1>. QED BY <1>2, <1>3, <1>4

LEMMA KeptTypes ==
  ASSUME NEW requests \in Seq(Requests), NEW seen, NEW buffer \in SUBSET Texts
  PROVE  Kept(requests, seen, buffer) \in SUBSET Texts
<1>1. CASE requests = <<>>
  BY <1>1 DEF Kept
<1>2. CASE requests # <<>>
  BY <1>2, TextsAreTexts DEF Kept, Texts
<1>. QED BY <1>1, <1>2

(* What is pending for a read that stood alone in its buffer: one outcome for each request,
   or the single one that a POST leaves. *)
LEMMA PendingDue ==
  ASSUME NEW requests \in Seq(Requests), requests # <<>>, NEW pending \in Pending(requests, {})
  PROVE  Len(pending) = Due(requests)
<1>1. ParsedAsOne(requests, {}) <=> Mentioned(TextsOf(requests), "POST")
  BY DEF ParsedAsOne
<1>2. CASE Mentioned(TextsOf(requests), "POST")
  BY <1>1, <1>2 DEF Pending, Due
<1>3. CASE ~Mentioned(TextsOf(requests), "POST")
  <2>1. pending = OneByOne(requests)
    BY <1>1, <1>3 DEF Pending
  <2>. QED BY <2>1, <1>3, OneByOneTypes DEF Due
<1>. QED BY <1>2, <1>3

LEMMA StartMoves ==
  ASSUME IInv, NEW t, Start(t)
  PROVE  ClientTypes' /\ \E r : FileMoves(t, r)
<1>1. t \in DOMAIN thread /\ thread[t].pc = "start" /\ thread[t] \in ThreadRecords
  BY Fields DEF Start, At, IInv
<1>2. thread[t].file = Free /\ Fd(t) \in Fds
  BY <1>1 DEF IInv, Owned, CellsHold, FilesHold, Live
<1>3. PICK buffer \in SUBSET Texts :
          thread' = [thread EXCEPT ![t].pc = "read", ![t].fd = cell[thread[t].cell],
                                   ![t].buffer = buffer]
  BY DEF Start, IInv, TypeOK
<1> DEFINE r == [thread[t] EXCEPT !.pc = "read", !.fd = Fd(t), !.buffer = buffer]
<1>4. thread' = [thread EXCEPT ![t] = r]
  BY <1>1, <1>3 DEF Fd
<1>5. r \in ThreadRecords
  BY <1>1, <1>2 DEF ThreadRecords
<1>6. r.cell = thread[t].cell /\ r.pc = "read" /\ r.fd = Fd(t) /\ r.file = thread[t].file
  BY <1>1 DEF ThreadRecords
<1> HIDE DEF r
<1>7. fdOf' = [fd \in Fds |-> IF fd = r.file THEN File
                              ELSE IF fd = thread[t].file THEN Nobody ELSE fdOf[fd]]
  BY <1>2, <1>6, FreeIsNone DEF Start, kernel, IInv, TypeOK
<1>8. FileMoves(t, r)
  BY <1>1, <1>2, <1>4, <1>5, <1>6, <1>7 DEF FileMoves, Becomes, Start
<1>9. ClientTypes'
  BY DEF IInv, TypeOK, ClientTypes, Start, clients, heard, kernel, heap
<1>. QED BY <1>8, <1>9

LEMMA ReadMoves ==
  ASSUME IInv, NEW t, Read(t)
  PROVE  ClientTypes' /\ \E r : FileMoves(t, r)
<1>1. t \in DOMAIN thread /\ thread[t].pc = "read" /\ thread[t] \in ThreadRecords
      /\ thread[t].buffer \in SUBSET Texts
  BY Fields DEF Read, At, IInv
<1>2. thread[t].fd = Fd(t) /\ Client(t) \in Clients /\ thread[t].file = Free
  BY <1>1, Serving
<1>3. inbox[Client(t)] \in Seq(Requests)
  BY <1>2 DEF IInv, TypeOK
<1>4. PICK seen \in SUBSET thread[t].buffer : \E pending \in Pending(inbox[Client(t)], seen) :
          /\ thread' = [thread EXCEPT
                           ![t].pc = "answer", ![t].pending = pending,
                           ![t].buffer = Kept(inbox[Client(t)], seen, @)]
          /\ confused' = IF seen = {} THEN confused ELSE confused \cup {Client(t)}
  BY DEF Read
<1>4a. PICK pending \in Pending(inbox[Client(t)], seen) :
          thread' = [thread EXCEPT
                        ![t].pc = "answer", ![t].pending = pending,
                        ![t].buffer = Kept(inbox[Client(t)], seen, @)]
  BY <1>4
<1> DEFINE kept == Kept(inbox[Client(t)], seen, thread[t].buffer)
           r == [thread[t] EXCEPT !.pc = "answer", !.pending = pending, !.buffer = kept]
<1>5. pending \in Seq(Outcomes)
  BY <1>1, <1>3, PendingTypes
<1>6. kept \in SUBSET Texts
  BY <1>1, <1>3, KeptTypes
<1>7. thread' = [thread EXCEPT ![t] = r]
  BY <1>1, <1>4a
<1> HIDE DEF kept
<1>8. r \in ThreadRecords
  BY <1>1, <1>5, <1>6 DEF ThreadRecords
<1>9. r.cell = thread[t].cell /\ r.pc = "answer" /\ r.fd = Fd(t) /\ r.file = thread[t].file
  BY <1>1, <1>2 DEF ThreadRecords
<1> HIDE DEF r
<1>10. fdOf' = [fd \in Fds |-> IF fd = r.file THEN File
                               ELSE IF fd = thread[t].file THEN Nobody ELSE fdOf[fd]]
  BY <1>2, <1>9, FreeIsNone DEF Read, kernel, IInv, TypeOK
<1>11. FileMoves(t, r)
  BY <1>1, <1>2, <1>7, <1>8, <1>9, <1>10 DEF FileMoves, Becomes, Read
<1>12. /\ taken' \in [Clients -> Seq(Requests)] /\ inbox' \in [Clients -> Seq(Requests)]
       /\ confused' \subseteq Clients
  BY <1>2, <1>3, <1>4 DEF Read, IInv, TypeOK
<1>13. ClientTypes'
  BY <1>12 DEF IInv, TypeOK, ClientTypes, Read, kernel, heap
<1>. QED BY <1>11, <1>13

LEMMA OpenMoves ==
  ASSUME IInv, NEW t, MeasureFile(t) \/ ReadFile(t)
  PROVE  ClientTypes' /\ \E r : FileMoves(t, r)
<1>1. PICK before \in {"answer", "open"}, after \in {"headers", "body"} :
          OpenFile(t, before, after)
  BY DEF MeasureFile, ReadFile
<1>2. /\ t \in DOMAIN thread /\ thread[t].pc \in {"answer", "open"}
      /\ thread[t] \in ThreadRecords
  BY <1>1, Fields DEF OpenFile, Answering, At, IInv
<1>3. thread[t].fd = Fd(t) /\ thread[t].file = Free
  BY <1>2, Serving
<1>4. PICK file \in Fds \cup {Free} :
          /\ thread' = [thread EXCEPT ![t].pc = after, ![t].file = file]
          /\ \/ file = Free /\ fdOf' = fdOf
             \/ /\ file \in Fds /\ fdOf[file] = Nobody
                /\ fdOf' = [fdOf EXCEPT ![file] = File]
  BY <1>1 DEF OpenFile, IsLowest, FreeFds
<1> DEFINE r == [thread[t] EXCEPT !.pc = after, !.file = file]
<1>5. thread' = [thread EXCEPT ![t] = r]
  BY <1>2, <1>4
<1>6. r \in ThreadRecords
  BY <1>1, <1>2 DEF ThreadRecords
<1>7. r.cell = thread[t].cell /\ r.pc = after /\ r.fd = Fd(t) /\ r.file = file
  BY <1>2, <1>3 DEF ThreadRecords
<1> HIDE DEF r
<1>8. fdOf' = [fd \in Fds |-> IF fd = r.file THEN File
                              ELSE IF fd = thread[t].file THEN Nobody ELSE fdOf[fd]]
  BY <1>3, <1>4, <1>7, FreeIsNone DEF IInv, TypeOK
<1>9. FileMoves(t, r)
  BY <1>1, <1>2, <1>3, <1>4, <1>5, <1>6, <1>7, <1>8 DEF FileMoves, Becomes, OpenFile
<1>10. ClientTypes'
  BY <1>1 DEF IInv, TypeOK, ClientTypes, OpenFile, clients, heard, heap
<1>. QED BY <1>9, <1>10

LEMMA AnswersHaveFiles == \A answer \in Answers : answer.file \in BOOLEAN
<1>1. \A status, type, body : FromMemory(status, type, body).file \in BOOLEAN
  BY DEF FromMemory
<1>2. \A status, path : /\ echo_back(status, path).file \in BOOLEAN
                       /\ echo_back_directory(status, path).file \in BOOLEAN
  BY DEF echo_back, echo_back_directory
<1>3. ErrorPage.file \in BOOLEAN
  BY <1>2 DEF ErrorPage
<1>4. \A path : turn_to_api(path).file \in BOOLEAN
  BY <1>1, <1>2, <1>3 DEF turn_to_api, search
<1>5. \A path : get_method(path).file \in BOOLEAN
  BY <1>2, <1>3, <1>4 DEF get_method
<1>6. \A path, type, content :
          path \in {ApiPath("echo"), ApiPath("upload")} =>
              post_method(path, type, content).file \in BOOLEAN
  BY <1>1, <1>2, <1>3 DEF post_method
<1>. QED BY <1>3, <1>5, <1>6 DEF Answers

(* The next part of an answer. *)
LEMMA DeliverKeepsTypes ==
  ASSUME IInv, NEW c \in Clients, NEW part \in Parts, Deliver(c, part)
  PROVE  got' \in [Clients -> Seq(Parts)]
<1>1. got[c] \in Seq(Parts) /\ got \in [Clients -> Seq(Parts)]
  BY DEF IInv, TypeOK
<1>2. Append(got[c], part) \in Seq(Parts)
  BY <1>1
<1>. QED BY <1>1, <1>2 DEF Deliver

LEMMA WriteMoves ==
  ASSUME IInv, NEW t, WriteHeaders(t) \/ WriteBody(t)
  PROVE  ClientTypes' /\ \E r : FileMoves(t, r)
<1>1. /\ t \in DOMAIN thread /\ thread[t].pc \in {"answer", "headers", "body"}
      /\ thread[t] \in ThreadRecords /\ thread[t].pending # <<>>
      /\ thread[t].pending \in Seq(Outcomes)
  BY Fields DEF WriteHeaders, WriteBody, Answering, At, IInv
<1>2. thread[t].fd = Fd(t) /\ Client(t) \in Clients
  BY <1>1, Serving
<1>3. Current(t) \in Outcomes /\ Tail(thread[t].pending) \in Seq(Outcomes)
  BY <1>1 DEF Current
<1>4. Cut(t) \in BOOLEAN /\ Answer(t) \in Answers
  BY <1>3, AnswersHaveFiles DEF Cut, Answer, Outcomes
<1>5. Headers(Answer(t), Cut(t)) \in Parts /\ Body(Answer(t), Cut(t)) \in Parts
  BY <1>4 DEF Parts
<1>6. got' \in [Clients -> Seq(Parts)]
  BY <1>2, <1>5, DeliverKeepsTypes DEF WriteHeaders, WriteBody
<1>7. PICK pc \in {"open", "body", "answer"}, pending \in Seq(Outcomes) :
          thread' = [thread EXCEPT ![t] =
                        [thread[t] EXCEPT !.pc = pc, !.pending = pending, !.file = Free]]
  <2>1. CASE WriteHeaders(t)
    <3> DEFINE pc == IF Answer(t).file THEN "open" ELSE "body"
    <3>1. thread' = [thread EXCEPT ![t].pc = pc, ![t].file = Free]
      BY <2>1 DEF WriteHeaders
    <3>2. pc \in {"open", "body", "answer"}
      OBVIOUS
    <3> HIDE DEF pc
    <3>3. [thread[t] EXCEPT !.pc = pc, !.pending = thread[t].pending, !.file = Free]
          = [thread[t] EXCEPT !.pc = pc, !.file = Free]
      BY <1>1 DEF ThreadRecords
    <3>4. thread' = [thread EXCEPT ![t] = [thread[t] EXCEPT !.pc = pc, !.file = Free]]
      BY <3>1, <1>1
    <3>. QED BY <3>2, <3>3, <3>4, <1>1
  <2>2. CASE WriteBody(t)
    <3>1. thread' = [thread EXCEPT ![t].pc = "answer", ![t].pending = Tail(@),
                                   ![t].file = Free]
      BY <2>2, <1>1 DEF WriteBody
    <3>2. thread' = [thread EXCEPT ![t] =
                        [thread[t] EXCEPT !.pc = "answer", !.pending = Tail(thread[t].pending),
                                          !.file = Free]]
      BY <3>1, <1>1
    <3>. QED BY <3>2, <1>3
  <2>. QED BY <2>1, <2>2
<1> DEFINE r == [thread[t] EXCEPT !.pc = pc, !.pending = pending, !.file = Free]
<1>8. r \in ThreadRecords
  BY <1>1 DEF ThreadRecords
<1>9. r.cell = thread[t].cell /\ r.pc = pc /\ r.fd = Fd(t) /\ r.file = Free
  BY <1>1, <1>2 DEF ThreadRecords
<1>10. thread' = [thread EXCEPT ![t] = r]
  BY <1>7
<1> HIDE DEF r
<1>11. fdOf' = [fd \in Fds |-> IF fd = r.file THEN File
                               ELSE IF fd = thread[t].file THEN Nobody ELSE fdOf[fd]]
  BY <1>9, FreeIsNone DEF WriteHeaders, WriteBody, CloseFile
<1>12. FileMoves(t, r)
  BY <1>1, <1>8, <1>9, <1>10, <1>11 DEF FileMoves, Becomes, WriteHeaders, WriteBody
<1>13. ClientTypes'
  BY <1>6 DEF IInv, TypeOK, ClientTypes, WriteHeaders, WriteBody, clients, heap
<1>. QED BY <1>12, <1>13

-----------------------------------------------------------------------------
(* The other steps and the types. *)
LEMMA FinishKeepsTypes ==
  ASSUME IInv, NEW t, Finish(t)
  PROVE  TypeOK'
<1> DEFINE r == [thread[t] EXCEPT !.pc = "done"]
<1>1. t \in DOMAIN thread /\ thread[t] \in ThreadRecords /\ thread[t].pc = "answer"
  BY Fields DEF Finish, At, IInv
<1>2. r \in ThreadRecords /\ r.cell = thread[t].cell /\ r.fd = thread[t].fd
  BY <1>1 DEF ThreadRecords
<1>3. thread' = [thread EXCEPT ![t] = r]
  BY <1>1 DEF Finish
<1> HIDE DEF r
<1>4. /\ thread' \in Seq(ThreadRecords) /\ DOMAIN thread' = DOMAIN thread
      /\ \A s \in DOMAIN thread : s # t => thread'[s] = thread[s]
      /\ thread'[t] = r
  BY <1>1, <1>2, <1>3, OnlyOneBecomes DEF IInv, Becomes
<1>5. thread[t].fd \in Fds /\ Client(t) \in Clients /\ thread[t].fd = Fd(t)
  BY <1>1, Serving
<1>6. \A s \in DOMAIN thread' : thread'[s].pc # "start" => thread'[s].fd \in Fds
  BY <1>2, <1>4, <1>5 DEF IInv, TypeOK
<1>7. ThreadTypes'
  BY <1>4, <1>6 DEF ThreadTypes, Finish, CloseFd, IInv, TypeOK
<1>8. ClientTypes'
  <2>1. leftover' \subseteq Texts
    BY <1>1, Fields DEF Finish, IInv, TypeOK
  <2>2. closed' \subseteq Clients
    BY <1>5 DEF Finish, CloseFd, Client, IInv, TypeOK
  <2>. QED BY <2>1, <2>2 DEF ClientTypes, Finish, IInv, TypeOK, clients
<1>. QED BY <1>7, <1>8, TypesSplitNext

LEMMA MainKeepsTypes ==
  ASSUME IInv, Accept \/ CreateThread
  PROVE  TypeOK'
<1>1. CASE Accept
  <2>1. Head(backlog) \in Clients /\ Tail(backlog) \in Seq(Clients)
    BY <1>1 DEF Accept, Acceptable, IInv, TypeOK
  <2>2. ThreadTypes'
    <3>1. PICK fd \in Fds, x \in Cells :
              /\ fdOf' = [fdOf EXCEPT ![fd] = Head(backlog)]
              /\ cell' = [cell EXCEPT ![x] = fd]
              /\ main' = [pc |-> "create", cell |-> x]
              /\ thread' = thread
      BY <1>1 DEF Accept
    <3>2. fdOf' \in [Fds -> Clients \cup {Nobody, File}] /\ cell' \in [Cells -> Fds \cup {Free}]
      BY <3>1, <2>1 DEF IInv, TypeOK
    <3>. QED BY <3>1, <3>2 DEF ThreadTypes, IInv, TypeOK
  <2>3. where' \in [Clients -> {"away", "queued", "accepted", "left"}]
    BY <1>1, <2>1 DEF Accept, IInv, TypeOK
  <2>4. ClientTypes'
    BY <1>1, <2>1, <2>3 DEF ClientTypes, Accept, heard, heap, IInv, TypeOK
  <2>. QED BY <2>2, <2>4, TypesSplitNext
<1>2. CASE CreateThread
  <2> DEFINE r == [pc |-> "start", cell |-> main.cell, fd |-> Free, file |-> Free,
                   pending |-> <<>>, buffer |-> {}]
  <2>1. thread' = Append(thread, r) /\ thread \in Seq(ThreadRecords)
    BY <1>2 DEF CreateThread, IInv, TypeOK
  <2>2. main.cell \in Cells
    BY <1>2 DEF CreateThread, IInv, Owned, MainHolds
  <2>3. r \in ThreadRecords /\ r.pc = "start"
    BY <2>2 DEF ThreadRecords
  <2> HIDE DEF r
  <2>4. thread' \in Seq(ThreadRecords)
        /\ \A s \in DOMAIN thread' :
              thread'[s] = r \/ (s \in DOMAIN thread /\ thread'[s] = thread[s])
    BY <2>1, <2>3
  <2>5. \A s \in DOMAIN thread' : thread'[s].pc # "start" => thread'[s].fd \in Fds
    BY <2>3, <2>4 DEF IInv, TypeOK
  <2>6. ThreadTypes'
    BY <1>2, <2>4, <2>5 DEF ThreadTypes, CreateThread, kernel, IInv, TypeOK
  <2>7. ClientTypes'
    BY <1>2 DEF ClientTypes, CreateThread, kernel, clients, heard, heap, IInv, TypeOK
  <2>. QED BY <2>6, <2>7, TypesSplitNext
<1>. QED BY <1>1, <1>2

LEMMA EndKeepsTypes ==
  ASSUME IInv, End
  PROVE  TypeOK'
<1>1. ThreadTypes'
  <2>1. thread' = <<>> /\ main' = [pc |-> "ended", cell |-> Free]
        /\ fdOf' = [fd \in Fds |-> Nobody] /\ cell' = [x \in Cells |-> Free]
    BY DEF End
  <2>. QED BY <2>1 DEF ThreadTypes
<1>2. ClientTypes'
  <2>1. backlog' = <<>> /\ <<>> \in Seq(Clients) /\ leftover' = {} /\ damaged' = FALSE
    BY DEF End
  <2>2. closed' \subseteq Clients
    BY DEF End, IInv, TypeOK
  <2>. QED BY <2>1, <2>2 DEF End, ClientTypes, clients, IInv, TypeOK
<1>. QED BY <1>1, <1>2, TypesSplitNext

LEMMA ClientsKeepTypes ==
  ASSUME IInv, NEW c \in Clients, Connect(c) \/ Send(c) \/ Leave(c)
  PROVE  TypeOK' /\ UNCHANGED <<fdOf, cell, main, thread>>
<1>1. UNCHANGED <<fdOf, cell, main, thread>>
  BY DEF Connect, Send, Leave, kernel
<1>2. ThreadTypes'
  BY <1>1 DEF ThreadTypes, IInv, TypeOK
<1>3. ASSUME Connect(c) PROVE ClientTypes'
  BY <1>3 DEF Connect, ClientTypes, IInv, TypeOK, heard, heap
<1>4. ASSUME Send(c) PROVE ClientTypes'
  <2>1. PICK n \in (sent[c] + 1)..Len(plan[c]) :
          /\ sent' = [sent EXCEPT ![c] = n]
          /\ inbox' = [inbox EXCEPT ![c] = @ \o SubSeq(plan[c], sent[c] + 1, n)]
    BY <1>4 DEF Send
  <2>2. sent[c] \in Nat /\ plan[c] \in Seq(Requests) /\ inbox[c] \in Seq(Requests)
    BY DEF IInv, TypeOK
  <2>3. n \in Nat /\ \A i \in (sent[c] + 1)..n : plan[c][i] \in Requests
    BY <2>2
  <2>4. SubSeq(plan[c], sent[c] + 1, n) \in Seq(Requests)
    BY <2>2, <2>3, SubSeqProperties
  <2>5. inbox[c] \o SubSeq(plan[c], sent[c] + 1, n) \in Seq(Requests)
    BY <2>2, <2>4
  <2>6. inbox' \in [Clients -> Seq(Requests)] /\ sent' \in [Clients -> Nat]
    BY <2>1, <2>3, <2>5 DEF IInv, TypeOK
  <2>7. ClientTypes'
    BY <1>4, <2>6 DEF Send, ClientTypes, IInv, TypeOK, heard, kernel, heap
  <2>. QED BY <2>7
<1>5. ASSUME Leave(c) PROVE ClientTypes'
  BY <1>5 DEF Leave, ClientTypes, IInv, TypeOK, heard, kernel, heap
<1>6. ClientTypes'
  BY <1>3, <1>4, <1>5
<1>. QED BY <1>1, <1>2, <1>6, TypesSplitNext

-----------------------------------------------------------------------------
LEMMA InitOwned == Init => IInv
<1> SUFFICES ASSUME Init PROVE IInv
  OBVIOUS
<1>1. ThreadTypes
  <2>1. thread = <<>> /\ main = [pc |-> "accept", cell |-> Free]
        /\ fdOf = [fd \in Fds |-> Nobody] /\ cell = [x \in Cells |-> Free]
    BY DEF Init
  <2>. QED BY <2>1 DEF ThreadTypes
<1>2. ClientTypes
  <2>1. plan \in [Clients -> Seq(Requests)]
    BY PlansAssumption DEF Init
  <2>2. \A S : <<>> \in Seq(S)
    OBVIOUS
  <2>. QED BY <2>1, <2>2 DEF Init, ClientTypes
<1>3. thread = <<>> /\ Live = {} /\ main.pc = "accept"
      /\ fdOf = [fd \in Fds |-> Nobody] /\ cell = [x \in Cells |-> Free]
  BY DEF Init, Live
<1>4. Owned
  BY <1>3, ClientsAssumption
  DEF Owned, CellsHold, FilesHold, MainHolds, NothingShared, NothingLost
<1>. QED BY <1>1, <1>2, <1>4, TypesSplit DEF IInv

LEMMA ThreadsKeepOwners ==
  ASSUME IInv, NEW t, ThreadStep(t)
  PROVE  IInv'
<1>1. ASSUME ClientTypes', \E r : FileMoves(t, r)
      PROVE  IInv'
  BY <1>1, FileMovesKeepsOwners, FileMovesKeepsTypes, TypesSplitNext DEF IInv
<1>2. CASE Finish(t)
  BY <1>2, FinishKeepsTypes, FinishKeepsOwners DEF IInv
<1>3. CASE Crash(t)
  BY <1>3, EndKeepsTypes, EndKeepsOwners DEF Crash, IInv
<1>. QED
  BY <1>1, <1>2, <1>3, StartMoves, ReadMoves, OpenMoves, WriteMoves DEF ThreadStep

LEMMA NextOwned == IInv /\ [Next]_vars => IInv'
<1> SUFFICES ASSUME IInv, [Next]_vars PROVE IInv'
  OBVIOUS
<1>1. ASSUME NEW c \in Clients, Connect(c) \/ Send(c) \/ Leave(c) PROVE IInv'
  BY <1>1, ClientsKeepTypes, OthersKeepOwners DEF IInv
<1>2. CASE End
  BY <1>2, EndKeepsTypes, EndKeepsOwners DEF IInv
<1>3. CASE Accept
  BY <1>3, MainKeepsTypes, AcceptKeepsOwners DEF IInv
<1>4. CASE CreateThread
  BY <1>4, MainKeepsTypes, CreateThreadKeepsOwners DEF IInv
<1>5. CASE MainStep
  BY <1>2, <1>3, <1>4, <1>5 DEF MainStep, EndWithoutDescriptor, EndWithoutThread
<1>6. ASSUME NEW t \in Threads, ThreadStep(t) \/ EndWhileAnswering(t) PROVE IInv'
  BY <1>2, <1>6, ThreadsKeepOwners DEF EndWhileAnswering
<1>8. CASE EndByOverflow
  BY <1>2, <1>8 DEF EndByOverflow
<1>7. CASE UNCHANGED vars
  <2>1. Owned'
    BY <1>7, OthersKeepOwners DEF vars, kernel
  <2>2. ClientTypes' /\ ThreadTypes'
    BY <1>7 DEF vars, kernel, clients, heard, heap, IInv, TypeOK, ClientTypes, ThreadTypes
  <2>. QED BY <2>1, <2>2, TypesSplitNext DEF IInv
<1>. QED BY <1>1, <1>5, <1>6, <1>7, <1>8 DEF Next

(* The types, for all clients, plans and limits: no thread closes, reads from or frees
   what it does not have. *)
THEOREM HttpTypeOK == Spec => []TypeOK
<1>1. IInv => TypeOK
  BY DEF IInv
<1>. QED BY <1>1, InitOwned, NextOwned, PTL DEF Spec

(* What a thread has, it has alone, and nothing is open that nobody has: main.c hands the
   descriptor over in a cell of its own (146-159), and server closes and frees what it
   was given (63-65). *)
THEOREM HttpDescriptorsAreOwned == Spec => []DescriptorsAreOwned
<1>1. IInv => DescriptorsAreOwned
  <2> SUFFICES ASSUME IInv PROVE DescriptorsAreOwned
    OBVIOUS
  <2> USE ClientsAssumption, FreeIsNone
  <2> DEFINE handed == IF main.pc = "create" THEN {main.cell} ELSE {}
  <2>1. \A t \in Live : Held(t) = Fd(t) /\ Fd(t) \in Fds /\ fdOf[Fd(t)] \in Clients
    BY DEF IInv, Owned, CellsHold, Held, Fd
  <2>2. \A t \in Live :
           /\ thread[t].file \in Fds \cup {Free} /\ thread[t].cell \in Cells
           /\ thread[t].file # Free => fdOf[thread[t].file] = File
    BY Fields DEF Live, IInv, Owned, FilesHold
  <2>3. \A s, t \in Live :
           s # t => Has(s) \cap Has(t) = {} /\ thread[s].cell # thread[t].cell
    BY <2>1, <2>2 DEF IInv, Owned, NothingShared, Has
  <2>4. \A t \in Live : Held(t) # thread[t].file
    BY <2>1, <2>2
  <2>5. {fd \in Fds : fdOf[fd] # Nobody}
           = (UNION {Has(t) : t \in Live}) \cup {cell[x] : x \in handed}
    <3>1. ASSUME NEW fd \in Fds, fdOf[fd] # Nobody
          PROVE  fd \in (UNION {Has(t) : t \in Live}) \cup {cell[x] : x \in handed}
      <4>1. fdOf[fd] \in Clients \/ fdOf[fd] = File
        BY <3>1 DEF IInv, TypeOK
      <4>2. CASE \E t \in Live : Fd(t) = fd \/ thread[t].file = fd
        <5>1. PICK t \in Live : Fd(t) = fd \/ thread[t].file = fd
          BY <4>2
        <5>2. fd \in Has(t)
          BY <5>1, <2>1 DEF Has
        <5>. QED BY <5>2
      <4>3. CASE main.pc = "create" /\ cell[main.cell] = fd
        <5>1. main.cell \in handed /\ fd = cell[main.cell]
          BY <4>3
        <5> HIDE DEF handed
        <5>2. fd \in {cell[x] : x \in handed}
          BY <5>1
        <5>. QED BY <5>2
      <4>. QED BY <4>1, <4>2, <4>3 DEF IInv, Owned, NothingLost
    <3>2. ASSUME NEW t \in Live, NEW fd \in Has(t)
          PROVE  fd \in Fds /\ fdOf[fd] # Nobody
      BY <3>2, <2>1, <2>2 DEF Has
    <3>3. ASSUME NEW x \in handed
          PROVE  cell[x] \in Fds /\ fdOf[cell[x]] # Nobody
      BY <3>3 DEF IInv, Owned, MainHolds
    <3> HIDE DEF handed
    <3>4. ASSUME NEW fd \in UNION {Has(t) : t \in Live}
          PROVE  fd \in Fds /\ fdOf[fd] # Nobody
      <4>1. PICK t \in Live : fd \in Has(t)
        OBVIOUS
      <4>. QED BY <4>1, <3>2
    <3>5. ASSUME NEW fd \in {cell[x] : x \in handed}
          PROVE  fd \in Fds /\ fdOf[fd] # Nobody
      BY <3>3
    <3>. QED BY <3>1, <3>4, <3>5
  <2>6. {x \in Cells : cell[x] # Free} = {thread[t].cell : t \in Live} \cup handed
    <3>1. ASSUME NEW x \in Cells, cell[x] # Free
          PROVE  x \in {thread[t].cell : t \in Live} \cup handed
      BY <3>1 DEF IInv, Owned, NothingLost
    <3>2. ASSUME NEW t \in Live
          PROVE  thread[t].cell \in Cells /\ cell[thread[t].cell] # Free
      BY <2>1, <2>2 DEF Fd
    <3>3. ASSUME NEW x \in handed
          PROVE  x \in Cells /\ cell[x] # Free
      BY <3>3 DEF IInv, Owned, MainHolds
    <3> HIDE DEF handed
    <3>4. ASSUME NEW x \in {thread[t].cell : t \in Live}
          PROVE  x \in Cells /\ cell[x] # Free
      BY <3>2
    <3>. QED BY <3>1, <3>3, <3>4
  <2> HIDE DEF handed
  <2>7. \A s, t \in {u \in DOMAIN thread : thread[u].pc # "done"} :
           s # t => Has(s) \cap Has(t) = {} /\ thread[s].cell # thread[t].cell
    BY <2>3 DEF Live
  <2>. QED BY <2>4, <2>5, <2>6, <2>7 DEF DescriptorsAreOwned, Live, handed
<1>. QED BY <1>1, InitOwned, NextOwned, PTL DEF Spec

-----------------------------------------------------------------------------
(* How far the answers to a client are.  Before its read has returned it is fresh. *)
Fresh(c) == c \notin closed /\ taken[c] = <<>> /\ got[c] = <<>>

BacklogFresh ==
    /\ \A i, j \in DOMAIN backlog : i # j => backlog[i] # backlog[j]
    /\ \A i \in DOMAIN backlog :
           Fresh(backlog[i]) /\ \A fd \in Fds : fdOf[fd] # backlog[i]

AwayFresh ==
    \A c \in Clients :
        where[c] = "away" =>
            /\ Fresh(c)
            /\ \A i \in DOMAIN backlog : backlog[i] # c
            /\ \A fd \in Fds : fdOf[fd] # c

OneEach ==
    /\ \A f, g \in Fds : fdOf[f] \in Clients /\ fdOf[f] = fdOf[g] => f = g
    /\ \A fd \in Fds : fdOf[fd] \notin closed

HandedFresh == main.pc = "create" => Fresh(fdOf[cell[main.cell]])

(* Two parts for each request that is answered, and one for the current one once its
   headers are written.  Only those who stay and whose read was their own are counted. *)
Waits(c) == where[c] # "left" /\ c \notin confused
Parted(pc) == IF pc \in {"open", "body"} THEN 1 ELSE 0
AnsweredSoFar(t) ==
    LET c == fdOf[Fd(t)]
    IN /\ thread[t].pc \in {"start", "read"} => Fresh(c)
       /\ thread[t].pc \in {"headers", "open", "body"} => thread[t].pending # <<>>
       /\ thread[t].pc \notin {"start", "read"} /\ Waits(c) =>
             /\ taken[c] # <<>>
             /\ Len(got[c]) = 2 * (Due(taken[c]) - Len(thread[t].pending)) + Parted(thread[t].pc)

Progress ==
    /\ BacklogFresh /\ AwayFresh /\ OneEach /\ HandedFresh
    /\ \A t \in Live : AnsweredSoFar(t)
    /\ ClosedWhenAnswered

(* A step of thread t changes the answers to its own client only. *)
ServesOnly(t) ==
    /\ UNCHANGED <<where, backlog, closed>>
    /\ \A d \in Clients : d # fdOf[Fd(t)] =>
           taken'[d] = taken[d] /\ got'[d] = got[d] /\ (d \in confused' <=> d \in confused)

LEMMA StepKeepsProgress ==
  ASSUME IInv, Progress, NEW t, \E r : FileMoves(t, r), ServesOnly(t), Running,
         AnsweredSoFar(t)'
  PROVE  Progress'
<1> USE ClientsAssumption, FreeIsNone
<1>1. PICK r : FileMoves(t, r)
  OBVIOUS
<1>2. /\ DOMAIN thread' = DOMAIN thread /\ t \in DOMAIN thread
      /\ \A s \in DOMAIN thread : s # t => thread'[s] = thread[s]
      /\ thread'[t] = r /\ r.cell = thread[t].cell
  BY <1>1, OnlyOneBecomes DEF IInv, FileMoves, Becomes
<1>3. Live' = Live /\ t \in Live
  BY <1>1, <1>2 DEF Live, FileMoves
<1>4. \A s \in Live : /\ Fd(s)' = Fd(s) /\ Fd(s) \in Fds /\ fdOf[Fd(s)] \in Clients
                      /\ s # t => Fd(s) # Fd(t)
  BY <1>1, <1>2, <1>3 DEF Fd, FileMoves, IInv, Owned, CellsHold, NothingShared, Live
<1>5. thread[t].file # Free => fdOf[thread[t].file] = File
  BY <1>2 DEF IInv, Owned, FilesHold
<1>6. \A fd \in Fds :
          /\ fdOf[fd] \in Clients => fdOf'[fd] = fdOf[fd]
          /\ fdOf'[fd] \in Clients => fdOf[fd] = fdOf'[fd]
  BY <1>1, <1>5 DEF FileMoves
<1> DEFINE c == fdOf[Fd(t)]
<1>7. c \in Clients /\ c \notin closed /\ \A s \in Live : s # t => fdOf[Fd(s)] # c
  BY <1>3, <1>4 DEF Progress, OneEach
<1>8. where' = where /\ backlog' = backlog /\ closed' = closed
  BY DEF ServesOnly
<1>9. \A d \in Clients :
          d # c => taken'[d] = taken[d] /\ got'[d] = got[d] /\ (Waits(d)' <=> Waits(d))
  BY DEF ServesOnly, Waits
<1> HIDE DEF c
<1>10. \A d \in Clients : d # c => (Fresh(d) <=> Fresh(d)')
  BY <1>8, <1>9 DEF Fresh
<1>11. \A fd \in Fds : fd = Fd(t) => fdOf[fd] = c
  BY DEF c
<1>12. BacklogFresh'
  <2>1. \A i \in DOMAIN backlog : backlog[i] \in Clients /\ backlog[i] # c
    <3>1. backlog \in Seq(Clients)
      BY DEF IInv, TypeOK
    <3>2. Fd(t) \in Fds /\ fdOf[Fd(t)] = c
      BY <1>3, <1>4, <1>11
    <3>3. \A i \in DOMAIN backlog : \A fd \in Fds : fdOf[fd] # backlog[i]
      BY DEF Progress, BacklogFresh
    <3>4. \A i \in DOMAIN backlog : backlog[i] \in Clients
      BY <3>1
    <3>. QED BY <3>2, <3>3, <3>4
  <2>2. \A i \in DOMAIN backlog : Fresh(backlog[i])'
    BY <2>1, <1>8, <1>10 DEF Progress, BacklogFresh, Fresh
  <2>3. \A i \in DOMAIN backlog : \A fd \in Fds : fdOf'[fd] # backlog[i]
    BY <2>1, <1>6 DEF Progress, BacklogFresh
  <2>. QED BY <2>2, <2>3, <1>8 DEF Progress, BacklogFresh
<1>13. AwayFresh'
  <2> SUFFICES ASSUME NEW d \in Clients, where[d] = "away"
               PROVE  /\ Fresh(d)'
                      /\ \A i \in DOMAIN backlog : backlog[i] # d
                      /\ \A fd \in Fds : fdOf'[fd] # d
    BY <1>8 DEF AwayFresh
  <2>1. /\ Fresh(d) /\ \A i \in DOMAIN backlog : backlog[i] # d
        /\ \A fd \in Fds : fdOf[fd] # d
    BY DEF Progress, AwayFresh
  <2>2. d # c
    BY <2>1, <1>3, <1>4, <1>11
  <2>. QED BY <2>1, <2>2, <1>6, <1>10
<1>14. OneEach'
  <2>1. \A fd \in Fds : fdOf'[fd] \notin closed
    BY <1>6, <1>8 DEF Progress, OneEach, IInv, TypeOK
  <2>2. \A f, g \in Fds : fdOf'[f] \in Clients /\ fdOf'[f] = fdOf'[g] => f = g
    BY <1>6 DEF Progress, OneEach
  <2>. QED BY <2>1, <2>2, <1>8 DEF OneEach
<1>15. HandedFresh'
  <2> SUFFICES ASSUME main.pc = "create"
               PROVE  Fresh(fdOf[cell[main.cell]])' /\ main' = main /\ cell' = cell
    BY <1>1 DEF HandedFresh, FileMoves
  <2>1. main' = main /\ cell' = cell
    BY <1>1 DEF FileMoves
  <2>2. cell[main.cell] \in Fds /\ fdOf[cell[main.cell]] \in Clients
        /\ cell[main.cell] # Fd(t)
    BY <1>3 DEF IInv, Owned, MainHolds
  <2>3. fdOf[cell[main.cell]] # c /\ fdOf'[cell[main.cell]] = fdOf[cell[main.cell]]
    BY <2>2, <1>3, <1>4, <1>6, <1>11 DEF Progress, OneEach
  <2>4. Fresh(fdOf[cell[main.cell]])
    BY DEF Progress, HandedFresh
  <2>. QED BY <2>1, <2>2, <2>3, <2>4, <1>8, <1>9 DEF Fresh
<1>16. \A s \in Live' : AnsweredSoFar(s)'
  <2> SUFFICES ASSUME NEW s \in Live, s # t
               PROVE  AnsweredSoFar(s)'
    BY <1>3
  <2>1. AnsweredSoFar(s)
    BY DEF Progress
  <2>2. /\ thread'[s] = thread[s] /\ Fd(s)' = Fd(s) /\ fdOf'[Fd(s)] = fdOf[Fd(s)]
        /\ fdOf[Fd(s)] \in Clients /\ fdOf[Fd(s)] # c
    BY <1>2, <1>4, <1>6, <1>7 DEF Live
  <2>3. Fresh(fdOf[Fd(s)]) <=> Fresh(fdOf[Fd(s)])'
    BY <2>2, <1>8, <1>9 DEF Fresh
  <2>4. /\ taken'[fdOf[Fd(s)]] = taken[fdOf[Fd(s)]] /\ got'[fdOf[Fd(s)]] = got[fdOf[Fd(s)]]
        /\ Waits(fdOf[Fd(s)])' <=> Waits(fdOf[Fd(s)])
    BY <2>2, <1>9
  <2>. QED BY <2>1, <2>2, <2>3, <2>4, <1>8 DEF AnsweredSoFar
<1>17. ClosedWhenAnswered'
  <2> SUFFICES ASSUME NEW d \in closed, Waits(d)'
               PROVE  taken'[d] # <<>> /\ Len(got'[d]) = 2 * Due(taken'[d])
    BY <1>8 DEF ClosedWhenAnswered, Waits
  <2>1. d \in Clients /\ d # c
    BY <1>7 DEF IInv, TypeOK
  <2>. QED BY <2>1, <1>9 DEF Progress, ClosedWhenAnswered, Waits
<1>. QED BY <1>12, <1>13, <1>14, <1>15, <1>16, <1>17 DEF Progress

(* The steps of a thread count right. *)
LEMMA StepsServe ==
  ASSUME IInv, Progress, NEW t,
         \/ Start(t) \/ Read(t) \/ MeasureFile(t) \/ ReadFile(t)
         \/ WriteHeaders(t) \/ WriteBody(t)
  PROVE  ServesOnly(t) /\ AnsweredSoFar(t)' /\ Running
<1> USE ClientsAssumption, FreeIsNone
<1>1. /\ t \in DOMAIN thread /\ t \in Live /\ Running
      /\ thread[t].pending \in Seq(Outcomes)
  BY Fields
  DEF Start, Read, MeasureFile, ReadFile, OpenFile, WriteHeaders, WriteBody,
      Answering, At, Live, IInv
<1>2. Fd(t) \in Fds /\ fdOf[Fd(t)] \in Clients /\ AnsweredSoFar(t)
  BY <1>1 DEF IInv, Owned, CellsHold, Progress
<1>3. PICK r : FileMoves(t, r)
  BY StartMoves, ReadMoves, OpenMoves, WriteMoves
<1>4. thread'[t].cell = thread[t].cell /\ cell' = cell /\ Fd(t)' = Fd(t)
  BY <1>3, OnlyOneBecomes DEF FileMoves, Becomes, Fd, IInv
<1>5. fdOf'[Fd(t)] = fdOf[Fd(t)]
  BY <1>1, <1>2, <1>3 DEF FileMoves, IInv, Owned, FilesHold
<1> DEFINE c == fdOf[Fd(t)]
<1>6. thread[t].pc # "start" => Client(t) = c
  BY <1>1 DEF Client, IInv, Owned, CellsHold
<1>7. c \in Clients /\ taken[c] \in Seq(Requests) /\ got[c] \in Seq(Parts)
      /\ inbox[c] \in Seq(Requests)
  BY <1>2 DEF IInv, TypeOK
<1>8. /\ thread[t].pc \in {"start", "read"} => Fresh(c)
      /\ thread[t].pc \in {"headers", "open", "body"} => thread[t].pending # <<>>
      /\ thread[t].pc \notin {"start", "read"} /\ Waits(c) =>
            /\ taken[c] # <<>>
            /\ Len(got[c]) = 2 * (Due(taken[c]) - Len(thread[t].pending)) + Parted(thread[t].pc)
  BY <1>2 DEF AnsweredSoFar
<1> DEFINE Stays == where'[c] # "left" /\ c \notin confused'
<1> DEFINE New ==
      /\ thread'[t].pc \in {"start", "read"} =>
            c \notin closed' /\ taken'[c] = <<>> /\ got'[c] = <<>>
      /\ thread'[t].pc \in {"headers", "open", "body"} => thread'[t].pending # <<>>
      /\ thread'[t].pc \notin {"start", "read"} /\ Stays =>
            /\ taken'[c] # <<>>
            /\ Len(got'[c]) = 2 * (Due(taken'[c]) - Len(thread'[t].pending)) + Parted(thread'[t].pc)
<1>9. New => AnsweredSoFar(t)'
  BY <1>4, <1>5 DEF AnsweredSoFar, Fresh, Waits
<1> HIDE DEF c
<1>p. Parted("answer") = 0 /\ Parted("headers") = 0 /\ Parted("open") = 1 /\ Parted("body") = 1
  BY DEF Parted
<1>10. CASE Start(t)
  <2>1. /\ thread[t].pc = "start" /\ thread'[t].pc = "read"
        /\ UNCHANGED <<where, backlog, closed, taken, got, confused>>
    <3>1. PICK buffer :
              thread' = [thread EXCEPT ![t].pc = "read", ![t].fd = cell[thread[t].cell],
                                       ![t].buffer = buffer]
      BY <1>10 DEF Start
    <3>2. thread'[t].pc = "read"
      BY <3>1, <1>1, Fields DEF ThreadRecords, IInv
    <3>. QED BY <3>2, <1>10 DEF Start, At, clients, heard, kernel
  <2>2. New
    BY <2>1, <1>8 DEF Fresh
  <2>. QED BY <2>1, <2>2, <1>1, <1>9 DEF ServesOnly
<1>11. CASE Read(t)
  <2>1. /\ thread[t].pc = "read" /\ UNCHANGED <<where, backlog, closed, got>>
        /\ inbox[c] # <<>> \/ where[c] = "left"
        /\ taken' = [taken EXCEPT ![c] = inbox[c]]
    BY <1>6, <1>11 DEF Read, At, kernel
  <2>2. PICK seen \in SUBSET thread[t].buffer : \E pending \in Pending(inbox[c], seen) :
            /\ thread' = [thread EXCEPT
                             ![t].pc = "answer", ![t].pending = pending,
                             ![t].buffer = Kept(inbox[c], seen, @)]
            /\ confused' = IF seen = {} THEN confused ELSE confused \cup {c}
    BY <2>1, <1>6, <1>11 DEF Read
  <2>3. PICK pending \in Pending(inbox[c], seen) :
            thread' = [thread EXCEPT
                          ![t].pc = "answer", ![t].pending = pending,
                          ![t].buffer = Kept(inbox[c], seen, @)]
    BY <2>2
  <2>4. thread'[t].pc = "answer" /\ thread'[t].pending = pending
    BY <2>3, <1>1, Fields DEF ThreadRecords, IInv
  <2>5. taken'[c] = inbox[c] /\ \A d \in Clients : d # c => taken'[d] = taken[d]
    BY <2>1, <1>7 DEF IInv, TypeOK
  <2>6. \A d \in Clients : d # c => (d \in confused' <=> d \in confused)
    BY <2>2
  <2>7. got'[c] = <<>> /\ Len(got'[c]) = 0 /\ Parted(thread'[t].pc) = 0
    BY <2>1, <2>4, <1>8, <1>p DEF Fresh
  <2>8. ASSUME Stays
        PROVE  /\ taken'[c] # <<>>
               /\ Len(got'[c]) = 2 * (Due(taken'[c]) - Len(thread'[t].pending))
                                 + Parted(thread'[t].pc)
    <3>1. seen = {} /\ inbox[c] # <<>>
      BY <2>1, <2>2, <2>8
    <3>2. Len(pending) = Due(inbox[c])
      BY <2>3, <3>1, <1>7, PendingDue
    <3>3. Due(inbox[c]) \in Nat
      BY <1>7 DEF Due
    <3>. QED BY <2>4, <2>5, <2>7, <3>1, <3>2, <3>3
  <2>9. New
    BY <2>4, <2>8
  <2>. QED BY <2>1, <2>5, <2>6, <2>9, <1>1, <1>9 DEF ServesOnly, c
<1>12. CASE MeasureFile(t) \/ ReadFile(t)
  <2>1. /\ \/ thread[t].pc = "answer" /\ thread'[t].pc = "headers"
           \/ thread[t].pc = "open" /\ thread'[t].pc = "body"
        /\ thread[t].pending # <<>> /\ thread'[t].pending = thread[t].pending
        /\ UNCHANGED <<where, backlog, closed, taken, got, confused>>
    <3>1. PICK before, after :
              /\ <<before, after>> \in {<<"answer", "headers">>, <<"open", "body">>}
              /\ OpenFile(t, before, after)
      BY <1>12 DEF MeasureFile, ReadFile
    <3>2. PICK file : thread' = [thread EXCEPT ![t].pc = after, ![t].file = file]
      BY <3>1 DEF OpenFile
    <3>3. thread[t].pc = before /\ thread[t].pending # <<>>
          /\ UNCHANGED <<where, backlog, closed, taken, got, confused>>
      BY <3>1 DEF OpenFile, Answering, At, clients, heard
    <3>4. thread'[t].pc = after /\ thread'[t].pending = thread[t].pending
      BY <3>2, <1>1, Fields DEF ThreadRecords, IInv
    <3>. QED BY <3>1, <3>3, <3>4
  <2>2. New
    BY <2>1, <1>8 DEF Parted, Waits
  <2>. QED BY <2>1, <2>2, <1>1, <1>9 DEF ServesOnly
<1>13. ASSUME NEW part, Deliver(c, part)
       PROVE  /\ \A d \in Clients : d # c => got'[d] = got[d]
              /\ where[c] # "left" => Len(got'[c]) = Len(got[c]) + 1
  <2>1. c # Nobody /\ got \in [Clients -> Seq(Parts)]
    BY <1>7 DEF IInv, TypeOK
  <2>2. got' = IF where[c] # "left" THEN [got EXCEPT ![c] = Append(got[c], part)] ELSE got
    BY <1>13, <2>1 DEF Deliver, Present
  <2>3. Len(Append(got[c], part)) = Len(got[c]) + 1
    BY <1>7
  <2>4. CASE where[c] # "left"
    BY <2>1, <2>2, <2>3, <2>4, <1>7
  <2>5. CASE where[c] = "left"
    BY <2>2, <2>5
  <2>. QED BY <2>4, <2>5
<1>14. Len(got[c]) \in Nat /\ Due(taken[c]) \in Nat /\ Len(thread[t].pending) \in Nat
  BY <1>1, <1>7 DEF Due
<1>15. CASE WriteHeaders(t)
  <2>1. /\ thread[t].pc \in {"headers", "answer"} /\ thread[t].pending # <<>>
        /\ UNCHANGED <<where, backlog, closed, taken, confused>>
        /\ Deliver(Client(t), Headers(Answer(t), Cut(t)))
    BY <1>15 DEF WriteHeaders, Answering, At, clients
  <2>2. thread'[t].pc \in {"open", "body"} /\ thread'[t].pending = thread[t].pending
    BY <1>1, <1>15, Fields DEF WriteHeaders, ThreadRecords, IInv
  <2>3. /\ \A d \in Clients : d # c => got'[d] = got[d]
        /\ where[c] # "left" => Len(got'[c]) = Len(got[c]) + 1
    BY <2>1, <1>6, <1>13
  <2>4. New
    <3>1. thread'[t].pc \in {"open", "body"} /\ thread'[t].pending # <<>> /\ (Stays <=> Waits(c))
      BY <2>1, <2>2 DEF Waits
    <3>2. ASSUME Waits(c)
          PROVE  /\ taken'[c] # <<>>
                 /\ Len(got'[c]) = 2 * (Due(taken'[c]) - Len(thread'[t].pending)) + 1
      <4>1. taken[c] # <<>> /\ taken' = taken
            /\ Len(got[c]) = 2 * (Due(taken[c]) - Len(thread[t].pending))
        <5>1. Parted(thread[t].pc) = 0
          BY <2>1, <1>p
        <5>2. /\ taken[c] # <<>> /\ taken' = taken
              /\ Len(got[c]) = 2 * (Due(taken[c]) - Len(thread[t].pending)) + Parted(thread[t].pc)
          BY <3>2, <2>1, <1>8 DEF Waits
        <5>. QED BY <5>1, <5>2, <1>14
      <4>. QED BY <4>1, <3>2, <2>2, <2>3, <1>14 DEF Waits
    <3>3. Parted(thread'[t].pc) = 1
      BY <2>2, <1>p
    <3>. QED BY <3>1, <3>2, <3>3
  <2>. QED BY <2>1, <2>3, <2>4, <1>1, <1>9 DEF ServesOnly, c
<1>16. CASE WriteBody(t)
  <2>1. /\ thread[t].pc = "body" /\ thread[t].pending # <<>>
        /\ UNCHANGED <<where, backlog, closed, taken, confused>>
        /\ Deliver(Client(t), Body(Answer(t), Cut(t)))
    BY <1>16 DEF WriteBody, Answering, At, clients
  <2>2. thread'[t].pc = "answer" /\ thread'[t].pending = Tail(thread[t].pending)
    BY <1>1, <1>16, Fields DEF WriteBody, ThreadRecords, IInv
  <2>3. /\ \A d \in Clients : d # c => got'[d] = got[d]
        /\ where[c] # "left" => Len(got'[c]) = Len(got[c]) + 1
    BY <2>1, <1>6, <1>13
  <2>4. Len(Tail(thread[t].pending)) = Len(thread[t].pending) - 1
    BY <2>1, <1>1
  <2>5. New
    <3>1. thread'[t].pc \in {"answer"} /\ (Stays <=> Waits(c))
      BY <2>1, <2>2 DEF Waits
    <3>2. ASSUME Waits(c)
          PROVE  /\ taken'[c] # <<>>
                 /\ Len(got'[c]) = 2 * (Due(taken'[c]) - Len(thread'[t].pending))
      <4>1. taken[c] # <<>> /\ taken' = taken
            /\ Len(got[c]) = 2 * (Due(taken[c]) - Len(thread[t].pending)) + 1
        BY <3>2, <2>1, <1>8, <1>14, <1>p
      <4>2. Len(thread'[t].pending) = Len(thread[t].pending) - 1
        BY <2>2, <2>4
      <4>3. Len(got'[c]) = Len(got[c]) + 1 /\ taken'[c] = taken[c]
        BY <4>1, <3>2, <2>3 DEF Waits
      <4>4. PICK g \in Int, a \in Int, b \in Int :
                g = Len(got[c]) /\ a = Due(taken[c]) /\ b = Len(thread[t].pending)
        BY <1>14
      <4>5. g = 2 * (a - b) + 1
        BY <4>1, <4>4
      <4>6. g + 1 = 2 * (a - (b - 1))
        BY <4>5
      <4>7. Len(got'[c]) = g + 1 /\ Due(taken'[c]) = a /\ Len(thread'[t].pending) = b - 1
        BY <4>2, <4>3, <4>4
      <4>8. Len(got'[c]) = 2 * (Due(taken'[c]) - Len(thread'[t].pending))
        BY <4>6, <4>7
      <4>. QED BY <4>1, <4>3, <4>8
    <3>3. Parted(thread'[t].pc) = 0
      BY <2>2, <1>p
    <3>4. ASSUME Waits(c)
          PROVE  Len(got'[c]) = 2 * (Due(taken'[c]) - Len(thread'[t].pending))
                                + Parted(thread'[t].pc)
      <4>1. taken' = taken /\ Len(thread'[t].pending) = Len(thread[t].pending) - 1
        BY <2>1, <2>2, <2>4
      <4>2. PICK a \in Int, b \in Int : a = Due(taken'[c]) /\ b = Len(thread'[t].pending)
        <5>1. Due(taken'[c]) \in Int
          BY <4>1, <1>14
        <5>2. Len(thread'[t].pending) \in Int
          BY <4>1, <1>14
        <5>. QED BY <5>1, <5>2
      <4>3. Len(got'[c]) = 2 * (a - b)
        BY <3>2, <3>4, <4>2
      <4>. QED BY <3>3, <4>2, <4>3
    <3>. QED BY <3>1, <3>2, <3>4
  <2>. QED BY <2>1, <2>3, <2>5, <1>1, <1>9 DEF ServesOnly, c
<1>. QED BY <1>10, <1>11, <1>12, <1>15, <1>16

LEMMA FinishKeepsProgress ==
  ASSUME IInv, Progress, NEW t, Finish(t)
  PROVE  Progress'
<1> USE ClientsAssumption, FreeIsNone
<1>1. /\ t \in DOMAIN thread /\ thread[t].pc = "answer" /\ t \in Live /\ Running
      /\ thread[t].pending = <<>>
  BY DEF Finish, At, Live
<1>2. thread[t].fd = Fd(t) /\ Fd(t) \in Fds /\ fdOf[Fd(t)] \in Clients
  BY <1>1 DEF IInv, Owned, CellsHold
<1> DEFINE c == fdOf[Fd(t)]
<1>3. /\ \A s \in DOMAIN thread : s # t => thread'[s] = thread[s]
      /\ DOMAIN thread' = DOMAIN thread /\ thread'[t].pc = "done"
  <2> DEFINE r == [thread[t] EXCEPT !.pc = "done"]
  <2>1. r \in ThreadRecords /\ r.cell = thread[t].cell /\ r.pc = "done"
    BY <1>1, Fields DEF IInv, ThreadRecords
  <2>2. thread' = [thread EXCEPT ![t] = r]
    BY <1>1 DEF Finish
  <2> HIDE DEF r
  <2>. QED BY <1>1, <2>1, <2>2, OnlyOneBecomes DEF IInv, Becomes
<1>4. Live' = Live \ {t}
  BY <1>1, <1>3 DEF Live
<1>5. /\ \A fd \in Fds : fdOf'[fd] = IF fd = Fd(t) THEN Nobody ELSE fdOf[fd]
      /\ \A x \in Cells : cell'[x] = IF x = thread[t].cell THEN Free ELSE cell[x]
      /\ closed' = closed \cup {c}
      /\ UNCHANGED <<where, backlog, taken, got, confused, main>>
  BY <1>1, <1>2, Fields DEF Finish, CloseFd, clients, IInv, TypeOK
<1>6. \A fd \in Fds : fdOf'[fd] \in Clients =>
          fdOf'[fd] = fdOf[fd] /\ fd # Fd(t) /\ fdOf[fd] # c
  BY <1>2, <1>5 DEF Progress, OneEach
<1>7. \A s \in Live' :
          /\ s \in Live /\ thread'[s] = thread[s] /\ Fd(s)' = Fd(s) /\ Fd(s) \in Fds
          /\ fdOf[Fd(s)] \in Clients /\ fdOf'[Fd(s)] = fdOf[Fd(s)] /\ fdOf[Fd(s)] # c
  <2> SUFFICES ASSUME NEW s \in Live, s # t
               PROVE  /\ thread'[s] = thread[s] /\ Fd(s)' = Fd(s) /\ Fd(s) \in Fds
                      /\ fdOf[Fd(s)] \in Clients /\ fdOf'[Fd(s)] = fdOf[Fd(s)]
                      /\ fdOf[Fd(s)] # c
    BY <1>4
  <2>1. thread'[s] = thread[s] /\ thread[s].cell \in Cells
    BY <1>3, Fields DEF Live, IInv
  <2>2. thread[s].cell # thread[t].cell /\ Fd(s) # Fd(t)
    BY <1>1 DEF IInv, Owned, NothingShared
  <2>3. Fd(s)' = Fd(s)
    BY <2>1, <2>2, <1>5 DEF Fd
  <2>4. Fd(s) \in Fds /\ fdOf[Fd(s)] \in Clients
    BY DEF IInv, Owned, CellsHold
  <2>. QED BY <2>1, <2>2, <2>3, <2>4, <1>2, <1>5 DEF Progress, OneEach
<1> HIDE DEF c
<1>8. c = fdOf[Fd(t)]
  BY DEF c
<1>9. \A d \in Clients : d # c => (Fresh(d) => Fresh(d)')
  BY <1>5 DEF Fresh
<1>10. BacklogFresh'
  <2>1. \A i \in DOMAIN backlog :
           /\ backlog[i] \in Clients /\ Fresh(backlog[i])
           /\ \A fd \in Fds : fdOf[fd] # backlog[i]
    <3>1. \A i \in DOMAIN backlog :
             Fresh(backlog[i]) /\ \A fd \in Fds : fdOf[fd] # backlog[i]
      BY DEF Progress, BacklogFresh
    <3>2. \A i \in DOMAIN backlog : backlog[i] \in Clients
      BY DEF IInv, TypeOK
    <3>. QED BY <3>1, <3>2
  <2>2. \A i \in DOMAIN backlog : Fresh(backlog[i])' /\ \A fd \in Fds : fdOf'[fd] # backlog[i]
    <3> SUFFICES ASSUME NEW i \in DOMAIN backlog
                 PROVE  Fresh(backlog[i])' /\ \A fd \in Fds : fdOf'[fd] # backlog[i]
      OBVIOUS
    <3>1. backlog[i] # c
      BY <2>1, <1>2, <1>8
    <3>2. c \notin {backlog[i]} /\ closed' = closed \cup {c} /\ backlog' = backlog
      BY <3>1, <1>5
    <3>. QED BY <2>1, <3>1, <3>2, <1>5, <1>6 DEF Fresh
  <2>. QED BY <2>2, <1>5 DEF Progress, BacklogFresh
<1>11. AwayFresh'
  <2> SUFFICES ASSUME NEW d \in Clients, where[d] = "away"
               PROVE  /\ Fresh(d)'
                      /\ \A i \in DOMAIN backlog : backlog[i] # d
                      /\ \A fd \in Fds : fdOf'[fd] # d
    BY <1>5 DEF AwayFresh
  <2>1. /\ Fresh(d) /\ \A i \in DOMAIN backlog : backlog[i] # d
        /\ \A fd \in Fds : fdOf[fd] # d
    BY DEF Progress, AwayFresh
  <2>2. d # c
    BY <2>1, <1>2, <1>8
  <2>. QED BY <2>1, <2>2, <1>6, <1>9
<1>12. OneEach'
  <2>1. \A fd \in Fds : fdOf'[fd] \notin closed'
    <3> SUFFICES ASSUME NEW fd \in Fds PROVE fdOf'[fd] \notin closed'
      OBVIOUS
    <3>1. CASE fdOf'[fd] \in Clients
      BY <3>1, <1>5, <1>6 DEF Progress, OneEach
    <3>2. CASE fdOf'[fd] \notin Clients
      BY <3>2, <1>2, <1>5, <1>8 DEF IInv, TypeOK
    <3>. QED BY <3>1, <3>2
  <2>2. \A f, g \in Fds : fdOf'[f] \in Clients /\ fdOf'[f] = fdOf'[g] => f = g
    BY <1>6 DEF Progress, OneEach
  <2>. QED BY <2>1, <2>2 DEF OneEach
<1>13. HandedFresh'
  <2> SUFFICES ASSUME main.pc = "create" PROVE Fresh(fdOf[cell[main.cell]])'
    BY <1>5 DEF HandedFresh
  <2>1. /\ cell[main.cell] \in Fds /\ fdOf[cell[main.cell]] \in Clients /\ main.cell \in Cells
        /\ cell[main.cell] # Fd(t) /\ main.cell # thread[t].cell
    BY <1>1 DEF IInv, Owned, MainHolds
  <2>2. /\ fdOf'[cell[main.cell]] = fdOf[cell[main.cell]] /\ cell'[main.cell] = cell[main.cell]
        /\ fdOf[cell[main.cell]] # c /\ main' = main
    BY <2>1, <1>2, <1>5, <1>8 DEF Progress, OneEach
  <2>3. Fresh(fdOf[cell[main.cell]])
    BY DEF Progress, HandedFresh
  <2>. QED BY <2>1, <2>2, <2>3, <1>5 DEF Fresh
<1>14. \A s \in Live' : AnsweredSoFar(s)'
  <2> SUFFICES ASSUME NEW s \in Live' PROVE AnsweredSoFar(s)'
    OBVIOUS
  <2>1. AnsweredSoFar(s)
    BY <1>7 DEF Progress
  <2>2. /\ thread'[s] = thread[s] /\ Fd(s)' = Fd(s) /\ fdOf'[Fd(s)] = fdOf[Fd(s)]
        /\ fdOf[Fd(s)] \in Clients /\ fdOf[Fd(s)] # c
    BY <1>7
  <2>3. Fresh(fdOf[Fd(s)]) => Fresh(fdOf[Fd(s)])'
    BY <2>2, <1>5 DEF Fresh
  <2>4. where' = where /\ taken' = taken /\ got' = got /\ confused' = confused
    BY <1>5
  <2>. QED BY <2>1, <2>2, <2>3, <2>4 DEF AnsweredSoFar, Waits
<1>15. ClosedWhenAnswered'
  <2>1. Waits(c) => taken[c] # <<>> /\ Len(got[c]) = 2 * Due(taken[c])
    <3> SUFFICES ASSUME Waits(c)
                 PROVE  taken[c] # <<>> /\ Len(got[c]) = 2 * Due(taken[c])
      OBVIOUS
    <3>1. /\ taken[c] # <<>>
          /\ Len(got[c]) = 2 * (Due(taken[c]) - Len(thread[t].pending)) + Parted("answer")
      BY <1>1, <1>8 DEF Progress, AnsweredSoFar
    <3>2. taken[c] \in Seq(Requests)
      BY <1>2, <1>8 DEF IInv, TypeOK
    <3>3. Due(taken[c]) \in Nat /\ Len(thread[t].pending) = 0 /\ Parted("answer") = 0
      BY <1>1, <3>2 DEF Parted, Due
    <3>. QED BY <3>1, <3>3
  <2>. QED BY <2>1, <1>1, <1>5 DEF Progress, ClosedWhenAnswered, Running, Waits
<1>. QED BY <1>10, <1>11, <1>12, <1>13, <1>14, <1>15 DEF Progress

LEMMA AcceptKeepsProgress ==
  ASSUME IInv, Progress, Accept
  PROVE  Progress'
<1> USE ClientsAssumption, FreeIsNone
<1>1. PICK fd \in Fds, x \in Cells :
          /\ fdOf[fd] = Nobody /\ cell[x] = Free
          /\ fdOf' = [fdOf EXCEPT ![fd] = Head(backlog)]
          /\ cell' = [cell EXCEPT ![x] = fd]
          /\ main' = [pc |-> "create", cell |-> x]
  BY DEF Accept, IsLowest, FreeFds, FreeCells
<1> DEFINE c == Head(backlog)
<1>2. /\ c \in Clients /\ backlog \in Seq(Clients) /\ backlog # <<>> /\ backlog' = Tail(backlog)
      /\ thread' = thread /\ UNCHANGED <<closed, taken, got, confused>>
  BY DEF Accept, Acceptable, IInv, TypeOK, heard
<1>3. /\ \A f \in Fds : fdOf'[f] = IF f = fd THEN c ELSE fdOf[f]
      /\ \A y \in Cells : cell'[y] = IF y = x THEN fd ELSE cell[y]
      /\ main'.pc = "create" /\ main'.cell = x
  BY <1>1 DEF IInv, TypeOK
<1>4. \A i \in DOMAIN backlog' : i + 1 \in DOMAIN backlog /\ backlog'[i] = backlog[i + 1]
      /\ i + 1 # 1 /\ i \in Nat
  BY <1>2
<1>5. 1 \in DOMAIN backlog /\ c = backlog[1]
  BY <1>2
<1> HIDE DEF c
<1>6. Fresh(c) /\ \A f \in Fds : fdOf[f] # c
  BY <1>5 DEF Progress, BacklogFresh
<1>7. \A d : Fresh(d) <=> Fresh(d)'
  BY <1>2 DEF Fresh
<1>8. /\ \A d \in Clients : d # c => where'[d] = where[d]
      /\ where'[c] \in {"accepted", "left"}
  BY <1>2 DEF Accept, IInv, TypeOK, c
<1>9. BacklogFresh'
  <2>1. \A i \in DOMAIN backlog' : backlog'[i] # c
    BY <1>4, <1>5 DEF Progress, BacklogFresh
  <2>2. \A i, j \in DOMAIN backlog' : i # j => backlog'[i] # backlog'[j]
    <3> SUFFICES ASSUME NEW i \in DOMAIN backlog', NEW j \in DOMAIN backlog', i # j
                 PROVE  backlog'[i] # backlog'[j]
      OBVIOUS
    <3>1. i + 1 # j + 1
      BY <1>4
    <3>. QED BY <3>1, <1>4 DEF Progress, BacklogFresh
  <2>3. \A i \in DOMAIN backlog' : Fresh(backlog'[i])
    BY <1>4 DEF Progress, BacklogFresh
  <2>4. \A i \in DOMAIN backlog' : \A f \in Fds : fdOf'[f] # backlog'[i]
    BY <2>1, <1>3, <1>4 DEF Progress, BacklogFresh
  <2>5. \A i \in DOMAIN backlog' : Fresh(backlog[i])'
    BY <2>3, <1>2 DEF Fresh
  <2>. QED BY <2>2, <2>4, <2>5 DEF BacklogFresh
<1>10. AwayFresh'
  <2> SUFFICES ASSUME NEW d \in Clients, where'[d] = "away"
               PROVE  /\ Fresh(d)'
                      /\ \A i \in DOMAIN backlog' : backlog'[i] # d
                      /\ \A f \in Fds : fdOf'[f] # d
    BY DEF AwayFresh
  <2>1. d # c /\ where[d] = "away"
    BY <1>8
  <2>2. /\ Fresh(d) /\ \A i \in DOMAIN backlog : backlog[i] # d
        /\ \A f \in Fds : fdOf[f] # d
    BY <2>1 DEF Progress, AwayFresh
  <2>3. \A f \in Fds : fdOf'[f] # d
    BY <2>1, <2>2, <1>3
  <2>4. \A i \in DOMAIN backlog' : backlog'[i] # d
    BY <2>2, <1>4
  <2>. QED BY <2>2, <2>3, <2>4, <1>7
<1>11. OneEach'
  BY <1>2, <1>3, <1>6 DEF Progress, OneEach, Fresh
<1>12. HandedFresh'
  BY <1>2, <1>3, <1>6 DEF HandedFresh, Fresh
<1>13. \A s \in Live' : AnsweredSoFar(s)'
  <2> SUFFICES ASSUME NEW s \in Live PROVE AnsweredSoFar(s)'
    BY <1>2 DEF Live
  <2>1. Fd(s) \in Fds /\ fdOf[Fd(s)] \in Clients /\ thread[s].cell \in Cells
    BY Fields DEF IInv, Owned, CellsHold, Live
  <2>2. Fd(s) # fd /\ thread[s].cell # x
    BY <2>1, <1>1 DEF Fd
  <2>3. Fd(s)' = Fd(s) /\ fdOf'[Fd(s)] = fdOf[Fd(s)] /\ fdOf[Fd(s)] # c
    BY <2>1, <2>2, <1>2, <1>3, <1>6 DEF Fd
  <2>4. AnsweredSoFar(s)
    BY DEF Progress
  <2>. QED BY <2>1, <2>3, <2>4, <1>2, <1>8 DEF AnsweredSoFar, Fresh, Waits
<1>14. ClosedWhenAnswered'
  <2>1. Running /\ closed \subseteq Clients /\ c \notin closed
    BY <1>6 DEF Accept, Acceptable, Running, Fresh, IInv, TypeOK
  <2>. QED BY <2>1, <1>2, <1>8 DEF Progress, ClosedWhenAnswered
<1>. QED BY <1>9, <1>10, <1>11, <1>12, <1>13, <1>14 DEF Progress

LEMMA CreateThreadKeepsProgress ==
  ASSUME IInv, Progress, CreateThread
  PROVE  Progress'
<1> USE ClientsAssumption, FreeIsNone
<1>n. PICK n : n = Len(thread) + 1
  OBVIOUS
<1> DEFINE r == [pc |-> "start", cell |-> main.cell, fd |-> Free, file |-> Free,
                pending |-> <<>>, buffer |-> {}]
<1>1. /\ thread' = Append(thread, r) /\ main.pc = "create" /\ main'.pc = "accept"
      /\ UNCHANGED <<where, taken, got, closed, confused, backlog, fdOf, cell>>
  BY DEF CreateThread, kernel, heard, clients
<1>2. thread \in Seq(ThreadRecords)
  BY DEF IInv, TypeOK
<1>3. /\ DOMAIN thread' = DOMAIN thread \cup {n}
      /\ \A s \in DOMAIN thread : thread'[s] = thread[s]
      /\ thread'[n] = r
  BY <1>1, <1>2, <1>n
<1>4. r.pc = "start" /\ r.cell = main.cell /\ r.file = Free
  OBVIOUS
<1> HIDE DEF r
<1>5. Live' = Live \cup {n}
  BY <1>3, <1>4 DEF Live
<1>6. BacklogFresh' /\ AwayFresh' /\ OneEach' /\ HandedFresh'
  BY <1>1 DEF Progress, BacklogFresh, AwayFresh, OneEach, HandedFresh, Fresh
<1>7. \A s \in Live : AnsweredSoFar(s)'
  <2> SUFFICES ASSUME NEW s \in Live PROVE AnsweredSoFar(s)'
    OBVIOUS
  <2>1. thread'[s] = thread[s] /\ Fd(s)' = Fd(s)
    BY <1>1, <1>3 DEF Live, Fd
  <2>. QED BY <2>1, <1>1 DEF Progress, AnsweredSoFar, Fresh, Waits
<1>8. AnsweredSoFar(n)'
  <2>1. Fd(n)' = cell[main.cell] /\ Fresh(fdOf[cell[main.cell]])
    BY <1>1, <1>3, <1>4 DEF Fd, Progress, HandedFresh
  <2>. QED BY <2>1, <1>1, <1>3, <1>4 DEF AnsweredSoFar, Fresh, Waits
<1>9. ClosedWhenAnswered'
  BY <1>1 DEF Progress, ClosedWhenAnswered, Running
<1>. QED BY <1>5, <1>6, <1>7, <1>8, <1>9 DEF Progress

LEMMA EndKeepsProgress ==
  ASSUME IInv, Progress, End
  PROVE  Progress'
<1>1. /\ thread' = <<>> /\ main'.pc = "ended" /\ backlog' = <<>>
      /\ fdOf' = [fd \in Fds |-> Nobody]
      /\ closed' = closed \cup {c \in Clients : where[c] # "away"}
      /\ UNCHANGED <<where, taken, got, confused>>
  BY DEF End, clients
<1>2. Live' = {} /\ DOMAIN backlog' = {}
  BY <1>1 DEF Live
<1>3. BacklogFresh' /\ HandedFresh' /\ ClosedWhenAnswered'
  BY <1>1, <1>2 DEF BacklogFresh, HandedFresh, ClosedWhenAnswered, Running
<1>4. AwayFresh'
  BY <1>1, <1>2, ClientsAssumption DEF Progress, AwayFresh, Fresh
<1>5. OneEach'
  BY <1>1, ClientsAssumption DEF OneEach, IInv, TypeOK
<1>. QED BY <1>2, <1>3, <1>4, <1>5 DEF Progress

LEMMA ClientsKeepProgress ==
  ASSUME IInv, Progress, NEW c \in Clients, Connect(c) \/ Send(c) \/ Leave(c)
  PROVE  Progress'
<1>1. UNCHANGED <<fdOf, cell, main, thread, closed, taken, got, confused>>
  BY DEF Connect, Send, Leave, kernel, heard
<1>2. \A d \in Clients : d # c => where'[d] = where[d]
  BY DEF Connect, Send, Leave, IInv, TypeOK
<1>3. /\ where' \in [Clients -> {"away", "queued", "accepted", "left"}]
      /\ where[c] = "left" => where'[c] = "left"
      /\ where'[c] # "away"
  BY DEF Connect, Send, Leave, IInv, TypeOK
<1>4. where[c] = "away" => Connect(c) /\ Fresh(c) /\ (\A fd \in Fds : fdOf[fd] # c)
                           /\ \A i \in DOMAIN backlog : backlog[i] # c
  BY DEF Send, Leave, Progress, AwayFresh
<1>5. Live' = Live /\ \A t \in Live : Fd(t)' = Fd(t)
  BY <1>1 DEF Live, Fd
<1>6. \A d : Fresh(d) <=> Fresh(d)'
  BY <1>1 DEF Fresh
<1>7. BacklogFresh' /\ \A d \in Clients : d # c =>
                          ((\A i \in DOMAIN backlog : backlog[i] # d)
                               => \A i \in DOMAIN backlog' : backlog'[i] # d)
  <2>1. CASE Connect(c)
    <3>1. backlog' = Append(backlog, c) /\ where[c] = "away" /\ backlog \in Seq(Clients)
      BY <2>1 DEF Connect, IInv, TypeOK
    <3>2. PICK n : n = Len(backlog) + 1
      OBVIOUS
    <3>3. /\ DOMAIN backlog' = DOMAIN backlog \cup {n} /\ backlog'[n] = c
          /\ \A i \in DOMAIN backlog : backlog'[i] = backlog[i]
      BY <3>1, <3>2
    <3>4. \A i, j \in DOMAIN backlog' : i # j => backlog'[i] # backlog'[j]
      BY <3>1, <3>3, <1>4 DEF Progress, BacklogFresh
    <3>5. \A i \in DOMAIN backlog' : Fresh(backlog'[i]) /\ \A fd \in Fds : fdOf[fd] # backlog'[i]
      BY <3>1, <3>3, <1>4 DEF Progress, BacklogFresh
    <3>6. \A i \in DOMAIN backlog' : Fresh(backlog[i])'
      BY <3>5, <1>1 DEF Fresh
    <3>. QED BY <3>3, <3>4, <3>5, <3>6, <1>1 DEF BacklogFresh
  <2>2. CASE Send(c) \/ Leave(c)
    <3>1. backlog' = backlog
      BY <2>2 DEF Send, Leave, kernel
    <3>. QED BY <3>1, <1>1 DEF Progress, BacklogFresh, Fresh
  <2>. QED BY <2>1, <2>2
<1>8. AwayFresh'
  <2> SUFFICES ASSUME NEW d \in Clients, where'[d] = "away"
               PROVE  /\ Fresh(d)'
                      /\ \A i \in DOMAIN backlog' : backlog'[i] # d
                      /\ \A fd \in Fds : fdOf'[fd] # d
    BY DEF AwayFresh
  <2>1. d # c /\ where[d] = "away"
    BY <1>2, <1>3
  <2>. QED BY <2>1, <1>1, <1>6, <1>7 DEF Progress, AwayFresh
<1>9. OneEach' /\ HandedFresh'
  BY <1>1 DEF Progress, OneEach, HandedFresh, Fresh
<1>10. \A t \in Live' : AnsweredSoFar(t)'
  <2> SUFFICES ASSUME NEW t \in Live PROVE AnsweredSoFar(t)'
    BY <1>5
  <2>1. fdOf[Fd(t)] \in Clients /\ Fd(t) \in Fds /\ AnsweredSoFar(t)
    BY DEF IInv, Owned, CellsHold, Progress
  <2>2. where'[fdOf[Fd(t)]] # "left" => where[fdOf[Fd(t)]] # "left"
    BY <2>1, <1>2, <1>3
  <2>. QED BY <2>1, <2>2, <1>1, <1>5 DEF AnsweredSoFar, Fresh, Waits
<1>11. ClosedWhenAnswered'
  BY <1>1, <1>2, <1>3 DEF Progress, ClosedWhenAnswered, Running, IInv, TypeOK
<1>. QED BY <1>7, <1>8, <1>9, <1>10, <1>11 DEF Progress

LEMMA InitProgress == Init => Progress
<1> SUFFICES ASSUME Init PROVE Progress
  OBVIOUS
<1>1. /\ thread = <<>> /\ main.pc = "accept" /\ backlog = <<>> /\ closed = {}
      /\ fdOf = [fd \in Fds |-> Nobody]
      /\ taken = [c \in Clients |-> <<>>] /\ got = [c \in Clients |-> <<>>]
  BY DEF Init
<1>2. Live = {} /\ DOMAIN backlog = {}
  BY <1>1 DEF Live
<1>. QED
  BY <1>1, <1>2, ClientsAssumption
  DEF Progress, BacklogFresh, AwayFresh, OneEach, HandedFresh, Fresh, ClosedWhenAnswered

LEMMA NextProgress == IInv /\ Progress /\ [Next]_vars => Progress'
<1> SUFFICES ASSUME IInv, Progress, [Next]_vars PROVE Progress'
  OBVIOUS
<1>1. ASSUME NEW c \in Clients, Connect(c) \/ Send(c) \/ Leave(c) PROVE Progress'
  BY <1>1, ClientsKeepProgress
<1>2. CASE End
  BY <1>2, EndKeepsProgress
<1>3. CASE MainStep
  BY <1>2, <1>3, AcceptKeepsProgress, CreateThreadKeepsProgress
  DEF MainStep, EndWithoutDescriptor, EndWithoutThread
<1>4. ASSUME NEW t \in Threads, ThreadStep(t) PROVE Progress'
  <2>1. CASE Finish(t)
    BY <2>1, FinishKeepsProgress
  <2>3. CASE Crash(t)
    BY <2>3, <1>2 DEF Crash
  <2>2. CASE ~Finish(t) /\ ~Crash(t)
    <3>1. \/ Start(t) \/ Read(t) \/ MeasureFile(t) \/ ReadFile(t)
          \/ WriteHeaders(t) \/ WriteBody(t)
      BY <1>4, <2>2 DEF ThreadStep
    <3>2. \E r : FileMoves(t, r)
      BY <3>1, StartMoves, ReadMoves, OpenMoves, WriteMoves
    <3>. QED BY <3>1, <3>2, StepsServe, StepKeepsProgress
  <2>. QED BY <2>1, <2>2, <2>3
<1>7. CASE EndByOverflow
  BY <1>2, <1>7 DEF EndByOverflow
<1>5. ASSUME NEW t \in Threads, EndWhileAnswering(t) PROVE Progress'
  BY <1>2, <1>5 DEF EndWhileAnswering
<1>6. CASE UNCHANGED vars
  BY <1>6
  DEF vars, clients, heard, kernel, Progress, BacklogFresh, AwayFresh, OneEach, HandedFresh,
      Fresh, AnsweredSoFar, Live, Fd, ClosedWhenAnswered, Running, Waits
<1>. QED BY <1>1, <1>3, <1>4, <1>5, <1>6, <1>7 DEF Next

(* No connection is closed before every request of its read has its whole answer, headers
   and body, or the read has the single one that a POST among its requests leaves
   (main.c:30-63), whatever the other clients do and however the descriptors run out, as
   long as the process goes on and no leftovers of others were in the read. *)
THEOREM HttpClosedWhenAnswered == Spec => []ClosedWhenAnswered
<1>1. Init => IInv /\ Progress
  BY InitOwned, InitProgress
<1>2. IInv /\ Progress /\ [Next]_vars => (IInv /\ Progress)'
  BY NextOwned, NextProgress
<1>3. Progress => ClosedWhenAnswered
  BY DEF Progress
<1>. QED BY <1>1, <1>2, <1>3, PTL DEF Spec

-----------------------------------------------------------------------------

-----------------------------------------------------------------------------
(* What get_method and post_method answer is what the README documents, but for the requests
   in which it contradicts them. *)
LEMMA MimeTypes ==
  /\ \A path \in Seq(STRING) \ {<<>>} :
        http_get_mime_type(Static(path)) = http_get_mime_type(path)
  /\ \A name : http_get_mime_type(Data(name, ".txt")) = "text/plain"
  /\ \A name : http_get_mime_type(Data(name, ".json")) = "application/json"
  /\ \A name : http_get_mime_type(Page(name, ".html")) = "text/html"
  /\ \A path : path[Len(path)] \in DOMAIN TypeOf =>
        http_get_mime_type(path) = TypeOf[path[Len(path)]]
<1>1. ASSUME NEW path \in Seq(STRING) \ {<<>>}
      PROVE  http_get_mime_type(Static(path)) = http_get_mime_type(path)
  <2>1. Static(path)[Len(Static(path))] = path[Len(path)]
    <3>1. /\ <<"./static">> \in Seq(STRING \cup {"./static"}) /\ Len(<<"./static">>) = 1
          /\ path \in Seq(STRING \cup {"./static"})
      OBVIOUS
    <3>2. Len(path) \in Nat /\ Len(path) >= 1
      OBVIOUS
    <3>3. /\ Len(<<"./static">> \o path) = 1 + Len(path)
          /\ \A i \in 1..(1 + Len(path)) :
                (<<"./static">> \o path)[i] =
                    IF i <= 1 THEN <<"./static">>[i] ELSE path[i - 1]
      BY <3>1, ConcatProperties
    <3>. QED BY <3>2, <3>3 DEF Static
  <2>. QED BY <2>1 DEF http_get_mime_type
<1>2. \A name : /\ http_get_mime_type(Data(name, ".txt")) = "text/plain"
                /\ http_get_mime_type(Data(name, ".json")) = "application/json"
  <2>1. \A name, extension : Len(Data(name, extension)) = 4 /\ Data(name, extension)[4] = extension
    BY DEF Data
  <2>. QED BY <2>1 DEF http_get_mime_type
<1>3. \A name : http_get_mime_type(Page(name, ".html")) = "text/html"
  <2>1. \A name, extension : Len(Page(name, extension)) = 3 /\ Page(name, extension)[3] = extension
    BY DEF Page
  <2>. QED BY <2>1 DEF http_get_mime_type
<1>4. \A path : path[Len(path)] \in DOMAIN TypeOf =>
         http_get_mime_type(path) = TypeOf[path[Len(path)]]
  BY DEF http_get_mime_type, TypeOf
<1>. QED BY <1>1, <1>2, <1>3, <1>4

LEMMA PathsDiffer ==
  /\ \A service : Contains(ApiPath(service), "api") /\ ~Contains(Root, "api")
  /\ \A name, extension : Contains(Page(name, extension), "api") => "api" \in {name, extension}
  /\ \A name, extension, word :
        Contains(Page(name, extension), word) <=> word \in {"/", name, extension}
  /\ \A name \in {"index", "404", "501"} : Page(name, ".html") \in Seq(STRING) \ {<<>>, Root}
  /\ \A path : IsSearch(path) => Contains(path, "api") /\ Contains(path, "search?")
  /\ \A service \in {"check", "list"} :
        ~IsSearch(ApiPath(service)) /\ ~Contains(ApiPath(service), "search?")
  /\ ApiPath("check") # ApiPath("list") /\ ApiPath("echo") # ApiPath("upload")
<1>1. \A service : Contains(ApiPath(service), "api")
  <2>1. \A service : 2 \in DOMAIN ApiPath(service) /\ ApiPath(service)[2] = "api"
    BY DEF ApiPath
  <2>. QED BY <2>1 DEF Contains
<1>2. ~Contains(Root, "api")
  BY DEF Contains, Root
<1>3. \A name, extension, word :
         Contains(Page(name, extension), word) <=> word \in {"/", name, extension}
  <2>1. \A name, extension :
           /\ DOMAIN Page(name, extension) = 1..3 /\ Page(name, extension)[1] = "/"
           /\ Page(name, extension)[2] = name /\ Page(name, extension)[3] = extension
    BY DEF Page
  <2>2. 1..3 = {1, 2, 3}
    OBVIOUS
  <2>. QED BY <2>1, <2>2 DEF Contains
<1>4. \A name \in {"index", "404", "501"} : Page(name, ".html") \in Seq(STRING) \ {<<>>, Root}
  BY PathsAssumption
<1>5. \A path : IsSearch(path) => Contains(path, "api") /\ Contains(path, "search?")
  <2>1. \A id, name : /\ DOMAIN SearchPath(id, name) = 1..8
                      /\ SearchPath(id, name)[2] = "api" /\ SearchPath(id, name)[4] = "search?"
    BY DEF SearchPath
  <2>. QED BY <2>1 DEF IsSearch, Contains
<1>6. \A service \in {"check", "list"} :
         ~IsSearch(ApiPath(service)) /\ ~Contains(ApiPath(service), "search?")
  <2>1. \A service : Len(ApiPath(service)) = 4
    BY DEF ApiPath
  <2>2. \A service \in {"check", "list"} : ~Contains(ApiPath(service), "search?")
    BY DEF ApiPath, Contains
  <2>. QED BY <2>1, <2>2 DEF IsSearch
<1>7. ApiPath("check") # ApiPath("list") /\ ApiPath("echo") # ApiPath("upload")
  BY DEF ApiPath
<1>. QED BY <1>1, <1>2, <1>3, <1>4, <1>5, <1>6, <1>7

LEMMA ErrorPageAsDocumented == ErrorPage = NotFoundPage
<1>1. Page("404", ".html") \in Seq(STRING) \ {<<>>}
  BY PathsDiffer
<1>. QED BY <1>1, MimeTypes DEF ErrorPage, NotFoundPage, StaticPage, WithFile, echo_back

(* A path of the documented form matches from its "?" on. *)
LEMMA SearchAsDocumented ==
  ASSUME NEW path, IsSearch(path)
  PROVE  /\ turn_to_api(path) = search(path[6], path[8])
         /\ search(path[6], path[8]) =
               IF <<path[6], path[8]>> \in Objects
               THEN WithData("application/json", <<path[6], path[8]>>)
               ELSE WithFile(404, "application/json", Data("not_found", ".json"))
<1>1. /\ DOMAIN path = 1..8 /\ path[1] = "/" /\ path[2] = "api" /\ path[3] = "/"
      /\ path[4] = "search?" /\ path[5] = "id=" /\ path[6] \in Numbers
      /\ path[7] = "&name=" /\ path[8] \in Names
  BY DEF IsSearch, SearchPath
<1>2. Queries(path) = {4}
  <2>1. 4 \in Queries(path)
    BY <1>1 DEF Queries
  <2>2. ASSUME NEW i \in Queries(path) PROVE i = 4
    <3>1. i \in 1..8 /\ i + 4 \in 1..8 /\ path[i] \in {"search?", "?"}
      BY <1>1 DEF Queries
    <3>2. i \in {1, 2, 3, 4}
      BY <3>1
    <3>. QED BY <3>1, <3>2, <1>1
  <2>. QED BY <2>1, <2>2
<1>3. FirstQuery(path) = 4
  BY <1>2 DEF FirstQuery
<1>4. turn_to_api(path) = search(path[6], path[8])
  <2>1. path # ApiPath("check") /\ path # ApiPath("list") /\ Contains(path, "search?")
    BY PathsDiffer
  <2>. QED BY <2>1, <1>2, <1>3 DEF turn_to_api
<1>5. search(path[6], path[8]) =
         IF <<path[6], path[8]>> \in Objects
         THEN WithData("application/json", <<path[6], path[8]>>)
         ELSE WithFile(404, "application/json", Data("not_found", ".json"))
  <2>1. <<path[6], path[8]>> \in Objects
           <=> path[6] \in DOMAIN id_map_name /\ id_map_name[path[6]] = path[8]
    BY DEF Objects, id_map_name
  <2>. QED BY <2>1, MimeTypes DEF search, FromMemory, WithData, WithFile, echo_back
<1>. QED BY <1>4, <1>5

LEMMA GetAsDocumented ==
  ASSUME NEW path \in Seq(STRING) \ {<<>>}, ~ContradictedGet(path)
  PROVE  get_method(path) = DocumentedGet(path)
<1>1. /\ \A page \in OwnPages : ~Contains(page, "api")
      /\ OwnPages \ {Root} \subseteq StaticFiles
      /\ Root \notin StaticFiles \cup Directories
  <2>1. \A name \in {"index", "404", "501"} : ~Contains(Page(name, ".html"), "api")
    BY PathsDiffer
  <2>2. ~Contains(Root, "api")
    BY PathsDiffer
  <2>. QED BY <2>1, <2>2, PathsAssumption DEF OwnPages
<1>2. path \notin Directories
  BY DEF ContradictedGet
<1>3. \A service : ApiPath(service) = path => Contains(path, "api")
  BY PathsDiffer
<1>4. IsSearch(path) => Contains(path, "api")
  BY PathsDiffer
<1>5. CASE Contains(path, "api")
  <2>1. path \notin OwnPages /\ path \notin StaticFiles \ OwnPages
    BY <1>1, <1>5 DEF ContradictedGet
  <2>2. get_method(path) = turn_to_api(path)
    BY <2>1, <1>5 DEF get_method, OwnPages
  <2>3. CASE path = ApiPath("check")
    <3>1. turn_to_api(path) = echo_back(200, Data("data", ".txt"))
      BY <2>3, PathsDiffer DEF turn_to_api
    <3>2. DocumentedGet(path) = WithFile(200, "text/plain", Data("data", ".txt"))
      BY <2>1, <2>3, PathsDiffer DEF DocumentedGet, OwnPages
    <3>. QED BY <2>2, <3>1, <3>2, MimeTypes DEF echo_back, WithFile
  <2>4. CASE path = ApiPath("list")
    <3>1. turn_to_api(path) = echo_back(200, Data("data", ".json"))
      BY <2>4, PathsDiffer DEF turn_to_api
    <3>2. DocumentedGet(path) = WithFile(200, "application/json", Data("data", ".json"))
      BY <2>1, <2>4, PathsDiffer DEF DocumentedGet, OwnPages
    <3>. QED BY <2>2, <3>1, <3>2, MimeTypes DEF echo_back, WithFile
  <2>5. CASE IsSearch(path)
    <3>1. path # ApiPath("check") /\ path # ApiPath("list")
      BY <2>5, PathsDiffer
    <3>2. DocumentedGet(path) =
             IF <<path[6], path[8]>> \in Objects
             THEN WithData("application/json", <<path[6], path[8]>>)
             ELSE WithFile(404, "application/json", Data("not_found", ".json"))
      BY <2>1, <2>5, <3>1 DEF DocumentedGet, OwnPages
    <3>. QED BY <2>2, <2>5, <3>2, SearchAsDocumented
  <2>6. CASE path # ApiPath("check") /\ path # ApiPath("list") /\ ~IsSearch(path)
    <3>1. ~(Contains(path, "search?") /\ Queries(path) # {})
      BY <2>6 DEF ContradictedGet
    <3>2. turn_to_api(path) = ErrorPage
      BY <2>6, <3>1 DEF turn_to_api
    <3>3. DocumentedGet(path) = NotFoundPage
      BY <2>1, <2>6 DEF DocumentedGet, OwnPages
    <3>. QED BY <2>2, <3>2, <3>3, ErrorPageAsDocumented
  <2>. QED BY <2>3, <2>4, <2>5, <2>6
<1>6. CASE path = Root
  <2>1. get_method(path) = echo_back(200, Static(Page("index", ".html")))
    BY <1>1, <1>6, PathsDiffer DEF get_method
  <2>2. \A name \in {"404", "501"} : path # Page(name, ".html")
    BY <1>6, PathsDiffer
  <2>3. DocumentedGet(path) = StaticPage(200, "index")
    BY <1>1, <1>3, <1>4, <1>6, <2>2, PathsDiffer DEF DocumentedGet
  <2>4. Page("index", ".html") \in Seq(STRING) \ {<<>>}
    BY PathsDiffer
  <2>. QED BY <2>1, <2>3, <2>4, MimeTypes DEF echo_back, StaticPage, WithFile
<1>7. CASE path \in StaticFiles /\ ~Contains(path, "api")
  <2>1. path # Root
    BY <1>1, <1>7
  <2>2. get_method(path) = echo_back(get_status_of_the_file(path), Static(path))
    BY <1>2, <1>7, <2>1 DEF get_method
  <2>3. CASE path \in OwnPages
    <3>1. PICK name \in {"index", "404", "501"} : path = Page(name, ".html")
      BY <2>1, <2>3 DEF OwnPages
    <3>2. \A word \in {"404", "403", "501", "502"} : Contains(path, word) <=> word = name
      <4>1. \A word : Contains(path, word) <=> word \in {"/", name, ".html"}
        BY <3>1, PathsDiffer
      <4>. QED BY <4>1
    <3>3. get_status_of_the_file(path)
             = CASE name = "index" -> 200 [] name = "404" -> 404 [] name = "501" -> 501
      BY <3>1, <3>2 DEF get_status_of_the_file
    <3>4. \A other : Page(other, ".html") = path => other = name
      BY <3>1 DEF Page
    <3>5. DocumentedGet(path)
             = StaticPage(CASE name = "index" -> 200 [] name = "404" -> 404 [] name = "501" -> 501,
                          name)
      BY <3>1, <3>4, <2>1, <2>3, <1>3, <1>4, <1>7 DEF DocumentedGet, NotFoundPage
    <3>6. http_get_mime_type(Static(path)) = "text/html"
      BY <3>1, MimeTypes
    <3>. QED BY <2>2, <3>1, <3>3, <3>5, <3>6 DEF echo_back, StaticPage, WithFile
  <2>4. CASE path \notin OwnPages
    <3>1. /\ \A word \in {"404", "403", "501", "502"} : ~Contains(path, word)
          /\ Extension(path) \in DOMAIN TypeOf
      BY <2>4, <1>7 DEF ContradictedGet
    <3>2. get_status_of_the_file(path) = 200
      BY <3>1 DEF get_status_of_the_file
    <3>3. http_get_mime_type(Static(path)) = TypeOf[Extension(path)]
      BY <3>1, MimeTypes DEF Extension
    <3>4. DocumentedGet(path) = WithFile(200, TypeOf[Extension(path)], Static(path))
      BY <3>1, <2>4, <1>3, <1>4, <1>7 DEF DocumentedGet, OwnPages
    <3>. QED BY <2>2, <3>2, <3>3, <3>4 DEF echo_back, WithFile
  <2>. QED BY <2>3, <2>4
<1>8. CASE path \notin StaticFiles /\ path # Root /\ ~Contains(path, "api")
  <2>1. get_method(path) = ErrorPage
    BY <1>2, <1>8 DEF get_method
  <2>2. path \notin OwnPages
    BY <1>1, <1>8
  <2>3. DocumentedGet(path) = NotFoundPage
    BY <2>2, <1>3, <1>4, <1>8 DEF DocumentedGet, OwnPages
  <2>. QED BY <2>1, <2>3, ErrorPageAsDocumented
<1>. QED BY <1>5, <1>6, <1>7, <1>8

LEMMA PostAsDocumented ==
  ASSUME NEW path, NEW type, NEW content, ~ContradictedPost(path, type, content)
  PROVE  post_method(path, type, content) = DocumentedPost(path, content)
<1>0. ApiPath("echo") # ApiPath("upload")
  BY PathsDiffer
<1>1. CASE path = ApiPath("echo") /\ content \in Matching
  <2>1. content \in WellFormed /\ type = Form
    BY <1>1 DEF ContradictedPost
  <2>. QED BY <1>0, <1>1, <2>1 DEF post_method, DocumentedPost, FromMemory, WithData
<1>2. CASE path = ApiPath("echo") /\ content \notin Matching
  <2>1. content \notin WellFormed
    BY <1>2, ContentsAssumption
  <2>2. post_method(path, type, content) = echo_back(404, Data("error", ".txt"))
    BY <1>0, <1>2 DEF post_method
  <2>3. DocumentedPost(path, content) = WithFile(404, "text/plain", Data("error", ".txt"))
    BY <1>0, <1>2, <2>1 DEF DocumentedPost
  <2>. QED BY <2>2, <2>3, MimeTypes DEF echo_back, WithFile
<1>3. CASE path = ApiPath("upload")
  <2>1. content \in WellFormedUploads
    BY <1>3 DEF ContradictedPost
  <2>. QED BY <1>0, <1>3, <2>1 DEF post_method, DocumentedPost, FromMemory, WithData
<1>4. CASE path # ApiPath("echo") /\ path # ApiPath("upload")
  BY <1>4, ErrorPageAsDocumented DEF post_method, DocumentedPost
<1>. QED BY <1>1, <1>2, <1>3, <1>4

(* 403.html and 502.html are served with the status of their names, and malformed data are
   uploaded, where the README documents 200 for the pages (its section 3.7.1) and error.json
   for the data (3.7.3): get_status_of_the_file (libget.c:32-45) looks for the numbers in
   every name, and post_method (libpost.c:41-43) checks nothing. *)
THEOREM HttpReadmeIsContradicted ==
  /\ \A name \in {"403", "502"} :
        Page(name, ".html") \in StaticFiles =>
            /\ get_method(Page(name, ".html")).status = (IF name = "403" THEN 403 ELSE 502)
            /\ DocumentedGet(Page(name, ".html")).status = 200
  /\ \A type \in Types, content \in Contents \ WellFormedUploads :
        /\ post_method(ApiPath("upload"), type, content).status = 200
        /\ DocumentedPost(ApiPath("upload"), content).status = 404
<1>1. ASSUME NEW name \in {"403", "502"}, Page(name, ".html") \in StaticFiles
      PROVE  /\ get_method(Page(name, ".html")).status = (IF name = "403" THEN 403 ELSE 502)
             /\ DocumentedGet(Page(name, ".html")).status = 200
  <2> DEFINE path == Page(name, ".html")
  <2>1. \A word : Contains(path, word) <=> word \in {"/", name, ".html"}
    BY PathsDiffer
  <2>2. /\ DOMAIN path = 1..3 /\ path[2] = name /\ Extension(path) = ".html"
        /\ path \notin OwnPages
    BY DEF Page, OwnPages, Root, Extension
  <2> HIDE DEF path
  <2>3. ~Contains(path, "api") /\ \A service : path # ApiPath(service)
    BY <2>1, PathsDiffer
  <2>4. path # Root /\ ~IsSearch(path) /\ path \in StaticFiles
    BY <1>1, <2>2, <2>3, PathsDiffer DEF OwnPages, path
  <2>5. get_method(path) = echo_back(get_status_of_the_file(path), Static(path))
    BY <2>3, <2>4 DEF get_method
  <2>6. get_status_of_the_file(path) = IF name = "403" THEN 403 ELSE 502
    BY <2>1 DEF get_status_of_the_file
  <2>7. DocumentedGet(path) = WithFile(200, TypeOf[".html"], Static(path))
    BY <2>2, <2>3, <2>4 DEF DocumentedGet, OwnPages, TypeOf
  <2>. QED BY <2>5, <2>6, <2>7 DEF echo_back, WithFile, path
<1>2. ASSUME NEW type \in Types, NEW content \in Contents \ WellFormedUploads
      PROVE  /\ post_method(ApiPath("upload"), type, content).status = 200
             /\ DocumentedPost(ApiPath("upload"), content).status = 404
  BY PathsDiffer DEF post_method, DocumentedPost, FromMemory, WithFile
<1>. QED BY <1>1, <1>2

-----------------------------------------------------------------------------
(* What is pending for a read of its own is, one after the other, what the README
   documents. *)
RightOutcome(outcome, request) ==
    Contradicted(request) \/ outcome.answer = Documented(request)

LEMMA PendingRight ==
  ASSUME NEW requests \in Seq(Requests), Alone(requests),
         NEW pending \in Pending(requests, {})
  PROVE  /\ Len(pending) = Len(requests)
         /\ \A i \in 1..Len(requests) : RightOutcome(pending[i], requests[i])
<1>1. ParsedAsOne(requests, {}) <=> Mentioned(TextsOf(requests), "POST")
  BY DEF ParsedAsOne
<1>2. CASE requests = <<>>
  <2>1. pending = <<>>
    BY <1>2 DEF Pending
  <2>. QED BY <1>2, <2>1
<1>3. CASE requests # <<>> /\ Mentioned(TextsOf(requests), "POST")
  <2>1. Len(requests) = 1
    <3>1. Len(requests) <= 1
      BY <1>3 DEF Alone
    <3>2. PICK n \in Nat : n = Len(requests)
      OBVIOUS
    <3>3. n # 0
      BY <3>2, <1>3
    <3>4. n <= 1
      BY <3>1, <3>2
    <3>5. n = 1
      BY <3>3, <3>4
    <3>. QED BY <3>2, <3>5
  <2>2. PICK request \in Requests : request = requests[1] /\ request = Head(requests)
    BY <2>1
  <2>3. TextsOf(requests) = {request}
    BY <2>1, <2>2 DEF TextsOf
  <2>4. PICK outcome \in AsOne(requests, {}) : pending = <<outcome>>
    BY <1>1, <1>3 DEF Pending
  <2>5. Mentions(request, "POST")
    BY <1>3, <2>3 DEF Mentioned
  <2>6. RightOutcome(outcome, request)
    <3> SUFFICES ASSUME ~Contradicted(request) PROVE outcome.answer = Documented(request)
      BY DEF RightOutcome
    <3>1. request.method = "POST"
      BY <2>5 DEF Mentions, Contradicted, ContradictedGet
    <3>2. /\ ~ContradictedPost(request.path, request.type, request.content)
          /\ request.type # NoType /\ ~Mentions(request, "GET")
      BY <3>1 DEF Contradicted, ContradictedPost, Mentions
    <3>3. ~Mentioned(TextsOf(requests) \cup {}, "GET")
      BY <2>3, <3>2 DEF Mentioned
    <3>4. AsOne(requests, {}) = {ByPost(request.path, request.type, request.content)}
      BY <2>2, <3>2, <3>3 DEF AsOne
    <3>5. outcome.answer = post_method(request.path, request.type, request.content)
      BY <2>4, <3>4 DEF ByPost, Outcome
    <3>6. Documented(request) = DocumentedPost(request.path, request.content)
      BY <3>1 DEF Documented
    <3>. QED BY <3>2, <3>5, <3>6, PostAsDocumented
  <2>. QED BY <2>1, <2>2, <2>4, <2>6
<1>4. CASE requests # <<>> /\ ~Mentioned(TextsOf(requests), "POST")
  <2>1. pending = OneByOne(requests)
    BY <1>1, <1>4 DEF Pending
  <2>2. Len(pending) = Len(requests)
    BY <2>1, OneByOneTypes
  <2>3. ASSUME NEW i \in 1..Len(requests) PROVE RightOutcome(pending[i], requests[i])
    <3> SUFFICES ASSUME ~Contradicted(requests[i])
                 PROVE  pending[i].answer = Documented(requests[i])
      BY DEF RightOutcome
    <3>1. requests[i] \in Requests /\ ~Mentions(requests[i], "POST") /\ i \in DOMAIN requests
      BY <1>4 DEF Mentioned, TextsOf
    <3>2. /\ requests[i].method = "GET" /\ ~ContradictedGet(requests[i].path)
          /\ Mentions(requests[i], "GET")
      BY <3>1 DEF Mentions, Contradicted
    <3>3. pending[i] = ByGet(requests[i].path)
      BY <2>1, <3>1, <3>2 DEF OneByOne
    <3>4. pending[i].answer = get_method(requests[i].path)
      BY <3>3 DEF ByGet, Outcome
    <3>5. requests[i].path \in Seq(STRING) \ {<<>>}
      BY <3>1, RequestsAssumption
    <3>6. Documented(requests[i]) = DocumentedGet(requests[i].path)
      BY <3>2 DEF Documented
    <3>. QED BY <3>2, <3>4, <3>5, <3>6, GetAsDocumented
  <2>. QED BY <2>2, <2>3
<1>. QED BY <1>2, <1>3, <1>4

-----------------------------------------------------------------------------
(* What a client has sent and not yet read is a prefix of its plan, and so is what the one
   read returned; a thread has the rest of it pending; and the parts that arrived are those
   of the first requests, or of the single answer that a POST among them leaves. *)
IsPrefixOfPlan(requests, c) ==
    Len(requests) <= Len(plan[c]) /\ \A i \in 1..Len(requests) : requests[i] = plan[c][i]

InboxOrdered(c) ==
    /\ sent[c] <= Len(plan[c])
    /\ taken[c] = <<>> => Len(inbox[c]) = sent[c] /\ IsPrefixOfPlan(inbox[c], c)

Rest(pending, requests) ==
    LET n == Len(requests) - Len(pending)
    IN /\ n >= 0
       /\ \A i \in 1..Len(pending) : RightOutcome(pending[i], requests[n + i])

RestPending(t) ==
    LET c == fdOf[Fd(t)]
    IN thread[t].pc \notin {"start", "read"} /\ c \notin confused /\ Alone(taken[c]) =>
          Rest(thread[t].pending, taken[c])

RightPart(part, i, requests, alone) ==
    IF alone
    THEN LET n == (i + 1) \div 2
         IN /\ n \in DOMAIN requests
            /\ Contradicted(requests[n]) \/ IsPart(part, i, Documented(requests[n]))
    ELSE i <= 2

PartsOrdered(c) ==
    c \notin confused =>
        \A i \in DOMAIN got[c] : RightPart(got[c][i], i, plan[c], Alone(taken[c]))

ClientOrdered(c) == InboxOrdered(c) /\ IsPrefixOfPlan(taken[c], c) /\ PartsOrdered(c)

Ordered ==
    /\ \A c \in Clients : ClientOrdered(c)
    /\ \A t \in Live : RestPending(t)

LEMMA OrderIsKept ==
  ASSUME NEW c \in Clients, ClientOrdered(c), plan' = plan, c \in confused' <=> c \in confused,
         sent'[c] = sent[c], inbox'[c] = inbox[c], taken'[c] = taken[c], got'[c] = got[c]
  PROVE  ClientOrdered(c)'
BY DEF ClientOrdered, InboxOrdered, IsPrefixOfPlan, PartsOrdered

LEMMA RestIsKept ==
  ASSUME NEW t, RestPending(t), thread'[t] = thread[t], fdOf'[Fd(t)'] = fdOf[Fd(t)],
         fdOf[Fd(t)] \in confused' <=> fdOf[Fd(t)] \in confused,
         taken'[fdOf[Fd(t)]] = taken[fdOf[Fd(t)]]
  PROVE  RestPending(t)'
BY DEF RestPending

LEMMA OrderedAnswers ==
  ASSUME Ordered
  PROVE  AnswersInOrder
<1> SUFFICES ASSUME NEW c \in Clients \ confused, NEW i \in DOMAIN got[c]
             PROVE  IF Alone(taken[c])
                    THEN LET n == (i + 1) \div 2
                         IN /\ n \in DOMAIN plan[c]
                            /\ Contradicted(plan[c][n])
                               \/ IsPart(got[c][i], i, Documented(plan[c][n]))
                    ELSE i <= 2
  BY DEF AnswersInOrder
<1>. QED BY DEF Ordered, ClientOrdered, PartsOrdered, RightPart

(* A part of an answer that is documented is a part of what is documented. *)
LEMMA PartFits ==
  ASSUME NEW answer, NEW cut \in BOOLEAN, cut => answer.file,
         NEW i \in Nat
  PROVE  /\ i % 2 = 1 => IsPart(Headers(answer, cut), i, answer)
         /\ i % 2 = 0 => IsPart(Body(answer, cut), i, answer)
BY DEF IsPart, Is, Headers, Body

-----------------------------------------------------------------------------
(* The steps of a thread that are no more than that keep what the others have. *)
LEMMA StepKeepsOrder ==
  ASSUME IInv, Progress, Ordered, NEW t, \E r : FileMoves(t, r), ServesOnly(t),
         NEW c \in Clients, c = fdOf[Fd(t)], UNCHANGED <<plan, sent>>,
         \A d \in Clients : d # c => inbox'[d] = inbox[d],
         ClientOrdered(c)', RestPending(t)'
  PROVE  Ordered'
<1> USE ClientsAssumption, FreeIsNone
<1>1. PICK r : FileMoves(t, r)
  OBVIOUS
<1>2. /\ DOMAIN thread' = DOMAIN thread /\ t \in DOMAIN thread
      /\ \A s \in DOMAIN thread : s # t => thread'[s] = thread[s]
      /\ thread'[t] = r /\ r.cell = thread[t].cell
  BY <1>1, OnlyOneBecomes DEF IInv, FileMoves, Becomes
<1>3. Live' = Live /\ t \in Live
  BY <1>1, <1>2 DEF Live, FileMoves
<1>4. \A s \in Live : /\ Fd(s)' = Fd(s) /\ Fd(s) \in Fds /\ fdOf[Fd(s)] \in Clients
                      /\ s # t => Fd(s) # Fd(t)
  BY <1>1, <1>2, <1>3 DEF Fd, FileMoves, IInv, Owned, CellsHold, NothingShared, Live
<1>5. thread[t].file # Free => fdOf[thread[t].file] = File
  BY <1>2 DEF IInv, Owned, FilesHold
<1>6. \A fd \in Fds : fdOf[fd] \in Clients => fdOf'[fd] = fdOf[fd]
  BY <1>1, <1>5 DEF FileMoves
<1>7. \A s \in Live : s # t => fdOf[Fd(s)] # c
  BY <1>3, <1>4 DEF Progress, OneEach
<1>8. \A d \in Clients :
          d # c => taken'[d] = taken[d] /\ got'[d] = got[d] /\ (d \in confused' <=> d \in confused)
  BY DEF ServesOnly
<1>9. ASSUME NEW d \in Clients PROVE ClientOrdered(d)'
  <2>1. CASE d = c
    BY <2>1
  <2>2. CASE d # c
    <3>1. ClientOrdered(d) /\ plan' = plan /\ sent'[d] = sent[d] /\ inbox'[d] = inbox[d]
      BY <2>2 DEF Ordered
    <3>. QED BY <3>1, <2>2, <1>8, OrderIsKept
  <2>. QED BY <2>1, <2>2
<1>10. ASSUME NEW s \in Live, s # t PROVE RestPending(s)'
  <2>1. /\ thread'[s] = thread[s] /\ Fd(s)' = Fd(s) /\ fdOf'[Fd(s)] = fdOf[Fd(s)]
        /\ fdOf[Fd(s)] \in Clients /\ fdOf[Fd(s)] # c
    BY <1>2, <1>4, <1>6, <1>7, <1>10 DEF Live
  <2>2. RestPending(s)
    BY DEF Ordered
  <2>. QED BY <2>1, <2>2, <1>8, RestIsKept
<1>. QED BY <1>3, <1>9, <1>10 DEF Ordered

LEMMA NextPart ==
  ASSUME NEW c \in Clients \ confused, got[c] \in Seq(Parts), PartsOrdered(c),
         plan' = plan, taken' = taken,
         NEW i \in Nat, i = Len(got[c]) + 1,
         NEW part, RightPart(part, i, plan[c], Alone(taken[c])),
         got'[c] = Append(got[c], part)
  PROVE  PartsOrdered(c)'
<1> SUFFICES ASSUME NEW j \in DOMAIN got'[c]
             PROVE  RightPart(got'[c][j], j, plan[c], Alone(taken[c]))
  BY DEF PartsOrdered
<1>1. /\ DOMAIN got'[c] = DOMAIN got[c] \cup {i}
      /\ \A k \in DOMAIN got[c] : got'[c][k] = got[c][k]
      /\ got'[c][i] = part
  OBVIOUS
<1>2. CASE j \in DOMAIN got[c]
  BY <1>1, <1>2 DEF PartsOrdered
<1>3. CASE j = i
  BY <1>1, <1>3
<1>. QED BY <1>1, <1>2, <1>3

LEMMA StepsOrder ==
  ASSUME IInv, Progress, Ordered, NEW t,
         \/ Start(t) \/ Read(t) \/ MeasureFile(t) \/ ReadFile(t)
         \/ WriteHeaders(t) \/ WriteBody(t)
  PROVE  Ordered'
<1> USE ClientsAssumption, FreeIsNone
<1>1. /\ t \in DOMAIN thread /\ t \in Live /\ thread[t] \in ThreadRecords
      /\ thread[t].pending \in Seq(Outcomes)
  BY Fields
  DEF Start, Read, MeasureFile, ReadFile, OpenFile, WriteHeaders, WriteBody,
      Answering, At, Live, IInv
<1>2. Fd(t) \in Fds /\ fdOf[Fd(t)] \in Clients /\ AnsweredSoFar(t) /\ RestPending(t)
  BY <1>1 DEF IInv, Owned, CellsHold, Progress, Ordered
<1>3. PICK r : FileMoves(t, r)
  BY StartMoves, ReadMoves, OpenMoves, WriteMoves
<1>4. cell' = cell /\ Fd(t)' = Fd(t)
  BY <1>3, OnlyOneBecomes DEF FileMoves, Becomes, Fd, IInv
<1>5. fdOf'[Fd(t)] = fdOf[Fd(t)]
  BY <1>1, <1>2, <1>3 DEF FileMoves, IInv, Owned, FilesHold
<1>c. PICK c \in Clients : c = fdOf[Fd(t)]
  BY <1>2
<1>6. thread[t].pc # "start" => Client(t) = c
  BY <1>1, <1>c DEF Client, IInv, Owned, CellsHold
<1>7. /\ taken[c] \in Seq(Requests) /\ got[c] \in Seq(Parts)
      /\ inbox[c] \in Seq(Requests) /\ plan[c] \in Seq(Requests) /\ sent[c] \in Nat
  BY DEF IInv, TypeOK
<1>8. /\ thread[t].pc \in {"start", "read"} => Fresh(c)
      /\ thread[t].pc \notin {"start", "read"} /\ Waits(c) =>
            Len(got[c]) = 2 * (Due(taken[c]) - Len(thread[t].pending)) + Parted(thread[t].pc)
  BY <1>2, <1>c DEF AnsweredSoFar
<1>p. Parted("answer") = 0 /\ Parted("headers") = 0 /\ Parted("open") = 1 /\ Parted("body") = 1
  BY DEF Parted
<1>9. ClientOrdered(c)
  BY DEF Ordered
<1>10. ServesOnly(t)
  BY StepsServe
<1>r. thread[t].pc \notin {"start", "read"} /\ c \notin confused /\ Alone(taken[c]) =>
          Rest(thread[t].pending, taken[c])
  BY <1>2, <1>c DEF RestPending
<1>s. ASSUME thread'[t].pc \notin {"start", "read"} /\ c \notin confused' /\ Alone(taken'[c]) =>
                Rest(thread'[t].pending, taken'[c])
      PROVE  RestPending(t)'
  BY <1>s, <1>4, <1>5, <1>c DEF RestPending
<1>q. ASSUME UNCHANGED <<plan, sent>>, \A d \in Clients : d # c => inbox'[d] = inbox[d],
             ClientOrdered(c)', RestPending(t)'
      PROVE  Ordered'
  BY <1>q, <1>3, <1>10, <1>c, StepKeepsOrder
<1>11. CASE Start(t)
  <2>1. thread'[t].pc = "read" /\ UNCHANGED <<plan, sent, inbox, taken, got, confused>>
    <3>1. PICK buffer :
              thread' = [thread EXCEPT ![t].pc = "read", ![t].fd = cell[thread[t].cell],
                                       ![t].buffer = buffer]
      BY <1>11 DEF Start
    <3>2. thread'[t].pc = "read"
      BY <3>1, <1>1, Fields DEF ThreadRecords, IInv
    <3>. QED BY <3>2, <1>11 DEF Start, clients, heard
  <2>2. RestPending(t)'
    BY <2>1, <1>s
  <2>3. ClientOrdered(c)'
    BY <2>1, <1>9, OrderIsKept
  <2>. QED BY <2>1, <2>2, <2>3, <1>q
<1>12. CASE Read(t)
  <2>1. /\ thread[t].pc = "read" /\ UNCHANGED <<plan, sent, got>>
        /\ taken' = [taken EXCEPT ![c] = inbox[c]] /\ inbox' = [inbox EXCEPT ![c] = <<>>]
    BY <1>6, <1>12 DEF Read, At
  <2>2. /\ taken'[c] = inbox[c] /\ inbox'[c] = <<>>
        /\ \A d \in Clients : d # c => inbox'[d] = inbox[d]
    BY <2>1 DEF IInv, TypeOK
  <2>3. taken[c] = <<>> /\ got[c] = <<>>
    BY <2>1, <1>8 DEF Fresh
  <2>4. sent[c] <= Len(plan[c]) /\ Len(inbox[c]) = sent[c] /\ IsPrefixOfPlan(inbox[c], c)
    BY <2>3, <1>9 DEF ClientOrdered, InboxOrdered
  <2>5. ClientOrdered(c)'
    <3>1. InboxOrdered(c)'
      BY <2>1, <2>2, <2>4, <1>7 DEF InboxOrdered, IsPrefixOfPlan
    <3>2. IsPrefixOfPlan(taken[c], c)'
      BY <2>1, <2>2, <2>4 DEF IsPrefixOfPlan
    <3>3. PartsOrdered(c)'
      BY <2>1, <2>3 DEF PartsOrdered
    <3>. QED BY <3>1, <3>2, <3>3 DEF ClientOrdered
  <2>6. RestPending(t)'
    <3>1. PICK seen \in SUBSET thread[t].buffer : \E pending \in Pending(inbox[c], seen) :
              /\ thread' = [thread EXCEPT
                               ![t].pc = "answer", ![t].pending = pending,
                               ![t].buffer = Kept(inbox[c], seen, @)]
              /\ confused' = IF seen = {} THEN confused ELSE confused \cup {c}
      BY <2>1, <1>6, <1>12 DEF Read
    <3>2. PICK pending \in Pending(inbox[c], seen) :
              thread' = [thread EXCEPT
                            ![t].pc = "answer", ![t].pending = pending,
                            ![t].buffer = Kept(inbox[c], seen, @)]
      BY <3>1
    <3>3. thread'[t].pending = pending
      BY <3>2, <1>1 DEF ThreadRecords
    <3>4. ASSUME c \notin confused', Alone(inbox[c]) PROVE Rest(pending, inbox[c])
      <4>1. seen = {}
        BY <3>1, <3>4
      <4>2. /\ Len(pending) = Len(inbox[c]) /\ Len(inbox[c]) \in Nat
            /\ \A i \in 1..Len(inbox[c]) : RightOutcome(pending[i], inbox[c][i])
        BY <3>2, <3>4, <4>1, <1>7, PendingRight
      <4>3. Len(inbox[c]) - Len(pending) = 0
        BY <4>2
      <4>4. \A i \in 1..Len(pending) : RightOutcome(pending[i], inbox[c][0 + i])
        <5> SUFFICES ASSUME NEW i \in 1..Len(pending)
                     PROVE  RightOutcome(pending[i], inbox[c][0 + i])
          OBVIOUS
        <5>1. 0 + i = i
          BY <4>2
        <5>. QED BY <4>2, <5>1
      <4>5. PICK n \in Int : n = Len(inbox[c]) - Len(pending) /\ n = 0
        BY <4>3
      <4>6. n >= 0 /\ \A i \in 1..Len(pending) : RightOutcome(pending[i], inbox[c][n + i])
        BY <4>4, <4>5
      <4>. QED BY <4>5, <4>6 DEF Rest
    <3>. QED BY <2>2, <3>3, <3>4, <1>s
  <2>. QED BY <2>1, <2>2, <2>5, <2>6, <1>q
<1>13. CASE MeasureFile(t) \/ ReadFile(t)
  <2>1. /\ thread[t].pc \notin {"start", "read"} /\ thread'[t].pending = thread[t].pending
        /\ UNCHANGED <<plan, sent, inbox, taken, got, confused>>
    <3>1. PICK before, after :
              /\ <<before, after>> \in {<<"answer", "headers">>, <<"open", "body">>}
              /\ OpenFile(t, before, after)
      BY <1>13 DEF MeasureFile, ReadFile
    <3>2. PICK file : thread' = [thread EXCEPT ![t].pc = after, ![t].file = file]
      BY <3>1 DEF OpenFile
    <3>3. thread[t].pc = before /\ UNCHANGED <<plan, sent, inbox, taken, got, confused>>
      BY <3>1 DEF OpenFile, Answering, At, clients, heard
    <3>4. thread'[t].pending = thread[t].pending
      BY <3>2, <1>1, Fields DEF ThreadRecords, IInv
    <3>. QED BY <3>1, <3>3, <3>4
  <2>2. RestPending(t)'
    BY <2>1, <1>r, <1>s
  <2>3. ClientOrdered(c)'
    BY <2>1, <1>9, OrderIsKept
  <2>. QED BY <2>1, <2>2, <2>3, <1>q
<1>14. /\ Len(got[c]) \in Nat /\ Len(taken[c]) \in Nat /\ Len(thread[t].pending) \in Nat
       /\ Len(plan[c]) \in Nat /\ Due(taken[c]) \in Nat
  BY <1>1, <1>7 DEF Due
<1>n. ASSUME thread[t].pc \notin {"start", "read"}, thread[t].pending # <<>>,
             NEW part, UNCHANGED <<plan, sent, inbox, taken, confused>>,
             got'[c] = Append(got[c], part), Waits(c),
             \A request : \A i \in Nat :
                RightOutcome(Current(t), request)
                /\ i % 2 = (IF Parted(thread[t].pc) = 0 THEN 1 ELSE 0)
                    => Contradicted(request) \/ IsPart(part, i, Documented(request))
      PROVE  PartsOrdered(c)'
  <2>1. PICK i \in Nat : i = Len(got[c]) + 1
    BY <1>14
  <2>2. PICK m \in Nat : m = Len(thread[t].pending) /\ m >= 1
    BY <1>n, <1>1
  <2>3. PICK l \in Nat : l = Due(taken[c])
    BY <1>14
  <2>4. Parted(thread[t].pc) \in {0, 1}
    BY DEF Parted
  <2>5. i = 2 * (l - m) + Parted(thread[t].pc) + 1
    BY <1>n, <1>8, <2>1, <2>2, <2>3
  <2>6. CASE Alone(taken[c])
    <3>1. l = Len(taken[c])
      <4>1. CASE Mentioned(TextsOf(taken[c]), "POST")
        <5>1. Len(taken[c]) <= 1 /\ taken[c] # <<>>
          BY <2>6, <4>1 DEF Alone, Mentioned, TextsOf
        <5>2. Len(taken[c]) \in Nat /\ (Len(taken[c]) = 0 => taken[c] = <<>>)
          BY <1>7
        <5>3. Len(taken[c]) = 1
          <6>1. PICK n \in Nat : n = Len(taken[c])
            BY <5>2
          <6>2. n <= 1 /\ n # 0
            BY <5>1, <5>2, <6>1
          <6>3. n = 1
            BY <6>2
          <6>. QED BY <6>1, <6>3
        <5>. QED BY <5>3, <4>1, <2>3 DEF Due
      <4>2. CASE ~Mentioned(TextsOf(taken[c]), "POST")
        BY <4>2, <2>3 DEF Due
      <4>. QED BY <4>1, <4>2
    <3>2. PICK k \in Int : k = Len(taken[c]) - Len(thread[t].pending)
      <4>1. Len(taken[c]) - Len(thread[t].pending) \in Int
        BY <1>14
      <4>. QED BY <4>1
    <3>3. k >= 0 /\ RightOutcome(thread[t].pending[1], taken[c][k + 1]) /\ k = l - m
      <4>1. Rest(thread[t].pending, taken[c])
        BY <1>n, <1>r, <2>6 DEF Waits
      <4>2. 1 \in 1..Len(thread[t].pending)
        BY <2>2
      <4>. QED BY <4>1, <4>2, <3>1, <3>2, <2>2 DEF Rest
    <3>4. k + 1 <= Len(plan[c]) /\ taken[c][k + 1] = plan[c][k + 1] /\ k + 1 >= 1
      <4>1. Len(taken[c]) <= Len(plan[c])
            /\ \A j \in 1..Len(taken[c]) : taken[c][j] = plan[c][j]
        BY <1>9 DEF ClientOrdered, IsPrefixOfPlan
      <4>2. k + 1 \in 1..Len(taken[c])
        <5>1. k >= 0 /\ k + 1 <= l
          BY <3>3, <2>2, <2>3
        <5>. QED BY <5>1, <3>1
      <4>. QED BY <4>1, <4>2, <1>14
    <3>5. PICK n \in DOMAIN plan[c] : n = k + 1
      BY <3>4, <1>7, <1>14
    <3>6. (i + 1) \div 2 = n /\ i % 2 = IF Parted(thread[t].pc) = 0 THEN 1 ELSE 0
      <4>1. CASE Parted(thread[t].pc) = 0
        <5>1. i = 2 * k + 1
          BY <4>1, <2>5, <3>3
        <5>2. (i + 1) \div 2 = k + 1 /\ i % 2 = 1
          BY <5>1, <3>3
        <5>. QED BY <5>2, <4>1, <3>5
      <4>2. CASE Parted(thread[t].pc) = 1
        <5>1. i = 2 * k + 2
          BY <4>2, <2>5, <3>3
        <5>2. (i + 1) \div 2 = k + 1 /\ i % 2 = 0
          BY <5>1, <3>3
        <5>. QED BY <5>2, <4>2, <3>5
      <4>. QED BY <4>1, <4>2, <2>4
    <3>7. Current(t) = thread[t].pending[1] /\ taken[c][k + 1] = plan[c][n]
      BY <3>4, <3>5, <1>1, <1>n DEF Current
    <3>8. Contradicted(plan[c][n]) \/ IsPart(part, i, Documented(plan[c][n]))
      <4>1. RightOutcome(Current(t), plan[c][n])
        BY <3>3, <3>7
      <4>2. ASSUME NEW request, NEW j \in Nat, RightOutcome(Current(t), request),
                   j % 2 = (IF Parted(thread[t].pc) = 0 THEN 1 ELSE 0)
            PROVE  Contradicted(request) \/ IsPart(part, j, Documented(request))
        BY <4>2, <1>n
      <4>. QED BY <4>1, <4>2, <3>6
    <3>9. RightPart(part, i, plan[c], Alone(taken[c]))
      BY <3>6, <3>8, <2>6 DEF RightPart
    <3>. QED BY <3>9, <2>1, <1>n, <1>7, <1>9, NextPart DEF Waits, ClientOrdered
  <2>7. CASE ~Alone(taken[c])
    <3>1. l = 1
      BY <2>3, <2>7 DEF Alone, Due
    <3>2. i <= 2
      BY <3>1, <2>2, <2>4, <2>5
    <3>3. RightPart(part, i, plan[c], Alone(taken[c]))
      BY <3>2, <2>7 DEF RightPart
    <3>. QED BY <3>3, <2>1, <1>n, <1>7, <1>9, NextPart DEF Waits, ClientOrdered
  <2>. QED BY <2>6, <2>7
<1>d. ASSUME thread[t].pc \notin {"start", "read"}, thread[t].pending # <<>>,
             NEW part, Deliver(c, part), UNCHANGED <<plan, sent, inbox, taken, confused>>,
             \A request : \A i \in Nat :
                RightOutcome(Current(t), request)
                /\ i % 2 = (IF Parted(thread[t].pc) = 0 THEN 1 ELSE 0)
                    => Contradicted(request) \/ IsPart(part, i, Documented(request))
      PROVE  ClientOrdered(c)'
  <2>1. InboxOrdered(c)' /\ IsPrefixOfPlan(taken[c], c)'
    BY <1>d, <1>9 DEF ClientOrdered, InboxOrdered, IsPrefixOfPlan
  <2>2. got' = IF where[c] # "left" THEN [got EXCEPT ![c] = Append(got[c], part)] ELSE got
    BY <1>d DEF Deliver, Present
  <2>3. CASE where[c] = "left"
    BY <2>1, <2>2, <2>3, <1>d, <1>9 DEF ClientOrdered, PartsOrdered
  <2>4. CASE c \in confused
    BY <2>1, <2>4, <1>d DEF ClientOrdered, PartsOrdered
  <2>5. CASE Waits(c)
    <3>1. got'[c] = Append(got[c], part)
      BY <2>2, <2>5 DEF IInv, TypeOK, Waits
    <3>2. PartsOrdered(c)'
      BY <3>1, <2>5, <1>d, <1>n
    <3>. QED BY <2>1, <3>2 DEF ClientOrdered
  <2>. QED BY <2>3, <2>4, <2>5 DEF Waits
<1>v. thread[t].pending # <<>> => Current(t) \in Outcomes /\ (Cut(t) => Answer(t).file)
  BY <1>1 DEF Current, Cut
<1>o. ASSUME NEW request, RightOutcome(Current(t), request)
      PROVE  Contradicted(request) \/ Answer(t) = Documented(request)
  BY <1>o DEF RightOutcome, Answer
<1>b. thread[t].pending # <<>> => Cut(t) \in BOOLEAN
  BY <1>v, AnswersHaveFiles DEF Cut, Answer, Outcomes
<1>15. CASE WriteHeaders(t)
  <2>1. /\ thread[t].pc \in {"headers", "answer"} /\ thread[t].pending # <<>>
        /\ UNCHANGED <<plan, sent, inbox, taken, confused>>
        /\ Deliver(Client(t), Headers(Answer(t), Cut(t)))
    BY <1>15 DEF WriteHeaders, Answering, At, clients
  <2>2. thread'[t].pending = thread[t].pending
    BY <1>1, <1>15, Fields DEF WriteHeaders, ThreadRecords, IInv
  <2>3. Parted(thread[t].pc) = 0 /\ Client(t) = c
    BY <2>1, <1>6, <1>p
  <2>4. \A i \in Nat : i % 2 = 1 => IsPart(Headers(Answer(t), Cut(t)), i, Answer(t))
    BY <2>1, <1>v, <1>b, PartFits
  <2>6. ClientOrdered(c)'
    <3> DEFINE part == Headers(Answer(t), Cut(t))
    <3>1. ASSUME NEW request, NEW i \in Nat, RightOutcome(Current(t), request), i % 2 = 1
          PROVE  Contradicted(request) \/ IsPart(part, i, Documented(request))
      BY <3>1, <2>4, <1>o
    <3>2. Deliver(c, part)
      BY <2>1, <2>3
    <3> HIDE DEF part
    <3>3. \A request : \A i \in Nat :
             RightOutcome(Current(t), request)
             /\ i % 2 = (IF Parted(thread[t].pc) = 0 THEN 1 ELSE 0)
                 => Contradicted(request) \/ IsPart(part, i, Documented(request))
      BY <3>1, <2>3
    <3>4. thread[t].pc \notin {"start", "read"} /\ thread[t].pending # <<>>
      BY <2>1
    <3>. QED BY <3>2, <3>3, <3>4, <2>1, <1>d
  <2>7. RestPending(t)'
    BY <2>1, <2>2, <1>r, <1>s
  <2>. QED BY <2>1, <2>6, <2>7, <1>q
<1>16. CASE WriteBody(t)
  <2>1. /\ thread[t].pc = "body" /\ thread[t].pending # <<>>
        /\ UNCHANGED <<plan, sent, inbox, taken, confused>>
        /\ Deliver(Client(t), Body(Answer(t), Cut(t)))
    BY <1>16 DEF WriteBody, Answering, At, clients
  <2>2. thread'[t].pending = Tail(thread[t].pending)
    BY <1>1, <1>16, Fields DEF WriteBody, ThreadRecords, IInv
  <2>3. Parted(thread[t].pc) = 1 /\ Client(t) = c
    BY <2>1, <1>6, <1>p
  <2>4. \A i \in Nat : i % 2 = 0 => IsPart(Body(Answer(t), Cut(t)), i, Answer(t))
    BY <2>1, <1>v, <1>b, PartFits
  <2>6. ClientOrdered(c)'
    <3> DEFINE part == Body(Answer(t), Cut(t))
    <3>1. ASSUME NEW request, NEW i \in Nat, RightOutcome(Current(t), request), i % 2 = 0
          PROVE  Contradicted(request) \/ IsPart(part, i, Documented(request))
      BY <3>1, <2>4, <1>o
    <3>2. Deliver(c, part)
      BY <2>1, <2>3
    <3> HIDE DEF part
    <3>3. \A request : \A i \in Nat :
             RightOutcome(Current(t), request)
             /\ i % 2 = (IF Parted(thread[t].pc) = 0 THEN 1 ELSE 0)
                 => Contradicted(request) \/ IsPart(part, i, Documented(request))
      BY <3>1, <2>3
    <3>4. thread[t].pc \notin {"start", "read"} /\ thread[t].pending # <<>>
      BY <2>1
    <3>. QED BY <3>2, <3>3, <3>4, <2>1, <1>d
  <2>7. RestPending(t)'
    <3> SUFFICES ASSUME c \notin confused, Alone(taken[c])
                 PROVE  Rest(thread'[t].pending, taken'[c])
      BY <2>1, <1>s
    <3>0. Rest(thread[t].pending, taken[c])
      BY <2>1, <1>r
    <3>k. PICK k \in Int : k = Len(taken[c]) - Len(thread[t].pending)
      <4>1. Len(taken[c]) - Len(thread[t].pending) \in Int
        BY <1>14
      <4>. QED BY <4>1
    <3>1. PICK m \in Nat : m = Len(thread[t].pending) /\ m >= 1
      BY <2>1, <1>1
    <3>2. Len(thread'[t].pending) = m - 1
          /\ \A i \in 1..(m - 1) : thread'[t].pending[i] = thread[t].pending[i + 1]
      BY <2>1, <2>2, <3>1, <1>1
    <3>3. k >= 0 /\ \A i \in 1..m : RightOutcome(thread[t].pending[i], taken[c][k + i])
      BY <3>0, <3>1, <3>k DEF Rest
    <3>4. Len(taken'[c]) - Len(thread'[t].pending) = k + 1
      BY <2>1, <3>1, <3>2, <3>k, <1>14
    <3>5. \A i \in 1..(m - 1) : i + 1 \in 1..m /\ k + (i + 1) = (k + 1) + i
      <4> SUFFICES ASSUME NEW i \in 1..(m - 1)
                   PROVE  i + 1 \in 1..m /\ k + (i + 1) = (k + 1) + i
        OBVIOUS
      <4>. QED OBVIOUS
    <3>6. \A i \in 1..(m - 1) : RightOutcome(thread'[t].pending[i], taken'[c][(k + 1) + i])
      BY <2>1, <3>2, <3>3, <3>5
    <3>7. k + 1 >= 0
      BY <3>3
    <3>. QED BY <3>2, <3>4, <3>6, <3>7 DEF Rest
  <2>. QED BY <2>1, <2>6, <2>7, <1>q
<1>. QED BY <1>11, <1>12, <1>13, <1>15, <1>16

LEMMA FinishKeepsOrder ==
  ASSUME IInv, Ordered, NEW t, Finish(t)
  PROVE  Ordered'
<1> USE ClientsAssumption, FreeIsNone
<1>1. t \in DOMAIN thread /\ t \in Live /\ thread[t].fd = Fd(t) /\ thread[t].cell \in Cells
  BY Fields DEF Finish, At, Live, IInv, Owned, CellsHold
<1>2. /\ \A s \in DOMAIN thread : s # t => thread'[s] = thread[s]
      /\ DOMAIN thread' = DOMAIN thread /\ thread'[t].pc = "done"
  <2> DEFINE r == [thread[t] EXCEPT !.pc = "done"]
  <2>1. r \in ThreadRecords /\ r.cell = thread[t].cell /\ r.pc = "done"
    BY <1>1, Fields DEF IInv, ThreadRecords
  <2>2. thread' = [thread EXCEPT ![t] = r]
    BY <1>1 DEF Finish
  <2> HIDE DEF r
  <2>. QED BY <1>1, <2>1, <2>2, OnlyOneBecomes DEF IInv, Becomes
<1>3. Live' = Live \ {t}
  BY <1>1, <1>2 DEF Live
<1>4. /\ \A fd \in Fds : fd # Fd(t) => fdOf'[fd] = fdOf[fd]
      /\ \A x \in Cells : x # thread[t].cell => cell'[x] = cell[x]
      /\ UNCHANGED <<plan, sent, inbox, taken, got, confused>>
  BY <1>1 DEF Finish, CloseFd, clients, IInv, TypeOK
<1>5. ASSUME NEW s \in Live, s # t PROVE RestPending(s)'
  <2>1. thread'[s] = thread[s] /\ thread[s].cell \in Cells
    BY <1>2, <1>5, Fields DEF Live, IInv
  <2>2. thread[s].cell # thread[t].cell /\ Fd(s) # Fd(t) /\ Fd(s) \in Fds
    BY <1>1, <1>5 DEF IInv, Owned, NothingShared, CellsHold
  <2>3. Fd(s)' = Fd(s) /\ fdOf'[Fd(s)] = fdOf[Fd(s)]
    BY <2>1, <2>2, <1>4 DEF Fd
  <2>4. RestPending(s)
    BY DEF Ordered
  <2>. QED BY <2>1, <2>3, <2>4, <1>4, RestIsKept
<1>6. \A c \in Clients : ClientOrdered(c)'
  BY <1>4, OrderIsKept DEF Ordered
<1>. QED BY <1>3, <1>5, <1>6 DEF Ordered

LEMMA AcceptKeepsOrder ==
  ASSUME IInv, Ordered, Accept
  PROVE  Ordered'
<1> USE ClientsAssumption, FreeIsNone
<1>1. PICK fd \in Fds, x \in Cells :
          /\ fdOf[fd] = Nobody /\ cell[x] = Free
          /\ fdOf' = [fdOf EXCEPT ![fd] = Head(backlog)]
          /\ cell' = [cell EXCEPT ![x] = fd]
  BY DEF Accept, IsLowest, FreeFds, FreeCells
<1>2. thread' = thread /\ UNCHANGED <<plan, sent, inbox, taken, got, confused>>
  BY DEF Accept, heard
<1>3. ASSUME NEW s \in Live PROVE RestPending(s)'
  <2>1. Fd(s) \in Fds /\ fdOf[Fd(s)] \in Clients /\ thread[s].cell \in Cells
    BY Fields DEF IInv, Owned, CellsHold, Live
  <2>2. Fd(s) # fd /\ thread[s].cell # x
    BY <2>1, <1>1 DEF Fd
  <2>3. Fd(s)' = Fd(s) /\ fdOf'[Fd(s)] = fdOf[Fd(s)]
    BY <2>1, <2>2, <1>1, <1>2 DEF Fd, IInv, TypeOK
  <2>4. RestPending(s)
    BY DEF Ordered
  <2>. QED BY <2>3, <2>4, <1>2, RestIsKept
<1>4. \A c \in Clients : ClientOrdered(c)'
  BY <1>2, OrderIsKept DEF Ordered
<1>5. Live' = Live
  BY <1>2 DEF Live
<1>. QED BY <1>3, <1>4, <1>5 DEF Ordered

LEMMA CreateThreadKeepsOrder ==
  ASSUME IInv, Ordered, CreateThread
  PROVE  Ordered'
<1>n. PICK n : n = Len(thread) + 1
  OBVIOUS
<1> DEFINE r == [pc |-> "start", cell |-> main.cell, fd |-> Free, file |-> Free,
                pending |-> <<>>, buffer |-> {}]
<1>1. /\ thread' = Append(thread, r)
      /\ UNCHANGED <<plan, sent, inbox, taken, got, confused, fdOf, cell>>
  BY DEF CreateThread, kernel, heard, clients
<1>2. thread \in Seq(ThreadRecords)
  BY DEF IInv, TypeOK
<1>3. /\ DOMAIN thread' = DOMAIN thread \cup {n}
      /\ \A s \in DOMAIN thread : thread'[s] = thread[s]
      /\ thread'[n] = r
  BY <1>1, <1>2, <1>n
<1>4. r.pc = "start"
  OBVIOUS
<1> HIDE DEF r
<1>5. Live' = Live \cup {n}
  BY <1>3, <1>4 DEF Live
<1>6. ASSUME NEW s \in Live PROVE RestPending(s)'
  <2>1. thread'[s] = thread[s] /\ Fd(s)' = Fd(s) /\ RestPending(s)
    BY <1>1, <1>3 DEF Live, Fd, Ordered
  <2>. QED BY <2>1, <1>1, RestIsKept
<1>7. RestPending(n)'
  BY <1>3, <1>4 DEF RestPending
<1>8. \A c \in Clients : ClientOrdered(c)'
  BY <1>1, OrderIsKept DEF Ordered
<1>. QED BY <1>5, <1>6, <1>7, <1>8 DEF Ordered

LEMMA EndKeepsOrder ==
  ASSUME Ordered, End
  PROVE  Ordered'
<1>1. thread' = <<>> /\ UNCHANGED <<plan, sent, inbox, taken, got, confused>>
  BY DEF End, clients
<1>2. Live' = {}
  BY <1>1 DEF Live
<1>3. \A c \in Clients : ClientOrdered(c)'
  BY <1>1, OrderIsKept DEF Ordered
<1>. QED BY <1>2, <1>3 DEF Ordered

(* One packet with the next requests. *)
LEMMA SendKeepsOrder ==
  ASSUME IInv, Ordered, NEW c \in Clients, Send(c)
  PROVE  ClientOrdered(c)'
<1>1. PICK n \in (sent[c] + 1)..Len(plan[c]) :
          /\ sent' = [sent EXCEPT ![c] = n]
          /\ inbox' = [inbox EXCEPT ![c] = inbox[c] \o SubSeq(plan[c], sent[c] + 1, n)]
  BY DEF Send
<1>2. /\ sent[c] \in Nat /\ plan[c] \in Seq(Requests) /\ inbox[c] \in Seq(Requests)
      /\ UNCHANGED <<plan, taken, got, confused>>
  BY DEF IInv, TypeOK, Send, heard
<1>3. sent'[c] = n /\ inbox'[c] = inbox[c] \o SubSeq(plan[c], sent[c] + 1, n)
  BY <1>1 DEF IInv, TypeOK
<1>4. n \in Nat /\ n <= Len(plan[c]) /\ n > sent[c] /\ Len(plan[c]) \in Nat
  BY <1>1, <1>2
<1>5. ASSUME taken[c] = <<>> PROVE Len(inbox'[c]) = n /\ IsPrefixOfPlan(inbox[c], c)'
  <2>1. /\ Len(inbox[c]) = sent[c]
        /\ \A i \in 1..sent[c] : inbox[c][i] = plan[c][i]
    BY <1>5 DEF Ordered, ClientOrdered, InboxOrdered, IsPrefixOfPlan
  <2> DEFINE packet == SubSeq(plan[c], sent[c] + 1, n)
  <2>2. /\ packet \in Seq(Requests) /\ Len(packet) = n - sent[c]
        /\ \A i \in 1..(n - sent[c]) : packet[i] = plan[c][sent[c] + i]
    <3>1. PICK m \in Int : m = sent[c] + 1
      BY <1>2
    <3>2. \A i \in m..n : plan[c][i] \in Requests
      BY <3>1, <1>2, <1>4
    <3>3. /\ SubSeq(plan[c], m, n) \in Seq(Requests)
          /\ Len(SubSeq(plan[c], m, n)) = IF m <= n THEN n - m + 1 ELSE 0
          /\ \A i \in 1..(n - m + 1) : SubSeq(plan[c], m, n)[i] = plan[c][m + i - 1]
      BY <3>2, <1>4, SubSeqProperties
    <3>4. m <= n /\ n - m + 1 = n - sent[c]
      BY <3>1, <1>2, <1>4
    <3>5. \A i \in 1..(n - sent[c]) : m + i - 1 = sent[c] + i
      BY <3>1, <1>2, <1>4
    <3>. QED BY <3>1, <3>3, <3>4, <3>5
  <2> HIDE DEF packet
  <2>3. Len(inbox'[c]) = n
    BY <2>1, <2>2, <1>2, <1>3, <1>4 DEF packet
  <2>4. \A i \in 1..n : inbox'[c][i] = plan[c][i]
    <3> SUFFICES ASSUME NEW i \in 1..n PROVE inbox'[c][i] = plan[c][i]
      OBVIOUS
    <3>0. inbox'[c] = inbox[c] \o packet
      BY <1>3 DEF packet
    <3>1. CASE i <= sent[c]
      BY <2>1, <2>2, <3>0, <3>1, <1>2, <1>4
    <3>2. CASE i > sent[c]
      <4>1. i - sent[c] \in 1..(n - sent[c]) /\ sent[c] + (i - sent[c]) = i
        BY <3>2, <1>2, <1>4
      <4>2. inbox'[c][i] = packet[i - sent[c]]
        <5>1. i \in 1..(Len(inbox[c]) + Len(packet)) /\ ~(i <= Len(inbox[c]))
          BY <2>1, <2>2, <3>2, <1>2, <1>4
        <5>2. (inbox[c] \o packet)[i]
                  = IF i <= Len(inbox[c]) THEN inbox[c][i] ELSE packet[i - Len(inbox[c])]
          <6>1. inbox[c] \in Seq(Requests) /\ packet \in Seq(Requests)
            BY <1>2, <2>2
          <6>2. \A j \in 1..(Len(inbox[c]) + Len(packet)) :
                   (inbox[c] \o packet)[j]
                       = IF j <= Len(inbox[c]) THEN inbox[c][j] ELSE packet[j - Len(inbox[c])]
            BY <6>1, ConcatProperties
          <6>. QED BY <5>1, <6>2
        <5>. QED BY <5>1, <5>2, <3>0, <2>1
      <4>. QED BY <4>1, <4>2, <2>2
    <3>. QED BY <3>1, <3>2, <1>2
  <2>. QED BY <2>3, <2>4, <1>2, <1>4 DEF IsPrefixOfPlan
<1>6. InboxOrdered(c)'
  BY <1>2, <1>3, <1>4, <1>5 DEF InboxOrdered
<1>. QED BY <1>2, <1>6 DEF Ordered, ClientOrdered, IsPrefixOfPlan, PartsOrdered

LEMMA ClientsKeepOrder ==
  ASSUME IInv, Ordered, NEW c \in Clients, Connect(c) \/ Send(c) \/ Leave(c)
  PROVE  Ordered'
<1>1. UNCHANGED <<plan, fdOf, cell, thread, taken, got, confused>>
  BY DEF Connect, Send, Leave, kernel, heard
<1>2. \A d \in Clients : d # c => inbox'[d] = inbox[d] /\ sent'[d] = sent[d]
  BY DEF Connect, Send, Leave, IInv, TypeOK
<1>3. ~Send(c) => UNCHANGED <<inbox, sent>>
  BY DEF Connect, Leave
<1>4. \A d \in Clients : ClientOrdered(d)'
  BY <1>1, <1>2, <1>3, SendKeepsOrder, OrderIsKept DEF Ordered
<1>5. Live' = Live /\ \A t \in Live : RestPending(t)'
  <2>1. Live' = Live /\ \A t \in Live : Fd(t)' = Fd(t)
    BY <1>1 DEF Live, Fd
  <2>. QED BY <2>1, <1>1, RestIsKept DEF Ordered
<1>. QED BY <1>4, <1>5 DEF Ordered

LEMMA InitOrdered == Init => Ordered
<1> SUFFICES ASSUME Init PROVE Ordered
  OBVIOUS
<1>1. /\ thread = <<>> /\ plan \in [Clients -> Seq(Requests)]
      /\ \A c \in Clients : inbox[c] = <<>> /\ sent[c] = 0 /\ taken[c] = <<>> /\ got[c] = <<>>
  BY PlansAssumption DEF Init
<1>2. Live = {}
  BY <1>1 DEF Live
<1>3. \A c \in Clients : Len(plan[c]) \in Nat
  BY <1>1
<1>. QED BY <1>1, <1>2, <1>3
         DEF Ordered, ClientOrdered, InboxOrdered, IsPrefixOfPlan, PartsOrdered

LEMMA NextOrdered == IInv /\ Progress /\ Ordered /\ [Next]_vars => Ordered'
<1> SUFFICES ASSUME IInv, Progress, Ordered, [Next]_vars PROVE Ordered'
  OBVIOUS
<1>1. ASSUME NEW c \in Clients, Connect(c) \/ Send(c) \/ Leave(c) PROVE Ordered'
  BY <1>1, ClientsKeepOrder
<1>2. CASE End
  BY <1>2, EndKeepsOrder
<1>3. CASE MainStep
  BY <1>2, <1>3, AcceptKeepsOrder, CreateThreadKeepsOrder
  DEF MainStep, EndWithoutDescriptor, EndWithoutThread
<1>4. ASSUME NEW t \in Threads, ThreadStep(t) PROVE Ordered'
  BY <1>2, <1>4, FinishKeepsOrder, StepsOrder DEF ThreadStep, Crash
<1>7. CASE EndByOverflow
  BY <1>2, <1>7 DEF EndByOverflow
<1>5. ASSUME NEW t \in Threads, EndWhileAnswering(t) PROVE Ordered'
  BY <1>2, <1>5 DEF EndWhileAnswering
<1>6. CASE UNCHANGED vars
  <2>1. UNCHANGED <<plan, sent, inbox, taken, got, confused, fdOf, cell, thread>>
    BY <1>6 DEF vars, clients, heard, kernel
  <2>2. Live' = Live /\ \A t \in Live : Fd(t)' = Fd(t)
    BY <2>1 DEF Live, Fd
  <2>3. \A t \in Live : RestPending(t)'
    BY <2>1, <2>2, RestIsKept DEF Ordered
  <2>4. \A c \in Clients : ClientOrdered(c)'
    BY <2>1, OrderIsKept DEF Ordered
  <2>. QED BY <2>2, <2>3, <2>4 DEF Ordered
<1>. QED BY <1>1, <1>3, <1>4, <1>5, <1>6, <1>7 DEF Next

(* The answers arrive whole and in the order of the requests, and those to requests that the
   code does not answer against the README (Contradicted) are those of its tables; a read
   with a POST among other requests gets one answer at most (main.c:30-61, libget.c and
   libpost.c).  This is whatever the clients send in whatever packets and however the
   threads and their descriptors interleave, unless leftovers of others were in the read. *)
THEOREM HttpAnswersInOrder == Spec => []AnswersInOrder
<1>1. Init => IInv /\ Progress /\ Ordered
  BY InitOwned, InitProgress, InitOrdered
<1>2. IInv /\ Progress /\ Ordered /\ [Next]_vars => (IInv /\ Progress /\ Ordered)'
  BY NextOwned, NextProgress, NextOrdered
<1>3. IInv /\ Ordered => AnswersInOrder
  BY OrderedAnswers
<1>. QED BY <1>1, <1>2, <1>3, PTL DEF Spec

-----------------------------------------------------------------------------
(* When no descriptor is free for a file, every descriptor is a connection or the file of
   another thread than this one: as each of those threads has a connection too, and so has
   this one, the connections are more than half. *)
LEMMA FilesAreFewer ==
  ASSUME IInv, NEW t \in DOMAIN thread, thread[t].pc \notin {"start", "done"},
         thread[t].file = Free, FreeFds = {}
  PROVE  2 * Cardinality(Connections) > MaxFds
<1> USE ClientsAssumption, FreeIsNone
<1> DEFINE Opened == {fd \in Fds : fdOf[fd] = File}
           owner == [fd \in Opened |-> CHOOSE s \in Live : thread[s].file = fd]
           mate == [fd \in Opened |-> Fd(owner[fd])]
<1>1. IsFiniteSet(Fds) /\ Cardinality(Fds) = MaxFds /\ MaxFds \in Nat
  BY LimitsAssumption, FS_Interval DEF Fds
<1>2. Connections \cup Opened = Fds /\ Connections \cap Opened = {}
  <2>1. \A fd \in Fds : fdOf[fd] \in Clients \cup {Nobody, File} /\ fdOf[fd] # Nobody
    BY DEF FreeFds, IInv, TypeOK
  <2>2. \A fd \in Fds : fdOf[fd] \in Clients \/ fdOf[fd] = File
    BY <2>1
  <2>3. \A fd : fd \in Connections \cup Opened <=> fd \in Fds
    BY <2>2 DEF Connections
  <2>4. \A fd : ~(fd \in Connections /\ fd \in Opened)
    BY DEF Connections
  <2>. QED BY <2>3, <2>4
<1>3. /\ IsFiniteSet(Connections) /\ IsFiniteSet(Opened)
      /\ Cardinality(Connections) \in Nat /\ Cardinality(Opened) \in Nat
  BY <1>1, FS_Subset, FS_CardinalityType DEF Connections
<1>4. MaxFds = Cardinality(Connections) + Cardinality(Opened)
  <2> HIDE DEF Opened
  <2>1. Cardinality(Connections \cup Opened)
            = Cardinality(Connections) + Cardinality(Opened) - Cardinality(Connections \cap Opened)
    BY <1>3, FS_Union
  <2>2. Cardinality(Connections \cap Opened) = 0
    BY <1>2, FS_EmptySet
  <2>3. Cardinality(Connections \cup Opened) = MaxFds
    BY <1>1, <1>2
  <2>. QED BY <1>3, <2>1, <2>2, <2>3
<1>5. \A fd \in Opened : owner[fd] \in Live /\ thread[owner[fd]].file = fd
  BY DEF IInv, Owned, NothingLost
<1>6. t \in Live /\ Fd(t) \in Connections
  BY DEF Live, IInv, Owned, CellsHold, Connections
<1> HIDE DEF owner
<1>7. \A fd \in Opened : mate[fd] \in Connections \ {Fd(t)}
  <2> SUFFICES ASSUME NEW fd \in Opened PROVE Fd(owner[fd]) \in Connections \ {Fd(t)}
    OBVIOUS
  <2>1. owner[fd] \in Live /\ thread[owner[fd]].file = fd /\ fd # Free
    BY <1>5
  <2>2. owner[fd] # t
    BY <2>1
  <2>3. Fd(owner[fd]) \in Fds /\ fdOf[Fd(owner[fd])] \in Clients /\ Fd(owner[fd]) # Fd(t)
    BY <2>1, <2>2, <1>6 DEF IInv, Owned, CellsHold, NothingShared
  <2>. QED BY <2>3 DEF Connections
<1>8. \A f, g \in Opened : mate[f] = mate[g] => f = g
  <2> SUFFICES ASSUME NEW f \in Opened, NEW g \in Opened, Fd(owner[f]) = Fd(owner[g])
               PROVE  f = g
    OBVIOUS
  <2>1. owner[f] = owner[g]
    BY <1>5 DEF IInv, Owned, NothingShared
  <2>. QED BY <2>1, <1>5
<1>9. mate \in Injection(Opened, Connections \ {Fd(t)})
  BY <1>7, <1>8 DEF Injection, IsInjective
<1>10. /\ IsFiniteSet(Connections \ {Fd(t)})
       /\ Cardinality(Connections \ {Fd(t)}) = Cardinality(Connections) - 1
  BY <1>3, <1>6, FS_RemoveElement
<1>11. Cardinality(Opened) <= Cardinality(Connections) - 1
  BY <1>9, <1>10, FS_Injection
<1>. QED BY <1>3, <1>4, <1>11

(* open fails only while more than half of the descriptors are connections (libget.c:19-30
   and 76-81): get_file_length and echo_back close what they open, so that a thread never
   takes a second descriptor for a file. *)
THEOREM HttpFilesOpenWithRoom == Spec => FilesOpenWithRoom
<1>1. IInv /\ [Next]_vars =>
         [\A t \in DOMAIN thread :
             MeasureFile(t) \/ ReadFile(t) =>
                 thread'[t].file # Free \/ 2 * Cardinality(Connections) > MaxFds]_vars
  <2> SUFFICES ASSUME IInv, NEW t \in DOMAIN thread, MeasureFile(t) \/ ReadFile(t),
                      thread'[t].file = Free
               PROVE  2 * Cardinality(Connections) > MaxFds
    OBVIOUS
  <2>1. PICK before \in {"answer", "open"}, after \in {"headers", "body"} :
               OpenFile(t, before, after)
    BY DEF MeasureFile, ReadFile
  <2>2. thread[t].pc \in {"answer", "open"} /\ thread[t] \in ThreadRecords
    BY <2>1, Fields DEF OpenFile, Answering, At, IInv
  <2>3. thread[t].file = Free
    BY <2>2, Serving
  <2>4. FreeFds = {}
    <3>1. ASSUME NEW fd \in Fds, thread' = [thread EXCEPT ![t].pc = after, ![t].file = fd]
          PROVE  FALSE
      <4>1. thread'[t].file = fd
        BY <2>2, <3>1 DEF ThreadRecords
      <4>. QED BY <4>1, FreeIsNone
    <3>. QED BY <2>1, <3>1 DEF OpenFile
  <2>. QED BY <2>2, <2>3, <2>4, FilesAreFewer
<1>. QED BY <1>1, InitOwned, NextOwned, PTL DEF Spec, FilesOpenWithRoom
=============================================================================
