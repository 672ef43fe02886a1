---------------------------- MODULE NandChipProofs ----------------------------
(***************************************************************************)
(* Proofs about NandChip for any number of callers, any commands and any   *)
(* bound on their number: its invariants, and that it implements NandStore *)
(* (the safety part; EveryFutureResolves and DestructorReturns need        *)
(* fairness and are model-checked only).                                   *)
(***************************************************************************)
EXTENDS NandChip, SequenceTheorems, TLAPS

\* How the control states of the three kinds of thread depend on each other.
Phases ==
    /\ worker = "serve" <=> Len(task) = 1
    /\ worker = "exited" => stop_flag
    /\ stop_flag <=> owner # "alive"
    /\ stop_flag => \A c \in Clients : client[c] = "outside"
    /\ owner = "gone" => worker = "exited" /\ command_queue = <<>>

IInv == TypeOK /\ Phases /\ NoLostWakeup /\ PendingInOrder

-----------------------------------------------------------------------------
(* What the actions do to the sequence of unserved tasks                      *)

\* The worker has no task, or exactly one.
LEMMA TaskShape ==
    ASSUME TypeOK
    PROVE  /\ Unserved \in Seq(Task)
           /\ task = <<>> \/ Len(task) = 1
           /\ task = <<>> => Unserved = command_queue
           /\ Len(task) = 1 => task = <<task[1]>> /\ task[1] \in Task
  <1>1. Unserved \in Seq(Task)
    BY ConcatProperties DEF TypeOK, Unserved
  <1>2. task = <<>> \/ Len(task) = 1
    <2>1. task \in Seq(Task) /\ Len(task) <= 1
      BY DEF TypeOK
    <2>2. task # <<>> => Len(task) \in Nat \ {0}
      BY <2>1, EmptySeq
    <2>3. \A n \in Nat \ {0} : n <= 1 => n = 1
      OBVIOUS
    <2>. QED BY <2>1, <2>2, <2>3, Zenon
  <1>3. task = <<>> => Unserved = command_queue
    BY ConcatEmptySeq DEF TypeOK, Unserved
  <1>4. ASSUME Len(task) = 1
        PROVE  task = <<task[1]>> /\ task[1] \in Task
    <2>1. task \in Seq(Task)
      BY DEF TypeOK
    <2>2. task[1] \in Task
      BY <1>4, <2>1, ElementOfSeq
    <2>3. <<task[1]>> \in Seq(Task) /\ Len(<<task[1]>>) = 1 /\ <<task[1]>>[1] = task[1]
      BY <2>2
    <2>4. \A i \in 1..Len(task) : task[i] = <<task[1]>>[i]
      BY <1>4, <2>3
    <2>5. task = <<task[1]>>
      BY <1>4, <2>1, <2>3, <2>4, SeqEqual
    <2>. QED BY <2>2, <2>5
  <1>. QED BY <1>1, <1>2, <1>3, <1>4

\* Taking a task moves it from the queue to the worker: nothing else changes.
LEMMA TakeMoves ==
    ASSUME TypeOK, Phases, Take
    PROVE  Unserved' = Unserved
  <1>1. task = <<>>
    BY TaskShape DEF Phases, Take
  <1>2. Unserved = command_queue
    BY <1>1, TaskShape
  <1>3. /\ command_queue \in Seq(Task) /\ command_queue # <<>>
        /\ task' = <<Head(command_queue)>> /\ command_queue' = Tail(command_queue)
    BY DEF TypeOK, Take
  <1>4. <<Head(command_queue)>> \o Tail(command_queue) = command_queue
    BY <1>3
  <1>. QED BY <1>2, <1>3, <1>4 DEF Unserved

\* A pushed command becomes the last unserved task.
LEMMA PushAppends ==
    ASSUME TypeOK, NEW c \in Clients, NEW request \in Requests, Push(c, request)
    PROVE  /\ [id |-> Len(answers) + 1, request |-> request] \in Task
           /\ Unserved' = Append(Unserved,
                               [id |-> Len(answers) + 1, request |-> request])
  <1>. DEFINE new == [id |-> Len(answers) + 1, request |-> request]
  <1>1. new \in Task
    BY CommandAssumption DEF TypeOK, Task
  <1>. HIDE DEF new
  <1>2. task' = task /\ command_queue' = Append(command_queue, new)
    BY DEF Push, new
  <1>3. task \o Append(command_queue, new) = task \o (command_queue \o <<new>>)
    BY <1>1, AppendIsConcat DEF TypeOK
  <1>4. Append(task \o command_queue, new) = (task \o command_queue) \o <<new>>
    BY <1>1, TaskShape, AppendIsConcat DEF Unserved
  <1>5. <<new>> \in Seq(Task)
    BY <1>1
  <1>6. task \o (command_queue \o <<new>>) = (task \o command_queue) \o <<new>>
    BY <1>5, ConcatAssociative DEF TypeOK
  <1>. QED BY <1>1, <1>2, <1>3, <1>4, <1>6 DEF Unserved, new

\* The worker serves the first of the unserved tasks.
LEMMA ServeTakesFirst ==
    ASSUME TypeOK, Phases, Serve
    PROVE  /\ Unserved # <<>>
           /\ Head(Unserved) = task[1]
           /\ Unserved' = Tail(Unserved)
  <1>1. Len(task) = 1 /\ task = <<task[1]>> /\ task[1] \in Task
    BY TaskShape DEF Phases, Serve
  <1>2. Unserved = <<task[1]>> \o command_queue
    BY <1>1 DEF Unserved
  <1>3. /\ Len(Unserved) = 1 + Len(command_queue)
        /\ \A i \in 1..(1 + Len(command_queue)) :
              Unserved[i] = IF i <= 1 THEN task[1] ELSE command_queue[i - 1]
    <2>1. <<task[1]>> \in Seq(Task) /\ Len(<<task[1]>>) = 1 /\ <<task[1]>>[1] = task[1]
      BY <1>1
    <2>2. command_queue \in Seq(Task)
      BY DEF TypeOK
    <2>. QED BY <1>2, <2>1, <2>2, ConcatProperties
  <1>4. Unserved \in Seq(Task) /\ Unserved # <<>>
    BY <1>3, TaskShape, EmptySeq DEF TypeOK
  <1>5. Head(Unserved) = task[1]
    BY <1>3, <1>4 DEF TypeOK
  <1>6. Unserved' = command_queue
    <2>1. task' = <<>> /\ command_queue' = command_queue
      BY DEF Serve
    <2>. QED BY <2>1, ConcatEmptySeq DEF Unserved, TypeOK
  <1>7. Tail(Unserved) = command_queue
    <2>1. /\ Tail(Unserved) \in Seq(Task) /\ Len(Tail(Unserved)) = Len(command_queue)
          /\ \A i \in 1..Len(command_queue) : Tail(Unserved)[i] = command_queue[i]
      BY <1>3, <1>4, HeadTailProperties DEF TypeOK
    <2>. QED BY <2>1, SeqEqual DEF TypeOK
  <1>. QED BY <1>4, <1>5, <1>6, <1>7

\* When the destructor has joined the worker, what is unserved is in the queue.
LEMMA DestroyEmpties ==
    ASSUME TypeOK, Phases, Destroy
    PROVE  Unserved = command_queue /\ Unserved' = <<>>
  <1>1. task = <<>> /\ Unserved = command_queue
    BY TaskShape DEF Phases, Destroy
  <1>2. Unserved' = <<>> \o <<>>
    BY <1>1 DEF Destroy, Unserved
  <1>. QED BY <1>1, <1>2, ConcatEmptySeq, EmptySeq

-----------------------------------------------------------------------------
(* Memory and results                                                         *)

\* A command leaves contents in memory, and its result is an outcome.
LEMMA CommandTypes ==
    ASSUME NEW m \in Memory, NEW c \in Command
    PROVE  MemoryAfter(m, c) \in Memory /\ Result(m, c) \in Outcome
  <1>1. MemoryAfter(m, c) \in Memory
    BY CommandAssumption
    DEF MemoryAfter, erase_block, write_page, Memory, Command
  <1>2. Result(m, c) \in Outcome
    BY CommandAssumption DEF Result, Failed, read_page, Memory, Command, Outcome
  <1>. QED BY <1>1, <1>2

\* The three device operations have the effect and the result NandStore states.
LEMMA SameEffect ==
    ASSUME NEW m \in Memory, NEW c \in Command
    PROVE  MemoryAfter(m, c) = Store!After(m, c) /\ Result(m, c) = Store!Answer(m, c)
  <1>1. Result(m, c) = Store!Answer(m, c)
    BY CommandAssumption
    DEF Result, Failed, read_page, Memory, Command, Store!Answer, Store!Reaches
  <1>2. MemoryAfter(m, c) = Store!After(m, c)
    BY CommandAssumption
    DEF MemoryAfter, erase_block, write_page, Memory, Command, Store!After, Store!Reaches
  <1>. QED BY <1>1, <1>2

-----------------------------------------------------------------------------
(* The inductive invariant                                                    *)

LEMMA InitIInv == Init => IInv
  <1>. SUFFICES ASSUME Init PROVE IInv
    OBVIOUS
  <1>1. TypeOK
    <2>1. memory \in Memory
      BY CommandAssumption DEF Init, Memory, Blank
    <2>2. task = <<>> /\ task \in Seq(Task) /\ Len(task) <= 1
      BY EmptySeq DEF Init
    <2>3. command_queue \in Seq(Task) /\ answers \in Seq(Outcome)
      BY EmptySeq DEF Init
    <2>4. client \in [Clients -> {"outside", "notify"}]
      BY DEF Init
    <2>. QED BY <2>1, <2>2, <2>3, <2>4 DEF Init, TypeOK
  <1>2. Phases /\ NoLostWakeup
    BY EmptySeq DEF Init, Phases, NoLostWakeup
  <1>3. Unserved = <<>>
    BY ConcatEmptySeq, EmptySeq DEF Init, Unserved
  <1>4. PendingInOrder
    BY <1>3, EmptySeq DEF Init, PendingInOrder
  <1>. QED BY <1>1, <1>2, <1>4 DEF IInv

\* A function on 1..n is a sequence of length n.
LEMMA FunctionIsSeq ==
    ASSUME NEW S, NEW n \in Nat, NEW f \in [1..n -> S]
    PROVE  f \in Seq(S) /\ Len(f) = n
  <1>1. f \in Seq(S)
    BY SeqDef
  <1>. QED BY <1>1, LenProperties

\* Every step keeps the types.
LEMMA NextTypeOK == IInv /\ [Next]_vars => TypeOK'
  <1>. SUFFICES ASSUME IInv, [Next]_vars PROVE TypeOK'
    OBVIOUS
  <1>. USE DEF IInv
  <1>1. ASSUME NEW c \in Clients, NEW request \in Requests, Push(c, request)
        PROVE  TypeOK'
    <2>1. [id |-> Len(answers) + 1, request |-> request] \in Task
      BY <1>1, PushAppends
    <2>2. command_queue' \in Seq(Task)
      BY <1>1, <2>1, AppendProperties DEF TypeOK, Push
    <2>3. answers' \in Seq(Outcome)
      <3>1. Pending \in Outcome
        BY DEF Pending, Outcome
      <3>. QED BY <1>1, <3>1, AppendProperties DEF TypeOK, Push
    <2>4. client' \in [Clients -> {"outside", "notify"}]
      BY <1>1 DEF TypeOK, Push
    <2>. QED BY <1>1, <2>2, <2>3, <2>4 DEF TypeOK, Push
  <1>2. ASSUME NEW c \in Clients, Notify(c)
        PROVE  TypeOK'
    <2>1. client' \in [Clients -> {"outside", "notify"}]
      BY <1>2 DEF TypeOK, Notify
    <2>. QED BY <1>2, <2>1 DEF TypeOK, Notify, Woken
  <1>3. CASE LoopHead
    BY <1>3 DEF TypeOK, LoopHead
  <1>4. CASE Wait
    BY <1>4 DEF TypeOK, Wait
  <1>5. CASE ReturnInside
    BY <1>5 DEF TypeOK, ReturnInside
  <1>6. CASE Take
    <2>1. Head(command_queue) \in Task /\ command_queue' \in Seq(Task)
      BY <1>6, HeadTailProperties DEF TypeOK, Take
    <2>2. task' \in Seq(Task) /\ Len(task') <= 1
      BY <1>6, <2>1 DEF Take
    <2>. QED BY <1>6, <2>1, <2>2 DEF TypeOK, Take
  <1>7. CASE Serve
    <2>1. task[1] \in Task
      BY <1>7, TaskShape DEF Phases, Serve
    <2>2. memory' \in Memory /\ Result(memory, task[1].request) \in Outcome
      BY <1>7, <2>1, CommandTypes DEF TypeOK, Serve, Task
    <2>3. answers' \in Seq(Outcome)
      <3>1. Len(answers) \in Nat /\ answers \in [1..Len(answers) -> Outcome]
        BY LenProperties DEF TypeOK
      <3>2. answers' \in [1..Len(answers) -> Outcome]
        BY <1>7, <2>2, <3>1 DEF Serve
      <3>. QED BY <3>1, <3>2, FunctionIsSeq
    <2>4. task' \in Seq(Task) /\ Len(task') <= 1
      BY <1>7, EmptySeq DEF Serve
    <2>. QED BY <1>7, <2>2, <2>3, <2>4 DEF TypeOK, Serve
  <1>8. CASE SpuriousWakeup
    BY <1>8 DEF TypeOK, SpuriousWakeup
  <1>9. CASE SetStopFlag
    BY <1>9 DEF TypeOK, SetStopFlag
  <1>10. CASE NotifyAll
    BY <1>10 DEF TypeOK, NotifyAll, Woken
  <1>11. CASE Destroy
    <2>1. command_queue' \in Seq(Task)
      BY <1>11, EmptySeq DEF Destroy
    <2>2. answers' \in Seq(Outcome)
      <3>1. Broken \in Outcome
        BY DEF Broken, Outcome
      <3>2. Len(answers) \in Nat /\ answers \in [1..Len(answers) -> Outcome]
        BY LenProperties DEF TypeOK
      <3>3. answers' \in [1..Len(answers) -> Outcome]
        BY <1>11, <3>1, <3>2 DEF Destroy
      <3>. QED BY <3>2, <3>3, FunctionIsSeq
    <2>. QED BY <1>11, <2>1, <2>2 DEF TypeOK, Destroy
  <1>12. CASE UNCHANGED vars
    BY <1>12 DEF TypeOK, vars
  <1>. QED BY <1>1, <1>2, <1>3, <1>4, <1>5, <1>6, <1>7, <1>8, <1>9, <1>10, <1>11,
              <1>12 DEF Next, WorkerStep

\* Every step keeps the control states together.
LEMMA NextPhases == IInv /\ [Next]_vars => Phases'
  <1>. SUFFICES ASSUME IInv, [Next]_vars PROVE Phases'
    OBVIOUS
  <1>. USE DEF IInv
  <1>1. ASSUME NEW c \in Clients, NEW request \in Requests, Push(c, request)
        PROVE  Phases'
    BY <1>1 DEF TypeOK, Phases, Push
  <1>2. ASSUME NEW c \in Clients, Notify(c)
        PROVE  Phases'
    BY <1>2 DEF TypeOK, Phases, Notify, Woken
  <1>3. CASE LoopHead
    BY <1>3 DEF TypeOK, Phases, LoopHead
  <1>4. CASE Wait
    BY <1>4 DEF TypeOK, Phases, Wait, Wakeable
  <1>5. CASE ReturnInside
    BY <1>5 DEF TypeOK, Phases, ReturnInside
  <1>6. CASE Take
    <2>1. Len(task') = 1
      BY <1>6 DEF Take
    <2>. QED BY <1>6, <2>1 DEF TypeOK, Phases, Take
  <1>7. CASE Serve
    <2>1. Len(task') = 0
      BY <1>7 DEF Serve
    <2>. QED BY <1>7, <2>1 DEF TypeOK, Phases, Serve
  <1>8. CASE SpuriousWakeup
    BY <1>8 DEF TypeOK, Phases, SpuriousWakeup
  <1>9. CASE SetStopFlag
    BY <1>9 DEF TypeOK, Phases, SetStopFlag
  <1>10. CASE NotifyAll
    BY <1>10 DEF TypeOK, Phases, NotifyAll, Woken
  <1>11. CASE Destroy
    BY <1>11 DEF TypeOK, Phases, Destroy
  <1>12. CASE UNCHANGED vars
    BY <1>12 DEF Phases, vars
  <1>. QED BY <1>1, <1>2, <1>3, <1>4, <1>5, <1>6, <1>7, <1>8, <1>9, <1>10, <1>11,
              <1>12 DEF Next, WorkerStep

\* Only a step that also leaves a signal pending gives a sleeping worker a reason
\* to wake, and the worker falls asleep only without one.
LEMMA NextNoLostWakeup == IInv /\ [Next]_vars => NoLostWakeup'
  <1>. SUFFICES ASSUME IInv, [Next]_vars PROVE NoLostWakeup'
    OBVIOUS
  <1>. USE DEF IInv, NoLostWakeup, Wakeable
  <1>1. ASSUME NEW c \in Clients, NEW request \in Requests, Push(c, request)
        PROVE  NoLostWakeup'
    BY <1>1 DEF TypeOK, Push
  <1>2. ASSUME NEW c \in Clients, Notify(c)
        PROVE  NoLostWakeup'
    BY <1>2 DEF Notify, Woken
  <1>3. CASE LoopHead
    BY <1>3 DEF LoopHead
  <1>4. CASE Wait
    BY <1>4 DEF Wait
  <1>5. CASE ReturnInside
    BY <1>5 DEF ReturnInside
  <1>6. CASE Take
    BY <1>6 DEF Take
  <1>7. CASE Serve
    BY <1>7 DEF Serve
  <1>8. CASE SpuriousWakeup
    BY <1>8 DEF SpuriousWakeup
  <1>9. CASE SetStopFlag
    BY <1>9 DEF SetStopFlag
  <1>10. CASE NotifyAll
    BY <1>10 DEF NotifyAll, Woken
  <1>11. CASE Destroy
    BY <1>11 DEF Destroy
  <1>12. CASE UNCHANGED vars
    BY <1>12 DEF vars
  <1>. QED BY <1>1, <1>2, <1>3, <1>4, <1>5, <1>6, <1>7, <1>8, <1>9, <1>10, <1>11,
              <1>12 DEF Next, WorkerStep

\* The first unserved task belongs to the first unset promise.
LEMMA FirstUnserved ==
    ASSUME TypeOK, PendingInOrder, Unserved # <<>>
    PROVE  /\ Len(Unserved) \in 1..Len(answers)
           /\ Head(Unserved).id = Len(answers) - Len(Unserved) + 1
  <1>1. Unserved \in Seq(Task) /\ Len(Unserved) \in Nat \ {0} /\ Len(answers) \in Nat
    BY TaskShape, EmptySeq, LenProperties DEF TypeOK
  <1>2. Head(Unserved) = Unserved[1] /\ 1 \in DOMAIN Unserved
    BY <1>1
  <1>3. Unserved[1].id = Len(answers) - Len(Unserved) + 1
    BY <1>1, <1>2 DEF PendingInOrder
  <1>4. Unserved[1].id \in Nat \ {0}
    <2>1. Unserved[1] \in Task
      BY <1>1, ElementOfSeq
    <2>. QED BY <2>1 DEF Task
  <1>. QED BY <1>1, <1>2, <1>3, <1>4

\* A step that touches neither the promises nor the unserved tasks keeps their order.
LEMMA SameUnserved ==
    ASSUME PendingInOrder, Unserved' = Unserved, answers' = answers
    PROVE  PendingInOrder'
  BY DEF PendingInOrder

LEMMA NextPendingInOrder == IInv /\ [Next]_vars => PendingInOrder'
  <1>. SUFFICES ASSUME IInv, [Next]_vars PROVE PendingInOrder'
    OBVIOUS
  <1>. USE DEF IInv
  <1>0. /\ Unserved \in Seq(Task) /\ Len(Unserved) \in Nat
        /\ answers \in Seq(Outcome) /\ Len(answers) \in Nat
        /\ DOMAIN answers = 1..Len(answers) /\ DOMAIN Unserved = 1..Len(Unserved)
    BY TaskShape, LenProperties DEF TypeOK
  <1>1. ASSUME NEW c \in Clients, NEW request \in Requests, Push(c, request)
        PROVE  PendingInOrder'
    <2>. DEFINE new == [id |-> Len(answers) + 1, request |-> request]
    <2>1. new \in Task /\ Unserved' = Append(Unserved, new)
      BY <1>1, PushAppends
    <2>2. new.id = Len(answers) + 1
      OBVIOUS
    <2>. HIDE DEF new
    <2>3. answers' = Append(answers, Pending) /\ Pending \in Outcome
      BY <1>1 DEF Push, Pending, Outcome
    <2>4. /\ Len(Unserved') = Len(Unserved) + 1 /\ DOMAIN Unserved' = 1..Len(Unserved')
          /\ \A k \in 1..Len(Unserved) : Unserved'[k] = Unserved[k]
          /\ Unserved'[Len(Unserved) + 1] = new
      BY <1>0, <2>1, AppendProperties, LenProperties
    <2>5. /\ Len(answers') = Len(answers) + 1 /\ DOMAIN answers' = 1..Len(answers')
          /\ \A i \in 1..Len(answers) : answers'[i] = answers[i]
          /\ answers'[Len(answers) + 1].status = "pending"
      BY <1>0, <2>3, AppendProperties, LenProperties DEF Pending
    <2>6. \A k \in DOMAIN Unserved' :
             Unserved'[k].id = Len(answers') - Len(Unserved') + k
      BY <1>0, <2>2, <2>4, <2>5 DEF PendingInOrder
    <2>7. \A i \in DOMAIN answers' :
             answers'[i].status = "pending" <=> i > Len(answers') - Len(Unserved')
      BY <1>0, <2>4, <2>5 DEF PendingInOrder
    <2>. QED BY <2>6, <2>7 DEF PendingInOrder
  <1>2. ASSUME NEW c \in Clients, Notify(c)
        PROVE  PendingInOrder'
    BY <1>2, SameUnserved DEF Notify, Unserved
  <1>3. CASE LoopHead
    BY <1>3, SameUnserved DEF LoopHead, Unserved
  <1>4. CASE Wait
    BY <1>4, SameUnserved DEF Wait, Unserved
  <1>5. CASE ReturnInside
    BY <1>5, SameUnserved DEF ReturnInside, Unserved
  <1>6. CASE Take
    BY <1>6, TakeMoves, SameUnserved DEF Take
  <1>7. CASE Serve
    <2>. DEFINE id == Len(answers) - Len(Unserved) + 1
    <2>1. /\ Unserved # <<>> /\ Unserved' = Tail(Unserved) /\ task[1].id = id
          /\ Len(Unserved) \in 1..Len(answers)
      BY <1>7, ServeTakesFirst, FirstUnserved
    <2>2. /\ Len(Unserved') = Len(Unserved) - 1
          /\ DOMAIN Unserved' = 1..Len(Unserved')
          /\ \A k \in 1..Len(Unserved') : Unserved'[k] = Unserved[k + 1]
      BY <1>0, <2>1, HeadTailProperties, LenProperties
    <2>. DEFINE result == Result(memory, task[1].request)
    <2>3. answers' = [answers EXCEPT ![id] = result] /\ result.status # "pending"
      BY <1>7, <2>1 DEF Serve, Result
    <2>. HIDE DEF result
    <2>4. /\ DOMAIN answers' = DOMAIN answers
          /\ \A i \in DOMAIN answers : answers'[i] = IF i = id THEN result ELSE answers[i]
      BY <2>3
    <2>5. Len(answers') = Len(answers)
      <3>1. answers' \in Seq(Outcome)
        BY NextTypeOK DEF TypeOK
      <3>2. DOMAIN answers' = 1..Len(answers') /\ Len(answers') \in Nat
        BY <3>1, LenProperties
      <3>. QED BY <1>0, <2>4, <3>2
    <2>6. \A k \in DOMAIN Unserved' :
             Unserved'[k].id = Len(answers') - Len(Unserved') + k
      <3>. SUFFICES ASSUME NEW k \in 1..Len(Unserved')
                    PROVE  Unserved'[k].id = Len(answers') - Len(Unserved') + k
        BY <2>2
      <3>1. Unserved'[k] = Unserved[k + 1] /\ k + 1 \in DOMAIN Unserved
        BY <1>0, <2>1, <2>2
      <3>2. Unserved[k + 1].id = Len(answers) - Len(Unserved) + (k + 1)
        BY <3>1 DEF PendingInOrder
      <3>. QED BY <1>0, <2>2, <2>5, <3>1, <3>2
    <2>7. \A i \in DOMAIN answers' :
             answers'[i].status = "pending" <=> i > Len(answers') - Len(Unserved')
      BY <1>0, <2>1, <2>2, <2>3, <2>4, <2>5 DEF PendingInOrder
    <2>. QED BY <2>6, <2>7 DEF PendingInOrder
  <1>8. CASE SpuriousWakeup
    BY <1>8, SameUnserved DEF SpuriousWakeup, Unserved
  <1>9. CASE SetStopFlag
    BY <1>9, SameUnserved DEF SetStopFlag, Unserved
  <1>10. CASE NotifyAll
    BY <1>10, SameUnserved DEF NotifyAll, Unserved
  <1>11. CASE Destroy
    <2>1. Unserved = command_queue /\ Len(Unserved') = 0 /\ DOMAIN Unserved' = {}
      BY <1>11, DestroyEmpties
    <2>2. /\ DOMAIN answers' = DOMAIN answers
          /\ \A i \in DOMAIN answers :
                answers'[i] = IF \E k \in DOMAIN Unserved : Unserved[k].id = i
                              THEN Broken ELSE answers[i]
      BY <1>11, <2>1 DEF Destroy
    <2>3. \A i \in DOMAIN answers :
             answers[i].status = "pending" => \E k \in DOMAIN Unserved : Unserved[k].id = i
      <3>. SUFFICES ASSUME NEW i \in DOMAIN answers, answers[i].status = "pending"
                    PROVE  \E k \in DOMAIN Unserved : Unserved[k].id = i
        OBVIOUS
      <3>1. Len(Unserved) <= Len(answers)
        BY <1>0, FirstUnserved, EmptySeq
      <3>2. i - (Len(answers) - Len(Unserved)) \in DOMAIN Unserved
        BY <1>0, <3>1 DEF PendingInOrder
      <3>3. WITNESS i - (Len(answers) - Len(Unserved)) \in DOMAIN Unserved
      <3>. QED BY <1>0, <3>2 DEF PendingInOrder
    <2>4. Broken.status # "pending"
      BY DEF Broken
    <2>5. \A i \in DOMAIN answers' : answers'[i].status # "pending"
      BY <2>2, <2>3, <2>4
    <2>6. Len(answers') = Len(answers)
      <3>1. answers' \in Seq(Outcome)
        BY NextTypeOK DEF TypeOK
      <3>2. DOMAIN answers' = 1..Len(answers') /\ Len(answers') \in Nat
        BY <3>1, LenProperties
      <3>. QED BY <1>0, <2>2, <3>2
    <2>. QED BY <1>0, <2>1, <2>2, <2>5, <2>6 DEF PendingInOrder
  <1>12. CASE UNCHANGED vars
    BY <1>12, SameUnserved DEF vars, Unserved
  <1>. QED BY <1>1, <1>2, <1>3, <1>4, <1>5, <1>6, <1>7, <1>8, <1>9, <1>10, <1>11,
              <1>12 DEF Next, WorkerStep

-----------------------------------------------------------------------------
(* The theorems                                                               *)

\* The inductive invariant holds in every reachable state.
THEOREM Invariant == Spec => []IInv
  <1>1. IInv /\ [Next]_vars => IInv'
    BY NextTypeOK, NextPhases, NextNoLostWakeup, NextPendingInOrder DEF IInv
  <1>. QED BY InitIInv, <1>1, PTL DEF Spec

\* The queue, the promises and the control states keep their types: no command and
\* no operation on the chip puts a value elsewhere.
THEOREM TypeCorrect == Spec => []TypeOK
  <1>1. IInv => TypeOK
    BY DEF IInv
  <1>. QED BY Invariant, <1>1, PTL

\* push_command, ~NandChip and worker_loop never leave the worker asleep on work or
\* on a stop request that nobody is about to signal.
THEOREM LostWakeupFree == Spec => []NoLostWakeup
  <1>1. IInv => NoLostWakeup
    BY DEF IInv
  <1>. QED BY Invariant, <1>1, PTL

\* The unset promises are those of the unserved tasks, each there once and in the
\* order push_command queued them.
THEOREM PendingOrdered == Spec => []PendingInOrder
  <1>1. IInv => PendingInOrder
    BY DEF IInv
  <1>. QED BY Invariant, <1>1, PTL

\* The worker leaves worker_loop only on a stop request and without a task.
THEOREM CleanExit == Spec => []ExitIsClean
  <1>1. IInv => ExitIsClean
    BY TaskShape DEF IInv, Phases, ExitIsClean
  <1>. QED BY Invariant, <1>1, PTL

-----------------------------------------------------------------------------
(* NandChip implements NandStore                                              *)

LEMMA InitStore == Init => Store!Init
  BY ConcatEmptySeq, EmptySeq DEF Init, Store!Init, Unserved, Blank, Store!Blank

\* Every step is a step of the serial device or leaves its state alone.
LEMMA NextStore == IInv /\ [Next]_vars => [Store!Next]_(Store!vars)
  <1>. SUFFICES ASSUME IInv, [Next]_vars PROVE Store!Next \/ UNCHANGED Store!vars
    OBVIOUS
  <1>. USE DEF IInv
  <1>1. ASSUME NEW c \in Clients, NEW request \in Requests, Push(c, request)
        PROVE  Store!Submit(request)
    BY <1>1, PushAppends DEF Push, Phases, TypeOK, Pending, Store!Submit, Store!Pending
  <1>2. ASSUME NEW c \in Clients, Notify(c)
        PROVE  UNCHANGED Store!vars
    BY <1>2 DEF Notify, Unserved, Store!vars
  <1>3. CASE LoopHead
    BY <1>3 DEF LoopHead, Unserved, Store!vars
  <1>4. CASE Wait
    BY <1>4 DEF Wait, Unserved, Store!vars
  <1>5. CASE ReturnInside
    BY <1>5 DEF ReturnInside, Unserved, Store!vars
  <1>6. CASE Take
    BY <1>6, TakeMoves DEF Take, Store!vars
  <1>7. CASE Serve
    <2>1. task[1] \in Task
      BY <1>7, TaskShape DEF Phases, Serve
    <2>2. task[1].request \in Command
      BY <2>1 DEF Task
    <2>3. /\ MemoryAfter(memory, task[1].request) = Store!After(memory, task[1].request)
          /\ Result(memory, task[1].request) = Store!Answer(memory, task[1].request)
      BY <2>2, SameEffect DEF TypeOK
    <2>4. Store!Serve
      BY <1>7, <2>3, ServeTakesFirst DEF Serve, Store!Serve
    <2>. QED BY <2>4 DEF Store!Next
  <1>8. CASE SpuriousWakeup
    BY <1>8 DEF SpuriousWakeup, Unserved, Store!vars
  <1>9. CASE SetStopFlag
    BY <1>9 DEF SetStopFlag, Phases, TypeOK, Unserved, Store!Next, Store!Close
  <1>10. CASE NotifyAll
    BY <1>10 DEF NotifyAll, Unserved, Store!vars
  <1>11. CASE Destroy
    BY <1>11, DestroyEmpties
    DEF Destroy, Phases, TypeOK, Broken, Store!Next, Store!Abandon, Store!Broken
  <1>12. CASE UNCHANGED vars
    BY <1>12 DEF vars, Unserved, Store!vars
  <1>. QED BY <1>1, <1>2, <1>3, <1>4, <1>5, <1>6, <1>7, <1>8, <1>9, <1>10, <1>11,
              <1>12 DEF Next, WorkerStep, Store!Next

\* To whoever holds its futures, the chip with its threads is a serial device.
THEOREM Implementation == Spec => ImplementsNandStore
  <1>. QED BY InitStore, NextStore, Invariant, PTL DEF Spec, ImplementsNandStore, Store!Spec

=============================================================================
