------------------------------ MODULE NandChip ------------------------------
(***************************************************************************)
(* NandChip: the threads that call push_command, the chip's worker thread  *)
(* and the destructor, over one mutex, one condition variable and a queue. *)
(* A critical section is one action: nothing blocks inside it but the      *)
(* wait, which gives the mutex up.  Between two critical sections every    *)
(* interleaving happens.  The worker reads stop_flag at the loop head      *)
(* without the mutex (line 117); since it takes the mutex on every turn,   *)
(* an old value there is what it could have read a moment earlier, and the *)
(* interleavings contain it.                                               *)
(***************************************************************************)
EXTENDS NandCommands

CONSTANTS
    Clients,     \* threads that call push_command
    MaxCommands  \* bound: commands pushed in one behaviour

ASSUME ChipAssumption == MaxCommands \in Nat

VARIABLES
    memory,        \* the pages of dies[..].planes[..].blocks[..]
    command_queue,
    stop_flag,
    answers,       \* the promises, in the order their commands were queued
    task,          \* <<>>, or the one task the worker has taken
    worker,        \* where worker_loop is
    client,        \* where each caller is in push_command
    owner          \* where the owning thread is in ~NandChip

vars == <<memory, command_queue, stop_flag, answers, task, worker, client, owner>>

-----------------------------------------------------------------------------
(* erase_block, write_page and read_page: the memory after, the result        *)

\* mutant: an erase clears the addressed page only
erase_page_only(m, c) ==
    IF c.block = Absent \/ c.page = Absent THEN m
    ELSE [m EXCEPT ![c.block][c.page] = Erased]

\* The page id is not looked at: all pages of the block are reset.
erase_block(m, c) ==
    IF c.block = Absent THEN m
    ELSE [m EXCEPT ![c.block] = [p \in Pages |-> Erased]]

\* mutant: the null check on the data is forgotten
write_page_unchecked(m, c) ==
    IF c.block = Absent \/ c.page = Absent THEN m
    ELSE [m EXCEPT ![c.block][c.page] = c.data]

write_page(m, c) ==
    IF c.data = Absent \/ c.block = Absent \/ c.page = Absent THEN m
    ELSE [m EXCEPT ![c.block][c.page] = c.data]

read_page(m, c) ==
    IF c.block = Absent \/ c.page = Absent THEN Erased ELSE m[c.block][c.page]

Failed(c) ==
    \/ c.cmd = "NONE"
    \/ c.block = Absent
    \/ c.page = Absent /\ c.cmd # "ERASE"
    \/ c.data = Absent /\ c.cmd = "PROGRAM"

MemoryAfter(m, c) ==
    CASE c.cmd = "ERASE"   -> erase_block(m, c)
      [] c.cmd = "PROGRAM" -> write_page(m, c)
      [] OTHER             -> m

\* A read that fails still returns its buffer, filled with 0xFF beforehand.
Result(m, c) ==
    [status |-> IF Failed(c) THEN "error" ELSE "ok",
     data   |-> IF c.cmd = "READ" THEN read_page(m, c) ELSE Absent]

-----------------------------------------------------------------------------
Init ==
    /\ memory = Blank
    /\ command_queue = <<>>
    /\ stop_flag = FALSE
    /\ answers = <<>>
    /\ task = <<>>
    /\ worker = "loop_head"
    /\ client = [c \in Clients |-> "outside"]
    /\ owner = "alive"

(* push_command: the critical section, then the signal outside it             *)

\* C++ gives no meaning to a call on an object under destruction: callers stop first.
Push(c, request) ==
    /\ owner = "alive"
    /\ client[c] = "outside"
    /\ Len(answers) < MaxCommands
    /\ command_queue' = Append(command_queue,
                               [id |-> Len(answers) + 1, request |-> request])
    /\ answers' = Append(answers, Pending)
    /\ client' = [client EXCEPT ![c] = "notify"]
    /\ UNCHANGED <<memory, stop_flag, task, worker, owner>>

\* mutant: the signal is given but wakes nobody
Unwoken(w) == w

\* A signal moves a waiting worker on to take the mutex again; else it is lost.
Woken(w) == IF w = "waiting" THEN "take" ELSE w

Notify(c) ==
    /\ client[c] = "notify"
    /\ worker' = Woken(worker)
    /\ client' = [client EXCEPT ![c] = "outside"]
    /\ UNCHANGED <<memory, command_queue, stop_flag, answers, task, owner>>

-----------------------------------------------------------------------------
(* worker_loop                                                                *)

\* mutant: the loop ends when there is no work rather than on the flag
LoopUntilIdle ==
    /\ worker = "loop_head"
    /\ worker' = IF command_queue = <<>> THEN "exited" ELSE "take"
    /\ UNCHANGED <<memory, command_queue, stop_flag, answers, task, client, owner>>

LoopHead ==
    /\ worker = "loop_head"
    /\ worker' = IF stop_flag THEN "exited" ELSE "take"
    /\ UNCHANGED <<memory, command_queue, stop_flag, answers, task, client, owner>>

\* mutant: the predicate forgets the stop request
WakeableByTask == command_queue # <<>>

\* The predicate of cv.wait, evaluated under the mutex.
Wakeable == stop_flag \/ command_queue # <<>>

Wait ==
    /\ worker = "take"
    /\ ~ Wakeable
    /\ worker' = "waiting"
    /\ UNCHANGED <<memory, command_queue, stop_flag, answers, task, client, owner>>

SpuriousWakeup ==
    /\ worker = "waiting"
    /\ worker' = "take"
    /\ UNCHANGED <<memory, command_queue, stop_flag, answers, task, client, owner>>

ReturnInside ==
    /\ worker = "take"
    /\ stop_flag /\ command_queue = <<>>
    /\ worker' = "exited"
    /\ UNCHANGED <<memory, command_queue, stop_flag, answers, task, client, owner>>

\* mutant: the task is copied out and stays in the queue
PeekTask ==
    /\ worker = "take"
    /\ command_queue # <<>>
    /\ task' = <<Head(command_queue)>>
    /\ worker' = "serve"
    /\ UNCHANGED <<memory, command_queue, stop_flag, answers, client, owner>>

Take ==
    /\ worker = "take"
    /\ command_queue # <<>>
    /\ task' = <<Head(command_queue)>>
    /\ command_queue' = Tail(command_queue)
    /\ worker' = "serve"
    /\ UNCHANGED <<memory, stop_flag, answers, client, owner>>

\* The pages belong to the worker, so the operation and the set_value that
\* publishes its result are one step to everybody else.
Serve ==
    /\ worker = "serve"
    /\ memory' = MemoryAfter(memory, task[1].request)
    /\ answers' = [answers EXCEPT ![task[1].id] = Result(memory, task[1].request)]
    /\ task' = <<>>
    /\ worker' = "loop_head"
    /\ UNCHANGED <<command_queue, stop_flag, client, owner>>

-----------------------------------------------------------------------------
(* ~NandChip                                                                  *)

SetStopFlag ==
    /\ owner = "alive"
    /\ \A c \in Clients : client[c] = "outside"
    /\ stop_flag' = TRUE
    /\ owner' = "notify_all"
    /\ UNCHANGED <<memory, command_queue, answers, task, worker, client>>

NotifyAll ==
    /\ owner = "notify_all"
    /\ worker' = Woken(worker)
    /\ owner' = "join"
    /\ UNCHANGED <<memory, command_queue, stop_flag, answers, task, client>>

\* join returns; then command_queue is destroyed and breaks the promises in it.
Destroy ==
    /\ owner = "join"
    /\ worker = "exited"
    /\ answers' = [i \in DOMAIN answers |->
                     IF \E k \in DOMAIN command_queue : command_queue[k].id = i
                     THEN Broken ELSE answers[i]]
    /\ command_queue' = <<>>
    /\ owner' = "gone"
    /\ UNCHANGED <<memory, stop_flag, task, worker, client>>

-----------------------------------------------------------------------------
WorkerStep == LoopHead \/ Wait \/ ReturnInside \/ Take \/ Serve

Next ==
    \/ \E c \in Clients : Notify(c) \/ \E request \in Requests : Push(c, request)
    \/ WorkerStep
    \/ SpuriousWakeup
    \/ SetStopFlag
    \/ NotifyAll
    \/ Destroy

\* The operating system runs every thread that can run.  Nobody must call
\* push_command or destroy the chip, and a wakeup without a signal may never come.
Fairness ==
    /\ WF_vars(WorkerStep)
    /\ \A c \in Clients : WF_vars(Notify(c))
    /\ WF_vars(NotifyAll)
    /\ WF_vars(Destroy)

Spec == Init /\ [][Next]_vars /\ Fairness

-----------------------------------------------------------------------------
(* Properties                                                                 *)

TypeOK ==
    /\ memory \in Memory
    /\ command_queue \in Seq(Task)
    /\ stop_flag \in BOOLEAN
    /\ answers \in Seq(Outcome)
    /\ task \in Seq(Task) /\ Len(task) <= 1
    /\ worker \in {"loop_head", "take", "waiting", "serve", "exited"}
    /\ client \in [Clients -> {"outside", "notify"}]
    /\ owner \in {"alive", "notify_all", "join", "gone"}

\* The signal is sent after the mutex is released and the loop condition is read
\* without it, and still the worker never sleeps on work or on a stop request
\* unless somebody is about to signal it.
NoLostWakeup ==
    worker = "waiting" /\ Wakeable =>
        \/ \E c \in Clients : client[c] = "notify"
        \/ owner = "notify_all"

\* The tasks the worker has taken, then those that wait.
Unserved == task \o command_queue

\* A promise is unset exactly while its task is with the worker or in the queue,
\* there once, and these are the last commands pushed, in their order.
PendingInOrder ==
    /\ \A k \in DOMAIN Unserved : Unserved[k].id = Len(answers) - Len(Unserved) + k
    /\ \A i \in DOMAIN answers :
          answers[i].status = "pending" <=> i > Len(answers) - Len(Unserved)

\* The worker cannot be joined while it holds a task, nor leave before the flag is
\* set, so no promise is lost with the thread.
ExitIsClean ==
    worker = "exited" => stop_flag /\ task = <<>>

\* Every future becomes ready, with a result or with broken_promise.
EveryFutureResolves ==
    \A i \in 1..MaxCommands :
        (i \in DOMAIN answers /\ answers[i].status = "pending")
            ~> (i \in DOMAIN answers /\ answers[i].status # "pending")

\* ~NandChip returns once it has been called.
DestructorReturns == owner = "notify_all" ~> owner = "gone"

\* The chip implements the serial device of NandStore.
Store == INSTANCE NandStore WITH waiting <- Unserved, closed <- stop_flag

ImplementsNandStore == Store!Spec
=============================================================================
