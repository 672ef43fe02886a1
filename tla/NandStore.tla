------------------------------ MODULE NandStore ------------------------------
(***************************************************************************)
(* What a NAND chip promises the code that holds its futures: a serial     *)
(* device.  Commands wait in the order they were submitted, each is served *)
(* once, at one instant, on the memory its predecessors left, and its      *)
(* future then holds the result.  Only a closing device abandons commands, *)
(* and then all that still wait.  There are no threads, locks or signals   *)
(* here.                                                                   *)
(***************************************************************************)
EXTENDS NandCommands

VARIABLES
    memory,   \* the content of every page
    waiting,  \* tasks not served, in submission order
    answers,  \* the futures, in submission order
    closed    \* the device takes no more commands

vars == <<memory, waiting, answers, closed>>

-----------------------------------------------------------------------------
(* The effect and the result of one command                                   *)

Reaches(c) ==
    /\ c.cmd \in {"READ", "PROGRAM", "ERASE"}
    /\ c.block # Absent
    /\ c.cmd \in {"READ", "PROGRAM"} => c.page # Absent
    /\ c.cmd = "PROGRAM" => c.data # Absent

After(m, c) ==
    IF ~ Reaches(c) \/ c.cmd = "READ" THEN m
    ELSE [m EXCEPT ![c.block] =
            [p \in Pages |-> IF c.cmd = "ERASE" THEN Erased
                             ELSE IF p = c.page THEN c.data ELSE @[p]]]

\* A READ that fails still returns its buffer, which starts out as 0xFF.
Answer(m, c) ==
    [status |-> IF Reaches(c) THEN "ok" ELSE "error",
     data   |-> IF c.cmd # "READ" THEN Absent
                ELSE IF Reaches(c) THEN m[c.block][c.page] ELSE Erased]

-----------------------------------------------------------------------------
Init ==
    /\ memory = Blank
    /\ waiting = <<>>
    /\ answers = <<>>
    /\ closed = FALSE

Submit(c) ==
    /\ ~ closed
    /\ waiting' = Append(waiting, [id |-> Len(answers) + 1, request |-> c])
    /\ answers' = Append(answers, Pending)
    /\ UNCHANGED <<memory, closed>>

Serve ==
    /\ waiting # <<>>
    /\ memory' = After(memory, Head(waiting).request)
    /\ answers' = [answers EXCEPT ![Head(waiting).id] =
                        Answer(memory, Head(waiting).request)]
    /\ waiting' = Tail(waiting)
    /\ UNCHANGED closed

Close ==
    /\ ~ closed
    /\ closed' = TRUE
    /\ UNCHANGED <<memory, waiting, answers>>

Abandon ==
    /\ closed
    /\ answers' = [i \in DOMAIN answers |->
                     IF \E k \in DOMAIN waiting : waiting[k].id = i
                     THEN Broken ELSE answers[i]]
    /\ waiting' = <<>>
    /\ UNCHANGED <<memory, closed>>

Next == (\E c \in Requests : Submit(c)) \/ Serve \/ Close \/ Abandon

Spec == Init /\ [][Next]_vars
=============================================================================
