---------------------------- MODULE NandCommands ----------------------------
(***************************************************************************)
(* The commands, tasks and results of NandChip (NandCmd, NandTask,         *)
(* NandResult) and the futures push_command returns.                       *)
(***************************************************************************)
EXTENDS Naturals, Sequences

CONSTANTS
    Blocks,    \* blocks of the chip (all dies and planes together)
    Pages,     \* pages of a block
    Contents,  \* what a page can hold
    Erased,    \* the content 0xFF...FF of an erased page
    Absent,    \* a null pointer, an index out of range, an empty vector
    Requests   \* the commands callers submit

Command ==
    [cmd   : {"READ", "PROGRAM", "ERASE", "NONE"},
     block : Blocks \cup {Absent},
     page  : Pages \cup {Absent},
     data  : Contents \cup {Absent}]

ASSUME CommandAssumption ==
    /\ Erased \in Contents
    /\ Absent \notin Blocks \cup Pages \cup Contents
    /\ Requests \subseteq Command

\* A future and the result in it: "ok" and "error" are the statuses 0 and -1.
Outcome == [status : {"pending", "broken", "ok", "error"}, data : Contents \cup {Absent}]

Pending == [status |-> "pending", data |-> Absent]
Broken  == [status |-> "broken",  data |-> Absent]

Task == [id : Nat \ {0}, request : Command]

Memory == [Blocks -> [Pages -> Contents]]

Blank == [b \in Blocks |-> [p \in Pages |-> Erased]]
=============================================================================
