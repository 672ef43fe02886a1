------------------------------ MODULE MCNandChip ------------------------------
(***************************************************************************)
(* Commands that tell the cases of NandChip apart: a program, a read and   *)
(* an erase of the same page, an erase through another page id, and one    *)
(* command each that fails for its address, its data and its code.         *)
(***************************************************************************)
EXTENDS NandChip

CONSTANTS b1, p1, p2, x, c1, c2

MCBlocks == {b1}
MCPages == {p1, p2}
MCContents == {Erased, x}
MCClients == {c1, c2}

MCRequests ==
    {[cmd |-> "PROGRAM", block |-> b1, page |-> p1, data |-> x],
     [cmd |-> "READ",    block |-> b1, page |-> p1, data |-> Absent],
     [cmd |-> "ERASE",   block |-> b1, page |-> p2, data |-> Absent],
     [cmd |-> "PROGRAM", block |-> b1, page |-> p2, data |-> Absent],
     [cmd |-> "READ",    block |-> Absent, page |-> p1, data |-> Absent],
     [cmd |-> "ERASE",   block |-> b1, page |-> Absent, data |-> Absent],
     [cmd |-> "NONE",    block |-> b1, page |-> p1, data |-> Absent]}
=============================================================================
