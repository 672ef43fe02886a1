------------------------------- MODULE PageMap -------------------------------
(***************************************************************************)
(* What a page-level mapping promises.  Every logical page that was        *)
(* written is in one physical page: the next one of a block when it was    *)
(* put there, and so programmed for it and for nothing else since the      *)
(* block was erased.  A block is erased when no logical page is in it.     *)
(***************************************************************************)
EXTENDS Naturals

CONSTANTS LogicalPages, Blocks, Nowhere

VARIABLES
    place,       \* the block and page of each logical page
    programmed   \* pages programmed in each block since it was erased

vars == <<place, programmed>>

Init ==
    /\ place = [k \in LogicalPages |-> Nowhere]
    /\ programmed = [b \in Blocks |-> 0]

Put(k) ==
    /\ place'[k] # place[k]
    /\ LET new == place'[k]
       IN  /\ new.page = programmed[new.block]
           /\ place' = [place EXCEPT ![k] = new]
           /\ programmed' = [programmed EXCEPT ![new.block] = @ + 1]

Erase(b) ==
    /\ programmed[b] # 0 /\ programmed'[b] = 0
    /\ \A k \in LogicalPages : place[k] # Nowhere => place[k].block # b
    /\ programmed' = [programmed EXCEPT ![b] = 0]
    /\ UNCHANGED place

Next == (\E k \in LogicalPages : Put(k)) \/ \E b \in Blocks : Erase(b)

Spec == Init /\ [][Next]_vars
=============================================================================
