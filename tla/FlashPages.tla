----------------------------- MODULE FlashPages -----------------------------
(***************************************************************************)
(* What the bookkeeping of a plane promises its callers: the discipline of *)
(* NAND flash.  The pages of a block are handed out in order and once      *)
(* between two erases; a block serves one stream from its first page to    *)
(* its erase; an erase destroys no live page.  Nothing here speaks of      *)
(* pools, open blocks, counters or bitmaps.                                *)
(***************************************************************************)
EXTENDS Integers

CONSTANTS Streams, Blocks, PagesPerBlock, NoStream

VARIABLES
    programmed,  \* pages of each block handed out since its last erase
    owner,       \* the stream a block serves, NoStream when it is blank
    live         \* addresses of live pages

vars == <<programmed, owner, live>>

Init ==
    /\ programmed = [b \in Blocks |-> 0]
    /\ owner = [b \in Blocks |-> NoStream]
    /\ live = {}

Allocate(s, b) ==
    /\ programmed[b] < PagesPerBlock
    /\ owner[b] \in {s, NoStream}
    /\ programmed' = [programmed EXCEPT ![b] = @ + 1]
    /\ owner' = [owner EXCEPT ![b] = s]
    /\ live' = live \cup {[stream |-> s, block |-> b, page |-> programmed[b]]}

Invalidate(a) ==
    /\ live' = live \ {a}
    /\ UNCHANGED <<programmed, owner>>

Erase(b) ==
    /\ programmed[b] > 0
    /\ \A a \in live : a.block # b
    /\ programmed' = [programmed EXCEPT ![b] = 0]
    /\ owner' = [owner EXCEPT ![b] = NoStream]
    /\ UNCHANGED live

Next ==
    \/ \E s \in Streams, b \in Blocks : Allocate(s, b)
    \/ \E a \in live : Invalidate(a)
    \/ \E b \in Blocks : Erase(b)

Spec == Init /\ [][Next]_vars
=============================================================================
