----------------------------- MODULE XipWindow -----------------------------
(***************************************************************************)
(* What execute-in-place promises the program: an access through the       *)
(* window reads the flash page it names, as if the flash were memory.      *)
(***************************************************************************)
CONSTANTS Pages, NoPage

VARIABLE last   \* the last access that completed: the page, and what it read

Init == last = [page |-> NoPage, read |-> NoPage]

\* The contents of a page are known by its number.
Access == \E p \in Pages : last' = [page |-> p, read |-> p]

Next == Access

Spec == Init /\ [][Next]_last
=============================================================================
