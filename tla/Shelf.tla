------------------------------- MODULE Shelf -------------------------------
(***************************************************************************)
(* What a Store promises of one scope (the comments over Store and Mem):   *)
(* records stand in the order in which they were put, a record takes the   *)
(* place of the one with its ID, the oldest goes when there is no room,    *)
(* and nothing else goes but what is forgotten.                            *)
(***************************************************************************)
EXTENDS Naturals, Sequences

CONSTANTS Room       \* the most records that are kept; 0: all
VARIABLES
  items,             \* the records of the scope
  puts               \* how many records were put, in any scope

\* The newest records for which there is room.
Fits(s) == IF Room = 0 \/ Len(s) <= Room THEN s ELSE SubSeq(s, Len(s) - Room + 1, Len(s))

Init == items = <<>> /\ puts = 0
Add(r) == r.given /\ items' = Fits(Append(items, r))
Replace(r) == ~r.given /\ items' = Fits(Append(SelectSeq(items, LAMBDA x : x.id # r.id), r))
Put ==
  /\ puts' = puts + 1 /\ items' # <<>>
  /\ LET r == items'[Len(items')] IN r.n = puts + 1 /\ (Add(r) \/ Replace(r))
Elsewhere == puts' = puts + 1 /\ UNCHANGED items
Forget ==
  /\ UNCHANGED puts
  /\ \E gone \in SUBSET {items[i].n : i \in DOMAIN items} : items' = SelectSeq(items, LAMBDA x : x.n \notin gone)

Next == Put \/ Elsewhere \/ Forget
Spec == Init /\ [][Next]_<<items, puts>>
=============================================================================
