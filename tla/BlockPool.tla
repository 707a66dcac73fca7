------------------------------ MODULE BlockPool ------------------------------
(***************************************************************************)
(* What a pool of device memory promises its callers, with none of the     *)
(* bookkeeping of allocator_core.hpp: some segments of address space, and  *)
(* in them live allocations that never overlap.  A request is granted any  *)
(* free run that is long enough, and is refused only when no segment holds *)
(* such a run.  BlockArena is shown to implement this module.              *)
(***************************************************************************)
EXTENDS Integers

CONSTANTS
  MaxAddress,     \* bound: addresses are 0 .. MaxAddress, and 0 is the null pointer
  Alignment,      \* allocation_alignment_
  Sizes,          \* bound: the byte sizes callers request
  SegmentSizes    \* bound: the byte sizes of the segments given to the pool

Address == 0 .. MaxAddress

VARIABLES
  segSize,        \* segSize[s]: bytes of the segment that starts at s, 0 if none does
  live,           \* live[a]: bytes of the live allocation at a, 0 if there is none
  reply           \* what the last operation returned to its caller

vars == <<segSize, live, reply>>

Segments == {s \in Address : segSize[s] > 0}
Live == {a \in Address : live[a] > 0}

\* Whether [a, a + n) and [b, b + m) have an address in common.
Overlap(a, n, b, m) == a < b + m /\ b < a + n

AlignUp(n) == ((n + Alignment - 1) \div Alignment) * Alignment

Answer(op, arg, ok, address, size) ==
  [op |-> op, arg |-> arg, ok |-> ok, address |-> address, size |-> size]

Replies == [op : {"none", "allocate", "deallocate", "add", "extract"},
            arg : Nat, ok : BOOLEAN, address : Nat, size : Nat]

\* n bytes starting at a lie in one segment and touch no live allocation.
FreeRun(a, n) ==
  /\ \E s \in Segments : s <= a /\ a + n <= s + segSize[s]
  /\ \A l \in Live : ~Overlap(a, n, l, live[l])

-----------------------------------------------------------------------------

Init ==
  /\ segSize = [a \in Address |-> 0]
  /\ live = [a \in Address |-> 0]
  /\ reply = Answer("none", 0, TRUE, 0, 0)

Add(s, n) ==
  /\ \A t \in Segments : ~Overlap(s, n, t, segSize[t])
  /\ segSize' = [segSize EXCEPT ![s] = n]
  /\ reply' = Answer("add", n, TRUE, s, n)
  /\ UNCHANGED live

AllocateNothing ==
  /\ reply' = Answer("allocate", 0, TRUE, 0, 0)
  /\ UNCHANGED <<segSize, live>>

Grant(n, a) ==
  /\ n > 0
  /\ FreeRun(a, AlignUp(n))
  /\ live' = [live EXCEPT ![a] = AlignUp(n)]
  /\ reply' = Answer("allocate", n, TRUE, a, AlignUp(n))
  /\ UNCHANGED segSize

Refuse(n) ==
  /\ n > 0
  /\ \A a \in Address : ~FreeRun(a, AlignUp(n))
  /\ reply' = Answer("allocate", n, FALSE, 0, 0)
  /\ UNCHANGED <<segSize, live>>

Free(a) ==
  /\ live' = [live EXCEPT ![a] = 0]
  /\ reply' = Answer("deallocate", a, a = 0 \/ a \in Live, 0, 0)
  /\ UNCHANGED segSize

\* Every segment without a live allocation leaves the pool, and no other.
Release ==
  /\ segSize' = [s \in Address |->
       IF \E l \in Live : Overlap(s, segSize[s], l, live[l]) THEN segSize[s] ELSE 0]
  /\ reply' = Answer("extract", 0, TRUE, 0, 0)
  /\ UNCHANGED live

Next ==
  \/ \E s \in Address, n \in SegmentSizes : Add(s, n)
  \/ AllocateNothing
  \/ \E n \in Sizes, a \in Address : Grant(n, a)
  \/ \E n \in Sizes : Refuse(n)
  \/ \E a \in Address : Free(a)
  \/ Release

Spec == Init /\ [][Next]_vars
=============================================================================
