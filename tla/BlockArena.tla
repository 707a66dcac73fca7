------------------------------ MODULE BlockArena ------------------------------
(***************************************************************************)
(* BlockArena of csrc/src/tensor/cuda/allocator_core.hpp: the host-side    *)
(* suballocator of the CUDA memory pool.  Every segment of device memory   *)
(* is cut into blocks chained in address order by their previous and next  *)
(* pointers; the free blocks are indexed by size for the best-fit search,  *)
(* the allocated ones by address for deallocation.                         *)
(*                                                                         *)
(* A Block* is a heap cell of the set Block.  Its fields are the functions *)
(* below, which keep their default values on cells that are not live.  The *)
(* iterator free_position and the flag indexed of a block are both read    *)
(* off free_index_.  Ties between free blocks of one size, which the code  *)
(* breaks by insertion order, are broken either way.                       *)
(***************************************************************************)
EXTENDS Integers

CONSTANTS
  MaxAddress,     \* bound: addresses are 0 .. MaxAddress, and 0 is the null pointer
  Alignment,      \* allocation_alignment_
  Sizes,          \* bound: the byte sizes callers request
  SegmentSizes,   \* bound: the byte sizes of the segments given to the arena
  Block,          \* bound: the heap cells a Block can be made in
  Null            \* the null Block*

ASSUME AddressAssumption == MaxAddress \in Nat
ASSUME AlignmentAssumption == Alignment \in Nat \ {0}
ASSUME SizesAssumption == Sizes \subseteq Nat
ASSUME SegmentSizesAssumption == SegmentSizes \subseteq Nat
ASSUME NullAssumption == Null \notin Block

VARIABLES
  segSize,        \* segments_: bytes of the segment that starts at an address, 0 if none
  first,          \* Segment::first, by the segment's address
  nodes,          \* nodes_: the live blocks
  address,        \* Block::address
  size,           \* Block::size
  isAllocated,    \* Block::allocated
  segment,        \* Block::segment, named by the segment's address
  previous,       \* Block::previous
  next,           \* Block::next
  free_index,     \* free_index_: pairs <<size at insertion, block>>
  allocated,      \* allocated_: the block handed out at an address, Null if none
  reply           \* what the last operation returned

blockVars == <<nodes, address, size, isAllocated, segment, previous, next>>
arenaVars == <<segSize, first, blockVars, free_index, allocated>>
vars == <<arenaVars, reply>>

Address == 0 .. MaxAddress
Segments == {s \in Address : segSize[s] > 0}

Overlap(a, n, b, m) == a < b + m /\ b < a + n

AlignUp(n) == ((n + Alignment - 1) \div Alignment) * Alignment

Answer(op, arg, ok, addr, sz) ==
  [op |-> op, arg |-> arg, ok |-> ok, address |-> addr, size |-> sz]

Replies == [op : {"none", "allocate", "deallocate", "add", "extract"},
            arg : Nat, ok : BOOLEAN, address : Nat, size : Nat]

Init ==
  /\ segSize = [a \in Address |-> 0]
  /\ first = [a \in Address |-> Null]
  /\ nodes = {}
  /\ address = [b \in Block |-> 0]
  /\ size = [b \in Block |-> 0]
  /\ isAllocated = [b \in Block |-> FALSE]
  /\ segment = [b \in Block |-> 0]
  /\ previous = [b \in Block |-> Null]
  /\ next = [b \in Block |-> Null]
  /\ free_index = {}
  /\ allocated = [a \in Address |-> Null]
  /\ reply = Answer("none", 0, TRUE, 0, 0)

-----------------------------------------------------------------------------
(* add_segment.  The memory comes from cudaMalloc, so it overlaps nothing  *)
(* the arena already holds.                                                *)

AddSegment(s, n) ==
  /\ s # 0 /\ n # 0 /\ s % Alignment = 0 /\ n % Alignment = 0
  /\ s + n - 1 <= MaxAddress
  /\ \A t \in Segments : ~Overlap(s, n, t, segSize[t])
  /\ \E b \in Block \ nodes :
       /\ nodes' = nodes \cup {b}
       /\ address' = [address EXCEPT ![b] = s]
       /\ size' = [size EXCEPT ![b] = n]
       /\ segment' = [segment EXCEPT ![b] = s]
       /\ segSize' = [segSize EXCEPT ![s] = n]
       /\ first' = [first EXCEPT ![s] = b]
       /\ free_index' = free_index \cup {<<n, b>>}
  /\ reply' = Answer("add", n, TRUE, s, n)
  /\ UNCHANGED <<isAllocated, previous, next, allocated>>

-----------------------------------------------------------------------------
(* allocate *)

\* Mistake: upper_bound, which passes over the blocks of exactly n bytes.
AboveFit(n) ==
  {b \in nodes : \E e \in free_index :
     /\ e[2] = b /\ e[1] > n
     /\ \A f \in free_index : f[1] > n => e[1] <= f[1]}

\* free_index_.lower_bound(n): the indexed blocks of the smallest sufficient size.
BestFit(n) ==
  {b \in nodes : \E e \in free_index :
     /\ e[2] = b /\ e[1] >= n
     /\ \A f \in free_index : f[1] >= n => e[1] <= f[1]}

AllocateNothing ==
  /\ reply' = Answer("allocate", 0, TRUE, 0, 0)
  /\ UNCHANGED arenaVars

AllocateNullopt(n) ==
  /\ n > 0
  /\ BestFit(AlignUp(n)) = {}
  /\ reply' = Answer("allocate", n, FALSE, 0, 0)
  /\ UNCHANGED arenaVars

HandOut(b, n, granted) ==
  /\ isAllocated' = [isAllocated EXCEPT ![b] = TRUE]
  /\ allocated' = [allocated EXCEPT ![address[b]] = b]
  /\ reply' = Answer("allocate", n, TRUE, address[b], granted)

\* Mistake: the block handed out stays indexed as free.
TakeWholeStillIndexed(n) ==
  /\ n > 0
  /\ \E b \in BestFit(AlignUp(n)) : size[b] <= AlignUp(n) /\ HandOut(b, n, size[b])
  /\ UNCHANGED <<segSize, first, nodes, address, size, segment, previous, next, free_index>>

\* The block found is exactly the size wanted.
TakeWhole(n) ==
  /\ n > 0
  /\ \E b \in BestFit(AlignUp(n)) :
       /\ size[b] <= AlignUp(n)
       /\ free_index' = {e \in free_index : e[2] # b}
       /\ HandOut(b, n, size[b])
  /\ UNCHANGED <<segSize, first, nodes, address, size, segment, previous, next>>

\* Mistake: the tail begins where the bytes asked for end, not where those granted do.
SplitUnaligned(n) ==
  /\ n > 0
  /\ \E b \in BestFit(AlignUp(n)), r \in Block \ nodes :
       LET need == AlignUp(n)
           rest == size[b] - need
       IN  /\ size[b] > need
           /\ nodes' = nodes \cup {r}
           /\ address' = [address EXCEPT ![r] = address[b] + n]
           /\ size' = [size EXCEPT ![r] = rest, ![b] = need]
           /\ segment' = [segment EXCEPT ![r] = segment[b]]
           /\ previous' = [x \in Block |-> IF x = r THEN b
                                           ELSE IF x = next[b] THEN r ELSE previous[x]]
           /\ next' = [next EXCEPT ![r] = next[b], ![b] = r]
           /\ free_index' = {e \in free_index : e[2] # b} \cup {<<rest, r>>}
           /\ HandOut(b, n, need)
  /\ UNCHANGED <<segSize, first>>

\* Mistake: the block after the tail still has the block before it as its previous.
SplitUnlinked(n) ==
  /\ n > 0
  /\ \E b \in BestFit(AlignUp(n)), r \in Block \ nodes :
       LET need == AlignUp(n)
           rest == size[b] - need
       IN  /\ size[b] > need
           /\ nodes' = nodes \cup {r}
           /\ address' = [address EXCEPT ![r] = address[b] + need]
           /\ size' = [size EXCEPT ![r] = rest, ![b] = need]
           /\ segment' = [segment EXCEPT ![r] = segment[b]]
           /\ previous' = [previous EXCEPT ![r] = b]
           /\ next' = [next EXCEPT ![r] = next[b], ![b] = r]
           /\ free_index' = {e \in free_index : e[2] # b} \cup {<<rest, r>>}
           /\ HandOut(b, n, need)
  /\ UNCHANGED <<segSize, first>>

\* The block found is larger: its tail becomes a new free block after it.
Split(n) ==
  /\ n > 0
  /\ \E b \in BestFit(AlignUp(n)), r \in Block \ nodes :
       LET need == AlignUp(n)
           rest == size[b] - need
       IN  /\ size[b] > need
           /\ nodes' = nodes \cup {r}
           /\ address' = [address EXCEPT ![r] = address[b] + need]
           /\ size' = [size EXCEPT ![r] = rest, ![b] = need]
           /\ segment' = [segment EXCEPT ![r] = segment[b]]
           /\ previous' = [x \in Block |-> IF x = r THEN b
                                           ELSE IF x = next[b] THEN r ELSE previous[x]]
           /\ next' = [next EXCEPT ![r] = next[b], ![b] = r]
           /\ free_index' = {e \in free_index : e[2] # b} \cup {<<rest, r>>}
           /\ HandOut(b, n, need)
  /\ UNCHANGED <<segSize, first>>

-----------------------------------------------------------------------------
(* deallocate *)

\* The null pointer, and an address that no live allocation has.
DeallocateNothing(a) ==
  /\ a = 0 \/ allocated[a] = Null
  /\ reply' = Answer("deallocate", a, a = 0, 0, 0)
  /\ UNCHANGED arenaVars

IsFree(b) == b # Null /\ ~isAllocated[b]

\* destroy_block on the cells of gone, whose field f returns to its default.
Destroyed(f, gone, default) == [x \in Block |-> IF x \in gone THEN default ELSE f[x]]

\* Mistake: the freed block is not merged with its neighbours.
DeallocateUnmerged(a) ==
  /\ a # 0 /\ allocated[a] # Null
  /\ isAllocated' = [isAllocated EXCEPT ![allocated[a]] = FALSE]
  /\ free_index' = free_index \cup {<<size[allocated[a]], allocated[a]>>}
  /\ allocated' = [allocated EXCEPT ![a] = Null]
  /\ reply' = Answer("deallocate", a, TRUE, 0, 0)
  /\ UNCHANGED <<segSize, first, nodes, address, size, segment, previous, next>>

(* The freed block is merged into a free previous block, then with a free  *)
(* next one; what is left of the three is indexed under its total size.    *)
Deallocate(a) ==
  /\ a # 0 /\ allocated[a] # Null
  /\ LET b     == allocated[a]
         p     == previous[b]
         n     == next[b]
         head  == IF IsFree(p) THEN p ELSE b
         after == IF IsFree(n) THEN next[n] ELSE n
         gone  == {x \in {b} : IsFree(p)} \cup {x \in {n} : IsFree(n)}
         total == size[b] + (IF IsFree(p) THEN size[p] ELSE 0)
                          + (IF IsFree(n) THEN size[n] ELSE 0)
     IN  /\ nodes' = nodes \ gone
         /\ address' = Destroyed(address, gone, 0)
         /\ size' = Destroyed([size EXCEPT ![head] = total], gone, 0)
         /\ isAllocated' = [isAllocated EXCEPT ![b] = FALSE]
         /\ segment' = Destroyed(segment, gone, 0)
         /\ previous' = Destroyed([x \in Block |->
              IF gone # {} /\ x = after THEN head ELSE previous[x]], gone, Null)
         /\ next' = Destroyed([next EXCEPT ![head] = after], gone, Null)
         /\ free_index' = {e \in free_index : e[2] \notin {p, n}}
                            \cup {<<total, head>>}
  /\ allocated' = [allocated EXCEPT ![a] = Null]
  /\ reply' = Answer("deallocate", a, TRUE, 0, 0)
  /\ UNCHANGED <<segSize, first>>

-----------------------------------------------------------------------------
(* extract_fully_free_segments *)

FullyFree(s) ==
  LET b == first[s]
  IN  ~isAllocated[b] /\ next[b] = Null /\ address[b] = s /\ size[b] = segSize[s]

\* Mistake: the blocks of the segments released stay in free_index_.
ExtractStillIndexed ==
  LET released == {s \in Segments : FullyFree(s)}
      gone     == {first[s] : s \in released}
  IN  /\ segSize' = [s \in Address |-> IF s \in released THEN 0 ELSE segSize[s]]
      /\ first' = [s \in Address |-> IF s \in released THEN Null ELSE first[s]]
      /\ nodes' = nodes \ gone
      /\ address' = Destroyed(address, gone, 0)
      /\ size' = Destroyed(size, gone, 0)
      /\ segment' = Destroyed(segment, gone, 0)
      /\ reply' = Answer("extract", 0, TRUE, 0, 0)
      /\ UNCHANGED <<isAllocated, previous, next, free_index, allocated>>

ExtractFullyFreeSegments ==
  LET released == {s \in Segments : FullyFree(s)}
      gone     == {first[s] : s \in released}
  IN  /\ segSize' = [s \in Address |-> IF s \in released THEN 0 ELSE segSize[s]]
      /\ first' = [s \in Address |-> IF s \in released THEN Null ELSE first[s]]
      /\ nodes' = nodes \ gone
      /\ address' = Destroyed(address, gone, 0)
      /\ size' = Destroyed(size, gone, 0)
      /\ segment' = Destroyed(segment, gone, 0)
      /\ free_index' = {e \in free_index : e[2] \notin gone}
      /\ reply' = Answer("extract", 0, TRUE, 0, 0)
      /\ UNCHANGED <<isAllocated, previous, next, allocated>>

-----------------------------------------------------------------------------

Next ==
  \/ \E s \in Address, n \in SegmentSizes : AddSegment(s, n)
  \/ AllocateNothing
  \/ \E n \in Sizes : AllocateNullopt(n) \/ TakeWhole(n) \/ Split(n)
  \/ \E a \in Address : DeallocateNothing(a) \/ Deallocate(a)
  \/ ExtractFullyFreeSegments

Spec == Init /\ [][Next]_vars
-----------------------------------------------------------------------------
(* Correctness                                                             *)

\* Every field has its type, and no pointer kept anywhere is to a destroyed block.
TypeOK ==
  /\ segSize \in [Address -> Nat]
  /\ nodes \subseteq Block
  /\ first \in [Address -> nodes \cup {Null}]
  /\ address \in [Block -> Address]
  /\ size \in [Block -> Nat]
  /\ isAllocated \in [Block -> BOOLEAN]
  /\ segment \in [Block -> Address]
  /\ previous \in [Block -> nodes \cup {Null}]
  /\ next \in [Block -> nodes \cup {Null}]
  /\ free_index \subseteq Nat \X nodes
  /\ allocated \in [Address -> nodes \cup {Null}]
  /\ reply \in Replies

(* The blocks of the arena cut its segments up exactly: every byte of a    *)
(* segment is in a block (splitting and merging lose none), and no byte is *)
(* in two, so that no two live allocations share memory.                   *)
NoByteLost ==
  /\ \A s \in Segments : \A a \in Address :
       s <= a /\ a < s + segSize[s] =>
         \E b \in nodes : address[b] <= a /\ a < address[b] + size[b]
  /\ \A b, c \in nodes : b # c => ~Overlap(address[b], size[b], address[c], size[c])

(* Deallocation coalesces fully: two free blocks are never neighbours in a *)
(* segment.  Without it a request could fail beside enough free memory,    *)
(* and a segment with no live allocation might never be released.          *)
Coalesced == \A b \in nodes : IsFree(b) => ~IsFree(next[b])

(* The two indexes agree with the chain of blocks: free_index_ holds each  *)
(* free block once, under the size it has now and not one it had before a  *)
(* merge or a split, and allocated_ holds each allocated block at its      *)
(* address, so that every live allocation can be given back.               *)
IndexesExact ==
  /\ free_index = {<<size[b], b>> : b \in {x \in nodes : ~isAllocated[x]}}
  /\ \A a \in Address : allocated[a] # Null =>
       isAllocated[allocated[a]] /\ address[allocated[a]] = a
  /\ \A b \in nodes : isAllocated[b] => allocated[address[b]] = b

\* The chain of each segment runs in address order from its first byte to its last.
Linked ==
  /\ \A s \in Segments : first[s] # Null /\ segment[first[s]] = s /\ previous[first[s]] = Null
  /\ \A s \in Address \ Segments : first[s] = Null
  /\ \A b \in nodes :
       /\ size[b] > 0
       /\ segment[b] \in Segments
       /\ segment[b] <= address[b]
       /\ address[b] + size[b] <= segment[b] + segSize[segment[b]]
       /\ previous[b] = Null => first[segment[b]] = b /\ address[b] = segment[b]
       /\ previous[b] # Null => next[previous[b]] = b
       /\ next[b] = Null => address[b] + size[b] = segment[b] + segSize[segment[b]]
       /\ next[b] # Null => /\ previous[next[b]] = b
                            /\ segment[next[b]] = segment[b]
                            /\ address[next[b]] = address[b] + size[b]

SegmentsApart ==
  /\ segSize[0] = 0
  /\ \A s \in Segments : s + segSize[s] - 1 <= MaxAddress
  /\ \A s, t \in Segments : s # t => ~Overlap(s, segSize[s], t, segSize[t])

\* A cell that is not a live block has the defaults make_block gives.
Fresh ==
  \A b \in Block \ nodes : ~isAllocated[b] /\ previous[b] = Null /\ next[b] = Null

(* The inductive invariant of the arena: the pointers of the chain, the    *)
(* cut of the segments and the two indexes, which only together survive a  *)
(* split or a merge.                                                       *)
IInv ==
  TypeOK /\ SegmentsApart /\ Linked /\ Fresh /\ NoByteLost /\ Coalesced /\ IndexesExact

(* The arena is a correct pool: read through allocated_, it grants runs of *)
(* memory nothing else uses, refuses only when no segment has a free run   *)
(* of the size, answers deallocate as promised, and releases exactly the   *)
(* segments without a live allocation.                                     *)
Pool == INSTANCE BlockPool WITH
  live <- [a \in Address |-> IF allocated[a] = Null THEN 0 ELSE size[allocated[a]]]

PoolSpec == Pool!Spec
=============================================================================
