--------------------------- MODULE BlockArenaProofs ---------------------------
(***************************************************************************)
(* Proofs about BlockArena for every address space, alignment, set of      *)
(* request and segment sizes and heap: the pointers are never dangling,    *)
(* and no operation loses a byte, hands one out twice, leaves two free     *)
(* neighbours unmerged or lets an index go stale.  At the end: that        *)
(* BlockArena implements BlockPool.                                        *)
(***************************************************************************)
EXTENDS BlockArena, Induction

\* AlignUp never rounds a request down to nothing, so no block becomes empty.
LEMMA AlignUpPositive ==
  ASSUME NEW n \in Nat, n > 0
  PROVE  AlignUp(n) \in Nat /\ AlignUp(n) > 0
<1> DEFINE q == (n + Alignment - 1) \div Alignment
<1>1. Alignment \in Nat /\ Alignment > 0
  BY AlignmentAssumption
<1>2. q \in Int
  BY <1>1
<1>3. q >= 1
  BY <1>1
<1>4. q * Alignment \in Nat /\ q * Alignment > 0
  <2> HIDE DEF q
  <2> QED BY <1>1, <1>2, <1>3
<1> QED BY <1>4 DEF AlignUp

\* What best fit finds is a live free block, large enough.
LEMMA BestFitFree ==
  ASSUME TypeOK, IndexesExact, NEW n \in Nat, NEW b \in BestFit(n)
  PROVE  b \in nodes /\ b \in Block /\ ~isAllocated[b] /\ size[b] >= n
<1>1. PICK e \in free_index : b \in nodes /\ e[2] = b /\ e[1] >= n
  BY DEF BestFit
<1>2. PICK x \in nodes : ~isAllocated[x] /\ e = <<size[x], x>>
  BY <1>1 DEF IndexesExact
<1> QED BY <1>1, <1>2 DEF TypeOK

\* Blocks and segments are nonempty intervals of addresses, blocks within segments.
LEMMA Intervals ==
  ASSUME IInv
  PROVE  /\ \A s \in Segments : s \in Nat /\ segSize[s] \in Nat /\ segSize[s] > 0
                                /\ s + segSize[s] - 1 <= MaxAddress
         /\ \A b \in nodes :
              /\ b \in Block /\ address[b] \in Nat /\ size[b] \in Nat /\ size[b] > 0
              /\ segment[b] \in Segments /\ segment[b] <= address[b]
              /\ address[b] + size[b] <= segment[b] + segSize[segment[b]]
              /\ address[b] # 0
<1> USE AddressAssumption DEF IInv, TypeOK
<1>1. \A s \in Segments : s \in Nat /\ segSize[s] \in Nat /\ segSize[s] > 0
                         /\ s + segSize[s] - 1 <= MaxAddress /\ s # 0
  BY DEF Segments, SegmentsApart, Address
<1>2. \A b \in nodes : b \in Block /\ address[b] \in Nat /\ size[b] \in Nat
  BY DEF Address
<1>3. \A b \in nodes :
        /\ size[b] > 0
        /\ segment[b] \in Segments /\ segment[b] <= address[b]
        /\ address[b] + size[b] <= segment[b] + segSize[segment[b]]
  BY DEF Linked
<1> QED BY <1>1, <1>2, <1>3

\* Different live blocks start at different addresses.
LEMMA DistinctAddresses ==
  ASSUME IInv, NEW b \in nodes, NEW c \in nodes, b # c
  PROVE  address[b] # address[c]
<1>1. ~Overlap(address[b], size[b], address[c], size[c])
  BY DEF IInv, NoByteLost
<1> QED BY <1>1, Intervals DEF Overlap

\* The arena starts empty, with every field at its default.
THEOREM InitIInv == Init => IInv
<1> SUFFICES ASSUME Init PROVE IInv
  OBVIOUS
<1> USE AddressAssumption DEF Init
<1>1. TypeOK
  BY DEF TypeOK, Address, Answer, Replies
<1>2. Segments = {}
  BY DEF Segments
<1>3. SegmentsApart /\ Linked /\ Fresh /\ NoByteLost /\ Coalesced
  BY <1>2 DEF SegmentsApart, Linked, Fresh, NoByteLost, Coalesced, Address
<1>4. IndexesExact
  BY DEF IndexesExact
<1> QED BY <1>1, <1>3, <1>4 DEF IInv

\* Operations that only answer leave the invariant alone.
LEMMA AnswerOnly ==
  ASSUME IInv, UNCHANGED arenaVars, reply' \in Replies
  PROVE  IInv'
BY DEF IInv, TypeOK, SegmentsApart, Linked, Fresh, NoByteLost, Coalesced, IndexesExact,
       arenaVars, blockVars, Segments, Overlap, IsFree

-----------------------------------------------------------------------------
(* add_segment *)

\* add_segment keeps the invariant: the new segment is one free block, apart from the others.
LEMMA AddSegmentIInv ==
  ASSUME IInv, NEW s \in Address, NEW n \in SegmentSizes, AddSegment(s, n)
  PROVE  IInv'
<1>1. /\ s \in Nat /\ s > 0 /\ n \in Nat /\ n > 0 /\ s + n - 1 <= MaxAddress
      /\ \A t \in Segments : ~Overlap(s, n, t, segSize[t])
  BY SegmentSizesAssumption, AddressAssumption DEF AddSegment, Address
<1>2. PICK b \in Block \ nodes :
        /\ nodes' = nodes \cup {b}
        /\ address' = [address EXCEPT ![b] = s]
        /\ size' = [size EXCEPT ![b] = n]
        /\ segment' = [segment EXCEPT ![b] = s]
        /\ segSize' = [segSize EXCEPT ![s] = n]
        /\ first' = [first EXCEPT ![s] = b]
        /\ free_index' = free_index \cup {<<n, b>>}
  BY DEF AddSegment
<1>3. /\ UNCHANGED <<isAllocated, previous, next, allocated>>
      /\ reply' = Answer("add", n, TRUE, s, n)
  BY DEF AddSegment
<1>4. TypeOK /\ SegmentsApart /\ Linked /\ Fresh /\ NoByteLost /\ Coalesced /\ IndexesExact
  BY DEF IInv
<1> USE AddressAssumption, NullAssumption
<1>5. s \notin Segments /\ Segments' = Segments \cup {s}
  <2>1. s \notin Segments
    BY <1>1, Intervals DEF Overlap
  <2> QED BY <2>1, <1>1, <1>2, <1>4 DEF Segments, TypeOK
<1>6. \A c \in nodes : c # b /\ segment[c] # s /\ ~Overlap(s, n, address[c], size[c])
  <2> SUFFICES ASSUME NEW c \in nodes
               PROVE  segment[c] # s /\ ~Overlap(s, n, address[c], size[c])
    BY <1>2
  <2>1. /\ segment[c] \in Segments /\ segment[c] <= address[c]
        /\ address[c] + size[c] <= segment[c] + segSize[segment[c]]
    BY <1>4 DEF Linked
  <2>2. ~Overlap(s, n, segment[c], segSize[segment[c]])
    BY <2>1, <1>1
  <2>3. address[c] \in Nat /\ size[c] \in Nat /\ segment[c] \in Nat
        /\ segSize[segment[c]] \in Nat
    BY <1>4, <2>1 DEF TypeOK, Address, Segments
  <2> QED BY <1>1, <1>5, <2>1, <2>2, <2>3 DEF Overlap
<1>7. TypeOK'
  BY <1>1, <1>2, <1>3, <1>4 DEF TypeOK, Answer, Replies
<1>8. SegmentsApart'
  <2>1. segSize'[0] = 0
    BY <1>1, <1>2, <1>4 DEF SegmentsApart, TypeOK
  <2>2. \A t \in Segments : segSize'[t] = segSize[t]
    BY <1>2, <1>4, <1>5 DEF TypeOK, Segments
  <2>3. segSize'[s] = n
    BY <1>2, <1>4 DEF TypeOK
  <2>4. \A t \in Segments' : t + segSize'[t] - 1 <= MaxAddress
    BY <1>1, <1>5, <2>2, <2>3, Intervals
  <2>5. \A t \in Segments : ~Overlap(t, segSize[t], s, n)
    BY <1>1, Intervals DEF Overlap
  <2>6. \A t, u \in Segments' : t # u => ~Overlap(t, segSize'[t], u, segSize'[u])
    BY <1>1, <1>4, <1>5, <2>2, <2>3, <2>5 DEF SegmentsApart, Overlap
  <2> QED BY <2>1, <2>4, <2>6 DEF SegmentsApart, Overlap
<1>9. Linked'
  <2>1. /\ b \in nodes' /\ address'[b] = s /\ size'[b] = n /\ segment'[b] = s
        /\ previous'[b] = Null /\ next'[b] = Null /\ first'[s] = b /\ segSize'[s] = n
    BY <1>1, <1>2, <1>3, <1>4 DEF TypeOK, Fresh
  <2>2. \A c \in nodes :
          /\ c # b /\ address'[c] = address[c] /\ size'[c] = size[c]
          /\ segment'[c] = segment[c] /\ previous'[c] = previous[c] /\ next'[c] = next[c]
          /\ next[c] # Null => next[c] \in nodes
          /\ previous[c] # Null => previous[c] \in nodes
    BY <1>2, <1>3, <1>4 DEF TypeOK
  <2>3. \A t \in Segments :
          /\ t # s /\ segSize'[t] = segSize[t] /\ first'[t] = first[t]
          /\ first[t] \in nodes
    BY <1>2, <1>4, <1>5 DEF TypeOK, Segments, Linked
  <2>4. \A t \in Segments' :
          first'[t] # Null /\ segment'[first'[t]] = t /\ previous'[first'[t]] = Null
    BY <1>2, <1>4, <1>5, <2>1, <2>2, <2>3 DEF Linked
  <2>5. ASSUME NEW c \in nodes'
        PROVE /\ size'[c] > 0
              /\ segment'[c] \in Segments'
              /\ segment'[c] <= address'[c]
              /\ address'[c] + size'[c] <= segment'[c] + segSize'[segment'[c]]
              /\ previous'[c] = Null => first'[segment'[c]] = c /\ address'[c] = segment'[c]
              /\ previous'[c] # Null => next'[previous'[c]] = c
              /\ next'[c] = Null =>
                   address'[c] + size'[c] = segment'[c] + segSize'[segment'[c]]
              /\ next'[c] # Null => /\ previous'[next'[c]] = c
                                    /\ segment'[next'[c]] = segment'[c]
                                    /\ address'[next'[c]] = address'[c] + size'[c]
    <3>1. CASE c = b
      BY <3>1, <1>1, <1>5, <2>1
    <3>2. CASE c \in nodes
      BY <3>2, <1>4, <1>5, <2>2, <2>3 DEF Linked
    <3> QED BY <1>2, <3>1, <3>2
  <2>6. \A t \in Address \ Segments' : first'[t] = Null
    BY <1>2, <1>4, <1>5 DEF Linked, TypeOK
  <2> QED BY <2>4, <2>5, <2>6 DEF Linked
<1>10. Fresh' /\ Coalesced'
  BY <1>2, <1>3, <1>4 DEF Fresh, Coalesced, IsFree, TypeOK
<1>11. NoByteLost'
  <2>1. b \in nodes' /\ address'[b] = s /\ size'[b] = n /\ segSize'[s] = n
    BY <1>2, <1>4 DEF TypeOK
  <2>2. \A c \in nodes : c \in nodes' /\ c # b /\ address'[c] = address[c] /\ size'[c] = size[c]
    BY <1>2, <1>4 DEF TypeOK
  <2>3. \A t \in Segments : segSize'[t] = segSize[t]
    BY <1>2, <1>4, <1>5 DEF TypeOK, Segments
  <2>4. ASSUME NEW t \in Segments', NEW a \in Address, t <= a, a < t + segSize'[t]
        PROVE  \E c \in nodes' : address'[c] <= a /\ a < address'[c] + size'[c]
    <3>1. CASE t = s
      BY <3>1, <2>1, <2>4
    <3>2. CASE t \in Segments
      BY <3>2, <1>4, <2>2, <2>3, <2>4 DEF NoByteLost
    <3> QED BY <1>5, <3>1, <3>2
  <2>5. \A c \in nodes : ~Overlap(address[c], size[c], s, n)
    BY <1>1, <1>6, Intervals DEF Overlap
  <2>6. \A c, d \in nodes' : c # d => ~Overlap(address'[c], size'[c], address'[d], size'[d])
    BY <1>2, <1>4, <1>6, <2>1, <2>2, <2>5 DEF NoByteLost
  <2> QED BY <2>4, <2>6 DEF NoByteLost, Overlap
<1>12. IndexesExact'
  BY <1>1, <1>2, <1>3, <1>4, <1>6 DEF IndexesExact, Fresh, TypeOK
<1> QED BY <1>7, <1>8, <1>9, <1>10, <1>11, <1>12 DEF IInv

-----------------------------------------------------------------------------
(* allocate *)

\* allocate keeps the invariant when it hands out a block whole.
LEMMA TakeWholeIInv ==
  ASSUME IInv, NEW n \in Sizes, TakeWhole(n)
  PROVE  IInv'
<1>1. n \in Nat /\ n > 0 /\ AlignUp(n) \in Nat /\ AlignUp(n) > 0
  BY SizesAssumption, AlignUpPositive DEF TakeWhole
<1>2. TypeOK /\ SegmentsApart /\ Linked /\ Fresh /\ NoByteLost /\ Coalesced /\ IndexesExact
  BY DEF IInv
<1>3. PICK b \in BestFit(AlignUp(n)) :
        /\ free_index' = {e \in free_index : e[2] # b}
        /\ isAllocated' = [isAllocated EXCEPT ![b] = TRUE]
        /\ allocated' = [allocated EXCEPT ![address[b]] = b]
        /\ reply' = Answer("allocate", n, TRUE, address[b], size[b])
  BY DEF TakeWhole, HandOut
<1>4. b \in nodes /\ b \in Block /\ ~isAllocated[b]
  BY <1>1, <1>2, BestFitFree
<1>5. UNCHANGED <<segSize, first, nodes, address, size, segment, previous, next>>
  BY DEF TakeWhole
<1>6. TypeOK'
  <2>1. reply' \in Replies
    BY <1>1, <1>3, <1>4, Intervals DEF Answer, Replies
  <2>2. isAllocated' \in [Block -> BOOLEAN] /\ allocated' \in [Address -> nodes \cup {Null}]
    BY <1>2, <1>3, <1>4 DEF TypeOK
  <2> QED BY <2>1, <2>2, <1>2, <1>3, <1>5 DEF TypeOK
<1>7. SegmentsApart' /\ Linked' /\ NoByteLost'
  BY <1>2, <1>5 DEF SegmentsApart, Linked, NoByteLost, Segments, Overlap
<1>8. Fresh' /\ Coalesced'
  BY <1>2, <1>3, <1>4, <1>5, NullAssumption DEF Fresh, Coalesced, IsFree, TypeOK
<1>9. IndexesExact'
  <2>1. \A c \in nodes : c # b => address[c] # address[b]
    BY <1>4, DistinctAddresses
  <2> QED BY <2>1, <1>2, <1>3, <1>4, <1>5, NullAssumption DEF IndexesExact, TypeOK
<1> QED BY <1>6, <1>7, <1>8, <1>9 DEF IInv

\* allocate keeps the invariant when it splits the block it found.
LEMMA SplitIInv ==
  ASSUME IInv, NEW n \in Sizes, Split(n)
  PROVE  IInv'
<1> DEFINE need == AlignUp(n)
<1>1. n \in Nat /\ n > 0 /\ need \in Nat /\ need > 0
  BY SizesAssumption, AlignUpPositive DEF Split
<1>2. TypeOK /\ SegmentsApart /\ Linked /\ Fresh /\ NoByteLost /\ Coalesced /\ IndexesExact
  BY DEF IInv
<1>3. PICK b \in BestFit(need), r \in Block \ nodes :
        /\ size[b] > need
        /\ nodes' = nodes \cup {r}
        /\ address' = [address EXCEPT ![r] = address[b] + need]
        /\ size' = [size EXCEPT ![r] = size[b] - need, ![b] = need]
        /\ segment' = [segment EXCEPT ![r] = segment[b]]
        /\ previous' = [x \in Block |-> IF x = r THEN b
                                        ELSE IF x = next[b] THEN r ELSE previous[x]]
        /\ next' = [next EXCEPT ![r] = next[b], ![b] = r]
        /\ free_index' = {e \in free_index : e[2] # b} \cup {<<size[b] - need, r>>}
        /\ isAllocated' = [isAllocated EXCEPT ![b] = TRUE]
        /\ allocated' = [allocated EXCEPT ![address[b]] = b]
        /\ reply' = Answer("allocate", n, TRUE, address[b], need)
  BY DEF Split, HandOut
<1>4. b \in nodes /\ b \in Block /\ ~isAllocated[b] /\ b # r /\ r \in Block
  BY <1>1, <1>2, <1>3, BestFitFree
<1>5. UNCHANGED <<segSize, first>>
  BY DEF Split
<1> HIDE DEF need
<1> USE AddressAssumption, NullAssumption
<1>6. /\ address[b] \in Nat /\ size[b] \in Nat /\ segment[b] \in Segments
      /\ address[b] + size[b] <= segment[b] + segSize[segment[b]]
      /\ segment[b] + segSize[segment[b]] - 1 <= MaxAddress
      /\ segSize[segment[b]] \in Nat /\ segment[b] \in Nat
      /\ segment[b] <= address[b]
  BY <1>2, <1>4 DEF TypeOK, Linked, SegmentsApart, Segments, Address
<1>7. address[b] + need \in Address
  BY <1>1, <1>3, <1>6 DEF Address
<1>8. \A c \in nodes : c # b => address[c] # address[b]
  BY <1>4, DistinctAddresses
<1>9. TypeOK'
  <2>1. reply' \in Replies
    BY <1>1, <1>3, <1>6 DEF Answer, Replies
  <2>2. isAllocated' \in [Block -> BOOLEAN] /\ allocated' \in [Address -> nodes' \cup {Null}]
    BY <1>2, <1>3, <1>4 DEF TypeOK
  <2>3. address' \in [Block -> Address] /\ segment' \in [Block -> Address]
    BY <1>2, <1>3, <1>4, <1>7 DEF TypeOK
  <2>4. size' \in [Block -> Nat] /\ size[b] - need \in Nat
    BY <1>1, <1>2, <1>3, <1>4, <1>6 DEF TypeOK
  <2>5. free_index' \subseteq Nat \X nodes'
    BY <1>2, <1>3, <2>4 DEF TypeOK
  <2>6. /\ previous' \in [Block -> nodes' \cup {Null}] /\ next' \in [Block -> nodes' \cup {Null}]
        /\ first' \in [Address -> nodes' \cup {Null}] /\ nodes' \subseteq Block
    BY <1>2, <1>3, <1>4, <1>5 DEF TypeOK
  <2> QED BY <2>1, <2>2, <2>3, <2>4, <2>5, <2>6, <1>2, <1>5 DEF TypeOK
<1>10. SegmentsApart' /\ Segments' = Segments
  BY <1>2, <1>5 DEF SegmentsApart, Segments, Overlap
<1>11. /\ r \in nodes' /\ address'[r] = address[b] + need /\ size'[r] = size[b] - need
       /\ segment'[r] = segment[b] /\ previous'[r] = b /\ next'[r] = next[b]
  BY <1>2, <1>3, <1>4 DEF TypeOK
<1>12. next[b] # b /\ next[b] # r
  BY <1>2, <1>4, <1>6, Intervals DEF TypeOK, Linked
<1>13. /\ b \in nodes' /\ address'[b] = address[b] /\ size'[b] = need
       /\ segment'[b] = segment[b] /\ previous'[b] = previous[b] /\ next'[b] = r
  BY <1>2, <1>3, <1>4, <1>12 DEF TypeOK
<1>14. \A c \in nodes \ {b} :
         /\ c # r /\ address'[c] = address[c] /\ size'[c] = size[c]
         /\ segment'[c] = segment[c] /\ next'[c] = next[c]
         /\ previous'[c] = IF c = next[b] THEN r ELSE previous[c]
  BY <1>2, <1>3, <1>4 DEF TypeOK
<1>15. nodes' = (nodes \ {b}) \cup {b, r} /\ previous[b] # r
  BY <1>2, <1>3, <1>4 DEF TypeOK
<1>16. Linked'
  <2>1. \A c \in nodes :
          /\ next[c] # Null => next[c] \in nodes
          /\ previous[c] # Null => previous[c] \in nodes
          /\ next[c] = next[b] /\ next[b] # Null => c = b
    BY <1>2, <1>4 DEF TypeOK, Linked
  <2>2. \A t \in Segments' : first[t] \in nodes
    BY <1>2, <1>10 DEF Linked, TypeOK, Segments
  <2>3. \A t \in Segments' :
          first'[t] # Null /\ segment'[first'[t]] = t /\ previous'[first'[t]] = Null
    BY <1>2, <1>4, <1>5, <1>10, <1>13, <1>14, <2>2 DEF Linked
  <2>4. ASSUME NEW c \in nodes'
        PROVE /\ size'[c] > 0
              /\ segment'[c] \in Segments'
              /\ segment'[c] <= address'[c]
              /\ address'[c] + size'[c] <= segment'[c] + segSize'[segment'[c]]
              /\ next'[c] = Null =>
                   address'[c] + size'[c] = segment'[c] + segSize'[segment'[c]]
    <3>1. CASE c = b
      BY <3>1, <1>1, <1>3, <1>4, <1>5, <1>6, <1>10, <1>13
    <3>2. CASE c = r
      BY <3>2, <1>1, <1>2, <1>3, <1>4, <1>5, <1>6, <1>10, <1>11 DEF Linked
    <3>3. CASE c \in nodes \ {b}
      BY <3>3, <1>2, <1>5, <1>10, <1>14 DEF Linked
    <3> QED BY <3>1, <3>2, <3>3, <1>15
  <2>5. ASSUME NEW c \in nodes'
        PROVE /\ previous'[c] = Null => first'[segment'[c]] = c /\ address'[c] = segment'[c]
              /\ previous'[c] # Null => next'[previous'[c]] = c
    <3>1. CASE c = b
      BY <3>1, <1>2, <1>4, <1>5, <1>12, <1>13, <1>14, <2>1 DEF Linked
    <3>2. CASE c = r
      BY <3>2, <1>4, <1>11, <1>13
    <3>3. CASE c \in nodes \ {b}
      BY <3>3, <1>2, <1>4, <1>5, <1>11, <1>13, <1>14, <2>1 DEF Linked
    <3> QED BY <3>1, <3>2, <3>3, <1>15
  <2>6. ASSUME NEW c \in nodes', next'[c] # Null
        PROVE /\ previous'[next'[c]] = c
              /\ segment'[next'[c]] = segment'[c]
              /\ address'[next'[c]] = address'[c] + size'[c]
    <3>1. CASE c = b
      BY <3>1, <1>4, <1>11, <1>13
    <3>2. CASE c = r
      BY <3>2, <2>6, <1>1, <1>2, <1>4, <1>6, <1>11, <1>12, <1>14, <2>1 DEF Linked
    <3>3. CASE c \in nodes \ {b}
      BY <3>3, <2>6, <1>1, <1>2, <1>4, <1>6, <1>13, <1>14, <2>1 DEF Linked
    <3> QED BY <3>1, <3>2, <3>3, <1>15
  <2>7. \A t \in Address \ Segments' : first'[t] = Null
    BY <1>2, <1>5, <1>10 DEF Linked
  <2> QED BY <2>3, <2>4, <2>5, <2>6, <2>7 DEF Linked
<1>17. Fresh' /\ Coalesced'
  BY <1>2, <1>3, <1>4 DEF Fresh, Coalesced, IsFree, TypeOK, Linked
<1>18. NoByteLost'
  <2>1. ASSUME NEW t \in Segments', NEW a \in Address, t <= a, a < t + segSize'[t]
        PROVE  \E c \in nodes' : address'[c] <= a /\ a < address'[c] + size'[c]
    <3>1. PICK c \in nodes : address[c] <= a /\ a < address[c] + size[c]
      BY <1>2, <1>5, <1>10, <2>1 DEF NoByteLost
    <3>2. CASE c # b
      BY <3>1, <3>2, <1>14, <1>15
    <3>3. CASE c = b
      <4>1. a \in Nat /\ address[b] <= a /\ a < address[b] + size[b]
        BY <3>1, <3>3 DEF Address
      <4>2. CASE a < address[b] + need
        BY <4>1, <4>2, <1>13
      <4>3. CASE address[b] + need <= a
        <5>1. a < (address[b] + need) + (size[b] - need)
          BY <4>1, <1>1, <1>6
        <5> QED BY <4>3, <5>1, <1>11
      <4> QED BY <4>1, <4>2, <4>3, <1>1, <1>6
    <3> QED BY <3>2, <3>3
  <2>2. ASSUME NEW c \in nodes \ {b}
        PROVE  /\ ~Overlap(address[c], size[c], address[b], need)
               /\ ~Overlap(address[c], size[c], address[b] + need, size[b] - need)
               /\ ~Overlap(address[b], need, address[c], size[c])
               /\ ~Overlap(address[b] + need, size[b] - need, address[c], size[c])
    <3>1. ~Overlap(address[c], size[c], address[b], size[b])
      BY <1>2, <1>4 DEF NoByteLost
    <3> QED BY <3>1, <1>1, <1>3, <1>6, Intervals DEF Overlap
  <2>3. /\ ~Overlap(address[b], need, address[b] + need, size[b] - need)
        /\ ~Overlap(address[b] + need, size[b] - need, address[b], need)
    BY <1>1, <1>6 DEF Overlap
  <2>4. \A c, d \in nodes' : c # d => ~Overlap(address'[c], size'[c], address'[d], size'[d])
    BY <1>2, <1>11, <1>13, <1>14, <1>15, <2>2, <2>3 DEF NoByteLost
  <2> QED BY <2>1, <2>4 DEF NoByteLost, Overlap
<1>19. IndexesExact'
  BY <1>1, <1>2, <1>3, <1>4, <1>8 DEF IndexesExact, TypeOK, Fresh
<1> QED BY <1>9, <1>10, <1>16, <1>17, <1>18, <1>19 DEF IInv

-----------------------------------------------------------------------------
(* deallocate *)

(* What a deallocation does to the chain, whichever neighbours it merges:  *)
(* the block head grows to total bytes over the blocks of gone, which      *)
(* disappear, and is followed by after.                                    *)
Merged(b, head, after, gone, total) ==
  /\ head \in nodes /\ head \notin gone /\ gone \subseteq nodes
  /\ after # Null => after \in nodes /\ after \notin gone /\ after # head
  /\ b \in gone \cup {head}
  /\ \A x \in gone : x # head => previous[x] \in gone \cup {head}
  /\ \A x \in gone \cup {head} : next[x] \in gone \cup {after}
  /\ \A x \in gone \cup {head} :
       /\ segment[x] = segment[head]
       /\ address[head] <= address[x] /\ address[x] + size[x] <= address[head] + total
       /\ x # b => ~isAllocated[x]
  /\ \A a \in Nat : address[head] <= a /\ a < address[head] + total =>
       \E x \in gone \cup {head} : address[x] <= a /\ a < address[x] + size[x]
  /\ after = Null =>
       address[head] + total = segment[head] + segSize[segment[head]]
  /\ after # Null => /\ address[after] = address[head] + total
                     /\ segment[after] = segment[head]
                     /\ previous[after] \in gone \cup {head}
                     /\ isAllocated[after]
  /\ previous[head] # Null => previous[head] \notin gone /\ isAllocated[previous[head]]
  /\ total \in Nat /\ total > 0

\* The step of a deallocation, in the terms of Merged.
MergeStep(a, b, head, after, gone, total) ==
  /\ b = allocated[a] /\ isAllocated[b] /\ address[b] = a
  /\ gone = {} => after = next[b] /\ head = b
  /\ nodes' = nodes \ gone
  /\ address' = Destroyed(address, gone, 0)
  /\ size' = Destroyed([size EXCEPT ![head] = total], gone, 0)
  /\ isAllocated' = [isAllocated EXCEPT ![b] = FALSE]
  /\ segment' = Destroyed(segment, gone, 0)
  /\ previous' = Destroyed([x \in Block |->
       IF gone # {} /\ x = after THEN head ELSE previous[x]], gone, Null)
  /\ next' = Destroyed([next EXCEPT ![head] = after], gone, Null)
  /\ free_index' = {e \in free_index : e[2] \notin gone \cup {head}} \cup {<<total, head>>}

(* deallocate, in each of its four cases, replaces the freed block and its *)
(* free neighbours by one block that covers them exactly.                  *)
LEMMA DeallocateShape ==
  ASSUME IInv, NEW a \in Address, Deallocate(a)
  PROVE  \E b, head, after, gone, total :
           Merged(b, head, after, gone, total) /\ MergeStep(a, b, head, after, gone, total)
<1> DEFINE b     == allocated[a]
           p     == previous[b]
           n     == next[b]
           head  == IF IsFree(p) THEN p ELSE b
           after == IF IsFree(n) THEN next[n] ELSE n
           gone  == {x \in {b} : IsFree(p)} \cup {x \in {n} : IsFree(n)}
           total == size[b] + (IF IsFree(p) THEN size[p] ELSE 0)
                            + (IF IsFree(n) THEN size[n] ELSE 0)
<1>1. TypeOK /\ SegmentsApart /\ Linked /\ Fresh /\ NoByteLost /\ Coalesced /\ IndexesExact
  BY DEF IInv
<1> USE NullAssumption
<1>2. b \in nodes /\ isAllocated[b] /\ address[b] = a /\ b \in Block /\ b # Null
  BY <1>1 DEF Deallocate, TypeOK, IndexesExact
<1>3. p # Null => p \in nodes /\ p \in Block /\ next[p] = b /\ segment[p] = segment[b]
                  /\ address[b] = address[p] + size[p] /\ p # b
  BY <1>1, <1>2, Intervals DEF TypeOK, Linked
<1>4. n # Null => n \in nodes /\ n \in Block /\ previous[n] = b /\ segment[n] = segment[b]
                  /\ address[n] = address[b] + size[b] /\ n # b
  BY <1>1, <1>2, Intervals DEF TypeOK, Linked
<1>5. p # Null /\ n # Null => p # n
  BY <1>2, <1>3, <1>4, Intervals
<1>6. IsFree(p) /\ previous[p] # Null =>
        isAllocated[previous[p]] /\ previous[p] # b /\ previous[p] # n /\ previous[p] \in nodes
  BY <1>1, <1>2, <1>3, <1>4, Intervals DEF Coalesced, IsFree, Linked, TypeOK
<1>7. IsFree(n) /\ next[n] # Null =>
        /\ next[n] \in nodes /\ isAllocated[next[n]] /\ previous[next[n]] = n
        /\ segment[next[n]] = segment[n] /\ address[next[n]] = address[n] + size[n]
        /\ next[n] # b /\ next[n] # n /\ next[n] # p
  BY <1>1, <1>2, <1>3, <1>4, Intervals DEF Coalesced, IsFree, Linked, TypeOK
<1>8. IsFree(n) /\ next[n] = Null =>
        address[n] + size[n] = segment[n] + segSize[segment[n]]
  BY <1>1, <1>4 DEF Linked, IsFree
<1>9. n = Null => address[b] + size[b] = segment[b] + segSize[segment[b]]
  BY <1>1, <1>2 DEF Linked
<1>10. /\ free_index' = {e \in free_index : e[2] \notin {p, n}} \cup {<<total, head>>}
       /\ nodes' = nodes \ gone
       /\ address' = Destroyed(address, gone, 0)
       /\ size' = Destroyed([size EXCEPT ![head] = total], gone, 0)
       /\ isAllocated' = [isAllocated EXCEPT ![b] = FALSE]
       /\ segment' = Destroyed(segment, gone, 0)
       /\ previous' = Destroyed([x \in Block |->
            IF gone # {} /\ x = after THEN head ELSE previous[x]], gone, Null)
       /\ next' = Destroyed([next EXCEPT ![head] = after], gone, Null)
  BY DEF Deallocate
<1>11. {e \in free_index : e[2] \notin {p, n}} = {e \in free_index : e[2] \notin gone \cup {head}}
  <2>1. \A e \in free_index : e[2] \in nodes /\ ~isAllocated[e[2]]
    BY <1>1 DEF IndexesExact
  <2>2. \A x \in nodes : ~isAllocated[x] => (x \in {p, n} <=> x \in gone \cup {head})
    BY <1>1, <1>2, <1>3, <1>4 DEF IsFree, TypeOK
  <2> QED BY <2>1, <2>2
<1>12. gone = {} => after = n /\ head = b
  OBVIOUS
<1>13. Merged(b, head, after, gone, total)
  <2>1. /\ b \in nodes /\ address[b] \in Nat /\ size[b] \in Nat /\ size[b] > 0
        /\ IsFree(p) => /\ p \in nodes /\ address[p] \in Nat /\ size[p] \in Nat /\ size[p] > 0
                       /\ p # b /\ next[p] = b /\ segment[p] = segment[b] /\ ~isAllocated[p]
                       /\ address[b] = address[p] + size[p]
        /\ IsFree(n) => /\ n \in nodes /\ address[n] \in Nat /\ size[n] \in Nat /\ size[n] > 0
                       /\ n # b /\ previous[n] = b /\ segment[n] = segment[b] /\ ~isAllocated[n]
                       /\ address[n] = address[b] + size[b]
        /\ IsFree(p) /\ IsFree(n) => p # n
    BY <1>2, <1>3, <1>4, <1>5, Intervals DEF IsFree
  <2>2. /\ gone = IF IsFree(p) THEN (IF IsFree(n) THEN {b, n} ELSE {b})
                  ELSE IF IsFree(n) THEN {n} ELSE {}
        /\ head = IF IsFree(p) THEN p ELSE b
        /\ after = IF IsFree(n) THEN next[n] ELSE n
        /\ p = previous[b] /\ n = next[b]
    OBVIOUS
  <2>3. /\ head \in nodes /\ head \notin gone /\ gone \subseteq nodes
        /\ b \in gone \cup {head}
        /\ \A x \in gone : x # head => previous[x] \in gone \cup {head}
        /\ \A x \in gone \cup {head} : next[x] \in gone \cup {after}
        /\ \A x \in gone \cup {head} : segment[x] = segment[head] /\ (x # b => ~isAllocated[x])
    <3> HIDE DEF p, n, head, after, gone
    <3>1. CASE IsFree(p)
      BY <2>1, <2>2, <3>1
    <3>2. CASE ~IsFree(p)
      BY <2>1, <2>2, <3>2
    <3> QED BY <3>1, <3>2
  <2>4. total \in Nat /\ total > 0 /\ address[head] \in Nat
        /\ \A x \in gone \cup {head} :
             address[head] <= address[x] /\ address[x] + size[x] <= address[head] + total
    <3> HIDE DEF p, n, head, after, gone
    <3>1. CASE IsFree(p)
      BY <2>1, <2>2, <3>1
    <3>2. CASE ~IsFree(p)
      BY <2>1, <2>2, <3>2
    <3> QED BY <3>1, <3>2
  <2>5. ASSUME NEW at \in Nat, address[head] <= at, at < address[head] + total
        PROVE  \E x \in gone \cup {head} : address[x] <= at /\ at < address[x] + size[x]
    <3> HIDE DEF p, n, head, after, gone
    <3>1. CASE IsFree(p)
      BY <2>1, <2>2, <2>5, <3>1
    <3>2. CASE ~IsFree(p)
      BY <2>1, <2>2, <2>5, <3>2
    <3> QED BY <3>1, <3>2
  <2>6. IF after = Null
        THEN address[head] + total = segment[head] + segSize[segment[head]]
        ELSE /\ after \in nodes /\ after \notin gone /\ after # head
             /\ address[after] = address[head] + total
             /\ segment[after] = segment[head]
             /\ previous[after] \in gone \cup {head}
             /\ isAllocated[after]
    <3>1. CASE IsFree(n)
      <4>1. IF next[n] = Null
            THEN address[n] + size[n] = segment[n] + segSize[segment[n]]
            ELSE /\ next[n] \in nodes /\ isAllocated[next[n]] /\ previous[next[n]] = n
                 /\ segment[next[n]] = segment[n] /\ address[next[n]] = address[n] + size[n]
                 /\ next[n] # b /\ next[n] # n /\ next[n] # p
        BY <1>7, <1>8, <3>1
      <4> HIDE DEF p, n, head, after, gone
      <4> QED BY <2>1, <2>2, <3>1, <4>1
    <3>2. CASE ~IsFree(n)
      <4>1. IF n = Null
            THEN address[b] + size[b] = segment[b] + segSize[segment[b]]
            ELSE /\ n \in nodes /\ isAllocated[n] /\ previous[n] = b /\ n # b /\ n # p
                 /\ segment[n] = segment[b] /\ address[n] = address[b] + size[b]
        BY <1>3, <1>4, <1>5, <1>9, <3>2 DEF IsFree
      <4> HIDE DEF p, n, head, after, gone
      <4>2. IsFree(p) => p # Null
        BY DEF IsFree
      <4> QED BY <2>1, <2>2, <3>2, <4>1, <4>2
    <3> QED BY <3>1, <3>2
  <2>7. previous[head] # Null => previous[head] \notin gone /\ isAllocated[previous[head]]
    <3>1. CASE IsFree(p)
      <4>1. previous[p] # Null => isAllocated[previous[p]] /\ previous[p] # b /\ previous[p] # n
        BY <1>6, <3>1
      <4> HIDE DEF p, n, head, after, gone
      <4> QED BY <2>2, <3>1, <4>1
    <3>2. CASE ~IsFree(p)
      <4>1. p # Null => isAllocated[p]
        BY <3>2 DEF IsFree
      <4>2. IsFree(n) => n # Null
        BY DEF IsFree
      <4>3. head = b /\ previous[b] = p /\ gone \subseteq {n}
        BY <2>2, <3>2
      <4> HIDE DEF p, n, head, after, gone
      <4> QED BY <1>5, <2>2, <3>2, <4>1, <4>2, <4>3
    <3> QED BY <3>1, <3>2
  <2> HIDE DEF b, head, after, gone, total, p, n
  <2> QED BY <2>3, <2>4, <2>5, <2>6, <2>7 DEF Merged
<1> HIDE DEF b, head, after, gone, total, p, n
<1>14. gone = {} => after = next[b] /\ head = b
  BY <1>12 DEF n
<1>15. b = allocated[a]
  BY DEF b
<1>16. MergeStep(a, b, head, after, gone, total)
  BY <1>2, <1>10, <1>11, <1>14, <1>15 DEF MergeStep
<1> QED BY <1>13, <1>16

\* deallocate keeps the invariant, by the shape it was shown to have.
LEMMA DeallocateIInv ==
  ASSUME IInv, NEW a \in Address, Deallocate(a)
  PROVE  IInv'
<1>1. TypeOK /\ SegmentsApart /\ Linked /\ Fresh /\ NoByteLost /\ Coalesced /\ IndexesExact
  BY DEF IInv
<1>2. PICK b, head, after, gone, total :
        Merged(b, head, after, gone, total) /\ MergeStep(a, b, head, after, gone, total)
  BY DeallocateShape
<1>3. /\ allocated' = [allocated EXCEPT ![a] = Null]
      /\ reply' = Answer("deallocate", a, TRUE, 0, 0)
      /\ UNCHANGED <<segSize, first>>
  BY DEF Deallocate
<1> USE AddressAssumption, NullAssumption
<1>4. /\ head \in nodes' /\ head \in Block /\ gone \subseteq Block /\ b \in nodes /\ b \in Block
      /\ nodes' \subseteq nodes /\ nodes \subseteq Block /\ total \in Nat /\ total > 0
  BY <1>1, <1>2 DEF Merged, MergeStep, TypeOK
<1>5. Segments' = Segments /\ SegmentsApart'
  BY <1>1, <1>3 DEF SegmentsApart, Segments, Overlap
<1>6. ASSUME NEW x \in nodes'
      PROVE  /\ address'[x] = address[x] /\ segment'[x] = segment[x]
             /\ size'[x] = IF x = head THEN total ELSE size[x]
             /\ next'[x] = IF x = head THEN after ELSE next[x]
             /\ isAllocated'[x] <=> (isAllocated[x] /\ x # b)
  BY <1>1, <1>2, <1>4 DEF Destroyed, TypeOK, MergeStep
<1>7. ASSUME NEW x \in nodes'
      PROVE  previous'[x] = IF x = after THEN head ELSE previous[x]
  <2>1. gone = {} /\ x = after => previous[x] = head
    BY <1>1, <1>2, <1>4 DEF Linked, MergeStep
  <2> QED BY <1>1, <1>2, <1>4, <2>1 DEF Destroyed, TypeOK, MergeStep
<1>8. \A x \in nodes : x \notin nodes' => x \in gone
  BY <1>2 DEF MergeStep
<1>9. after # Null => after \in nodes' /\ after # head
  BY <1>2 DEF Merged, MergeStep
<1>16. ASSUME NEW x \in nodes', x # head, next[x] # Null
       PROVE  next[x] \in nodes' /\ previous[next[x]] = x
  <2>1. next[x] \in nodes /\ previous[next[x]] = x
    BY <1>1, <1>4, <1>16 DEF Linked, TypeOK
  <2>2. next[x] \notin gone
    BY <1>2, <1>4, <1>16, <2>1 DEF Merged, MergeStep
  <2> QED BY <1>8, <2>1, <2>2
<1>17. ASSUME NEW x \in nodes', x # after, previous[x] # Null
       PROVE  previous[x] \in nodes' /\ next[previous[x]] = x /\ previous[x] # head
  <2>1. previous[x] \in nodes /\ next[previous[x]] = x
    BY <1>1, <1>4, <1>17 DEF Linked, TypeOK
  <2>2. previous[x] \notin gone \cup {head}
    BY <1>2, <1>4, <1>17, <2>1 DEF Merged, MergeStep
  <2> QED BY <1>8, <2>1, <2>2
<1>18. ASSUME NEW s \in Address
       PROVE  first[s] # Null => first[s] \in nodes' /\ first[s] # after
  <2>1. first[s] # Null => first[s] \in nodes /\ previous[first[s]] = Null
    BY <1>1 DEF Linked, TypeOK
  <2>2. \A y \in nodes : previous[y] = Null => y \notin gone /\ y # after
    BY <1>1, <1>2, <1>4 DEF Merged, TypeOK
  <2> QED BY <1>8, <2>1, <2>2
<1>10. TypeOK'
  <2>1. /\ address' \in [Block -> Address] /\ segment' \in [Block -> Address]
        /\ size' \in [Block -> Nat] /\ isAllocated' \in [Block -> BOOLEAN]
    <3>1. /\ address' = Destroyed(address, gone, 0) /\ segment' = Destroyed(segment, gone, 0)
          /\ size' = Destroyed([size EXCEPT ![head] = total], gone, 0)
          /\ isAllocated' = [isAllocated EXCEPT ![b] = FALSE]
      BY <1>2 DEF MergeStep
    <3>2. address' \in [Block -> Address] /\ segment' \in [Block -> Address]
      BY <1>1, <3>1 DEF TypeOK, Destroyed, Address
    <3>3. size' \in [Block -> Nat]
      BY <1>1, <1>4, <3>1 DEF TypeOK, Destroyed
    <3>4. isAllocated' \in [Block -> BOOLEAN]
      BY <1>1, <3>1 DEF TypeOK
    <3> QED BY <3>2, <3>3, <3>4
  <2>2. \A x \in Block : previous'[x] \in nodes' \cup {Null} /\ next'[x] \in nodes' \cup {Null}
    <3>1. ASSUME NEW x \in nodes'
          PROVE  previous'[x] \in nodes' \cup {Null} /\ next'[x] \in nodes' \cup {Null}
      BY <1>4, <1>6, <1>7, <1>9, <1>16, <1>17
    <3>2. ASSUME NEW x \in Block \ nodes'
          PROVE  previous'[x] = Null /\ next'[x] = Null
      BY <1>1, <1>2, <1>4, <1>9 DEF MergeStep, Destroyed, Fresh, TypeOK, Merged
    <3> QED BY <3>1, <3>2
  <2>3. /\ previous' \in [Block -> nodes' \cup {Null}] /\ next' \in [Block -> nodes' \cup {Null}]
    BY <2>2, <1>2 DEF MergeStep, Destroyed
  <2>4. free_index' \subseteq Nat \X nodes'
    BY <1>1, <1>2, <1>4 DEF TypeOK, MergeStep
  <2>5. first' \in [Address -> nodes' \cup {Null}]
    BY <1>1, <1>3, <1>18 DEF TypeOK
  <2>6. allocated' \in [Address -> nodes' \cup {Null}]
    <3>1. \A c \in Address : c # a /\ allocated[c] # Null => allocated[c] \in nodes'
      BY <1>1, <1>2, <1>8 DEF IndexesExact, TypeOK, Merged, MergeStep
    <3> QED BY <3>1, <1>1, <1>3 DEF TypeOK
  <2>7. reply' \in Replies
    BY <1>3 DEF Answer, Replies, Address
  <2> QED BY <2>1, <2>3, <2>4, <2>5, <2>6, <2>7, <1>1, <1>3, <1>4 DEF TypeOK
<1>11. Linked'
  <2>1. \A s \in Segments' :
          first'[s] # Null /\ segment'[first'[s]] = s /\ previous'[first'[s]] = Null
    <3> SUFFICES ASSUME NEW s \in Segments
                 PROVE  first[s] # Null /\ segment'[first[s]] = s /\ previous'[first[s]] = Null
      BY <1>3, <1>5
    <3>1. first[s] # Null /\ segment[first[s]] = s /\ previous[first[s]] = Null
      BY <1>1 DEF Linked
    <3> QED BY <3>1, <1>6, <1>7, <1>18 DEF Segments
  <2>2. \A s \in Address \ Segments' : first'[s] = Null
    BY <1>1, <1>3, <1>5 DEF Linked
  <2>3. ASSUME NEW x \in nodes'
        PROVE /\ size'[x] > 0
              /\ segment'[x] \in Segments'
              /\ segment'[x] <= address'[x]
              /\ address'[x] + size'[x] <= segment'[x] + segSize'[segment'[x]]
              /\ next'[x] = Null =>
                   address'[x] + size'[x] = segment'[x] + segSize'[segment'[x]]
    <3>1. CASE x # head
      BY <3>1, <1>1, <1>3, <1>4, <1>5, <1>6 DEF Linked
    <3>2. CASE x = head
      <4>1. after # Null => address[head] + total <= segment[head] + segSize[segment[head]]
        <5>1. after # Null => /\ after \in nodes /\ segment[after] = segment[head]
                              /\ address[after] = address[head] + total
          BY <1>2 DEF Merged
        <5> QED BY <1>4, <5>1, Intervals
      <4>2. after = Null => address[head] + total = segment[head] + segSize[segment[head]]
        BY <1>2 DEF Merged
      <4> QED BY <3>2, <4>1, <4>2, <1>3, <1>4, <1>5, <1>6, Intervals
    <3> QED BY <3>1, <3>2
  <2>4. ASSUME NEW x \in nodes'
        PROVE /\ previous'[x] = Null => first'[segment'[x]] = x /\ address'[x] = segment'[x]
              /\ previous'[x] # Null => next'[previous'[x]] = x
    <3>1. CASE x = after
      BY <3>1, <1>4, <1>6, <1>7
    <3>2. CASE x # after
      BY <3>2, <1>1, <1>3, <1>4, <1>6, <1>7, <1>17 DEF Linked
    <3> QED BY <3>1, <3>2
  <2>5. ASSUME NEW x \in nodes', next'[x] # Null
        PROVE /\ previous'[next'[x]] = x
              /\ segment'[next'[x]] = segment'[x]
              /\ address'[next'[x]] = address'[x] + size'[x]
    <3>1. CASE x = head
      BY <2>5, <3>1, <1>2, <1>4, <1>6, <1>7, <1>9 DEF Merged
    <3>2. CASE x # head
      <4>1. next[x] \in nodes' /\ previous[next[x]] = x /\ next'[x] = next[x]
        BY <2>5, <3>2, <1>6, <1>16
      <4>2. next[x] # after
        BY <3>2, <4>1, <1>2, <1>4 DEF Merged, MergeStep
      <4>3. address[next[x]] = address[x] + size[x] /\ segment[next[x]] = segment[x]
        BY <4>1, <1>1, <1>4, <2>5 DEF Linked
      <4> QED BY <3>2, <4>1, <4>2, <4>3, <1>6, <1>7
    <3> QED BY <3>1, <3>2
  <2> QED BY <2>1, <2>2, <2>3, <2>4, <2>5 DEF Linked
<1>12. Fresh'
  BY <1>1, <1>2, <1>4, <1>9 DEF Fresh, MergeStep, Destroyed, TypeOK, Merged
<1>13. Coalesced'
  <2> SUFFICES ASSUME NEW x \in nodes', ~isAllocated'[x], next'[x] # Null
               PROVE  isAllocated'[next'[x]]
    BY DEF Coalesced, IsFree
  <2>1. CASE x = head
    BY <2>1, <1>2, <1>4, <1>6, <1>9 DEF Merged
  <2>2. CASE x # head
    <3>1. ~isAllocated[x] /\ x \in nodes /\ next'[x] = next[x] /\ next[x] \in nodes'
      <4>1. x # b /\ x \in nodes
        BY <2>2, <1>2, <1>4 DEF Merged, MergeStep
      <4>2. next'[x] = next[x] /\ ~isAllocated[x]
        BY <2>2, <4>1, <1>6
      <4> QED BY <2>2, <4>1, <4>2, <1>16
    <3>2. isAllocated[next[x]] /\ previous[next[x]] = x
      <4>1. x # Null /\ next[x] # Null
        BY <3>1, <1>4
      <4> QED BY <2>2, <3>1, <4>1, <1>1, <1>16 DEF Coalesced, IsFree
    <3>3. next[x] # head
      BY <3>1, <3>2, <1>2, <1>4 DEF Merged
    <3>4. next[x] # b
      BY <3>1, <3>3, <1>2 DEF Merged, MergeStep
    <3> QED BY <3>1, <3>2, <3>4, <1>6
  <2> QED BY <2>1, <2>2
<1>14. NoByteLost'
  <2>1. ASSUME NEW s \in Segments', NEW c \in Address, s <= c, c < s + segSize'[s]
        PROVE  \E x \in nodes' : address'[x] <= c /\ c < address'[x] + size'[x]
    <3>1. PICK x \in nodes : address[x] <= c /\ c < address[x] + size[x]
      BY <2>1, <1>1, <1>3, <1>5 DEF NoByteLost
    <3>2. CASE x \in nodes' /\ x # head
      BY <3>1, <3>2, <1>6
    <3>3. CASE x \in gone \cup {head}
      <4>1. /\ address[head] <= address[x] /\ address[x] + size[x] <= address[head] + total
        BY <3>3, <1>2 DEF Merged
      <4>2. c \in Nat
        BY DEF Address
      <4>3. address[head] <= c /\ c < address[head] + total
        BY <3>1, <4>1, <4>2, <1>2, <1>4, Intervals
      <4> QED BY <4>3, <1>4, <1>6
    <3> QED BY <3>2, <3>3, <1>8
  <2>2. ASSUME NEW x \in nodes', x # head
        PROVE  /\ ~Overlap(address[head], total, address[x], size[x])
               /\ ~Overlap(address[x], size[x], address[head], total)
    <3>1. /\ address[x] \in Nat /\ size[x] \in Nat /\ size[x] > 0 /\ x \in nodes
          /\ address[head] \in Nat /\ x \notin gone
      BY <1>2, <1>4, Intervals DEF MergeStep
    <3>2. SUFFICES ASSUME \E c \in Nat :
                            /\ address[head] <= c /\ c < address[head] + total
                            /\ address[x] <= c /\ c < address[x] + size[x]
                   PROVE  FALSE
      <4>1. SUFFICES ASSUME address[head] < address[x] + size[x], address[x] < address[head] + total
                     PROVE  FALSE
        BY DEF Overlap
      <4>2. CASE address[head] <= address[x]
        BY <3>1, <3>2, <4>1, <4>2, <1>4
      <4>3. CASE address[x] < address[head]
        BY <3>1, <3>2, <4>1, <4>3, <1>4
      <4> QED BY <3>1, <4>2, <4>3
    <3>3. PICK c \in Nat : /\ address[head] <= c /\ c < address[head] + total
                           /\ address[x] <= c /\ c < address[x] + size[x]
      BY <3>2
    <3>4. PICK y \in gone \cup {head} : address[y] <= c /\ c < address[y] + size[y]
      BY <3>3, <1>2 DEF Merged
    <3>5. y \in nodes /\ y # x
      BY <2>2, <3>1, <1>2 DEF Merged
    <3>6. ~Overlap(address[y], size[y], address[x], size[x])
      BY <3>1, <3>5, <1>1 DEF NoByteLost
    <3> QED BY <3>1, <3>3, <3>4, <3>5, <3>6, Intervals DEF Overlap
  <2>3. \A x, y \in nodes' : x # y => ~Overlap(address'[x], size'[x], address'[y], size'[y])
    BY <2>2, <1>1, <1>4, <1>6 DEF NoByteLost
  <2> QED BY <2>1, <2>3 DEF NoByteLost, Overlap
<1>15. IndexesExact'
  <2>1. free_index' = {<<size'[x], x>> : x \in {y \in nodes' : ~isAllocated'[y]}}
    <3>1. ASSUME NEW e \in free_index'
          PROVE  \E x \in nodes' : ~isAllocated'[x] /\ e = <<size'[x], x>>
      <4>1. CASE e = <<total, head>>
        BY <4>1, <1>2, <1>4, <1>6 DEF Merged
      <4>2. CASE e \in free_index /\ e[2] \notin gone \cup {head}
        <5>1. PICK x \in nodes : ~isAllocated[x] /\ e = <<size[x], x>>
          BY <4>2, <1>1 DEF IndexesExact
        <5>2. x \notin gone /\ x # head
          BY <4>2, <5>1
        <5>3. x \in nodes' /\ size'[x] = size[x] /\ ~isAllocated'[x]
          BY <5>1, <5>2, <1>6, <1>8
        <5> QED BY <5>1, <5>3
      <4> QED BY <3>1, <4>1, <4>2, <1>2 DEF MergeStep
    <3>2. ASSUME NEW x \in nodes', ~isAllocated'[x]
          PROVE  <<size'[x], x>> \in free_index'
      <4>1. CASE x = head
        <5>1. size'[x] = total
          BY <3>2, <4>1, <1>6
        <5>2. <<total, head>> \in free_index'
          BY <1>2 DEF MergeStep
        <5> QED BY <4>1, <5>1, <5>2
      <4>2. CASE x # head
        <5>1. ~isAllocated[x] /\ x \notin gone /\ x \in nodes
          BY <3>2, <4>2, <1>2, <1>4, <1>6 DEF Merged, MergeStep
        <5>2. <<size[x], x>> \in free_index
          BY <5>1, <1>1 DEF IndexesExact
        <5>3. <<size[x], x>>[2] \notin gone \cup {head}
          BY <4>2, <5>1
        <5>4. <<size[x], x>> \in free_index'
          BY <5>2, <5>3, <1>2 DEF MergeStep
        <5> QED BY <4>2, <5>4, <1>6
      <4> QED BY <4>1, <4>2
    <3> QED BY <3>1, <3>2
  <2>2. ASSUME NEW c \in Address, allocated'[c] # Null
        PROVE  isAllocated'[allocated'[c]] /\ address'[allocated'[c]] = c
    <3>1. c # a /\ allocated'[c] = allocated[c] /\ allocated[c] # Null
      BY <2>2, <1>1, <1>3 DEF TypeOK
    <3>2. /\ isAllocated[allocated[c]] /\ address[allocated[c]] = c /\ allocated[c] # b
          /\ allocated[c] \in nodes
      BY <3>1, <1>1, <1>2 DEF IndexesExact, MergeStep, TypeOK
    <3>3. allocated[c] \in nodes'
      BY <3>2, <1>2, <1>8 DEF Merged
    <3> QED BY <3>1, <3>2, <3>3, <1>6
  <2>3. ASSUME NEW x \in nodes', isAllocated'[x]
        PROVE  allocated'[address'[x]] = x
    <3>1. isAllocated[x] /\ x # b /\ x \in nodes
      BY <2>3, <1>4, <1>6
    <3>2. allocated[address[x]] = x /\ address[x] # a /\ address[x] \in Address
      BY <3>1, <1>1, <1>2, <1>4 DEF IndexesExact, MergeStep, TypeOK
    <3> QED BY <3>2, <1>1, <1>3, <1>6 DEF TypeOK
  <2> QED BY <2>1, <2>2, <2>3 DEF IndexesExact
<1> QED BY <1>5, <1>10, <1>11, <1>12, <1>13, <1>14, <1>15 DEF IInv

-----------------------------------------------------------------------------
(* extract_fully_free_segments *)

\* extract_fully_free_segments keeps the invariant: nothing points to the blocks it destroys.
LEMMA ExtractIInv ==
  ASSUME IInv, ExtractFullyFreeSegments
  PROVE  IInv'
<1> DEFINE released == {s \in Segments : FullyFree(s)}
           gone     == {first[s] : s \in released}
<1>1. TypeOK /\ SegmentsApart /\ Linked /\ Fresh /\ NoByteLost /\ Coalesced /\ IndexesExact
  BY DEF IInv
<1>2. /\ segSize' = [s \in Address |-> IF s \in released THEN 0 ELSE segSize[s]]
      /\ first' = [s \in Address |-> IF s \in released THEN Null ELSE first[s]]
      /\ nodes' = nodes \ gone
      /\ address' = Destroyed(address, gone, 0)
      /\ size' = Destroyed(size, gone, 0)
      /\ segment' = Destroyed(segment, gone, 0)
      /\ free_index' = {e \in free_index : e[2] \notin gone}
      /\ reply' = Answer("extract", 0, TRUE, 0, 0)
      /\ UNCHANGED <<isAllocated, previous, next, allocated>>
  BY DEF ExtractFullyFreeSegments
<1> USE AddressAssumption, NullAssumption
<1>3. ASSUME NEW s \in released
      PROVE  /\ first[s] \in nodes /\ segment[first[s]] = s /\ address[first[s]] = s
             /\ size[first[s]] = segSize[s] /\ ~isAllocated[first[s]]
             /\ next[first[s]] = Null /\ previous[first[s]] = Null
             /\ s \in Segments /\ s \in Address
  BY <1>1 DEF FullyFree, Linked, TypeOK, Segments
<1>4. ASSUME NEW x \in nodes, segment[x] \in released
      PROVE  x = first[segment[x]]
  <2>1. ~(x # first[segment[x]] /\
          ~Overlap(address[x], size[x], address[first[segment[x]]], size[first[segment[x]]]))
    BY <1>3, <1>4, Intervals DEF Overlap
  <2> QED BY <2>1, <1>1, <1>3, <1>4 DEF NoByteLost
<1>5. \A x \in gone : x \in nodes /\ x \in Block /\ ~isAllocated[x] /\ next[x] = Null
                      /\ previous[x] = Null /\ segment[x] \in released
  BY <1>1, <1>3 DEF TypeOK
<1>6. \A x \in nodes : x \in gone <=> segment[x] \in released
  BY <1>4, <1>5
<1> HIDE DEF released, gone
<1>7. \A x \in nodes' :
        /\ x \in nodes /\ x \in Block /\ x \notin gone /\ segment[x] \notin released
        /\ address'[x] = address[x] /\ size'[x] = size[x] /\ segment'[x] = segment[x]
  BY <1>1, <1>2, <1>6 DEF Destroyed, TypeOK
<1>8. \A s \in Address : s \in Segments' <=> s \in Segments /\ s \notin released
  BY <1>1, <1>2 DEF Segments, TypeOK
<1>9. \A s \in Segments' : s \in Segments /\ s \in Address /\ s \notin released
                           /\ segSize'[s] = segSize[s] /\ first'[s] = first[s]
  BY <1>2, <1>8 DEF Segments
<1>10. \A x \in nodes : /\ next[x] # Null => next[x] \in nodes /\ next[x] \notin gone
                        /\ previous[x] # Null => previous[x] \in nodes /\ previous[x] \notin gone
  BY <1>1, <1>5 DEF Linked, TypeOK
<1>11. TypeOK'
  <2>1. /\ address' \in [Block -> Address] /\ segment' \in [Block -> Address]
        /\ size' \in [Block -> Nat] /\ segSize' \in [Address -> Nat]
    BY <1>1, <1>2 DEF TypeOK, Destroyed, Address
  <2>2. \A x \in Block : previous[x] \in nodes' \cup {Null} /\ next[x] \in nodes' \cup {Null}
    BY <1>1, <1>2, <1>10 DEF Fresh, TypeOK
  <2>3. \A s \in Address : first'[s] \in nodes' \cup {Null}
    <3> SUFFICES ASSUME NEW s \in Address, s \notin released, first[s] # Null
                 PROVE  first[s] \in nodes'
      BY <1>2
    <3>1. s \in Segments /\ segment[first[s]] = s /\ first[s] \in nodes
      BY <1>1 DEF Linked, TypeOK
    <3> QED BY <3>1, <1>2, <1>5
  <2>4. \A a \in Address : allocated[a] \in nodes' \cup {Null}
    BY <1>1, <1>2, <1>5 DEF IndexesExact, TypeOK
  <2>5. reply' \in Replies
    BY <1>2 DEF Answer, Replies
  <2>6. free_index' \subseteq Nat \X nodes'
    BY <1>1, <1>2 DEF TypeOK
  <2> QED BY <2>1, <2>2, <2>3, <2>4, <2>5, <2>6, <1>1, <1>2 DEF TypeOK
<1>12. SegmentsApart'
  <2>1. segSize'[0] = 0
    BY <1>1, <1>2 DEF SegmentsApart, Address
  <2> QED BY <2>1, <1>1, <1>9 DEF SegmentsApart, Overlap
<1>13. Linked'
  <2>1. \A s \in Segments' :
          first'[s] # Null /\ segment'[first'[s]] = s /\ previous'[first'[s]] = Null
    <3> SUFFICES ASSUME NEW s \in Segments'
                 PROVE  first[s] # Null /\ segment'[first[s]] = s /\ previous[first[s]] = Null
      BY <1>2, <1>9
    <3>1. first[s] # Null /\ segment[first[s]] = s /\ previous[first[s]] = Null
          /\ first[s] \in nodes
      BY <1>1, <1>9 DEF Linked, TypeOK
    <3>2. first[s] \in nodes'
      BY <3>1, <1>2, <1>5, <1>9
    <3> QED BY <3>1, <3>2, <1>7
  <2>2. \A s \in Address \ Segments' : first'[s] = Null
    BY <1>1, <1>2, <1>8 DEF Linked
  <2>3. ASSUME NEW x \in nodes'
        PROVE /\ size'[x] > 0
              /\ segment'[x] \in Segments' /\ segSize'[segment'[x]] = segSize[segment[x]]
              /\ first'[segment'[x]] = first[segment[x]]
              /\ segment'[x] <= address'[x]
              /\ address'[x] + size'[x] <= segment'[x] + segSize'[segment'[x]]
    <3>1. segment[x] \in Segments /\ segment[x] \in Segments'
      BY <1>7, <1>8, Intervals DEF Segments
    <3> QED BY <3>1, <1>1, <1>7, <1>9 DEF Linked
  <2>4. ASSUME NEW x \in nodes'
        PROVE /\ previous'[x] = Null => first'[segment'[x]] = x /\ address'[x] = segment'[x]
              /\ previous'[x] # Null => next'[previous'[x]] = x
              /\ next'[x] = Null =>
                   address'[x] + size'[x] = segment'[x] + segSize'[segment'[x]]
    BY <2>3, <1>1, <1>2, <1>7 DEF Linked
  <2>5. ASSUME NEW x \in nodes', next'[x] # Null
        PROVE /\ previous'[next'[x]] = x
              /\ segment'[next'[x]] = segment'[x]
              /\ address'[next'[x]] = address'[x] + size'[x]
    <3>1. next'[x] = next[x] /\ next[x] \in nodes'
      BY <2>5, <1>2, <1>7, <1>10
    <3> QED BY <2>5, <3>1, <1>1, <1>2, <1>7 DEF Linked
  <2> QED BY <2>1, <2>2, <2>3, <2>4, <2>5 DEF Linked
<1>14. Fresh' /\ Coalesced'
  BY <1>1, <1>2, <1>5, <1>7 DEF Fresh, Coalesced, IsFree, TypeOK
<1>15. NoByteLost'
  <2>1. ASSUME NEW s \in Segments', NEW c \in Address, s <= c, c < s + segSize'[s]
        PROVE  \E x \in nodes' : address'[x] <= c /\ c < address'[x] + size'[x]
    <3>1. PICK x \in nodes : address[x] <= c /\ c < address[x] + size[x]
      BY <2>1, <1>1, <1>9 DEF NoByteLost
    <3>2. segment[x] = s
      <4>1. segment[x] # s => ~Overlap(segment[x], segSize[segment[x]], s, segSize[s])
        BY <1>1, <1>9, Intervals DEF SegmentsApart
      <4>2. c \in Nat
        BY DEF Address
      <4> QED BY <2>1, <3>1, <4>1, <4>2, <1>9, Intervals DEF Overlap
    <3>3. x \in nodes'
      BY <3>2, <1>2, <1>5, <1>9
    <3> QED BY <3>1, <3>3, <1>7
  <2> QED BY <2>1, <1>1, <1>7 DEF NoByteLost, Overlap
<1>16. IndexesExact'
  <2>1. free_index' = {<<size'[x], x>> : x \in {y \in nodes' : ~isAllocated'[y]}}
    BY <1>1, <1>2, <1>7 DEF IndexesExact
  <2>2. \A a \in Address : allocated'[a] # Null =>
          isAllocated'[allocated'[a]] /\ address'[allocated'[a]] = a
    BY <1>1, <1>2, <1>7, <1>11 DEF IndexesExact, TypeOK
  <2>3. \A x \in nodes' : isAllocated'[x] => allocated'[address'[x]] = x
    BY <1>1, <1>2, <1>7 DEF IndexesExact
  <2> QED BY <2>1, <2>2, <2>3 DEF IndexesExact
<1> QED BY <1>11, <1>12, <1>13, <1>14, <1>15, <1>16 DEF IInv

-----------------------------------------------------------------------------

\* Every step of the arena keeps its invariant.
THEOREM NextIInv == IInv /\ [Next]_vars => IInv'
<1> SUFFICES ASSUME IInv, [Next]_vars
             PROVE  IInv'
  OBVIOUS
<1>1. ASSUME NEW s \in Address, NEW n \in SegmentSizes, AddSegment(s, n)
      PROVE  IInv'
  BY <1>1, AddSegmentIInv
<1>2. CASE AllocateNothing
  <2>1. reply' \in Replies
    BY <1>2 DEF AllocateNothing, Answer, Replies
  <2> QED BY <2>1, <1>2, AnswerOnly DEF AllocateNothing
<1>3. ASSUME NEW n \in Sizes, AllocateNullopt(n)
      PROVE  IInv'
  <2>1. reply' \in Replies
    BY <1>3, SizesAssumption DEF AllocateNullopt, Answer, Replies
  <2> QED BY <2>1, <1>3, AnswerOnly DEF AllocateNullopt
<1>4. ASSUME NEW n \in Sizes, TakeWhole(n)
      PROVE  IInv'
  BY <1>4, TakeWholeIInv
<1>5. ASSUME NEW n \in Sizes, Split(n)
      PROVE  IInv'
  BY <1>5, SplitIInv
<1>6. ASSUME NEW a \in Address, DeallocateNothing(a)
      PROVE  IInv'
  <2>1. reply' \in Replies
    BY <1>6, AddressAssumption DEF DeallocateNothing, Answer, Replies, Address
  <2> QED BY <2>1, <1>6, AnswerOnly DEF DeallocateNothing
<1>7. ASSUME NEW a \in Address, Deallocate(a)
      PROVE  IInv'
  BY <1>7, DeallocateIInv
<1>8. CASE ExtractFullyFreeSegments
  BY <1>8, ExtractIInv
<1>9. CASE UNCHANGED vars
  <2>1. reply' \in Replies
    BY <1>9 DEF vars, IInv, TypeOK
  <2> QED BY <2>1, <1>9, AnswerOnly DEF vars
<1> QED BY <1>1, <1>2, <1>3, <1>4, <1>5, <1>6, <1>7, <1>8, <1>9 DEF Next

\* The invariant holds of every reachable state of allocator_core.hpp's arena.
THEOREM SpecIInv == Spec => []IInv
BY InitIInv, NextIInv, PTL DEF Spec

\* No pointer of the chains or of the indexes ever dangles.
THEOREM SpecTypeOK == Spec => []TypeOK
<1>1. IInv => TypeOK
  BY DEF IInv
<1> QED BY <1>1, SpecIInv, PTL

(* Splitting and merging neither lose a byte of a segment nor put one in   *)
(* two blocks, so that live allocations never share memory.                *)
THEOREM SpecNoByteLost == Spec => []NoByteLost
<1>1. IInv => NoByteLost
  BY DEF IInv
<1> QED BY <1>1, SpecIInv, PTL

\* No two neighbouring blocks are ever both free.
THEOREM SpecCoalesced == Spec => []Coalesced
<1>1. IInv => Coalesced
  BY DEF IInv
<1> QED BY <1>1, SpecIInv, PTL

\* free_index_ and allocated_ always agree with the blocks.
THEOREM SpecIndexesExact == Spec => []IndexesExact
<1>1. IInv => IndexesExact
  BY DEF IInv
<1> QED BY <1>1, SpecIInv, PTL
-----------------------------------------------------------------------------
(* Refinement: whatever the arena does with its blocks, its callers see    *)
(* grants of memory that nothing else uses, refusals only where no run of  *)
(* memory is left, and the release of just the segments that nobody uses.  *)

\* The live allocations of the abstract pool, as the arena keeps them.
LiveSize == [a \in Address |-> IF allocated[a] = Null THEN 0 ELSE size[allocated[a]]]

\* A live allocation is an allocated block, and every allocated block is one.
LEMMA LiveBlocks ==
  ASSUME IInv
  PROVE  /\ \A l \in Pool!Live :
              /\ l \in Address /\ l # 0
              /\ allocated[l] \in nodes /\ isAllocated[allocated[l]]
              /\ address[allocated[l]] = l /\ LiveSize[l] = size[allocated[l]]
         /\ \A b \in nodes : isAllocated[b] =>
              /\ address[b] \in Pool!Live
              /\ allocated[address[b]] = b /\ LiveSize[address[b]] = size[b]
<1>1. Pool!Live = {a \in Address : LiveSize[a] > 0}
  BY DEF Pool!Live, Pool!Address, Address, LiveSize
<1>2. \A a \in Address : LiveSize[a] = IF allocated[a] = Null THEN 0 ELSE size[allocated[a]]
  BY DEF LiveSize
<1>3. ASSUME NEW l \in Pool!Live
      PROVE  /\ l \in Address /\ l # 0
             /\ allocated[l] \in nodes /\ isAllocated[allocated[l]]
             /\ address[allocated[l]] = l /\ LiveSize[l] = size[allocated[l]]
  <2>1. l \in Address /\ allocated[l] # Null
    BY <1>1, <1>2
  <2>2. allocated[l] \in nodes /\ isAllocated[allocated[l]] /\ address[allocated[l]] = l
    BY <2>1 DEF IInv, TypeOK, IndexesExact
  <2> QED BY <2>1, <2>2, <1>2, Intervals
<1>4. ASSUME NEW b \in nodes, isAllocated[b]
      PROVE  /\ address[b] \in Pool!Live
             /\ allocated[address[b]] = b /\ LiveSize[address[b]] = size[b]
  <2>1. address[b] \in Address /\ allocated[address[b]] = b /\ b # Null
    BY <1>4, NullAssumption DEF IInv, TypeOK, IndexesExact
  <2>2. size[b] > 0
    BY Intervals
  <2> QED BY <1>1, <1>2, <2>1, <2>2
<1> QED BY <1>3, <1>4

\* The part of a free block with n bytes at its start is a free run of the pool.
LEMMA BlockIsFreeRun ==
  ASSUME IInv, NEW b \in nodes, ~isAllocated[b], NEW n \in Nat, n <= size[b]
  PROVE  Pool!FreeRun(address[b], n)
<1>1. /\ segment[b] \in Segments /\ segment[b] <= address[b]
      /\ address[b] + n <= segment[b] + segSize[segment[b]]
  BY Intervals DEF IInv, TypeOK, Address
<1>2. Pool!Segments = Segments
  BY DEF Pool!Segments, Pool!Address, Segments, Address
<1>3. ASSUME NEW l \in Pool!Live
      PROVE  ~Pool!Overlap(address[b], n, l, LiveSize[l])
  <2>1. /\ allocated[l] \in nodes /\ allocated[l] # b
        /\ address[allocated[l]] = l /\ LiveSize[l] = size[allocated[l]]
    BY LiveBlocks
  <2>2. ~Overlap(address[b], size[b], l, LiveSize[l])
    BY <2>1 DEF IInv, NoByteLost
  <2>3. address[b] \in Nat /\ size[b] \in Nat /\ l \in Nat /\ LiveSize[l] \in Nat
    BY <2>1, Intervals
  <2> QED BY <2>2, <2>3 DEF Pool!Overlap, Overlap
<1> QED BY <1>1, <1>2, <1>3 DEF Pool!FreeRun, LiveSize

(* Where the pool has a free run the arena has a free block that holds it: *)
(* the run begins in a block that is free, and the block after that one is *)
(* not free, for free neighbours are merged.                               *)
LEMMA FreeRunIsInBlock ==
  ASSUME IInv, NEW a \in Address, NEW n \in Nat, n > 0, Pool!FreeRun(a, n)
  PROVE  \E b \in nodes : ~isAllocated[b] /\ n <= size[b]
<1>1. PICK s \in Segments : s <= a /\ a + n <= s + segSize[s]
  BY DEF Pool!FreeRun, Pool!Segments, Pool!Address, Segments, Address
<1>2. \A l \in Pool!Live : ~Overlap(a, n, l, LiveSize[l])
  BY DEF Pool!FreeRun, Pool!Overlap, Overlap, LiveSize
<1>3. a \in Nat /\ s \in Nat /\ segSize[s] \in Nat
  BY <1>1, Intervals, AddressAssumption DEF Address
<1>4. PICK b \in nodes : address[b] <= a /\ a < address[b] + size[b]
  BY <1>1, <1>3 DEF IInv, NoByteLost
<1>5. address[b] \in Nat /\ size[b] \in Nat /\ size[b] > 0
  BY Intervals
<1>6. ~isAllocated[b]
  <2> SUFFICES ASSUME isAllocated[b] PROVE FALSE
    BY DEF IInv, TypeOK
  <2>1. ~Overlap(a, n, address[b], size[b])
    BY <1>2, LiveBlocks
  <2> QED BY <2>1, <1>3, <1>4, <1>5 DEF Overlap
<1>7. n <= size[b]
  <2> SUFFICES ASSUME n > size[b] PROVE FALSE
    BY <1>5
  <2>1. segment[b] = s
    <3>1. /\ segment[b] \in Segments /\ segment[b] <= address[b]
          /\ address[b] + size[b] <= segment[b] + segSize[segment[b]]
      BY Intervals
    <3>2. segment[b] \in Nat /\ segSize[segment[b]] \in Nat
      BY <3>1, Intervals
    <3>3. /\ segment[b] \in Nat /\ segSize[segment[b]] \in Nat
          /\ segment[b] <= a /\ a < segment[b] + segSize[segment[b]]
      BY <3>1, <3>2, <1>3, <1>4, <1>5
    <3>4. segment[b] # s => ~Overlap(segment[b], segSize[segment[b]], s, segSize[s])
      BY <1>1, <3>1 DEF IInv, SegmentsApart
    <3> QED BY <3>3, <3>4, <1>1, <1>3 DEF Overlap
  <2>2. next[b] # Null
    <3>1. next[b] = Null => address[b] + size[b] = s + segSize[s]
      BY <2>1 DEF IInv, Linked
    <3> QED BY <3>1, <1>1, <1>3, <1>4, <1>5
  <2>3. next[b] \in nodes /\ address[next[b]] = address[b] + size[b]
    BY <2>2 DEF IInv, TypeOK, Linked
  <2>4. isAllocated[next[b]]
    BY <1>6, <2>2, <2>3, NullAssumption DEF IInv, TypeOK, Coalesced, IsFree
  <2>5. ~Overlap(a, n, address[next[b]], size[next[b]])
    BY <1>2, <2>3, <2>4, LiveBlocks
  <2>6. size[next[b]] \in Nat /\ size[next[b]] > 0
    BY <2>3, Intervals
  <2> QED BY <2>3, <2>5, <2>6, <1>3, <1>4, <1>5 DEF Overlap
<1> QED BY <1>6, <1>7

\* Best fit finds a block whenever some free block is large enough.
LEMMA BestFitFinds ==
  ASSUME IInv, NEW n \in Nat, NEW b \in nodes, ~isAllocated[b], n <= size[b]
  PROVE  BestFit(n) # {}
<1> DEFINE T == {e[1] : e \in {f \in free_index : f[1] >= n}}
<1>1. <<size[b], b>> \in free_index
  BY DEF IInv, IndexesExact
<1>2. T \subseteq Nat /\ size[b] \in T
  BY <1>1 DEF IInv, TypeOK
<1>3. PICK least \in T : \A x \in T : least <= x
  <2> HIDE DEF T
  <2> QED BY <1>2, NatLeast
<1>4. PICK e \in free_index : e[1] >= n /\ e[1] = least
  BY <1>3
<1>5. e[2] \in nodes
  BY <1>4 DEF IInv, TypeOK
<1>6. e[2] \in BestFit(n)
  BY <1>3, <1>4, <1>5 DEF BestFit
<1> QED BY <1>6

-----------------------------------------------------------------------------
(* Every operation of the arena is one of the pool.                        *)

\* The arena starts as the pool does, without segments and allocations.
LEMMA InitPool == Init => Pool!Init
BY NullAssumption DEF Init, Pool!Init, Pool!Address, Address, Pool!Answer, Answer

\* A change of the blocks that leaves the live allocations as they are is not seen.
LEMMA SameLive ==
  ASSUME IInv, UNCHANGED allocated,
         \A b \in nodes : isAllocated[b] => size'[b] = size[b]
  PROVE  LiveSize' = LiveSize
<1>1. \A a \in Address : allocated[a] # Null =>
        allocated[a] \in nodes /\ isAllocated[allocated[a]]
  BY DEF IInv, TypeOK, IndexesExact
<1> QED BY <1>1 DEF LiveSize

\* A segment given to the arena is one given to the pool.
LEMMA AddSegmentPool ==
  ASSUME IInv, NEW s \in Address, NEW n \in SegmentSizes, AddSegment(s, n)
  PROVE  Pool!Add(s, n)
<1>1. PICK b \in Block \ nodes : size' = [size EXCEPT ![b] = n]
                               /\ segSize' = [segSize EXCEPT ![s] = n]
  BY DEF AddSegment
<1>2. LiveSize' = LiveSize
  <2>1. \A c \in nodes : size'[c] = size[c]
    BY <1>1 DEF IInv, TypeOK
  <2> QED BY <2>1, SameLive DEF AddSegment
<1> QED BY <1>1, <1>2
        DEF AddSegment, Pool!Add, Pool!Segments, Pool!Address, Segments, Address,
            Pool!Overlap, Overlap, Pool!Answer, Answer, LiveSize

\* The arena refuses a request only when the pool has no run for it.
LEMMA NulloptPool ==
  ASSUME IInv, NEW n \in Sizes, AllocateNullopt(n)
  PROVE  Pool!Refuse(n)
<1>1. n \in Nat /\ n > 0
  BY SizesAssumption DEF AllocateNullopt
<1>2. AlignUp(n) \in Nat /\ AlignUp(n) > 0
  BY <1>1, AlignUpPositive
<1>3. Pool!AlignUp(n) = AlignUp(n)
  BY DEF Pool!AlignUp, AlignUp
<1>4. ASSUME NEW a \in Address, Pool!FreeRun(a, AlignUp(n))
      PROVE  FALSE
  <2>1. PICK b \in nodes : ~isAllocated[b] /\ AlignUp(n) <= size[b]
    BY <1>2, <1>4, FreeRunIsInBlock
  <2>2. BestFit(AlignUp(n)) # {}
    BY <2>1, <1>2, BestFitFinds
  <2> QED BY <2>2 DEF AllocateNullopt
<1>5. LiveSize' = LiveSize
  BY DEF AllocateNullopt, arenaVars, blockVars, LiveSize
<1> QED BY <1>1, <1>3, <1>4, <1>5
        DEF AllocateNullopt, arenaVars, Pool!Refuse, Pool!Address, Address,
            Pool!Answer, Answer, LiveSize

\* A block handed out, whole or after a split, is a grant of the bytes asked for.
LEMMA HandOutPool ==
  ASSUME IInv, NEW n \in Sizes, n > 0, NEW b \in BestFit(AlignUp(n)),
         HandOut(b, n, AlignUp(n)), UNCHANGED segSize, size'[b] = AlignUp(n),
         \A c \in nodes : c # b => size'[c] = size[c],
         NEW a \in Address, a = address[b]
  PROVE  Pool!Grant(n, a)
<1>1. n \in Nat /\ AlignUp(n) \in Nat /\ AlignUp(n) > 0
  BY SizesAssumption, AlignUpPositive
<1>2. b \in nodes /\ b # Null /\ ~isAllocated[b] /\ size[b] >= AlignUp(n)
  BY <1>1, BestFitFree, NullAssumption DEF IInv
<1>3. Pool!AlignUp(n) = AlignUp(n)
  BY DEF Pool!AlignUp, AlignUp
<1>4. Pool!FreeRun(address[b], AlignUp(n))
  BY <1>1, <1>2, BlockIsFreeRun
<1>5. address[b] \in Address /\ allocated \in [Address -> nodes \cup {Null}]
  BY <1>2 DEF IInv, TypeOK
<1>6. LiveSize' = [LiveSize EXCEPT ![address[b]] = AlignUp(n)]
  <2>1. ASSUME NEW l \in Address, allocated[l] # Null
        PROVE  allocated[l] \in nodes /\ allocated[l] # b
    BY <2>1, <1>2 DEF IInv, TypeOK, IndexesExact
  <2>2. allocated' = [allocated EXCEPT ![address[b]] = b]
    BY DEF HandOut
  <2> QED BY <2>1, <2>2, <1>2, <1>5 DEF LiveSize
<1> QED BY <1>1, <1>3, <1>4, <1>6
        DEF HandOut, Pool!Grant, Pool!Answer, Answer, LiveSize

\* A deallocation frees the allocation at the address, and no other.
LEMMA DeallocatePool ==
  ASSUME IInv, NEW a \in Address, DeallocateNothing(a) \/ Deallocate(a)
  PROVE  Pool!Free(a)
<1>1. CASE DeallocateNothing(a)
  <2>1. allocated[a] = Null
    BY <1>1, LiveBlocks, Intervals DEF DeallocateNothing, IInv, TypeOK, IndexesExact
  <2>2. a \notin Pool!Live
    BY <2>1, LiveBlocks, NullAssumption DEF IInv, TypeOK
  <2>3. LiveSize' = LiveSize /\ LiveSize = [LiveSize EXCEPT ![a] = 0]
    BY <1>1, <2>1 DEF DeallocateNothing, arenaVars, blockVars, LiveSize
  <2> QED BY <1>1, <2>2, <2>3
          DEF DeallocateNothing, arenaVars, Pool!Free, Pool!Answer, Answer, LiveSize
<1>2. CASE Deallocate(a)
  <2> DEFINE b == allocated[a]
  <2>1. a # 0 /\ b # Null /\ b \in nodes /\ isAllocated[b] /\ address[b] = a
    BY <1>2 DEF Deallocate, IInv, TypeOK, IndexesExact
  <2>2. a \in Pool!Live
    BY <2>1, LiveBlocks
  <2>3. \A c \in nodes : isAllocated[c] /\ c # b => size'[c] = size[c]
    BY <1>2, <2>1, NullAssumption
       DEF Deallocate, Destroyed, IsFree, IInv, TypeOK
  <2>4. LiveSize' = [LiveSize EXCEPT ![a] = 0]
    <3>1. ASSUME NEW l \in Address, l # a, allocated[l] # Null
          PROVE  allocated[l] \in nodes /\ isAllocated[allocated[l]] /\ allocated[l] # b
      BY <3>1, <2>1 DEF IInv, TypeOK, IndexesExact
    <3>2. allocated' = [allocated EXCEPT ![a] = Null] /\ allocated \in [Address -> nodes \cup {Null}]
      BY <1>2 DEF Deallocate, IInv, TypeOK
    <3> HIDE DEF b
    <3> QED BY <3>1, <3>2, <2>3 DEF LiveSize
  <2> QED BY <1>2, <2>2, <2>4 DEF Deallocate, Pool!Free, Pool!Answer, Answer, LiveSize
<1> QED BY <1>1, <1>2

(* A segment is one free block just when no live allocation lies in it:    *)
(* the block after a free one is not free.                                 *)
LEMMA FullyFreeIsUnused ==
  ASSUME IInv, NEW s \in Segments
  PROVE  FullyFree(s) <=> \A l \in Pool!Live : ~Overlap(s, segSize[s], l, LiveSize[l])
<1> DEFINE b == first[s]
<1>1. /\ b # Null /\ b \in nodes /\ segment[b] = s /\ address[b] = s
      /\ s \in Nat /\ segSize[s] \in Nat /\ segSize[s] > 0
  BY Intervals DEF IInv, Linked, TypeOK, Segments
<1>2. size[b] \in Nat /\ size[b] > 0 /\ b \in Block
  BY <1>1, Intervals
<1>3. ASSUME FullyFree(s), NEW l \in Pool!Live
      PROVE  ~Overlap(s, segSize[s], l, LiveSize[l])
  <2>1. ~isAllocated[b] /\ size[b] = segSize[s]
    BY <1>3 DEF FullyFree
  <2>2. /\ allocated[l] \in nodes /\ allocated[l] # b
        /\ address[allocated[l]] = l /\ LiveSize[l] = size[allocated[l]]
    BY <2>1, LiveBlocks
  <2>3. ~Overlap(address[b], size[b], l, LiveSize[l])
    BY <1>1, <2>2 DEF IInv, NoByteLost
  <2> QED BY <1>1, <2>1, <2>3
<1>4. ASSUME ~FullyFree(s)
      PROVE  \E l \in Pool!Live : Overlap(s, segSize[s], l, LiveSize[l])
  <2>1. address[b] + size[b] <= s + segSize[s]
    BY <1>1, Intervals
  <2>2. CASE isAllocated[b]
    BY <2>2, <1>1, <1>2, LiveBlocks DEF Overlap
  <2>3. CASE ~isAllocated[b]
    <3>1. next[b] = Null => address[b] + size[b] = s + segSize[s]
      BY <1>1 DEF IInv, Linked
    <3>2. next[b] # Null
      BY <3>1, <2>3, <1>1, <1>2, <1>4 DEF FullyFree
    <3> DEFINE c == next[b]
    <3>3. c \in nodes /\ address[c] = s + size[b] /\ segment[c] = s
      BY <3>2, <1>1 DEF IInv, TypeOK, Linked
    <3>4. isAllocated[c]
      BY <2>3, <3>2, <3>3, <1>1, NullAssumption DEF IInv, TypeOK, Coalesced, IsFree
    <3>5. size[c] \in Nat /\ size[c] > 0 /\ address[c] + size[c] <= s + segSize[s]
      BY <3>3, Intervals
    <3> QED BY <3>3, <3>4, <3>5, <1>1, <1>2, LiveBlocks DEF Overlap
  <2> QED BY <2>2, <2>3
<1> QED BY <1>3, <1>4

\* The segments extracted are those without a live allocation.
LEMMA ExtractPool ==
  ASSUME IInv, ExtractFullyFreeSegments
  PROVE  Pool!Release
<1> DEFINE released == {s \in Segments : FullyFree(s)}
           gone     == {first[s] : s \in released}
<1>1. /\ segSize' = [s \in Address |-> IF s \in released THEN 0 ELSE segSize[s]]
      /\ size' = Destroyed(size, gone, 0)
      /\ reply' = Answer("extract", 0, TRUE, 0, 0)
      /\ UNCHANGED allocated
  BY DEF ExtractFullyFreeSegments
<1>2. LiveSize' = LiveSize
  <2>1. \A b \in gone : ~isAllocated[b]
    BY DEF FullyFree
  <2>2. \A b \in nodes : isAllocated[b] => size'[b] = size[b]
    BY <1>1, <2>1 DEF Destroyed, IInv, TypeOK
  <2> QED BY <1>1, <2>2, SameLive
<1>3. segSize' = [s \in Address |->
        IF \E l \in Pool!Live : Overlap(s, segSize[s], l, LiveSize[l]) THEN segSize[s] ELSE 0]
  <2>1. \A s \in Address \ Segments : segSize[s] = 0
    BY DEF Segments, IInv, TypeOK
  <2> QED BY <1>1, <2>1, FullyFreeIsUnused
<1> QED BY <1>1, <1>2, <1>3
        DEF Pool!Release, Pool!Address, Address, Pool!Overlap, Overlap,
            Pool!Answer, Answer, LiveSize

\* Every step of the arena is a step of the pool, or is not seen.
THEOREM NextPool == IInv /\ [Next]_vars => [Pool!Next]_Pool!vars
<1> SUFFICES ASSUME IInv, [Next]_vars PROVE [Pool!Next]_Pool!vars
  OBVIOUS
<1> USE DEF Pool!Next, Pool!Address, Address
<1>1. ASSUME NEW s \in Address, NEW n \in SegmentSizes, AddSegment(s, n)
      PROVE  Pool!Next
  BY <1>1, AddSegmentPool
<1>2. CASE AllocateNothing
  <2>1. Pool!AllocateNothing
    BY <1>2 DEF AllocateNothing, arenaVars, blockVars, Pool!AllocateNothing,
                Pool!Answer, Answer
  <2> QED BY <2>1
<1>3. ASSUME NEW n \in Sizes, AllocateNullopt(n)
      PROVE  Pool!Next
  BY <1>3, NulloptPool
<1>4. ASSUME NEW n \in Sizes, TakeWhole(n)
      PROVE  Pool!Next
  <2>1. PICK b \in BestFit(AlignUp(n)) : size[b] <= AlignUp(n) /\ HandOut(b, n, size[b])
    BY <1>4 DEF TakeWhole
  <2>2. n > 0 /\ n \in Nat /\ AlignUp(n) \in Nat
    BY <1>4, SizesAssumption, AlignUpPositive DEF TakeWhole
  <2>3. b \in nodes /\ size[b] >= AlignUp(n) /\ address[b] \in Address /\ size[b] \in Nat
    BY <2>2, BestFitFree DEF IInv, TypeOK
  <2>4. size[b] = AlignUp(n)
    BY <2>1, <2>2, <2>3
  <2>5. PICK a \in Address : a = address[b]
    BY <2>3
  <2>6. Pool!Grant(n, a)
    BY <1>4, <2>1, <2>2, <2>4, <2>5, HandOutPool DEF TakeWhole
  <2> QED BY <2>6
<1>5. ASSUME NEW n \in Sizes, Split(n)
      PROVE  Pool!Next
  <2>1. PICK b \in BestFit(AlignUp(n)), r \in Block \ nodes :
          /\ size' = [size EXCEPT ![r] = size[b] - AlignUp(n), ![b] = AlignUp(n)]
          /\ HandOut(b, n, AlignUp(n))
    BY <1>5 DEF Split
  <2>2. n > 0 /\ n \in Nat /\ AlignUp(n) \in Nat
    BY <1>5, SizesAssumption, AlignUpPositive DEF Split
  <2>3. b \in nodes /\ b \in Block /\ address[b] \in Address
    BY <2>2, BestFitFree DEF IInv, TypeOK
  <2>4. size'[b] = AlignUp(n) /\ \A c \in nodes : c # b => size'[c] = size[c]
    BY <2>1, <2>3 DEF IInv, TypeOK
  <2>5. PICK a \in Address : a = address[b]
    BY <2>3
  <2>6. Pool!Grant(n, a)
    BY <1>5, <2>1, <2>2, <2>4, <2>5, HandOutPool DEF Split
  <2> QED BY <2>6
<1>6. ASSUME NEW a \in Address, DeallocateNothing(a) \/ Deallocate(a)
      PROVE  Pool!Next
  BY <1>6, DeallocatePool
<1>7. CASE ExtractFullyFreeSegments
  BY <1>7, ExtractPool
<1>8. CASE UNCHANGED vars
  BY <1>8 DEF vars, arenaVars, blockVars, Pool!vars
<1> QED BY <1>1, <1>2, <1>3, <1>4, <1>5, <1>6, <1>7, <1>8 DEF Next

(* allocator_core.hpp's arena implements the pool: its callers see none of *)
(* the splitting, merging and indexing, and what they see is right.        *)
THEOREM SpecPool == Spec => PoolSpec
BY SpecIInv, InitPool, NextPool, PTL DEF Spec, PoolSpec, Pool!Spec
===============================================================================
