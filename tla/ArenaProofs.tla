------------------------------ MODULE ArenaProofs -----------------------------
(***************************************************************************)
(* BlocksDisjoint and TreeKept for every chunk size, pointer size, request *)
(* and number of allocations.  The argument for blocks: in each chunk they *)
(* end at or below used, and used is at most cap; a block is cut at or     *)
(* above used, and one in a new chunk fits because the size of the chunk   *)
(* was doubled up to more than the request.  That covers the code's        *)
(* missing second test of off + size against cap.  The argument for the    *)
(* tree: the array of a list has room up to the next power of two, nobody  *)
(* else was given it, and all that is written goes to blocks of the call   *)
(* in progress or past the items of such an array.                         *)
(***************************************************************************)
EXTENDS Arena, TLAPS

Chunk == [used : Nat, cap : Nat]
Want == [size : Nat, align : Nat \ {0}]

Typed == /\ chunks \in Seq(Chunk)
         /\ call \in Call
         /\ call.kind = "push" => call.list \in Lists
         /\ got \in Seq(Block)
         /\ newcap \in Nat
         /\ blocks \in Seq(Block)
         /\ count \in [Lists -> Nat]

UsedInCap == \A c \in 1 .. Len(chunks) : chunks[c].used <= chunks[c].cap

(* A block ends below used, and before the blocks that came after it. *)
InPlace(b, chs) == /\ b.chunk \in 1 .. Len(chs)
                   /\ b.off + b.size <= chs[b.chunk].used

Aligned(b) == \E m \in 0 .. b.off : b.off = m * b.align

Before(b, c) == c.chunk = b.chunk => b.off + b.size <= c.off

Cut == \A i \in 1 .. Len(blocks) : InPlace(blocks[i], chunks) /\ Aligned(blocks[i])

Ordered == \A i, j \in 1 .. Len(blocks) : i < j => Before(blocks[i], blocks[j])

IInv == Typed /\ UsedInCap /\ Cut /\ Ordered

-------------------------------------------------------------------------------
(* Rounding up gives a multiple of the alignment, not below its argument.  *)
LEMMA RoundUpFacts ==
  ASSUME NEW n \in Nat, NEW a \in Nat \ {0}
  PROVE  /\ RoundUp(n, a) \in Nat
         /\ RoundUp(n, a) >= n
         /\ \E m \in 0 .. RoundUp(n, a) : RoundUp(n, a) = m * a
         /\ n = 0 => RoundUp(n, a) = 0
<1> DEFINE x == n + a - 1
           q == x \div a
<1>1. x \in Nat
  OBVIOUS
<1>2. q \in Nat /\ x = a * q + (x % a) /\ x % a \in 0 .. a - 1
  BY <1>1, SMT
<1>3. q * a = a * q /\ q * a \in Nat
  BY <1>2, SMT
<1>4. q <= q * a
  BY <1>2, SMT
<1>5. q * a >= n
  BY <1>2, <1>3, SMT
<1>6. n = 0 => q * a = 0
  <2>1. SUFFICES ASSUME n = 0 PROVE q = 0
    BY <1>2, SMT
  <2>2. x = a - 1
    BY <2>1
  <2> QED
    BY <1>1, <1>2, <2>2, SMT
<1>7. RoundUp(n, a) = q * a
  BY DEF RoundUp
<1>8. q \in 0 .. q * a
  BY <1>2, <1>3, <1>4
<1>9. \E m \in 0 .. q * a : q * a = m * a
  BY <1>8, Zenon
<1> HIDE DEF x, q
<1> QED
  BY <1>3, <1>5, <1>6, <1>7, <1>9, Zenon

LEMMA ChunkSize == chunk_size \in Nat
BY ArenaAssumption DEF chunk_size

(* What a call asks of arena_alloc is a size and an alignment above 0.     *)
LEMMA WantedTyped ==
  ASSUME Typed, Allocating
  PROVE  Wanted \in Want
<1>1. call.kind \in Kinds /\ call.n \in Nat /\ Ptr \in Nat \ {0} /\ NodeSize \in Nat
  BY ArenaAssumption DEF Typed, Call
<1>2. \A s \in Nat, a \in Nat \ {0} : Request(s, a) \in Want
  BY DEF Request, Want
<1>3. \A c \in Nat : Array(c) \in Want
  <2> TAKE c \in Nat
  <2>1. Ptr * c \in Nat
    BY <1>1
  <2> QED
    BY <2>1, <1>1, <1>2 DEF Array
<1>4. OfNode \in Want
  BY <1>1, <1>2 DEF OfNode
<1>5. Needs(call) \in Seq(Want)
  <2>1. CASE call.kind = "list"
    <3>1. Needs(call) = <<OfNode, Array(IF call.n = 0 THEN 4 ELSE call.n)>>
      BY <2>1, Zenon DEF Needs
    <3>2. (IF call.n = 0 THEN 4 ELSE call.n) \in Nat
      BY <1>1
    <3> QED
      BY <3>1, <3>2, <1>3, <1>4
  <2>2. CASE call.kind = "push"
    <3>1. Needs(call) = IF Regrows(count[call.list])
                        THEN <<Array(CapFor(count[call.list]))>> ELSE <<>>
      BY <2>2, Zenon DEF Needs
    <3>2. count[call.list] \in Nat
      BY <2>2 DEF Typed
    <3>3. CapFor(count[call.list]) \in Nat
      BY <3>2 DEF CapFor
    <3>4. <<Array(CapFor(count[call.list]))>> \in Seq(Want) /\ <<>> \in Seq(Want)
      BY <3>3, <1>3
    <3> QED
      BY <3>1, <3>4, Zenon
  <2>3. CASE call.kind = "text"
    <3>1. Needs(call) = <<OfNode, Request(call.n + 1, 1)>>
      BY <2>3, Zenon DEF Needs
    <3>2. Request(call.n + 1, 1) \in Want
      BY <1>1, <1>2
    <3> QED
      BY <3>1, <3>2, <1>4
  <2>4. CASE call.kind = "leaf"
    <3>1. Needs(call) = <<OfNode>>
      BY <2>4, Zenon DEF Needs
    <3> QED
      BY <3>1, <1>4
  <2>5. CASE call.kind = "idle"
    <3>1. Needs(call) = <<>>
      BY <2>5, Zenon DEF Needs
    <3> QED
      BY <3>1
  <2> QED
    BY <1>1, <2>1, <2>2, <2>3, <2>4, <2>5 DEF Kinds
<1>6. Len(got) + 1 \in 1 .. Len(Needs(call))
  BY <1>5 DEF Allocating, Typed
<1> QED
  BY <1>5, <1>6 DEF Wanted

(* Cutting a block from the head of a list of chunks that has room for it  *)
(* keeps the parts of the invariant that speak of chunks and blocks.       *)
LEMMA PlaceKeeps ==
  ASSUME IInv, Allocating,
         NEW chs \in Seq(Chunk), chs # <<>>,
         \A c \in 1 .. Len(chs) : chs[c].used <= chs[c].cap,
         Len(chunks) <= Len(chs),
         \A c \in 1 .. Len(chunks) : chs[c] = chunks[c],
         Fits(chs[Len(chs)]),
         Place(chs), newcap' \in Nat
  PROVE  IInv'
<1> DEFINE last == Len(chs)
           size == Wanted.size
           align == Wanted.align
           off == RoundUp(chs[last].used, align)
           block == [chunk |-> last, off |-> off, size |-> size, align |-> align]
<1>1. Wanted \in Want
  BY WantedTyped DEF IInv
<1>2. size \in Nat /\ align \in Nat \ {0}
  BY <1>1 DEF Want
<1>3. last \in 1 .. Len(chs) /\ chs[last].used \in Nat /\ chs[last].cap \in Nat
  <2>1. chs \in Seq(Chunk) /\ chs # <<>>
    OBVIOUS
  <2>2. last \in 1 .. Len(chs)
    BY <2>1
  <2>3. chs[last] \in Chunk
    BY <2>1, <2>2
  <2> QED
    BY <2>2, <2>3 DEF Chunk
<1>4. /\ off \in Nat /\ off >= chs[last].used
      /\ \E m \in 0 .. off : off = m * align
  BY <1>2, <1>3, RoundUpFacts, Zenon
<1>5. off + size <= chs[last].cap
  BY DEF Fits
<1>6. /\ chunks' = [chs EXCEPT ![last] = [used |-> off + size, cap |-> chs[last].cap]]
      /\ got' = Append(got, block)
      /\ blocks' = Append(blocks, block)
      /\ call' = call /\ count' = count
  BY DEF Place, tree
<1> HIDE DEF last, size, align, off
<1>7. block \in Block
  BY <1>2, <1>3, <1>4 DEF Block
<1>8. /\ chunks' \in Seq(Chunk) /\ Len(chunks') = Len(chs)
      /\ chunks'[last] = [used |-> off + size, cap |-> chs[last].cap]
      /\ \A c \in 1 .. Len(chs) : c # last => chunks'[c] = chs[c]
  <2>1. [used |-> off + size, cap |-> chs[last].cap] \in Chunk
    BY <1>2, <1>3, <1>4 DEF Chunk
  <2>2. chs \in Seq(Chunk)
    OBVIOUS
  <2> QED
    BY <2>1, <2>2, <1>3, <1>6
<1>9. Typed'
  BY <1>6, <1>7, <1>8 DEF IInv, Typed
<1>10. UsedInCap'
  <2>1. \A c \in 1 .. Len(chs) : chs[c].used <= chs[c].cap
    OBVIOUS
  <2>2. ASSUME NEW c \in 1 .. Len(chs) PROVE chunks'[c].used <= chunks'[c].cap
    BY <2>1, <1>5, <1>8
  <2> QED
    BY <2>2, <1>8 DEF UsedInCap
<1>11. /\ Len(blocks') = Len(blocks) + 1
       /\ blocks'[Len(blocks) + 1] = block
       /\ \A i \in 1 .. Len(blocks) : blocks'[i] = blocks[i]
  BY <1>6, <1>7 DEF IInv, Typed
<1>12. \A i \in 1 .. Len(blocks) :
         /\ blocks[i] \in Block
         /\ blocks[i].chunk \in 1 .. Len(chs)
         /\ blocks[i].off + blocks[i].size <= chs[blocks[i].chunk].used
  BY DEF IInv, Typed, Cut, InPlace
<1>13. \A i \in 1 .. Len(blocks) : InPlace(blocks[i], chunks')
  <2> SUFFICES ASSUME NEW i \in 1 .. Len(blocks) PROVE InPlace(blocks[i], chunks')
    OBVIOUS
  <2> DEFINE b == blocks[i]
  <2>1. /\ b.off \in Nat /\ b.size \in Nat /\ b.chunk \in 1 .. Len(chs)
        /\ b.off + b.size <= chs[b.chunk].used
    BY <1>12 DEF Block
  <2> HIDE DEF b
  <2>2. b.chunk = last => b.off + b.size <= chunks'[b.chunk].used
    BY <2>1, <1>2, <1>3, <1>4, <1>8
  <2>3. b.chunk # last => b.off + b.size <= chunks'[b.chunk].used
    BY <2>1, <1>8
  <2>4. b.off + b.size <= chunks'[b.chunk].used /\ b.chunk \in 1 .. Len(chunks')
    BY <2>1, <2>2, <2>3, <1>8
  <2> QED
    BY <2>4 DEF InPlace, b
<1>14. InPlace(block, chunks')
  <2>1. chunks'[last].used = off + size /\ last \in 1 .. Len(chunks')
    BY <1>3, <1>8
  <2>2. block.chunk = last /\ block.off = off /\ block.size = size
    OBVIOUS
  <2> HIDE DEF block
  <2>3. block.chunk \in 1 .. Len(chunks')
    BY <2>1, <2>2
  <2>4. block.off + block.size <= chunks'[block.chunk].used
    BY <2>1, <2>2, <1>2, <1>4
  <2> QED
    BY <2>3, <2>4, Zenon DEF InPlace
<1>15. Cut'
  <2>1. Aligned(block)
    BY <1>4 DEF Aligned
  <2>2. \A i \in 1 .. Len(blocks) : Aligned(blocks[i])
    BY DEF IInv, Cut
  <2>3. SUFFICES ASSUME NEW i \in 1 .. Len(blocks')
                 PROVE  InPlace(blocks'[i], chunks') /\ Aligned(blocks'[i])
    BY DEF Cut, InPlace, Aligned
  <2>4. CASE i \in 1 .. Len(blocks)
    BY <2>4, <2>2, <1>11, <1>13
  <2>5. CASE i = Len(blocks) + 1
    BY <2>5, <2>1, <1>11, <1>14
  <2>6. Len(blocks) \in Nat
    BY DEF IInv, Typed
  <2> QED
    BY <2>3, <2>4, <2>5, <2>6, <1>11
<1>16. \A i \in 1 .. Len(blocks) : Before(blocks[i], block)
  <2> SUFFICES ASSUME NEW i \in 1 .. Len(blocks), block.chunk = blocks[i].chunk
               PROVE  blocks[i].off + blocks[i].size <= block.off
    BY Zenon DEF Before
  <2> DEFINE b == blocks[i]
  <2>1. /\ b.off \in Nat /\ b.size \in Nat
        /\ b.off + b.size <= chs[b.chunk].used
    BY <1>12 DEF Block
  <2>2. b.chunk = last /\ block.off = off
    OBVIOUS
  <2> HIDE DEF b, block
  <2> DEFINE u == chs[last].used
  <2>3. b.off + b.size <= u /\ u <= off /\ u \in Nat
    BY <2>1, <2>2, <1>3, <1>4, Zenon
  <2> HIDE DEF u
  <2>4. b.off + b.size <= off
    BY <2>1, <2>3, <1>4
  <2> QED
    BY <2>2, <2>4 DEF b
<1>17. Ordered'
  <2>1. \A i, j \in 1 .. Len(blocks) : i < j => Before(blocks[i], blocks[j])
    BY DEF IInv, Ordered
  <2>2. Len(blocks) \in Nat
    BY DEF IInv, Typed
  <2>3. SUFFICES ASSUME NEW i \in 1 .. Len(blocks'), NEW j \in 1 .. Len(blocks'), i < j
                 PROVE  Before(blocks'[i], blocks'[j])
    BY DEF Ordered, Before
  <2>4. i \in 1 .. Len(blocks)
    BY <2>2, <2>3, <1>11
  <2>5. CASE j \in 1 .. Len(blocks)
    BY <2>1, <2>3, <2>4, <2>5, <1>11
  <2>6. CASE j = Len(blocks) + 1
    BY <2>4, <2>6, <1>11, <1>16
  <2> QED
    BY <2>2, <2>5, <2>6, <1>11
<1> QED
  BY <1>9, <1>10, <1>15, <1>17 DEF IInv

-------------------------------------------------------------------------------
LEMMA InitOk == Init => IInv
<1> SUFFICES ASSUME Init PROVE IInv
  OBVIOUS
<1>1. chunk_size \in Nat
  BY ChunkSize
<1>2. /\ chunks = << [used |-> 0, cap |-> chunk_size] >>
      /\ call = Idle /\ got = <<>> /\ newcap = 0 /\ blocks = <<>>
      /\ count = [l \in Lists |-> 0]
  BY DEF Init, Fresh
<1>3. Typed
  <2>1. chunks \in Seq(Chunk)
    BY <1>1, <1>2 DEF Chunk
  <2>2. call \in Call /\ call.kind # "push"
    BY <1>2 DEF Call, Idle, Kinds
  <2> QED
    BY <1>2, <2>1, <2>2 DEF Typed
<1>4. UsedInCap
  BY <1>1, <1>2 DEF UsedInCap
<1>5. Cut /\ Ordered
  BY <1>2 DEF Cut, Ordered
<1> QED
  BY <1>3, <1>4, <1>5 DEF IInv

(* A step that leaves chunks and blocks alone keeps what is said of them.  *)
LEMMA HeapKept ==
  ASSUME IInv, UNCHANGED heap, Typed'
  PROVE  IInv'
BY DEF IInv, heap, UsedInCap, Cut, Ordered, InPlace, Aligned, Before

LEMMA BeginKeeps ==
  ASSUME IInv,
         \/ \E l \in Lists : (\E h \in Hints : BeginList(l, h)) \/ BeginPush(l)
         \/ \E len \in Lens : BeginText(len)
         \/ BeginLeaf
  PROVE  IInv'
<1>1. PICK c \in Call : (c.kind = "push" => c.list \in Lists) /\ Begin(c)
  BY ArenaAssumption DEF BeginList, BeginPush, BeginText, BeginLeaf, Call, Kinds
<1>2. /\ call' = c /\ UNCHANGED <<chunks, blocks, got, newcap, count>>
  BY <1>1 DEF Begin, heap, tree
<1>3. Typed'
  BY <1>1, <1>2 DEF IInv, Typed
<1> QED
  BY <1>2, <1>3, HeapKept DEF heap

LEMMA AllocKeeps == IInv /\ Alloc => IInv'
<1> SUFFICES ASSUME IInv, Alloc PROVE IInv'
  OBVIOUS
<1>1. /\ Allocating /\ chunks \in Seq(Chunk) /\ chunks # <<>>
      /\ Fits(chunks[Len(chunks)]) /\ Place(chunks) /\ newcap' \in Nat
      /\ Len(chunks) <= Len(chunks)
      /\ \A c \in 1 .. Len(chunks) : chunks[c].used <= chunks[c].cap
  BY DEF Alloc, IInv, Typed, UsedInCap
<1> QED
  BY <1>1, PlaceKeeps

LEMMA NewChunkKeeps == IInv /\ NewChunk => IInv'
<1> SUFFICES ASSUME IInv, NewChunk PROVE IInv'
  OBVIOUS
<1> DEFINE new == [used |-> 0, cap |-> newcap]
           chs == Append(chunks, new)
<1>1. /\ Allocating /\ newcap >= Needed /\ Place(chs) /\ newcap' = 0
      /\ newcap \in Nat /\ chunks \in Seq(Chunk)
      /\ \A c \in 1 .. Len(chunks) : chunks[c].used <= chunks[c].cap
  BY DEF NewChunk, IInv, Typed, UsedInCap
<1>2. Wanted.size \in Nat /\ Wanted.align \in Nat \ {0}
  BY <1>1, WantedTyped DEF IInv, Want
<1>3. new \in Chunk
  BY <1>1 DEF Chunk
<1>4. /\ chs \in Seq(Chunk) /\ chs # <<>> /\ Len(chs) = Len(chunks) + 1
      /\ chs[Len(chs)] = new
      /\ \A c \in 1 .. Len(chunks) : chs[c] = chunks[c]
  <2> HIDE DEF new
  <2> QED
    BY <1>1, <1>3
<1>5. RoundUp(0, Wanted.align) = 0
  BY <1>2, RoundUpFacts, Zenon
<1>6. Wanted.size <= newcap
  BY <1>1, <1>2, ArenaAssumption DEF Needed
<1>7. Fits(new)
  <2>1. RoundUp(0, Wanted.align) + Wanted.size <= newcap
    BY <1>2, <1>5, <1>6
  <2> QED
    BY <2>1 DEF Fits
<1>8. \A c \in 1 .. Len(chs) : chs[c].used <= chs[c].cap
  <2>1. new.used <= new.cap
    BY <1>1
  <2>2. Len(chunks) \in Nat
    BY <1>1
  <2> HIDE DEF chs, new
  <2>3. ASSUME NEW c \in 1 .. Len(chs) PROVE chs[c].used <= chs[c].cap
    BY <2>1, <2>2, <1>1, <1>4
  <2> QED
    BY <2>3
<1>9. Len(chunks) <= Len(chs) /\ newcap' \in Nat
  BY <1>1, <1>4
<1>10. Fits(chs[Len(chs)])
  BY <1>4, <1>7
<1> HIDE DEF chs, new
<1> QED
  BY <1>1, <1>4, <1>8, <1>9, <1>10, PlaceKeeps

LEMMA FirstChunkKeeps == IInv /\ FirstChunk => IInv'
<1> SUFFICES ASSUME IInv, FirstChunk PROVE IInv'
  OBVIOUS
<1>1. /\ chunks = <<>> /\ chunks' = << [used |-> 0, cap |-> chunk_size] >>
      /\ UNCHANGED <<blocks, call, got, newcap, count>>
  BY DEF FirstChunk, tree
<1>2. chunk_size \in Nat
  BY ChunkSize
<1>3. [used |-> 0, cap |-> chunk_size] \in Chunk
  BY <1>2 DEF Chunk
<1>4. Typed'
  BY <1>1, <1>3 DEF IInv, Typed
<1>5. UsedInCap'
  BY <1>1, <1>2 DEF UsedInCap
<1>6. Len(blocks) = 0
  <2>1. \A i \in 1 .. Len(blocks) : blocks[i].chunk \in 1 .. 0
    BY <1>1 DEF IInv, Cut, InPlace
  <2>2. Len(blocks) \in Nat
    BY DEF IInv, Typed
  <2> QED
    BY <2>1, <2>2
<1>7. Cut' /\ Ordered'
  BY <1>1, <1>6 DEF Cut, Ordered
<1> QED
  BY <1>4, <1>5, <1>7 DEF IInv

LEMMA FreeKeeps == IInv /\ Free => IInv'
<1> SUFFICES ASSUME IInv, Free PROVE IInv'
  OBVIOUS
<1>1. /\ chunks' = <<>> /\ blocks' = <<>> /\ UNCHANGED <<call, got, newcap>>
      /\ count' = [l \in Lists |-> 0]
  BY DEF Free
<1>2. Typed'
  BY <1>1 DEF IInv, Typed
<1> QED
  BY <1>1, <1>2 DEF IInv, UsedInCap, Cut, Ordered

LEMMA EndKeeps == IInv /\ (EndList \/ EndNode \/ EndPush) => IInv'
<1> SUFFICES ASSUME IInv, EndList \/ EndNode \/ EndPush PROVE IInv'
  OBVIOUS
<1>1. call' = Idle /\ got' = <<>> /\ UNCHANGED <<heap, newcap>>
  BY DEF EndList, EndNode, EndPush, Finish
<1>2. count' \in [Lists -> Nat]
  <2>1. CASE EndList \/ EndNode
    BY <2>1 DEF EndList, EndNode, IInv, Typed
  <2>2. CASE EndPush
    BY <2>2 DEF EndPush, IInv, Typed
  <2> QED
    BY <2>1, <2>2
<1>3. Idle \in Call /\ Idle.kind # "push"
  BY DEF Idle, Call, Kinds
<1>4. Typed'
  BY <1>1, <1>2, <1>3 DEF heap, IInv, Typed
<1> QED
  BY <1>1, <1>4, HeapKept

LEMMA SizeKeeps == IInv /\ (Grow \/ Double) => IInv'
<1> SUFFICES ASSUME IInv, Grow \/ Double PROVE IInv'
  OBVIOUS
<1>1. UNCHANGED <<heap, tree, call, got>> /\ newcap' \in Nat
  BY ChunkSize DEF Grow, Double, IInv, Typed
<1>2. Typed'
  BY <1>1 DEF heap, tree, IInv, Typed
<1> QED
  BY <1>1, <1>2, HeapKept

LEMMA NextKeeps == IInv /\ [Next]_vars => IInv'
<1> SUFFICES ASSUME IInv, [Next]_vars PROVE IInv'
  OBVIOUS
<1>1. CASE UNCHANGED vars
  <2>1. Typed'
    BY <1>1 DEF vars, heap, tree, IInv, Typed
  <2> QED
    BY <1>1, <2>1, HeapKept DEF vars
<1>2. CASE Next
  BY <1>2, BeginKeeps, AllocKeeps, NewChunkKeeps, FirstChunkKeeps, FreeKeeps,
     EndKeeps, SizeKeeps DEF Next, Steps
<1> QED
  BY <1>1, <1>2

LEMMA Implied == IInv => BlocksDisjoint
<1> SUFFICES ASSUME IInv, NEW i \in 1 .. Len(blocks)
             PROVE  /\ blocks[i].chunk \in 1 .. Len(chunks)
                    /\ blocks[i].off + blocks[i].size <= chunks[blocks[i].chunk].cap
                    /\ \E m \in 0 .. blocks[i].off : blocks[i].off = m * blocks[i].align
                    /\ \A j \in 1 .. Len(blocks) :
                         i < j /\ blocks[j].chunk = blocks[i].chunk =>
                           blocks[i].off + blocks[i].size <= blocks[j].off
  BY Zenon DEF BlocksDisjoint
<1>1. InPlace(blocks[i], chunks) /\ Aligned(blocks[i])
  BY DEF IInv, Cut
<1>2. blocks[i].off + blocks[i].size <= chunks[blocks[i].chunk].cap
  <2>1. blocks[i] \in Block /\ blocks[i].chunk \in 1 .. Len(chunks)
    BY <1>1 DEF IInv, Typed, InPlace
  <2>2. chunks[blocks[i].chunk] \in Chunk
    BY <2>1 DEF IInv, Typed
  <2>3. chunks[blocks[i].chunk].used <= chunks[blocks[i].chunk].cap
    BY <2>1 DEF IInv, UsedInCap
  <2> QED
    BY <1>1, <2>1, <2>2, <2>3 DEF Block, Chunk, InPlace
<1>3. \A j \in 1 .. Len(blocks) : i < j => Before(blocks[i], blocks[j])
  BY DEF IInv, Ordered
<1> QED
  BY <1>1, <1>2, <1>3 DEF InPlace, Aligned, Before

(* Every block the arena hands out is aligned, lies inside its chunk and   *)
(* shares no byte with another: arena_alloc never gives two parts of a     *)
(* program's tree the same memory, whatever the sizes.                     *)
THEOREM Disjoint == Spec => []BlocksDisjoint
<1>1. Spec => []IInv
  BY InitOk, NextKeeps, PTL DEF Spec
<1> QED
  BY <1>1, Implied, PTL

-------------------------------------------------------------------------------
(* The tree. Blocks up to Settled belong to it, or to arrays it no longer  *)
(* has; the ones above are those of the call in progress.                  *)
Settled == Len(blocks) - Len(got)

CallShape ==
  /\ Len(got) <= Len(blocks) /\ Len(got) <= Len(Needs(call))
  /\ \A k \in 1 .. Len(got) :
       got[k] = blocks[Number(k)] /\ got[k].size = Needs(call)[k].size
  /\ call.kind = "push" => call.list \in Lists /\ Made(call.list)
  /\ call.kind = "list" => call.list \in Lists /\ ~ Made(call.list)

(* The array of a list is a block nobody else was given, with room for the *)
(* items up to the next power of two.                                      *)
Room(l) ==
  \E K \in Nat :
    /\ items[l].size = Ptr * K
    /\ count[l] > 0 => \E p \in Nat : PowerOfTwo(p) /\ count[l] <= p /\ p <= K

Arrays ==
  /\ \A l \in Lists : ~ Made(l) => count[l] = 0
  /\ \A l \in Lists : Made(l) =>
       /\ Room(l)
       /\ \E n \in 1 .. Settled : n \notin written /\ items[l] = blocks[n]
  /\ \A l, k \in Lists : Made(l) /\ Made(k) /\ l # k => Bytes(items[l]) \cap Bytes(items[k]) = {}

Holds(a, datum) == a \in DOMAIN mem /\ mem[a] = datum

Filled ==
  /\ \A l \in Lists : \A i \in 1 .. count[l] : \A a \in ItemAt(items[l], i - 1) : Holds(a, <<l, i>>)
  /\ \A n \in written : \A a \in Bytes(blocks[n]) : Holds(a, Filler(n))

TreeTyped == items \in [Lists -> Block] /\ written \subseteq 1 .. Settled

TreeInv == TreeTyped /\ CallShape /\ Arrays /\ Filled

(* Arithmetic of the sizes of arrays. *)
LEMMA PowerDoubles ==
  ASSUME NEW c \in Nat, PowerOfTwo(c)
  PROVE  PowerOfTwo(2 * c)
<1> SUFFICES ASSUME NEW d \in 2 .. 2 * c, (2 * c) % d = 0, d % 2 # 0 PROVE FALSE
  BY DEF PowerOfTwo
<1> DEFINE e == d \div 2
           q == (2 * c) \div d
           h == c - e * q
<1>1. e \in Nat /\ d \in Nat /\ d = 2 * e + 1
  OBVIOUS
<1>2. q \in Nat /\ 2 * c = d * q
  BY SMT
<1>3. e * q \in Nat /\ d * q = 2 * (e * q) + q
  BY <1>1, <1>2, SMT
<1>4. h \in Int /\ q = 2 * h
  BY <1>2, <1>3
<1>5. h \in Nat
  BY <1>2, <1>4
<1>6. c = d * h
  <2>1. d * q = d * (2 * h)
    BY <1>4
  <2>2. d * (2 * h) = 2 * (d * h) /\ d * h \in Nat
    BY <1>1, <1>5, SMT
  <2> HIDE DEF h, q
  <2> QED
    BY ONLY <2>1, <2>2, <1>2, c \in Nat
<1> HIDE DEF e, q, h
<1>7. h > 0 /\ c > 0
  <2>1. c > 0
    BY DEF PowerOfTwo
  <2>2. h = 0 => c = 0
    BY <1>1, <1>6, SMT
  <2> QED
    BY <2>1, <2>2, <1>5
<1>8. d <= c
  <2>1. d <= d * h
    BY <1>1, <1>5, <1>7, SMT
  <2> QED
    BY <2>1, <1>6
<1>9. c % d = 0
  <2>1. (d * h) % d = 0
    BY <1>1, <1>5, SMT
  <2> QED
    BY <2>1, <1>6
<1>10. d \in 2 .. c
  BY <1>1, <1>8
<1> QED
  BY <1>9, <1>10 DEF PowerOfTwo

LEMMA FourIsPower == PowerOfTwo(4)
<1>1. \A d \in 2 .. 4 : d = 2 \/ d = 3 \/ d = 4
  OBVIOUS
<1> QED
  BY <1>1 DEF PowerOfTwo

LEMMA Times ==
  ASSUME NEW a \in Nat, NEW b \in Nat
  PROVE  /\ Ptr * a \in Nat
         /\ a < b => Ptr * a + Ptr <= Ptr * b
         /\ a <= b => Ptr * a <= Ptr * b
<1>1. Ptr \in Nat \ {0}
  BY ArenaAssumption
<1>2. Ptr * a \in Nat
  BY <1>1, SMT
<1>3. ASSUME a < b PROVE Ptr * a + Ptr <= Ptr * b
  <2> DEFINE c == b - a - 1
  <2>1. c \in Nat /\ b = a + 1 + c
    BY <1>3
  <2> HIDE DEF c
  <2>2. Ptr * b = Ptr * a + Ptr + Ptr * c /\ Ptr * c \in Nat
    BY <1>1, <2>1, SMT
  <2> QED
    BY ONLY <1>1, <1>2, <2>2
<1>4. ASSUME a <= b PROVE Ptr * a <= Ptr * b
  BY <1>1, <1>2, <1>3, <1>4
<1> QED
  BY <1>2, <1>3, <1>4

(* Different blocks have no byte in common. *)
LEMMA BytesApart ==
  ASSUME IInv, NEW i \in 1 .. Len(blocks), NEW j \in 1 .. Len(blocks), i # j
  PROVE  Bytes(blocks[i]) \cap Bytes(blocks[j]) = {}
<1>1. blocks[i] \in Block /\ blocks[j] \in Block
  BY DEF IInv, Typed
<1>2. Before(blocks[i], blocks[j]) \/ Before(blocks[j], blocks[i])
  BY DEF IInv, Ordered
<1>3. ASSUME NEW b \in Block, NEW c \in Block, Before(b, c) PROVE Bytes(b) \cap Bytes(c) = {}
  <2>1. SUFFICES ASSUME NEW k \in b.off .. b.off + b.size - 1, NEW m \in c.off .. c.off + c.size - 1,
                        <<b.chunk, k>> = <<c.chunk, m>>
                 PROVE  FALSE
    BY DEF Bytes
  <2> QED
    BY <1>3, <2>1 DEF Block, Before
<1> QED
  BY <1>1, <1>2, <1>3

LEMMA ItemPlace ==
  ASSUME NEW b \in Block, NEW K \in Nat, b.size = Ptr * K, NEW i \in Nat, i < K
  PROVE  /\ ItemAt(b, i) \subseteq Bytes(b)
         /\ \A j \in Nat : j # i => ItemAt(b, i) \cap ItemAt(b, j) = {}
<1>1. b.off \in Nat /\ Ptr \in Nat \ {0}
  BY ArenaAssumption DEF Block
<1>2. Ptr * i \in Nat /\ Ptr * i + Ptr <= Ptr * K /\ Ptr * K \in Nat
  BY Times
<1>3. ASSUME NEW a \in ItemAt(b, i) PROVE a \in Bytes(b)
  <2>1. PICK k \in 0 .. Ptr - 1 : a = <<b.chunk, b.off + Ptr * i + k>>
    BY DEF ItemAt
  <2>2. b.off + Ptr * i + k \in b.off .. b.off + b.size - 1
    BY <1>1, <1>2
  <2> QED
    BY <2>1, <2>2 DEF Bytes
<1>4. ASSUME NEW j \in Nat, j # i PROVE ItemAt(b, i) \cap ItemAt(b, j) = {}
  <2>1. Ptr * j \in Nat
    BY Times
  <2>2. Ptr * i + Ptr <= Ptr * j \/ Ptr * j + Ptr <= Ptr * i
    BY <1>4, Times
  <2>3. SUFFICES ASSUME NEW k \in 0 .. Ptr - 1, NEW m \in 0 .. Ptr - 1,
                        b.off + Ptr * i + k = b.off + Ptr * j + m
                 PROVE  FALSE
    BY DEF ItemAt
  <2> QED
    BY <1>1, <1>2, <2>1, <2>2, <2>3
<1> QED
  BY <1>3, <1>4

(* Writing f over part of memory. *)
LEMMA Written ==
  ASSUME NEW f, mem' = Over(f, mem), NEW a, NEW d
  PROVE  /\ a \notin DOMAIN f /\ Holds(a, d) => Holds(a, d)'
         /\ a \in DOMAIN f /\ f[a] = d => Holds(a, d)'
<1>1. mem' = [x \in DOMAIN f \cup DOMAIN mem |-> IF x \in DOMAIN f THEN f[x] ELSE mem[x]]
  BY DEF Over
<1> QED
  BY <1>1 DEF Holds

LEMMA WrittenTwice ==
  ASSUME NEW f, NEW c, mem' = Over(f, Over(c, mem)), NEW a, NEW d
  PROVE  /\ a \notin DOMAIN f /\ a \notin DOMAIN c /\ Holds(a, d) => Holds(a, d)'
         /\ a \in DOMAIN f /\ f[a] = d => Holds(a, d)'
         /\ a \notin DOMAIN f /\ a \in DOMAIN c /\ c[a] = d => Holds(a, d)'
<1> DEFINE g == Over(c, mem)
<1>1. g = [x \in DOMAIN c \cup DOMAIN mem |-> IF x \in DOMAIN c THEN c[x] ELSE mem[x]]
  BY DEF Over
<1>2. mem' = Over(f, g)
  OBVIOUS
<1> HIDE DEF g
<1>3. mem' = [x \in DOMAIN f \cup DOMAIN g |-> IF x \in DOMAIN f THEN f[x] ELSE g[x]]
  BY <1>2 DEF Over
<1> QED
  BY <1>1, <1>3 DEF Holds

-------------------------------------------------------------------------------
LEMMA TreeInit == Init => TreeInv
<1> SUFFICES ASSUME Init PROVE TreeInv
  OBVIOUS
<1>1. /\ call = Idle /\ got = <<>> /\ blocks = <<>> /\ written = {}
      /\ items = [l \in Lists |-> NoBlock] /\ count = [l \in Lists |-> 0]
  BY DEF Init, Fresh
<1>2. Needs(call) = <<>>
  BY <1>1, Zenon DEF Needs, Idle
<1>3. TreeTyped
  BY <1>1 DEF TreeTyped, Block, NoBlock
<1>4. CallShape
  BY <1>1, <1>2 DEF CallShape, Idle
<1>5. Arrays /\ Filled
  BY <1>1 DEF Arrays, Filled, Made
<1> QED
  BY <1>3, <1>4, <1>5 DEF TreeInv

LEMMA NeedsSame ==
  ASSUME call' = call, count' = count
  PROVE  Needs(call)' = Needs(call)
  BY Zenon DEF Needs, Regrows, CapFor

LEMMA TreeStay ==
  ASSUME TreeInv, UNCHANGED <<blocks, tree, call, got>>
  PROVE  TreeInv'
<1>1. UNCHANGED <<blocks, written, mem, items, count, call, got>>
  BY DEF tree
<1>2. Needs(call)' = Needs(call)
  BY <1>1, NeedsSame
<1>3. TreeTyped' /\ Arrays' /\ Filled'
  BY <1>1 DEF TreeInv, TreeTyped, Arrays, Filled, Settled, Made, Room, Holds, Bytes
<1>4. CallShape'
  BY <1>1, <1>2 DEF TreeInv, CallShape, Number, Made
<1> QED
  BY <1>3, <1>4 DEF TreeInv

(* A call that begins has no blocks yet. *)
LEMMA TreeBegin ==
  ASSUME IInv, TreeInv, NEW c \in Call, Begin(c),
         c.kind = "push" => c.list \in Lists /\ Made(c.list),
         c.kind = "list" => c.list \in Lists /\ ~ Made(c.list)
  PROVE  TreeInv'
<1>1. /\ call = Idle /\ call' = c /\ UNCHANGED <<chunks, blocks, written, mem, items, count, got>>
  BY DEF Begin, heap, tree
<1>2. got = <<>>
  <2>1. Needs(call) = <<>>
    BY <1>1, Zenon DEF Needs, Idle
  <2>2. Len(got) <= 0 /\ got \in Seq(Block)
    BY <2>1 DEF TreeInv, CallShape, IInv, Typed
  <2> QED
    BY <2>2
<1>3. TreeTyped' /\ Arrays' /\ Filled'
  BY <1>1 DEF TreeInv, TreeTyped, Arrays, Filled, Settled, Made, Room, Holds, Bytes
<1>4. Len(Needs(call)') >= 0
  OBVIOUS
<1>5. CallShape'
  BY <1>1, <1>2, <1>4 DEF TreeInv, CallShape, Number, Made
<1> QED
  BY <1>3, <1>5 DEF TreeInv

(* A block handed out is the last, and the call's; the tree is untouched.  *)
LEMMA TreePlace ==
  ASSUME IInv, TreeInv, Allocating, NEW chs \in Seq(Chunk), chs # <<>>, Place(chs)
  PROVE  TreeInv'
<1> DEFINE block == [chunk |-> Len(chs), off |-> RoundUp(chs[Len(chs)].used, Wanted.align),
                     size |-> Wanted.size, align |-> Wanted.align]
<1>1. /\ got' = Append(got, block) /\ blocks' = Append(blocks, block)
      /\ UNCHANGED <<written, mem, items, count, call>>
  BY DEF Place, tree
<1>2. block \in Block /\ block.size = Wanted.size
  <2>1. Wanted.size \in Nat /\ Wanted.align \in Nat \ {0} /\ Wanted.align \in Nat
    BY WantedTyped DEF IInv, Want
  <2>2. Len(chs) \in 1 .. Len(chs) /\ Len(chs) \in Nat
    OBVIOUS
  <2>3. chs[Len(chs)].used \in Nat
    <3>1. chs[Len(chs)] \in Chunk
      BY <2>2, chs \in Seq(Chunk)
    <3> QED
      BY <3>1 DEF Chunk
  <2>4. RoundUp(chs[Len(chs)].used, Wanted.align) \in Nat
    BY <2>1, <2>3, RoundUpFacts
  <2> QED
    BY <2>1, <2>2, <2>4 DEF Block
<1> HIDE DEF block
<1>3. /\ got \in Seq(Block) /\ blocks \in Seq(Block)
      /\ Len(got') = Len(got) + 1 /\ Len(blocks') = Len(blocks) + 1
      /\ got'[Len(got) + 1] = block /\ blocks'[Len(blocks) + 1] = block
      /\ \A k \in 1 .. Len(got) : got'[k] = got[k]
      /\ \A n \in 1 .. Len(blocks) : blocks'[n] = blocks[n]
      /\ Len(got) \in Nat /\ Len(blocks) \in Nat
  BY <1>1, <1>2 DEF IInv, Typed
<1>4. Settled' = Settled /\ Settled \in Nat /\ 1 .. Settled \subseteq 1 .. Len(blocks)
  BY <1>3 DEF Settled, TreeInv, CallShape
<1>5. \A n \in 1 .. Settled : blocks'[n] = blocks[n]
  BY <1>3, <1>4
<1>6. TreeTyped' /\ Arrays' /\ Filled'
  <2>1. TreeTyped'
    BY <1>1, <1>4 DEF TreeInv, TreeTyped
  <2>2. Arrays'
    <3>1. \A l \in Lists : Made(l)' = Made(l) /\ Room(l)' = Room(l)
      BY <1>1 DEF Made, Room
    <3>2. ASSUME NEW l \in Lists, Made(l)
          PROVE  \E n \in 1 .. Settled : n \notin written /\ items[l] = blocks'[n]
      BY <1>5, <3>2 DEF TreeInv, Arrays
    <3>3. /\ \A l \in Lists : ~ Made(l)' => count'[l] = 0
          /\ \A l \in Lists : Made(l)' =>
               /\ Room(l)'
               /\ \E n \in 1 .. Settled' : n \notin written' /\ items'[l] = blocks'[n]
      BY <1>1, <1>4, <3>1, <3>2 DEF TreeInv, Arrays
    <3>4. \A l, k \in Lists : Made(l)' /\ Made(k)' /\ l # k => Bytes(items'[l]) \cap Bytes(items'[k]) = {}
      BY <1>1, <3>1, Zenon DEF TreeInv, Arrays
    <3> QED
      BY <3>3, <3>4, Zenon DEF Arrays, Bytes
  <2>3. \A n \in written : blocks'[n] = blocks[n]
    BY <1>5 DEF TreeInv, TreeTyped
  <2>4. Filled'
    <3>1. \A a, d : Holds(a, d)' = Holds(a, d)
      BY <1>1 DEF Holds
    <3>2. \A n \in written : Bytes(blocks'[n]) = Bytes(blocks[n])
      BY <2>3
    <3>3. /\ \A l \in Lists : \A i \in 1 .. count[l] : \A a \in ItemAt(items[l], i - 1) : Holds(a, <<l, i>>)
          /\ \A n \in written : \A a \in Bytes(blocks[n]) : Holds(a, Filler(n))
      BY DEF TreeInv, Filled
    <3>4. \A l \in Lists : \A i \in 1 .. count'[l] : \A a \in ItemAt(items'[l], i - 1) : Holds(a, <<l, i>>)'
      BY <1>1, <3>1, <3>3
    <3>5. \A n \in written' : \A a \in Bytes(blocks'[n]) : Holds(a, Filler(n))'
      BY <1>1, <3>1, <3>2, <3>3
    <3> QED
      BY <3>4, <3>5, Zenon DEF Filled, Holds, Bytes, ItemAt
  <2> QED
    BY <2>1, <2>2, <2>4
<1>7. CallShape'
  <2>1. Needs(call)' = Needs(call)
    BY <1>1, NeedsSame
  <2>2. Len(got') <= Len(blocks') /\ Len(got') <= Len(Needs(call))
    BY <1>3 DEF TreeInv, CallShape, Allocating
  <2>3. ASSUME NEW k \in 1 .. Len(got') PROVE got'[k] = blocks'[Number(k)'] /\ got'[k].size = Needs(call)[k].size
    <3>1. Number(k)' = Number(k) /\ Number(k) = Settled + k
      BY <1>3, <2>3 DEF Number, Settled
    <3>2. CASE k \in 1 .. Len(got)
      <4>1. Number(k) \in 1 .. Len(blocks)
        BY <3>1, <3>2, <1>3, <1>4 DEF Settled
      <4> QED
        BY <3>1, <3>2, <4>1, <1>3 DEF TreeInv, CallShape
    <3>3. CASE k = Len(got) + 1
      <4>1. Number(k) = Len(blocks) + 1
        BY <3>1, <3>3, <1>3 DEF Settled
      <4> QED
        BY <3>1, <3>3, <4>1, <1>2, <1>3 DEF Wanted
    <3> QED
      BY <2>3, <3>2, <3>3, <1>3
  <2> QED
    BY <1>1, <2>1, <2>2, <2>3 DEF TreeInv, CallShape, Made, Number
<1> QED
  BY <1>6, <1>7 DEF TreeInv

LEMMA TreeFree == IInv /\ TreeInv /\ Free => TreeInv'
<1> SUFFICES ASSUME IInv, TreeInv, Free PROVE TreeInv'
  OBVIOUS
<1>1. /\ call = Idle /\ blocks' = <<>> /\ written' = {} /\ UNCHANGED <<call, got>>
      /\ items' = [l \in Lists |-> NoBlock] /\ count' = [l \in Lists |-> 0]
  BY DEF Free
<1>2. Needs(call) = <<>> /\ Needs(call)' = <<>>
  BY <1>1, Zenon DEF Needs, Idle
<1>3. got = <<>>
  BY <1>2 DEF TreeInv, CallShape, IInv, Typed
<1>4. TreeTyped'
  BY <1>1 DEF TreeTyped, Block, NoBlock
<1>5. CallShape'
  BY <1>1, <1>2, <1>3 DEF CallShape, Idle
<1>6. Arrays' /\ Filled'
  BY <1>1 DEF Arrays, Filled, Made
<1> QED
  BY <1>4, <1>5, <1>6 DEF TreeInv

(* The blocks of a call at its end. *)
LEMMA EndShape ==
  ASSUME IInv, TreeInv, Finish
  PROVE  /\ CallShape' /\ Settled' = Len(blocks) /\ blocks' = blocks
         /\ Settled \in Nat /\ Len(blocks) \in Nat /\ Settled <= Len(blocks)
         /\ \A n \in 1 .. Len(blocks) : blocks[n] \in Block /\ blocks[n] # NoBlock
         /\ \A k \in 1 .. Len(got) :
              /\ Number(k) \in 1 .. Len(blocks) /\ Number(k) \notin 1 .. Settled
              /\ got[k] = blocks[Number(k)]
<1>1. call' = Idle /\ got' = <<>> /\ UNCHANGED <<chunks, blocks>>
  BY DEF Finish, heap
<1>2. got \in Seq(Block) /\ blocks \in Seq(Block) /\ Len(got) \in Nat /\ Len(blocks) \in Nat
  BY DEF IInv, Typed
<1>3. Needs(call)' = <<>>
  BY <1>1, Zenon DEF Needs, Idle
<1>4. CallShape'
  <2>1. Len(got') = 0 /\ Len(Needs(call)') = 0
    BY <1>1, <1>3
  <2> QED
    BY <1>1, <1>2, <2>1 DEF CallShape, Idle
<1>5. Settled' = Len(blocks)
  BY <1>1, <1>2 DEF Settled
<1>6. Settled \in Nat /\ Settled <= Len(blocks)
  BY <1>2 DEF Settled, TreeInv, CallShape
<1>7. ASSUME NEW n \in 1 .. Len(blocks) PROVE blocks[n] \in Block /\ blocks[n] # NoBlock
  <2>1. blocks[n].chunk \in 1 .. Len(chunks)
    BY DEF IInv, Cut, InPlace
  <2>2. NoBlock.chunk = 0
    BY DEF NoBlock
  <2>3. blocks[n].chunk # 0
    BY <2>1
  <2> QED
    BY <1>2, <2>2, <2>3
<1>8. ASSUME NEW k \in 1 .. Len(got)
      PROVE  Number(k) \in 1 .. Len(blocks) /\ Number(k) \notin 1 .. Settled /\ got[k] = blocks[Number(k)]
  <2>1. Number(k) = Settled + k /\ Len(blocks) = Settled + Len(got)
    BY <1>2 DEF Number, Settled
  <2> QED
    BY <1>2, <1>6, <2>1 DEF TreeInv, CallShape
<1> QED
  BY <1>1, <1>4, <1>5, <1>6, <1>7, <1>8, <1>2

(* An item that was pushed lies within the array of its list. *)
LEMMA ItemInside ==
  ASSUME IInv, TreeInv, NEW l \in Lists, NEW i \in 1 .. count[l]
  PROVE  /\ Made(l) /\ ItemAt(items[l], i - 1) \subseteq Bytes(items[l])
         /\ \A j \in Nat : j # i - 1 => ItemAt(items[l], i - 1) \cap ItemAt(items[l], j) = {}
<1>1. count[l] \in Nat /\ items[l] \in Block /\ count[l] > 0 /\ i - 1 \in Nat
  BY DEF IInv, Typed, TreeInv, TreeTyped
<1>2. Made(l) /\ Room(l)
  BY <1>1 DEF TreeInv, Arrays
<1>3. PICK K \in Nat : items[l].size = Ptr * K /\ \E p \in Nat : count[l] <= p /\ p <= K
  BY <1>1, <1>2 DEF Room
<1>4. i - 1 < K
  BY <1>1, <1>3
<1>5. /\ ItemAt(items[l], i - 1) \subseteq Bytes(items[l])
      /\ \A j \in Nat : j # i - 1 => ItemAt(items[l], i - 1) \cap ItemAt(items[l], j) = {}
  BY <1>1, <1>3, <1>4, ItemPlace
<1> QED
  BY <1>2, <1>5

(* Writing to the blocks of the call in progress spares the tree. *)
LEMMA TreeSpared ==
  ASSUME IInv, TreeInv, Finish, NEW D,
         \A a \in D : \E k \in 1 .. Len(got) : a \in Bytes(got[k]),
         \A a, d : a \notin D /\ Holds(a, d) => Holds(a, d)'
  PROVE  /\ \A l \in Lists : \A i \in 1 .. count[l] :
              \A a \in ItemAt(items[l], i - 1) : Holds(a, <<l, i>>)'
         /\ \A n \in written : \A a \in Bytes(blocks[n]) : Holds(a, Filler(n))'
<1>1. ASSUME NEW n \in 1 .. Settled, NEW a \in Bytes(blocks[n]) PROVE a \notin D
  <2> SUFFICES ASSUME a \in D PROVE FALSE
    OBVIOUS
  <2>1. PICK k \in 1 .. Len(got) : a \in Bytes(got[k])
    OBVIOUS
  <2>2. /\ Number(k) \in 1 .. Len(blocks) /\ Number(k) # n /\ n \in 1 .. Len(blocks)
        /\ a \in Bytes(blocks[Number(k)])
    BY <2>1, EndShape
  <2> QED
    BY <2>2, BytesApart
<1>2. ASSUME NEW l \in Lists, NEW i \in 1 .. count[l], NEW a \in ItemAt(items[l], i - 1)
      PROVE  Holds(a, <<l, i>>)'
  <2>1. Made(l) /\ a \in Bytes(items[l])
    BY ItemInside
  <2>2. PICK n \in 1 .. Settled : items[l] = blocks[n]
    BY <2>1 DEF TreeInv, Arrays
  <2>3. a \notin D
    BY <1>1, <2>1, <2>2
  <2>4. Holds(a, <<l, i>>)
    BY DEF TreeInv, Filled
  <2> QED
    BY <2>3, <2>4
<1>3. ASSUME NEW n \in written, NEW a \in Bytes(blocks[n]) PROVE Holds(a, Filler(n))'
  <2>1. n \in 1 .. Settled
    BY DEF TreeInv, TreeTyped
  <2>2. Holds(a, Filler(n))
    BY DEF TreeInv, Filled
  <2> QED
    BY <1>1, <2>1, <2>2
<1> QED
  BY <1>2, <1>3

LEMMA NeedsList ==
  ASSUME call.kind = "list"
  PROVE  Needs(call) = <<OfNode, Array(IF call.n = 0 THEN 4 ELSE call.n)>>
  BY Zenon DEF Needs

LEMMA TreeEndList == IInv /\ TreeInv /\ EndList => TreeInv'
<1> SUFFICES ASSUME IInv, TreeInv, EndList, NEW l, l = call.list PROVE TreeInv'
  OBVIOUS
<1> DEFINE f == Write(Bytes(got[1]), Filler(Number(1)))
<1>1. /\ call.kind = "list" /\ Finish /\ mem' = Over(f, mem)
      /\ written' = written \cup {Number(1)}
      /\ items' = [items EXCEPT ![l] = got[2]] /\ UNCHANGED count
  BY DEF EndList
<1>2. l \in Lists /\ ~ Made(l) /\ count[l] = 0
  BY <1>1 DEF TreeInv, CallShape, Arrays
<1>3. Len(got) = 2 /\ Needs(call)[2] = Array(IF call.n = 0 THEN 4 ELSE call.n)
  <2>1. Len(got) = Len(Needs(call))
    BY <1>1 DEF Finish
  <2>2. Needs(call) = <<OfNode, Array(IF call.n = 0 THEN 4 ELSE call.n)>>
    BY <1>1, NeedsList
  <2> QED
    BY ONLY <2>1, <2>2
<1>4. /\ CallShape' /\ Settled' = Len(blocks) /\ blocks' = blocks
      /\ Settled \in Nat /\ Len(blocks) \in Nat /\ Settled <= Len(blocks)
      /\ \A n \in 1 .. Len(blocks) : blocks[n] \in Block /\ blocks[n] # NoBlock
      /\ Number(1) \in 1 .. Len(blocks) /\ Number(1) \notin 1 .. Settled /\ got[1] = blocks[Number(1)]
      /\ Number(2) \in 1 .. Len(blocks) /\ Number(2) \notin 1 .. Settled /\ got[2] = blocks[Number(2)]
  BY <1>1, <1>3, EndShape
<1>5. Number(1) # Number(2)
  BY <1>3, <1>4 DEF Number
<1>6. DOMAIN f = Bytes(got[1]) /\ \A a \in DOMAIN f : f[a] = Filler(Number(1))
  BY DEF Write
<1> HIDE DEF f
<1>7. \A a, d : (a \notin DOMAIN f /\ Holds(a, d)) => Holds(a, d)'
  BY <1>1, Written
<1>8. /\ \A k \in Lists : \A i \in 1 .. count[k] :
           \A a \in ItemAt(items[k], i - 1) : Holds(a, <<k, i>>)'
      /\ \A n \in written : \A a \in Bytes(blocks[n]) : Holds(a, Filler(n))'
  BY <1>1, <1>3, <1>6, <1>7, TreeSpared
<1>9. items'[l] = blocks[Number(2)] /\ \A k \in Lists \ {l} : items'[k] = items[k]
  BY <1>1, <1>2, <1>4 DEF TreeInv, TreeTyped
<1>10. TreeTyped'
  <2>1. items' \in [Lists -> Block]
    BY <1>1, <1>4 DEF TreeInv, TreeTyped
  <2>2. written \subseteq 1 .. Settled /\ 1 .. Settled \subseteq 1 .. Len(blocks)
    BY <1>4 DEF TreeInv, TreeTyped
  <2> QED
    BY <1>1, <1>4, <2>1, <2>2 DEF TreeTyped
<1>11. Filled'
  <2>1. ASSUME NEW k \in Lists, NEW i \in 1 .. count[k], NEW a \in ItemAt(items'[k], i - 1)
        PROVE  Holds(a, <<k, i>>)'
    BY <1>2, <1>8, <1>9
  <2>2. ASSUME NEW n, n = Number(1), NEW a \in Bytes(got[1]) PROVE Holds(a, Filler(n))'
    <3>1. a \in DOMAIN f /\ f[a] = Filler(n)
      BY <1>6, <2>2
    <3>2. mem' = Over(f, mem)
      BY <1>1
    <3> QED
      BY <3>1, <3>2, Written
  <2>3. ASSUME NEW n \in written', NEW a \in Bytes(blocks[n]) PROVE Holds(a, Filler(n))'
    <3>1. CASE n \in written
      BY <1>8, <2>3, <3>1
    <3>2. CASE n = Number(1)
      BY <1>4, <2>2, <2>3, <3>2
    <3> QED
      BY <1>1, <3>1, <3>2
  <2> QED
    BY <1>1, <1>4, <2>1, <2>3 DEF Filled, Bytes, ItemAt, Holds
<1>12. Arrays'
  <2>1. Room(l)'
    <3> DEFINE K == IF call.n = 0 THEN 4 ELSE call.n
    <3>1. K \in Nat
      BY DEF IInv, Typed, Call
    <3>2. got[2].size = Ptr * K
      <4>1. got[2].size = Array(K).size
        BY <1>3 DEF TreeInv, CallShape
      <4> QED
        BY <4>1 DEF Array, Request
    <3>3. items'[l].size = Ptr * K
      BY <1>4, <1>9, <3>2
    <3> HIDE DEF K
    <3>4. count'[l] = 0
      BY <1>1, <1>2
    <3>5. items'[l].size = Ptr * K /\ ~ (count'[l] > 0)
      BY <3>3, <3>4
    <3> QED
      BY <3>1, <3>5, Zenon DEF Room
  <2>2. \A k \in Lists \ {l} : Made(k)' = Made(k) /\ Room(k)' = Room(k)
    BY <1>1, <1>9 DEF Made, Room
  <2>3. ASSUME NEW k \in Lists \ {l}, Made(k)
        PROVE  \E n \in 1 .. Settled : n \notin written' /\ items'[k] = blocks[n]
    BY <1>1, <1>4, <1>9, <2>3 DEF TreeInv, Arrays
  <2>4. Number(2) \notin written'
    BY <1>1, <1>4, <1>5 DEF TreeInv, TreeTyped
  <2>5. ASSUME NEW k \in Lists \ {l}, Made(k)
        PROVE  Bytes(items'[l]) \cap Bytes(items'[k]) = {}
    <3>1. PICK n \in 1 .. Settled : items'[k] = blocks[n]
      BY <2>3, <2>5
    <3>2. n \in 1 .. Len(blocks) /\ n # Number(2)
      BY <1>4
    <3> QED
      BY <1>4, <1>9, <3>1, <3>2, BytesApart
  <2>6. \A k \in Lists : ~ Made(k)' => count'[k] = 0
    BY <1>1, <1>2, <2>2 DEF TreeInv, Arrays
  <2>7. ASSUME NEW k \in Lists, Made(k)'
        PROVE  Room(k)' /\ \E n \in 1 .. Settled' : n \notin written' /\ items'[k] = blocks'[n]
    <3>1. CASE k = l
      BY <1>4, <1>9, <2>1, <2>4, <3>1
    <3>2. CASE k # l
      <4>1. Room(k)' /\ Made(k)
        <5>1. Made(k)
          BY <2>2, <2>7, <3>2
        <5>2. Room(k)
          BY <5>1 DEF TreeInv, Arrays
        <5> QED
          BY <2>2, <3>2, <5>1, <5>2
      <4>2. PICK n \in 1 .. Settled : n \notin written' /\ items'[k] = blocks[n]
        BY <2>3, <3>2, <4>1
      <4>3. n \in 1 .. Settled'
        BY <1>4
      <4> QED
        BY <1>4, <4>1, <4>2, <4>3
    <3> QED
      BY <3>1, <3>2
  <2>8. ASSUME NEW j \in Lists, NEW k \in Lists, Made(j)', Made(k)', j # k
        PROVE  Bytes(items'[j]) \cap Bytes(items'[k]) = {}
    <3>1. CASE j = l
      BY <2>2, <2>5, <2>8, <3>1
    <3>2. CASE k = l
      BY <2>2, <2>5, <2>8, <3>2
    <3>3. CASE j # l /\ k # l
      BY <1>9, <2>2, <2>8, <3>3 DEF TreeInv, Arrays
    <3> QED
      BY <3>1, <3>2, <3>3
  <2> QED
    BY <2>6, <2>7, <2>8, Zenon DEF Arrays, Bytes
<1> QED
  BY <1>4, <1>10, <1>11, <1>12 DEF TreeInv

LEMMA TreeEndNode == IInv /\ TreeInv /\ EndNode => TreeInv'
<1> SUFFICES ASSUME IInv, TreeInv, EndNode PROVE TreeInv'
  OBVIOUS
<1> DEFINE N == {Number(k) : k \in 1 .. Len(got)}
           D == UNION {Bytes(got[k]) : k \in 1 .. Len(got)}
           f == [a \in D |-> Filler(CHOOSE n \in N : a \in Bytes(blocks[n]))]
<1>1. /\ Finish /\ mem' = Over(f, mem) /\ written' = written \cup N /\ UNCHANGED <<items, count>>
  BY DEF EndNode
<1>2. /\ CallShape' /\ Settled' = Len(blocks) /\ blocks' = blocks
      /\ Settled \in Nat /\ Len(blocks) \in Nat /\ Settled <= Len(blocks)
      /\ \A k \in 1 .. Len(got) :
           Number(k) \in 1 .. Len(blocks) /\ Number(k) \notin 1 .. Settled /\ got[k] = blocks[Number(k)]
  BY <1>1, EndShape
<1>3. N \subseteq 1 .. Len(blocks) /\ \A n \in N : n \notin 1 .. Settled
  BY <1>2
<1>4. \A n \in N : \A a \in Bytes(blocks[n]) : a \in D
  BY <1>2
<1>5. \A a \in D : \E k \in 1 .. Len(got) : a \in Bytes(got[k])
  OBVIOUS
<1>6. DOMAIN f = D
  OBVIOUS
<1>7. ASSUME NEW n \in N, NEW a \in Bytes(blocks[n]) PROVE f[a] = Filler(n)
  <2> DEFINE m == CHOOSE m \in N : a \in Bytes(blocks[m])
  <2>1. m \in N /\ a \in Bytes(blocks[m])
    BY <1>7, Zenon
  <2>2. f[a] = Filler(m)
    BY <1>4, <1>7, Zenon
  <2> HIDE DEF m, N, D, f
  <2>3. m = n
    BY <1>3, <1>7, <2>1, BytesApart
  <2> QED
    BY <2>2, <2>3
<1> HIDE DEF f, D, N
<1>8. \A a, d : (a \notin D /\ Holds(a, d)) => Holds(a, d)'
  BY <1>1, <1>6, Written
<1>9. /\ \A k \in Lists : \A i \in 1 .. count[k] :
           \A a \in ItemAt(items[k], i - 1) : Holds(a, <<k, i>>)'
      /\ \A n \in written : \A a \in Bytes(blocks[n]) : Holds(a, Filler(n))'
  BY <1>1, <1>5, <1>8, TreeSpared
<1>10. ASSUME NEW n \in N, NEW a \in Bytes(blocks[n]) PROVE Holds(a, Filler(n))'
  BY <1>1, <1>4, <1>6, <1>7, <1>10, Written
<1>11. TreeTyped'
  BY <1>1, <1>2, <1>3 DEF TreeInv, TreeTyped
<1>12. Filled'
  BY <1>1, <1>2, <1>9, <1>10 DEF Filled, Bytes, ItemAt, Holds
<1>13. Arrays'
  <2>1. \A l \in Lists : Made(l)' = Made(l) /\ Room(l)' = Room(l)
    BY <1>1 DEF Made, Room
  <2>2. ASSUME NEW l \in Lists, Made(l)
        PROVE  \E n \in 1 .. Len(blocks) : n \notin written' /\ items[l] = blocks[n]
    <3>1. PICK n \in 1 .. Settled : n \notin written /\ items[l] = blocks[n]
      BY <2>2 DEF TreeInv, Arrays
    <3>2. n \in 1 .. Len(blocks) /\ n \notin written'
      BY <1>1, <1>2, <1>3, <3>1
    <3> QED
      BY <3>1, <3>2
  <2>3. /\ \A l \in Lists : ~ Made(l)' => count'[l] = 0
        /\ \A l \in Lists : Made(l)' =>
             Room(l)' /\ \E n \in 1 .. Settled' : n \notin written' /\ items'[l] = blocks'[n]
    BY <1>1, <1>2, <2>1, <2>2 DEF TreeInv, Arrays
  <2>4. \A l, k \in Lists : Made(l)' /\ Made(k)' /\ l # k => Bytes(items'[l]) \cap Bytes(items'[k]) = {}
    BY <1>1, <2>1, Zenon DEF TreeInv, Arrays
  <2> QED
    BY <2>3, <2>4, Zenon DEF Arrays, Bytes
<1> QED
  BY <1>2, <1>11, <1>12, <1>13 DEF TreeInv

(* What a push asks for, and the room there is for the item: the array is  *)
(* made anew at 0 and at each power of two, and is full only then.         *)
LEMMA PushRoom ==
  ASSUME IInv, TreeInv, EndPush, NEW l, l = call.list, NEW array,
         array = IF got = <<>> THEN items[l] ELSE got[1]
  PROVE  \E K \in Nat :
           /\ array.size = Ptr * K /\ count[l] < K
           /\ \E p \in Nat : PowerOfTwo(p) /\ count[l] + 1 <= p /\ p <= K
<1>1. call.kind = "push" /\ Finish /\ Len(got) = Len(Needs(call)) /\ got \in Seq(Block)
  BY DEF EndPush, Finish, IInv, Typed
<1>2. l \in Lists /\ Made(l) /\ count[l] \in Nat
  BY <1>1 DEF TreeInv, CallShape, IInv, Typed
<1>3. Needs(call) = IF Regrows(count[l]) THEN <<Array(CapFor(count[l]))>> ELSE <<>>
  BY <1>1, Zenon DEF Needs
<1>4. CASE Regrows(count[l])
  <2> DEFINE K == CapFor(count[l])
  <2>1. Needs(call) = <<Array(K)>>
    BY <1>3, <1>4
  <2>2. Len(got) = 1 /\ got # <<>> /\ Needs(call)[1] = Array(K)
    <3> HIDE DEF K
    <3>1. got \in Seq(Block) /\ Len(got) = Len(Needs(call))
      BY <1>1
    <3> QED
      BY ONLY <3>1, <2>1
  <2>3. array.size = Ptr * K
    <3>1. array = got[1] /\ got[1].size = Needs(call)[1].size
      BY <2>2 DEF TreeInv, CallShape
    <3> QED
      BY <2>2, <3>1 DEF Array, Request
  <2>4. K \in Nat /\ count[l] < K /\ count[l] + 1 <= K /\ PowerOfTwo(K)
    <3>1. CASE count[l] = 0
      BY <3>1, FourIsPower DEF CapFor
    <3>2. CASE count[l] # 0
      <4>1. PowerOfTwo(count[l]) /\ count[l] > 0
        BY <1>2, <1>4, <3>2 DEF Regrows
      <4>2. PowerOfTwo(2 * count[l])
        BY <1>2, <4>1, PowerDoubles
      <4> QED
        BY <1>2, <3>2, <4>1, <4>2 DEF CapFor
    <3> QED
      BY <3>1, <3>2
  <2> HIDE DEF K
  <2> QED
    BY <2>3, <2>4
<1>5. CASE ~ Regrows(count[l])
  <2>1. got = <<>> /\ array = items[l]
    <3>1. Needs(call) = <<>>
      BY <1>3, <1>5
    <3>2. Len(got) = 0
      BY <1>1, <3>1
    <3> QED
      BY <1>1, <3>2
  <2>2. Room(l) /\ count[l] > 0
    BY <1>2, <1>5 DEF Regrows, TreeInv, Arrays
  <2>3. PICK K \in Nat : /\ items[l].size = Ptr * K
                         /\ \E p \in Nat : PowerOfTwo(p) /\ count[l] <= p /\ p <= K
    BY <2>2 DEF Room
  <2>4. PICK p \in Nat : PowerOfTwo(p) /\ count[l] <= p /\ p <= K
    BY <2>3
  <2>5. count[l] # p
    BY <1>5, <2>4 DEF Regrows
  <2>6. count[l] + 1 <= p /\ count[l] < K
    BY <1>2, <2>4, <2>5
  <2> QED
    BY <2>1, <2>3, <2>4, <2>6
<1> QED
  BY <1>4, <1>5

(* Copying the items of the old array to the new one. *)
LEMMA CopyMoves ==
  ASSUME NEW old \in Block, NEW new \in Block, NEW cnt \in Nat, NEW i \in Nat, i < cnt,
         NEW a \in ItemAt(new, i), NEW d,
         \A b \in ItemAt(old, i) : Holds(b, d)
  PROVE  a \in DOMAIN Copy(old, new, cnt) /\ Copy(old, new, cnt)[a] = d
<1>1. old.off \in Nat /\ new.off \in Nat /\ Ptr \in Nat \ {0}
  BY ArenaAssumption DEF Block
<1>2. Ptr * i \in Nat /\ Ptr * cnt \in Nat /\ Ptr * i + Ptr <= Ptr * cnt
  BY <1>1, Times
<1> DEFINE q == Ptr * i
<1>3. PICK k \in 0 .. Ptr - 1 : a = <<new.chunk, new.off + q + k>>
  BY DEF ItemAt
<1>4. q \in Nat /\ Ptr * cnt \in Nat /\ q + Ptr <= Ptr * cnt /\ k \in Nat /\ k < Ptr
  BY <1>1, <1>2
<1>5. <<old.chunk, old.off + q + k>> \in ItemAt(old, i)
  BY DEF ItemAt
<1> HIDE DEF q
<1> DEFINE D == {<<new.chunk, new.off + m>> : m \in 0 .. Ptr * cnt - 1}
<1>6. a \in D
  <2>1. q + k \in 0 .. Ptr * cnt - 1
    BY <1>1, <1>4
  <2>2. new.off + q + k = new.off + (q + k)
    BY <1>1, <1>4
  <2> QED
    BY <1>3, <2>1, <2>2
<1>7. a[2] = new.off + q + k
  BY <1>3
<1>8. old.off + a[2] - new.off = old.off + q + k
  BY <1>1, <1>4, <1>7
<1>9. mem[<<old.chunk, old.off + a[2] - new.off>>] = d
  BY <1>5, <1>8 DEF Holds
<1> QED
  BY <1>6, <1>9 DEF Copy

LEMMA CopyInside ==
  ASSUME NEW old, NEW new \in Block, NEW cnt \in Nat, NEW K \in Nat, cnt <= K, new.size = Ptr * K
  PROVE  DOMAIN Copy(old, new, cnt) \subseteq Bytes(new)
<1>1. new.off \in Nat /\ Ptr * cnt \in Nat /\ Ptr * K \in Nat /\ Ptr * cnt <= Ptr * K
  BY Times DEF Block
<1>2. ASSUME NEW k \in 0 .. Ptr * cnt - 1 PROVE <<new.chunk, new.off + k>> \in Bytes(new)
  <2>1. new.off + k \in new.off .. new.off + new.size - 1
    BY <1>1
  <2> QED
    BY <2>1 DEF Bytes
<1> QED
  BY <1>2 DEF Copy

LEMMA TreeEndPush == IInv /\ TreeInv /\ EndPush => TreeInv'
<1> SUFFICES ASSUME IInv, TreeInv, EndPush, NEW l, l = call.list, NEW cnt, cnt = count[l],
                    NEW array, array = IF got = <<>> THEN items[l] ELSE got[1],
                    NEW item, item = Write(ItemAt(array, cnt), <<l, cnt + 1>>),
                    NEW copy, copy = Copy(items[l], array, cnt)
             PROVE  TreeInv'
  OBVIOUS
<1>1. /\ call.kind = "push" /\ Finish /\ UNCHANGED written
      /\ mem' = Over(item, IF got = <<>> THEN mem ELSE Over(copy, mem))
      /\ items' = [items EXCEPT ![l] = array]
      /\ count' = [count EXCEPT ![l] = cnt + 1]
  BY DEF EndPush
<1>2. l \in Lists /\ Made(l) /\ cnt \in Nat /\ items \in [Lists -> Block] /\ count \in [Lists -> Nat]
  BY <1>1 DEF TreeInv, CallShape, TreeTyped, IInv, Typed
<1>3. PICK K \in Nat : /\ array.size = Ptr * K /\ cnt < K
                       /\ \E p \in Nat : PowerOfTwo(p) /\ cnt + 1 <= p /\ p <= K
  BY PushRoom
<1>4. /\ CallShape' /\ Settled' = Len(blocks) /\ blocks' = blocks
      /\ Settled \in Nat /\ Len(blocks) \in Nat /\ Settled <= Len(blocks)
      /\ \A n \in 1 .. Len(blocks) : blocks[n] \in Block /\ blocks[n] # NoBlock
      /\ \A k \in 1 .. Len(got) :
           Number(k) \in 1 .. Len(blocks) /\ Number(k) \notin 1 .. Settled /\ got[k] = blocks[Number(k)]
  BY <1>1, EndShape
<1>5. /\ \E n \in 1 .. Len(blocks) : n \notin written /\ array = blocks[n]
      /\ \A k \in Lists \ {l} : Made(k) => Bytes(array) \cap Bytes(items[k]) = {}
  <2>1. CASE got = <<>>
    <3>1. array = items[l]
      BY <2>1
    <3>2. PICK n \in 1 .. Settled : n \notin written /\ items[l] = blocks[n]
      BY <1>2 DEF TreeInv, Arrays
    <3>3. n \in 1 .. Len(blocks)
      BY <1>4
    <3> QED
      BY <1>2, <3>1, <3>2, <3>3 DEF TreeInv, Arrays
  <2>2. CASE got # <<>>
    <3>1. 1 \in 1 .. Len(got) /\ array = got[1]
      BY <2>2 DEF IInv, Typed
    <3>2. Number(1) \in 1 .. Len(blocks) /\ Number(1) \notin 1 .. Settled /\ array = blocks[Number(1)]
      BY <1>4, <3>1
    <3>3. Number(1) \notin written
      BY <3>2 DEF TreeInv, TreeTyped
    <3>4. ASSUME NEW k \in Lists, Made(k) PROVE Bytes(array) \cap Bytes(items[k]) = {}
      <4>1. PICK n \in 1 .. Settled : items[k] = blocks[n]
        BY <3>4 DEF TreeInv, Arrays
      <4>2. n \in 1 .. Len(blocks) /\ n # Number(1)
        BY <1>4, <3>2
      <4> QED
        BY <3>2, <4>1, <4>2, BytesApart
    <3> QED
      BY <3>2, <3>3, <3>4
  <2> QED
    BY <2>1, <2>2
<1>6. array \in Block /\ array # NoBlock
  BY <1>4, <1>5
<1>7. /\ DOMAIN item = ItemAt(array, cnt) /\ DOMAIN item \subseteq Bytes(array)
      /\ \A a \in DOMAIN item : item[a] = <<l, cnt + 1>>
  <2>1. ItemAt(array, cnt) \subseteq Bytes(array)
    BY <1>2, <1>3, <1>6, ItemPlace
  <2> QED
    BY <2>1 DEF Write
<1>8. DOMAIN copy \subseteq Bytes(array)
  <2>1. cnt <= K
    BY <1>2, <1>3
  <2> QED
    BY <1>2, <1>3, <1>6, <2>1, CopyInside
<1>9. ASSUME NEW a, NEW d, a \notin Bytes(array), Holds(a, d) PROVE Holds(a, d)'
  <2>1. a \notin DOMAIN item /\ a \notin DOMAIN copy
    BY <1>7, <1>8, <1>9
  <2>2. CASE got = <<>>
    BY <1>1, <1>9, <2>1, <2>2, Written
  <2>3. CASE got # <<>>
    BY <1>1, <1>9, <2>1, <2>3, WrittenTwice
  <2> QED
    BY <2>2, <2>3
<1>10. ASSUME NEW i \in 1 .. cnt, NEW a \in ItemAt(array, i - 1) PROVE Holds(a, <<l, i>>)'
  <2>1. \A b \in ItemAt(items[l], i - 1) : Holds(b, <<l, i>>)
    BY <1>2 DEF TreeInv, Filled
  <2>2. i - 1 \in Nat /\ i - 1 # cnt /\ i - 1 < K
    BY <1>2, <1>3
  <2>3. a \notin DOMAIN item
    BY <1>2, <1>3, <1>6, <1>7, <2>2, ItemPlace
  <2>4. CASE got = <<>>
    <3>1. Holds(a, <<l, i>>)
      BY <2>1, <2>4
    <3> QED
      BY <1>1, <2>3, <2>4, <3>1, Written
  <2>5. CASE got # <<>>
    <3>1. \A d : d = <<l, i>> => a \in DOMAIN copy /\ copy[a] = d
      <4>1. SUFFICES ASSUME NEW d, d = <<l, i>>, NEW j, j = i - 1, NEW old, old = items[l]
                     PROVE  a \in DOMAIN copy /\ copy[a] = d
        OBVIOUS
      <4>2. old \in Block /\ array \in Block /\ cnt \in Nat /\ j \in Nat /\ j < cnt
        BY <1>2, <1>6, <4>1
      <4>3. \A b \in ItemAt(old, j) : Holds(b, d)
        BY <2>1, <4>1
      <4>4. a \in ItemAt(array, j) /\ copy = Copy(old, array, cnt)
        BY <4>1
      <4> QED
        <5>1. a \in DOMAIN Copy(old, array, cnt) /\ Copy(old, array, cnt)[a] = d
          BY ONLY <4>2, <4>3, <4>4, CopyMoves
        <5> QED
          BY ONLY <5>1, <4>4
    <3> QED
      BY <1>1, <2>3, <2>5, <3>1, WrittenTwice
  <2> QED
    BY <2>4, <2>5
<1>11. ASSUME NEW a \in ItemAt(array, cnt) PROVE Holds(a, <<l, cnt + 1>>)'
  <2>1. a \in DOMAIN item /\ item[a] = <<l, cnt + 1>>
    BY <1>7
  <2>2. CASE got = <<>>
    BY <1>1, <2>1, <2>2, Written
  <2>3. CASE got # <<>>
    BY <1>1, <2>1, <2>3, WrittenTwice
  <2> QED
    BY <2>2, <2>3
<1>12. /\ items'[l] = array /\ count'[l] = cnt + 1
       /\ \A k \in Lists \ {l} : items'[k] = items[k] /\ count'[k] = count[k]
  BY <1>1, <1>2
<1>13. TreeTyped'
  <2>1. items' \in [Lists -> Block]
    BY <1>1, <1>2, <1>6
  <2>2. written \subseteq 1 .. Settled /\ 1 .. Settled \subseteq 1 .. Len(blocks)
    BY <1>4 DEF TreeInv, TreeTyped
  <2> QED
    BY <1>1, <1>4, <2>1, <2>2 DEF TreeTyped
<1>14. Filled'
  <2>1. ASSUME NEW i \in 1 .. cnt + 1, NEW a \in ItemAt(array, i - 1) PROVE Holds(a, <<l, i>>)'
    <3>1. CASE i \in 1 .. cnt
      BY <1>10, <2>1, <3>1
    <3>2. CASE i = cnt + 1
      <4>1. i - 1 = cnt
        BY <1>2, <3>2
      <4> QED
        BY <1>11, <2>1, <3>2, <4>1
    <3> QED
      BY <1>2, <3>1, <3>2
  <2>2. ASSUME NEW k \in Lists \ {l}, NEW i \in 1 .. count[k], NEW a \in ItemAt(items[k], i - 1)
        PROVE  Holds(a, <<k, i>>)'
    <3>1. Made(k) /\ a \in Bytes(items[k])
      BY ItemInside
    <3>2. a \notin Bytes(array)
      BY <1>5, <3>1
    <3>3. Holds(a, <<k, i>>)
      BY DEF TreeInv, Filled
    <3> QED
      BY <1>9, <3>2, <3>3
  <2>3. ASSUME NEW k \in Lists, NEW i \in 1 .. count'[k], NEW a \in ItemAt(items'[k], i - 1)
        PROVE  Holds(a, <<k, i>>)'
    BY <1>12, <2>1, <2>2
  <2>4. ASSUME NEW n \in written, NEW a \in Bytes(blocks[n]) PROVE Holds(a, Filler(n))'
    <3>1. PICK m \in 1 .. Len(blocks) : m \notin written /\ array = blocks[m]
      BY <1>5
    <3>2. n \in 1 .. Len(blocks) /\ n # m
      BY <1>4, <3>1 DEF TreeInv, TreeTyped
    <3>3. a \notin Bytes(array)
      BY <3>1, <3>2, BytesApart
    <3>4. Holds(a, Filler(n))
      BY DEF TreeInv, Filled
    <3> QED
      BY <1>9, <3>3, <3>4
  <2>5. \A n \in written' : \A a \in Bytes(blocks'[n]) : Holds(a, Filler(n))'
    BY <1>1, <1>4, <2>4
  <2>6. \A k \in Lists : \A i \in 1 .. count'[k] : \A a \in ItemAt(items'[k], i - 1) :
          Holds(a, <<k, i>>)'
    BY <2>3
  <2> QED
    BY <2>5, <2>6, Zenon DEF Filled, Bytes, ItemAt, Holds
<1>15. Arrays'
  <2>1. Room(l)' /\ Made(l)'
    BY <1>3, <1>6, <1>12 DEF Room, Made
  <2>2. \A k \in Lists \ {l} : Made(k)' = Made(k) /\ Room(k)' = Room(k)
    BY <1>12 DEF Made, Room
  <2>3. \A k \in Lists : ~ Made(k)' => count'[k] = 0
    BY <1>12, <2>1, <2>2 DEF TreeInv, Arrays
  <2>4. ASSUME NEW k \in Lists, Made(k)'
        PROVE  Room(k)' /\ \E n \in 1 .. Settled' : n \notin written' /\ items'[k] = blocks'[n]
    <3>1. CASE k = l
      BY <1>1, <1>4, <1>5, <1>12, <2>1, <3>1
    <3>2. CASE k # l
      <4>1. Made(k)
        BY <2>2, <2>4, <3>2
      <4>2. Room(k) /\ \E n \in 1 .. Settled : n \notin written /\ items[k] = blocks[n]
        BY <4>1 DEF TreeInv, Arrays
      <4>3. PICK n \in 1 .. Settled : n \notin written /\ items[k] = blocks[n]
        BY <4>2
      <4>4. n \in 1 .. Settled'
        BY <1>4
      <4> QED
        BY <1>1, <1>4, <1>12, <2>2, <3>2, <4>2, <4>3, <4>4
    <3> QED
      BY <3>1, <3>2
  <2>5. ASSUME NEW j \in Lists, NEW k \in Lists, Made(j)', Made(k)', j # k
        PROVE  Bytes(items'[j]) \cap Bytes(items'[k]) = {}
    <3>1. CASE j = l
      BY <1>5, <1>12, <2>2, <2>5, <3>1
    <3>2. CASE k = l
      BY <1>5, <1>12, <2>2, <2>5, <3>2
    <3>3. CASE j # l /\ k # l
      BY <1>12, <2>2, <2>5, <3>3 DEF TreeInv, Arrays
    <3> QED
      BY <3>1, <3>2, <3>3
  <2> QED
    BY <2>3, <2>4, <2>5, Zenon DEF Arrays, Bytes
<1> QED
  BY <1>4, <1>13, <1>14, <1>15 DEF TreeInv

LEMMA TreeNext == IInv /\ TreeInv /\ [Next]_vars => TreeInv'
<1> SUFFICES ASSUME IInv, TreeInv, [Next]_vars PROVE TreeInv'
  OBVIOUS
<1>1. CASE UNCHANGED vars
  BY <1>1, TreeStay DEF vars, heap
<1>2. CASE \/ \E l \in Lists : (\E h \in Hints : BeginList(l, h)) \/ BeginPush(l)
           \/ \E len \in Lens : BeginText(len)
           \/ BeginLeaf
  <2>1. ASSUME NEW l \in Lists, NEW h \in Hints, BeginList(l, h) PROVE TreeInv'
    <3> DEFINE c == [kind |-> "list", list |-> l, n |-> h]
    <3>1. c \in Call /\ c.kind = "list" /\ c.list = l
      BY ArenaAssumption DEF Call, Kinds
    <3>2. Begin(c) /\ ~ Made(c.list)
      BY <2>1 DEF BeginList
    <3> HIDE DEF c
    <3> QED
      BY <3>1, <3>2, TreeBegin
  <2>2. ASSUME NEW l \in Lists, BeginPush(l) PROVE TreeInv'
    <3> DEFINE c == [kind |-> "push", list |-> l, n |-> 0]
    <3>1. c \in Call /\ c.kind = "push" /\ c.list = l
      BY DEF Call, Kinds
    <3>2. Begin(c) /\ Made(c.list)
      BY <2>2 DEF BeginPush
    <3> HIDE DEF c
    <3> QED
      BY <3>1, <3>2, TreeBegin
  <2>3. ASSUME NEW c \in Call, Begin(c), c.kind \notin {"push", "list"} PROVE TreeInv'
    BY <2>3, TreeBegin
  <2>4. ASSUME NEW len \in Lens, BeginText(len) PROVE TreeInv'
    <3> DEFINE c == [kind |-> "text", list |-> NoList, n |-> len]
    <3>1. c \in Call /\ c.kind = "text"
      BY ArenaAssumption DEF Call, Kinds
    <3>2. Begin(c)
      BY <2>4 DEF BeginText
    <3> HIDE DEF c
    <3> QED
      BY <2>3, <3>1, <3>2
  <2>5. ASSUME BeginLeaf PROVE TreeInv'
    <3> DEFINE c == [kind |-> "leaf", list |-> NoList, n |-> 0]
    <3>1. c \in Call /\ c.kind = "leaf"
      BY DEF Call, Kinds
    <3>2. Begin(c)
      BY <2>5 DEF BeginLeaf
    <3> HIDE DEF c
    <3> QED
      BY <2>3, <3>1, <3>2
  <2> QED
    BY <1>2, <2>1, <2>2, <2>4, <2>5
<1>3. CASE FirstChunk \/ Grow \/ Double
  BY <1>3, TreeStay DEF FirstChunk, Grow, Double, heap
<1>4. CASE Alloc
  BY <1>4, TreePlace DEF Alloc, IInv, Typed
<1>5. CASE NewChunk
  <2> DEFINE chs == Append(chunks, [used |-> 0, cap |-> newcap])
  <2>1. Allocating /\ Place(chs)
    BY <1>5 DEF NewChunk
  <2>2. [used |-> 0, cap |-> newcap] \in Chunk /\ chunks \in Seq(Chunk)
    BY DEF IInv, Typed, Chunk
  <2>3. chs \in Seq(Chunk) /\ chs # <<>>
    BY <2>2
  <2> HIDE DEF chs
  <2> QED
    BY <2>1, <2>3, TreePlace
<1> QED
  BY <1>1, <1>2, <1>3, <1>4, <1>5, TreeFree, TreeEndList, TreeEndNode, TreeEndPush DEF Next, Steps

(* The tree survives its own growth: every list reads back as the items    *)
(* pushed on it, and every node and text as its constructor left it, for   *)
(* every size of chunk, pointer and node and every order of constructors   *)
(* and pushes.                                                             *)
THEOREM TreeSurvives == Spec => []TreeKept
<1>1. TreeInv => TreeKept
  BY DEF TreeInv, Filled, Holds, TreeKept
<1> QED
  BY <1>1, InitOk, NextKeeps, TreeInit, TreeNext, PTL DEF Spec
===============================================================================
