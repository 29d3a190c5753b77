-------------------------------- MODULE Arena ---------------------------------
(***************************************************************************)
(* The arena of src/arena.c and the tree it holds: nodes, texts and the    *)
(* item arrays of lists (src/ast.c).  Memory is a function from the bytes  *)
(* of the chunks to the datum last written there.  A call is Begin, then   *)
(* its calls of arena_alloc one after the other, then the writes.  The     *)
(* k-th item of a list is the datum <<list, k>>, and what fills the block  *)
(* of a node or a text is the number of the block: every item and block is *)
(* told apart from every other.  malloc is taken to succeed.               *)
(***************************************************************************)
EXTENDS Integers, Sequences

CONSTANTS Asked,      \* the chunk size arena_init is called with
          MinChunk,   \* the least chunk size, 4096 bytes
          Header,     \* sizeof(ArenaChunk)
          Ptr,        \* sizeof(void*), the alignment of nodes and of arrays
          NodeSize,   \* sizeof(Node)
          Lists,      \* the lists of a program
          NoList,
          Lens,       \* lengths of symbols and strings
          Hints,      \* values of cap_hint
          MaxCount,   \* bound: items pushed on one list
          MaxBlocks   \* bound: allocations in one life of the arena

ASSUME ArenaAssumption ==
  /\ Asked \in Nat /\ MinChunk \in Nat \ {0} /\ Header \in Nat
  /\ Ptr \in Nat \ {0} /\ NodeSize \in Nat /\ NoList \notin Lists
  /\ Lens \subseteq Nat /\ Hints \subseteq Nat
  /\ MaxCount \in Nat /\ MaxBlocks \in Nat

VARIABLES chunks,   \* the list of chunks, the head of it last
          call,     \* the call in progress: kind, list, length or hint
          got,      \* the blocks it has been given
          newcap,   \* the local of arena_alloc while it looks for a size, or 0
          blocks,   \* history: every block handed out since arena_init
          written,  \* history: the numbers of those written by their owner
          mem,      \* <<chunk, byte>> -> datum
          items, count \* the fields of a list node

heap == <<chunks, blocks>>
tree == <<written, mem, items, count>>
vars == <<heap, tree, call, got, newcap>>

chunk_size == IF Asked < MinChunk THEN MinChunk ELSE Asked

Kinds == {"idle", "list", "push", "text", "leaf"}
Call == [kind : Kinds, list : Lists \cup {NoList}, n : Nat]
Idle == [kind |-> "idle", list |-> NoList, n |-> 0]
NoBlock == [chunk |-> 0, off |-> 0, size |-> 0, align |-> 1]
Block == [chunk : Nat, off : Nat, size : Nat, align : Nat]

Fresh == /\ blocks = <<>> /\ written = {} /\ mem = <<>>
         /\ items = [l \in Lists |-> NoBlock]
         /\ count = [l \in Lists |-> 0]

Init == /\ chunks = << [used |-> 0, cap |-> chunk_size] >>
        /\ call = Idle /\ got = <<>> /\ newcap = 0
        /\ Fresh

(* The next multiple of a, for an alignment a. *)
RoundUp(n, a) == ((n + a - 1) \div a) * a

-------------------------------------------------------------------------------
(* Seeded fault: the array has room for the items there are. *)
Bug_CapFor(cnt) == IF cnt = 0 THEN 4 ELSE cnt

(* node_list_push: the size of a new array, and when one is made.  Powers  *)
(* of two are the numbers without an odd divisor above 1.                  *)
CapFor(cnt) == IF cnt = 0 THEN 4 ELSE 2 * cnt

PowerOfTwo(n) == n > 0 /\ \A d \in 2 .. n : n % d = 0 => d % 2 = 0
Regrows(cnt) == cnt = 0 \/ PowerOfTwo(cnt)

Request(size, align) == [size |-> size, align |-> align]
Array(cap) == Request(Ptr * cap, Ptr)
OfNode == Request(NodeSize, Ptr)

(* What a call asks of arena_alloc. *)
Needs(c) ==
  CASE c.kind = "list" -> <<OfNode, Array(IF c.n = 0 THEN 4 ELSE c.n)>>
    [] c.kind = "push" -> IF Regrows(count[c.list])
                          THEN <<Array(CapFor(count[c.list]))>> ELSE <<>>
    [] c.kind = "text" -> <<OfNode, Request(c.n + 1, 1)>>
    [] c.kind = "leaf" -> <<OfNode>>
    [] OTHER -> <<>>

Made(l) == items[l] # NoBlock

Begin(c) == /\ call = Idle
            /\ Len(blocks) + 2 <= MaxBlocks
            /\ call' = c
            /\ UNCHANGED <<heap, tree, got, newcap>>

BeginList(l, hint) == ~Made(l) /\ Begin([kind |-> "list", list |-> l, n |-> hint])
BeginPush(l) == /\ Made(l) /\ count[l] < MaxCount
                /\ Begin([kind |-> "push", list |-> l, n |-> 0])
BeginText(len) == Begin([kind |-> "text", list |-> NoList, n |-> len])
BeginLeaf == Begin([kind |-> "leaf", list |-> NoList, n |-> 0])

-------------------------------------------------------------------------------
Allocating == call # Idle /\ Len(got) < Len(Needs(call))
Wanted == Needs(call)[Len(got) + 1]
Fits(c) == RoundUp(c.used, Wanted.align) + Wanted.size <= c.cap

(* Seeded fault: the padding before the block is forgotten. *)
Bug_Place(chs) ==
  LET last == Len(chs)
      off == RoundUp(chs[last].used, Wanted.align)
      block == [chunk |-> last, off |-> off,
                size |-> Wanted.size, align |-> Wanted.align]
  IN /\ chunks' = [chs EXCEPT ![last] =
                     [used |-> chs[last].used + Wanted.size, cap |-> chs[last].cap]]
     /\ got' = Append(got, block)
     /\ blocks' = Append(blocks, block)
     /\ UNCHANGED <<tree, call>>

(* The block is cut from the head of the list of chunks. *)
Place(chs) ==
  LET last == Len(chs)
      off == RoundUp(chs[last].used, Wanted.align)
      block == [chunk |-> last, off |-> off,
                size |-> Wanted.size, align |-> Wanted.align]
  IN /\ chunks' = [chs EXCEPT ![last] =
                     [used |-> off + Wanted.size, cap |-> chs[last].cap]]
     /\ got' = Append(got, block)
     /\ blocks' = Append(blocks, block)
     /\ UNCHANGED <<tree, call>>

(* An arena without a chunk, as arena_free leaves it, gets one. *)
FirstChunk == /\ Allocating /\ chunks = <<>>
              /\ chunks' = << [used |-> 0, cap |-> chunk_size] >>
              /\ UNCHANGED <<blocks, tree, call, got, newcap>>

Alloc == /\ Allocating /\ newcap = 0
         /\ chunks # <<>> /\ Fits(chunks[Len(chunks)])
         /\ Place(chunks)
         /\ UNCHANGED newcap

Grow == /\ Allocating /\ newcap = 0
        /\ chunks # <<>> /\ ~Fits(chunks[Len(chunks)])
        /\ newcap' = chunk_size
        /\ UNCHANGED <<heap, tree, call, got>>

Needed == Wanted.size + Wanted.align + Header

Double == /\ Allocating /\ newcap # 0 /\ newcap < Needed
          /\ newcap' = 2 * newcap
          /\ UNCHANGED <<heap, tree, call, got>>

NewChunk == /\ Allocating /\ newcap # 0 /\ newcap >= Needed
            /\ Place(Append(chunks, [used |-> 0, cap |-> newcap]))
            /\ newcap' = 0

-------------------------------------------------------------------------------
Bytes(b) == {<<b.chunk, k>> : k \in b.off .. b.off + b.size - 1}
Write(addrs, datum) == [a \in addrs |-> datum]

(* Memory old after what new has was written to it. *)
Over(new, old) ==
  [a \in DOMAIN new \cup DOMAIN old |-> IF a \in DOMAIN new THEN new[a] ELSE old[a]]

(* The bytes of the item at index i of an array. *)
ItemAt(b, i) == {<<b.chunk, b.off + Ptr * i + k>> : k \in 0 .. Ptr - 1}

(* memcpy of the cnt items of the old array to the new one. *)
Copy(old, new, cnt) ==
  [a \in {<<new.chunk, new.off + k>> : k \in 0 .. Ptr * cnt - 1} |->
     mem[<<old.chunk, old.off + a[2] - new.off>>]]

(* The number of the k-th block of the call, and what it is filled with. *)
Number(k) == Len(blocks) - Len(got) + k
Filler(n) == <<NoList, n>>

Finish == /\ call # Idle /\ Len(got) = Len(Needs(call))
          /\ call' = Idle /\ got' = <<>>
          /\ UNCHANGED <<heap, newcap>>

EndList == /\ call.kind = "list" /\ Finish
           /\ mem' = Over(Write(Bytes(got[1]), Filler(Number(1))), mem)
           /\ written' = written \cup {Number(1)}
           /\ items' = [items EXCEPT ![call.list] = got[2]]
           /\ UNCHANGED count

EndNode == /\ call.kind \in {"text", "leaf"} /\ Finish
           /\ mem' = Over([a \in UNION {Bytes(got[k]) : k \in 1 .. Len(got)} |->
                             Filler(CHOOSE n \in {Number(k) : k \in 1 .. Len(got)} :
                                      a \in Bytes(blocks[n]))], mem)
           /\ written' = written \cup {Number(k) : k \in 1 .. Len(got)}
           /\ UNCHANGED <<items, count>>

EndPush ==
  LET l == call.list
      cnt == count[l]
      array == IF got = <<>> THEN items[l] ELSE got[1]
      item == Write(ItemAt(array, cnt), <<l, cnt + 1>>)
  IN /\ call.kind = "push" /\ Finish
     /\ mem' = Over(item, IF got = <<>> THEN mem
                          ELSE Over(Copy(items[l], array, cnt), mem))
     /\ items' = [items EXCEPT ![l] = array]
     /\ count' = [count EXCEPT ![l] = cnt + 1]
     /\ UNCHANGED written

(* arena_free: all chunks go, and with them the tree. *)
Free == /\ call = Idle /\ chunks # <<>>
        /\ chunks' = <<>> /\ blocks' = <<>> /\ written' = {} /\ mem' = <<>>
        /\ items' = [l \in Lists |-> NoBlock]
        /\ count' = [l \in Lists |-> 0]
        /\ UNCHANGED <<call, got, newcap>>

Steps == \/ FirstChunk \/ Alloc \/ Grow \/ Double \/ NewChunk
         \/ EndList \/ EndNode \/ EndPush

Next == \/ \E l \in Lists : (\E h \in Hints : BeginList(l, h)) \/ BeginPush(l)
        \/ \E len \in Lens : BeginText(len)
        \/ BeginLeaf \/ Free \/ Steps

Spec == Init /\ [][Next]_vars

-------------------------------------------------------------------------------
(* The blocks arena_alloc hands out lie in their chunk, are aligned, and   *)
(* share no byte, whatever the sizes and alignments, the padding between   *)
(* them and the chunks begun on the way.                                   *)
BlocksDisjoint ==
  \A i \in 1 .. Len(blocks) :
    LET b == blocks[i] IN
      /\ b.chunk \in 1 .. Len(chunks)
      /\ b.off + b.size <= chunks[b.chunk].cap
      /\ \E m \in 0 .. b.off : b.off = m * b.align
      /\ \A j \in 1 .. Len(blocks) :
           i < j /\ blocks[j].chunk = b.chunk => b.off + b.size <= blocks[j].off

(* The tree survives its own growth: at any time every list reads back as  *)
(* the items pushed on it, in order and from the array its node points to, *)
(* and every node and text holds what its constructor wrote, although      *)
(* arrays are abandoned, made anew at powers of two and filled in place in *)
(* between while other lists and texts are allocated next to them.         *)
TreeKept ==
  /\ \A l \in Lists : \A i \in 1 .. count[l] :
       \A a \in ItemAt(items[l], i - 1) : mem[a] = <<l, i>>
  /\ \A n \in written : \A a \in Bytes(blocks[n]) : mem[a] = Filler(n)

===============================================================================
