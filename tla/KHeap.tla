------------------------------- MODULE KHeap -------------------------------
(***************************************************************************)
(* The kernel heap (kernel/mem/kheap.c): a doubly linked list of nodes,    *)
(* first-fit allocation with splitting, coalescing release, growth by      *)
(* whole pages taken from the virtual memory manager.                      *)
(*                                                                         *)
(* Addresses and sizes are in units of HEAP_ALLOC_ALIGNMENT (16 bytes), so *)
(* a header takes H = 2 units and the heap starts at address 0.  A walk    *)
(* over the list is one step per node.  node is defined on the addresses   *)
(* of the headers that are linked; a header that merge_memory_nodes        *)
(* swallows leaves its domain, while kernel_heap_end may still point there.*)
(*                                                                         *)
(* What lies behind a page of the heap is not the heap's.  The model stops *)
(* (overrun) when a header is written there.                               *)
(*                                                                         *)
(* An operator whose name starts with mut_ is a wrong version of the one   *)
(* that follows it and is used by no definition.                           *)
(***************************************************************************)
EXTENDS Integers, FiniteSets

CONSTANTS PageUnits,   \* PAGE_SIZE_IN_BYTES in units
          MaxPages,    \* bound on the pages the heap may grow to, with the gaps
          Requests,    \* sizes asked for, in whole units: 16 * q + 1 .. 16 * q + 15 bytes
          Null

H == 2                 \* sizeof(KHeapMemoryNode)
Minimum == 2           \* KHEAP_MINIMUM_ALLOCABLE_SIZE

ASSUME KHeapAssumption ==
  /\ PageUnits \in Nat /\ PageUnits > H
  /\ MaxPages \in Nat \ {0}
  /\ Requests \subseteq Nat
  /\ Null \notin Int

VARIABLES node,             \* header address -> [size, is_free, next, prev]
          kernel_heap_end,
          regions,          \* the page ranges vmm_alloc gave to the heap: <<first, last>>
          brk,              \* next_available_address of the kernel's VMM
          pc, cur, arg,     \* the call in progress, its current_node, its argument
          blocks,           \* what callers hold: pointer -> units they may use
          result,           \* the outcome of the last call
          overrun

list_vars == <<node, kernel_heap_end>>
vmm_vars == <<regions, brk>>
vars == <<list_vars, vmm_vars, pc, cur, arg, blocks, result, overrun>>

kernel_heap_start == 0
Nodes == DOMAIN node
Mapped == UNION {r[1]..r[2] : r \in regions}

mut_successor_itself(a) == a
Successor(a) == node[a].next

\* align(size + sizeof(KHeapMemoryNode)): align always adds a whole unit.
mut_real_size_no_header(q) == q + 1
real_size(q) == q + H + 1

\* get_number_of_pages_from_size
pages(units) == (units + PageUnits - 1) \div PageUnits

-----------------------------------------------------------------------------
(* initialize_kheap: one page, whose node claims the whole page as its size.*)
Init ==
  /\ node = [a \in {kernel_heap_start} |->
               [size |-> PageUnits, is_free |-> TRUE, next |-> Null, prev |-> Null]]
  /\ kernel_heap_end = kernel_heap_start
  /\ regions = {<<0, PageUnits - 1>>}
  /\ brk = PageUnits
  /\ pc = "ready" /\ cur = Null /\ arg = 0
  /\ blocks = [p \in {} |-> 0]
  /\ result = "none"
  /\ overrun = FALSE

\* The end of a call.
Return(r) == pc' = "ready" /\ cur' = Null /\ arg' = 0 /\ result' = r

\* Somebody else takes a page of the kernel's virtual address space.
OtherVmmAlloc ==
  /\ ~overrun /\ pc = "ready"
  /\ brk < MaxPages * PageUnits
  /\ brk' = brk + PageUnits
  /\ UNCHANGED <<list_vars, regions, pc, cur, arg, blocks, result, overrun>>

-----------------------------------------------------------------------------
(* kmalloc                                                                 *)

KmallocCall ==
  /\ ~overrun /\ pc = "ready"
  /\ arg' \in Requests
  /\ brk + pages(real_size(arg')) * PageUnits <= MaxPages * PageUnits
  /\ pc' = "kmalloc" /\ cur' = kernel_heap_start /\ result' = "none"
  /\ UNCHANGED <<list_vars, vmm_vars, blocks, overrun>>

Walking(call) == ~overrun /\ pc = call /\ cur # Null

mut_fits_in_use == node[cur].size >= real_size(arg)
Fits == node[cur].is_free /\ node[cur].size >= real_size(arg)

\* create_kheap_node(c, r), with the update of c that follows it.
mut_split_keeps_prev(c, r) ==
  [a \in Nodes \cup {c + H + r} |->
     CASE a = c         -> [node[c] EXCEPT !.is_free = FALSE, !.size = r, !.next = c + H + r]
       [] a = c + H + r -> [size |-> node[c].size - (r + H), is_free |-> TRUE,
                            next |-> node[c].next, prev |-> c]
       [] OTHER         -> node[a]]
create_kheap_node(c, r) ==
  [a \in Nodes \cup {c + H + r} |->
     CASE a = c            -> [node[c] EXCEPT !.is_free = FALSE, !.size = r, !.next = c + H + r]
       [] a = c + H + r    -> [size |-> node[c].size - (r + H), is_free |-> TRUE,
                               next |-> node[c].next, prev |-> c]
       [] a = node[c].next -> [node[a] EXCEPT !.prev = c + H + r]
       [] OTHER            -> node[a]]

split(c, r) ==
  LET new == c + H + r
  IN  /\ node' = create_kheap_node(c, r)
      /\ kernel_heap_end' = IF c = kernel_heap_end THEN new ELSE kernel_heap_end
      /\ overrun' = ~({new, new + H - 1} \subseteq Mapped)

Hand(p) == blocks' = [b \in DOMAIN blocks \cup {p} |-> IF b = p THEN arg + 1 ELSE blocks[b]]

KmallocTake ==
  /\ Walking("kmalloc") /\ Fits
  /\ IF node[cur].size - real_size(arg) > Minimum
     THEN split(cur, real_size(arg))
     ELSE /\ node' = [node EXCEPT ![cur].is_free = FALSE]
          /\ UNCHANGED <<kernel_heap_end, overrun>>
  /\ Hand(cur + H)
  /\ Return("given")
  /\ UNCHANGED vmm_vars

KmallocAdvance ==
  /\ Walking("kmalloc") /\ ~Fits /\ cur # kernel_heap_end
  /\ cur' = Successor(cur)
  /\ UNCHANGED <<list_vars, vmm_vars, pc, arg, blocks, result, overrun>>

\* expand_heap.  The new tail never touches the old one (its address is page
\* aligned, the old tail ends H units behind a page), so it is not merged.
\* Afterwards the walk goes one node back, if there is one, and one forth.
expand_heap ==
  LET n == pages(real_size(arg))
  IN  /\ Walking("kmalloc") /\ ~Fits /\ cur = kernel_heap_end
      /\ regions' = regions \cup {<<brk, brk + n * PageUnits - 1>>}
      /\ brk' = brk + n * PageUnits
      /\ node' = [a \in Nodes \cup {brk} |->
                    CASE a = brk -> [size |-> n * PageUnits, is_free |-> TRUE,
                                     next |-> Null, prev |-> cur]
                      [] a = cur -> [node[a] EXCEPT !.next = brk]
                      [] OTHER   -> node[a]]
      /\ kernel_heap_end' = brk
      /\ cur' = IF node[cur].prev # Null THEN node'[node[cur].prev].next ELSE brk
      /\ UNCHANGED <<pc, arg, blocks, result, overrun>>

\* The walk leaves the list: NULL.
KmallocNull ==
  /\ ~overrun /\ pc = "kmalloc" /\ cur = Null
  /\ Return("null")
  /\ UNCHANGED <<list_vars, vmm_vars, blocks, overrun>>

-----------------------------------------------------------------------------
(* kfree of a pointer that a kmalloc returned                              *)

\* The test on the pointer: nothing behind kernel_heap_end is looked at.
KfreeCall ==
  /\ ~overrun /\ pc = "ready"
  /\ \E p \in DOMAIN blocks :
       /\ blocks' = [b \in DOMAIN blocks \ {p} |-> blocks[b]]
       /\ IF p > kernel_heap_end
          THEN Return("ignored")
          ELSE pc' = "kfree" /\ cur' = kernel_heap_start /\ arg' = p /\ result' = "none"
  /\ UNCHANGED <<list_vars, vmm_vars, overrun>>

KfreeAdvance ==
  /\ Walking("kfree") /\ cur + H # arg
  /\ cur' = Successor(cur)
  /\ UNCHANGED <<list_vars, vmm_vars, pc, arg, blocks, result, overrun>>

KfreeMiss ==
  /\ ~overrun /\ pc = "kfree" /\ cur = Null
  /\ Return("ignored")
  /\ UNCHANGED <<list_vars, vmm_vars, blocks, overrun>>

\* can_merge, for a neighbour that lies on the right.
can_merge(nd, l, r) ==
  l # Null /\ r # Null /\ nd[l].is_free /\ nd[r].is_free /\ l + H + nd[l].size = r

\* merge_memory_nodes.  kernel_heap_end is not touched.
merge_memory_nodes(nd, l, r) ==
  [a \in DOMAIN nd \ {r} |->
     CASE a = l          -> [nd[l] EXCEPT !.size = nd[l].size + nd[r].size + H,
                                          !.next = nd[r].next]
       [] a = nd[r].next -> [nd[a] EXCEPT !.prev = l]
       [] OTHER          -> nd[a]]

KfreeFound ==
  /\ Walking("kfree") /\ cur + H = arg
  /\ LET freed == [node EXCEPT ![cur].is_free = TRUE]
         l == node[cur].prev
         r == node[cur].next
         right == IF can_merge(freed, cur, r) THEN merge_memory_nodes(freed, cur, r) ELSE freed
     IN  node' = IF can_merge(freed, l, cur) THEN merge_memory_nodes(right, l, cur) ELSE right
  /\ Return("freed")
  /\ UNCHANGED <<kernel_heap_end, vmm_vars, blocks, overrun>>

-----------------------------------------------------------------------------
kmalloc == KmallocCall \/ KmallocTake \/ KmallocAdvance \/ expand_heap \/ KmallocNull
kfree == KfreeCall \/ KfreeAdvance \/ KfreeMiss \/ KfreeFound

Next == kmalloc \/ kfree \/ OtherVmmAlloc

\* A call goes on once it has begun; nobody has to call.
Fairness == WF_vars(pc # "ready" /\ (kmalloc \/ kfree))

Spec == Init /\ [][Next]_vars /\ Fairness

-----------------------------------------------------------------------------
(* Properties.                                                             *)

\* Header and payload of a node.
Extent(a) == a..(a + H + node[a].size - 1)

\* Splitting, merging and growing keep the list in address order, the prev of
\* a successor points back, and a node ends exactly where another one begins
\* or behind the last page of its region: nodes neither overlap nor leave a gap.
\* Between calls no two free nodes stand side by side, kfree has merged them.
ListSound ==
  /\ \A a \in Nodes :
       LET next == node[a].next
           end == a + H + node[a].size
       IN  /\ next # Null => next > a /\ node[next].prev = a
           /\ end \in Nodes \/ \E r \in regions : a <= r[2] /\ end = r[2] + 1 + H
  /\ pc = "ready" =>
       \A a, b \in Nodes : node[a].is_free /\ node[b].is_free /\ node[a].next = b =>
                            b # a + H + node[a].size

\* What kmalloc hands out: the units a caller may use lie inside a node that
\* is not free, inside the pages of the heap, and no other caller has them.
PayloadsSafe ==
  \A p \in DOMAIN blocks :
    LET used == p..(p + blocks[p] - 1)
    IN  /\ p - H \in Nodes /\ ~node[p - H].is_free
        /\ used \subseteq Extent(p - H) \cap Mapped
        /\ \A q \in DOMAIN blocks \ {p} : used \cap q..(q + blocks[q] - 1) = {}

\* A node that is in use stays so, with its size, until its own kfree.
InUseUntilFreed ==
  [][\A a \in Nodes : ~node[a].is_free =>
        \/ a \in DOMAIN node' /\ node'[a].is_free = FALSE /\ node'[a].size = node[a].size
        \/ pc = "kfree" /\ arg = a + H]_vars

\* Every walk over the list ends.
CallsReturn == pc # "ready" ~> pc = "ready"

\* What kheap.c says of expand_heap ("expand the heap in case more space is
\* needed"): kmalloc of a positive size never returns NULL.
KmallocSucceeds == result # "null"
=============================================================================
