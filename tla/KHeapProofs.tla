----------------------------- MODULE KHeapProofs -----------------------------
(***************************************************************************)
(* Proofs about KHeap, for every size of a page, every set of requests and *)
(* every bound on the heap.                                                *)
(*                                                                         *)
(* ListSound and PayloadsSafe are not inductive.  A merge keeps the nodes  *)
(* in order only because the neighbour it swallows lies in the same region *)
(* of pages; that needs the regions to be apart (a page boundary is never  *)
(* H units behind the end of another region) and every region to begin     *)
(* with a node.  A walk must stand on a node its predecessor points to,    *)
(* for after the heap has grown at a stale kernel_heap_end there are nodes *)
(* the list does not reach any more.                                       *)
(*                                                                         *)
(* What is said of the nodes is said of any function nd of the shape of    *)
(* node, so that the two merges of a kfree are two uses of one lemma.      *)
(***************************************************************************)
EXTENDS KHeap, TLAPS

Records == [size : Nat \ {0}, is_free : BOOLEAN, next : Nat \cup {Null}, prev : Nat \cup {Null}]

EndOf(nd, a) == a + H + nd[a].size

\* The links: next goes up, prev of the next goes back.
WellLinked(nd) ==
  /\ DOMAIN nd \subseteq Nat
  /\ nd = [a \in DOMAIN nd |-> nd[a]]
  /\ \A a \in DOMAIN nd : nd[a] \in Records
  /\ 0 \in DOMAIN nd /\ nd[0].prev = Null
  /\ \A a \in DOMAIN nd : nd[a].next # Null =>
       nd[a].next \in DOMAIN nd /\ nd[a].next > a /\ nd[nd[a].next].prev = a

\* The nodes of a region follow each other without gap or overlap from its
\* first unit to H units behind its last.
Tiled(nd, rs) ==
  /\ \A a \in DOMAIN nd : \E r \in rs :
       /\ r[1] <= a /\ a <= r[2]
       /\ \/ EndOf(nd, a) = r[2] + 1 + H
          \/ EndOf(nd, a) \in DOMAIN nd /\ EndOf(nd, a) <= r[2]
  /\ \A a, b \in DOMAIN nd, r \in rs : r[1] <= a /\ a < b /\ b <= r[2] => EndOf(nd, a) <= b
  /\ \A r \in rs : r[1] \in DOMAIN nd

\* x is a page boundary behind the region.
Behind(r, x) == x = r[2] + 1 \/ x > r[2] + 1 + H

RegionsApart(rs, b) ==
  /\ b \in Nat
  /\ \A r \in rs : r[1] \in Nat /\ r[2] \in Nat /\ r[1] <= r[2] /\ Behind(r, b)
  /\ \A r, s \in rs : r = s \/ Behind(r, s[1]) \/ Behind(s, r[1])

\* A free node does not touch its free successor.
FreeApart(nd, a) ==
  nd[a].next # Null /\ nd[a].is_free /\ nd[nd[a].next].is_free => nd[a].next # EndOf(nd, a)

Shape(nd, rs, b) == WellLinked(nd) /\ Tiled(nd, rs) /\ RegionsApart(rs, b)

\* What callers hold lies in nodes in use, with room for one more header.
BlocksIn(nd, bs) ==
  \A p \in DOMAIN bs :
    /\ p \in Nat /\ p - H \in DOMAIN nd /\ nd[p - H].is_free = FALSE
    /\ bs[p] \in Nat /\ bs[p] + H <= nd[p - H].size

Walk ==
  /\ pc \in {"ready", "kmalloc", "kfree"}
  /\ cur # Null => /\ cur \in Nodes
                   /\ \/ cur = 0
                      \/ node[cur].prev \in Nodes /\ node[node[cur].prev].next = cur
  /\ pc = "kmalloc" => arg \in Requests
  /\ pc = "kfree" => arg \notin DOMAIN blocks

HeapInv ==
  /\ Shape(node, regions, brk)
  /\ \A a \in Nodes : FreeApart(node, a)
  /\ BlocksIn(node, blocks)
  /\ Walk

\* The nodes in use, but for the one at address x, are left alone.
InUseKept(nd, md, x) ==
  \A a \in DOMAIN nd : nd[a].is_free = FALSE /\ a # x =>
    a \in DOMAIN md /\ md[a].is_free = FALSE /\ md[a].size = nd[a].size

-----------------------------------------------------------------------------
(* Arithmetic.                                                             *)

\* The heap grows by at least one page.
LEMMA PagesPositive ==
  ASSUME NEW q \in Nat
  PROVE  /\ pages(real_size(q)) * PageUnits \in Nat
         /\ pages(real_size(q)) * PageUnits > H
<1>1. PageUnits \in Nat /\ PageUnits > H
  BY KHeapAssumption
<1> DEFINE x == real_size(q) + PageUnits - 1
           n == x \div PageUnits
<1>2. x \in Nat /\ x >= PageUnits
  BY <1>1 DEF real_size, H
<1>3. n \in Nat /\ n >= 1
  <2> HIDE DEF x
  <2> QED BY <1>1, <1>2 DEF H
<1>4. n * PageUnits \in Nat /\ n * PageUnits >= PageUnits
  <2> HIDE DEF n
  <2> QED BY <1>1, <1>3
<1> QED BY <1>1, <1>4 DEF pages, H

-----------------------------------------------------------------------------
(* Merging.                                                                *)

\* A node that begins where another one ends lies in the same region.
LEMMA SameRegion ==
  ASSUME NEW nd, NEW rs, NEW b, Shape(nd, rs, b),
         NEW l \in DOMAIN nd, NEW r \in DOMAIN nd, EndOf(nd, l) = r
  PROVE  \E g \in rs : /\ g[1] <= l /\ l < r /\ r <= g[2]
                       /\ \/ EndOf(nd, r) = g[2] + 1 + H
                          \/ EndOf(nd, r) \in DOMAIN nd /\ EndOf(nd, r) <= g[2]
<1>1. /\ l \in Nat /\ r \in Nat /\ nd[l].size \in Nat \ {0} /\ nd[r].size \in Nat \ {0}
      /\ r = l + H + nd[l].size
  BY DEF Shape, WellLinked, Records, EndOf
<1>2. PICK g \in rs : /\ g[1] <= l /\ l <= g[2]
                      /\ \/ EndOf(nd, l) = g[2] + 1 + H
                         \/ EndOf(nd, l) \in DOMAIN nd /\ EndOf(nd, l) <= g[2]
  BY DEF Shape, Tiled
<1>3. PICK f \in rs : /\ f[1] <= r /\ r <= f[2]
                      /\ \/ EndOf(nd, r) = f[2] + 1 + H
                         \/ EndOf(nd, r) \in DOMAIN nd /\ EndOf(nd, r) <= f[2]
  BY DEF Shape, Tiled
<1>4. /\ g[1] \in Nat /\ g[2] \in Nat /\ f[1] \in Nat /\ f[2] \in Nat
      /\ g = f \/ Behind(g, f[1]) \/ Behind(f, g[1])
  BY DEF Shape, RegionsApart
<1>5. ~Behind(f, g[1])
  BY <1>1, <1>2, <1>3, <1>4 DEF Behind, H
<1>6. ASSUME Behind(g, f[1]) PROVE FALSE
  <2>1. f[1] > g[2] /\ r > g[2]
    BY <1>2, <1>3, <1>4, <1>6, <1>1 DEF Behind, H
  <2>2. r = g[2] + 1 + H /\ f[1] = g[2] + 1
    BY <1>1, <1>2, <1>3, <1>4, <1>6, <2>1 DEF Behind, H
  <2>3. /\ f[1] \in DOMAIN nd /\ nd[f[1]].size \in Nat \ {0}
        /\ EndOf(nd, f[1]) = f[1] + H + nd[f[1]].size
    BY DEF Shape, Tiled, WellLinked, Records, EndOf
  <2>4. EndOf(nd, f[1]) <= r
    BY <1>3, <1>4, <2>2, <2>3 DEF Shape, Tiled, H
  <2> QED BY <1>1, <1>4, <2>2, <2>3, <2>4 DEF H
<1>7. g = f
  BY <1>4, <1>5, <1>6
<1> QED BY <1>1, <1>2, <1>3, <1>7 DEF H

\* The fields of the nodes after a merge.
Merged(nd, l, r, md) ==
  /\ DOMAIN md = DOMAIN nd \ {r} /\ md = [a \in DOMAIN md |-> md[a]]
  /\ \A a \in DOMAIN md : md[a] \in Records
  /\ md[l].size = nd[l].size + nd[r].size + H
  /\ md[l].is_free = nd[l].is_free
  /\ md[l].next = nd[r].next /\ md[l].prev = nd[l].prev
  /\ \A a \in DOMAIN md \ {l} :
       /\ md[a].size = nd[a].size /\ md[a].is_free = nd[a].is_free
       /\ md[a].next = nd[a].next
       /\ md[a].prev = IF a = nd[r].next THEN l ELSE nd[a].prev

\* What merge_memory_nodes does to each field.
LEMMA MergeFields ==
  ASSUME NEW nd, WellLinked(nd), NEW l \in DOMAIN nd, NEW r \in DOMAIN nd, nd[l].next = r
  PROVE  Merged(nd, l, r, merge_memory_nodes(nd, l, r))
<1>0. PICK md : md = merge_memory_nodes(nd, l, r)
  OBVIOUS
<1>1. /\ l \in Nat /\ r \in Nat /\ r > l /\ nd[l] \in Records /\ nd[r] \in Records
      /\ r # Null /\ Null \notin Nat
      /\ nd[r].next # Null => nd[r].next \in Nat /\ nd[r].next > r
  <2>1. Null \notin Nat
    BY KHeapAssumption
  <2> QED BY <2>1 DEF WellLinked
<1> DEFINE s == nd[l].size + nd[r].size + H
           n == nd[r].next
           x == [nd[l] EXCEPT !.size = s, !.next = n]
           y(a) == [nd[a] EXCEPT !.prev = l]
<1>2. s \in Nat \ {0} /\ n \in Nat \cup {Null}
  BY <1>1 DEF Records, H
<1>3. /\ x \in Records /\ x.size = s /\ x.is_free = nd[l].is_free /\ x.next = n
      /\ x.prev = nd[l].prev
  <2> HIDE DEF s, n
  <2> QED BY <1>1, <1>2, Zenon DEF Records
<1>4. ASSUME NEW a \in DOMAIN nd
      PROVE  /\ y(a) \in Records /\ y(a).size = nd[a].size /\ y(a).is_free = nd[a].is_free
             /\ y(a).next = nd[a].next /\ y(a).prev = l
  <2>1. nd[a] \in Records
    BY DEF WellLinked
  <2> QED BY <1>1, <2>1 DEF Records
<1>5. md = [a \in DOMAIN nd \ {r} |->
              CASE a = l -> x [] a = n -> y(a) [] OTHER -> nd[a]]
  BY <1>0 DEF merge_memory_nodes
<1> HIDE DEF x, y, s, n
<1>6. DOMAIN md = DOMAIN nd \ {r} /\ md = [a \in DOMAIN md |-> md[a]]
  BY <1>5
<1>7. l # r /\ l # n
  BY <1>1 DEF n
<1>8. md[l] = x
  BY <1>5, <1>7
<1>9. ASSUME NEW a \in DOMAIN nd \ {r, l}
      PROVE  md[a] = IF a = n THEN y(a) ELSE nd[a]
  BY <1>5
<1>10. ASSUME NEW a \in DOMAIN nd \ {r, l}
       PROVE  /\ md[a] \in Records
              /\ md[a].size = nd[a].size /\ md[a].is_free = nd[a].is_free
              /\ md[a].next = nd[a].next
              /\ md[a].prev = IF a = n THEN l ELSE nd[a].prev
  <2>1. CASE a = n
    BY <1>4, <1>9, <2>1
  <2>2. CASE a # n
    BY <1>9, <2>2 DEF WellLinked
  <2> QED BY <2>1, <2>2
<1> QED BY <1>0, <1>3, <1>6, <1>7, <1>8, <1>10 DEF s, n, Merged

\* Merging a node with the one that begins where it ends keeps the shape.
LEMMA MergeShape ==
  ASSUME NEW nd, NEW rs, NEW b, Shape(nd, rs, b),
         NEW l \in DOMAIN nd, NEW r \in DOMAIN nd, nd[l].next = r, EndOf(nd, l) = r
  PROVE  Shape(merge_memory_nodes(nd, l, r), rs, b)
<1>0. PICK md : md = merge_memory_nodes(nd, l, r)
  OBVIOUS
<1>1. /\ DOMAIN md = DOMAIN nd \ {r} /\ md = [a \in DOMAIN md |-> md[a]]
      /\ \A a \in DOMAIN md : md[a] \in Records
      /\ md[l].size = nd[l].size + nd[r].size + H
      /\ md[l].next = nd[r].next /\ md[l].prev = nd[l].prev
      /\ \A a \in DOMAIN md \ {l} :
           /\ md[a].size = nd[a].size
           /\ md[a].next = nd[a].next
           /\ md[a].prev = IF a = nd[r].next THEN l ELSE nd[a].prev
  <2>1. Merged(nd, l, r, md)
    BY <1>0, MergeFields DEF Shape
  <2> QED BY <2>1 DEF Merged
<1>2. Null \notin Nat
  BY KHeapAssumption
<1>3. /\ DOMAIN nd \subseteq Nat /\ 0 \in DOMAIN nd /\ nd[0].prev = Null
      /\ \A a \in DOMAIN nd : nd[a].next # Null =>
           nd[a].next \in DOMAIN nd /\ nd[a].next > a /\ nd[nd[a].next].prev = a
      /\ \A a \in DOMAIN nd : nd[a].size \in Nat \ {0}
  BY DEF Shape, WellLinked, Records
<1>4. l \in Nat /\ r \in Nat /\ r > l /\ nd[r].prev = l /\ r # Null
  BY <1>2, <1>3
<1>5. WellLinked(md)
  <2>1. 0 \in DOMAIN md /\ md[0].prev = Null
    <3>1. 0 # r /\ (nd[r].next # Null => nd[r].next # 0)
      BY <1>3, <1>4
    <3>2. 0 # nd[r].next
      BY <1>2, <3>1
    <3> QED BY <1>1, <1>3, <3>1, <3>2
  <2>2. ASSUME NEW a \in DOMAIN md, md[a].next # Null
        PROVE  md[a].next \in DOMAIN md /\ md[a].next > a /\ md[md[a].next].prev = a
    <3>1. CASE a = l
      <4>1. /\ md[a].next = nd[r].next /\ nd[r].next \in DOMAIN nd /\ nd[r].next > r
        BY <1>1, <1>3, <2>2, <3>1
      <4>2. nd[r].next \in DOMAIN md \ {l}
        BY <1>1, <1>3, <1>4, <4>1
      <4> QED BY <1>1, <1>3, <1>4, <3>1, <4>1, <4>2
    <3>2. CASE a # l
      <4> DEFINE c == nd[a].next
      <4>1. /\ md[a].next = c /\ c \in DOMAIN nd /\ c > a /\ nd[c].prev = a
        BY <1>1, <1>3, <2>2, <3>2
      <4>2. c # r
        BY <1>4, <3>2, <4>1
      <4>3. c # nd[r].next
        <5>1. nd[r].next # Null => nd[nd[r].next].prev = r
          BY <1>3
        <5>2. a # r
          BY <1>1
        <5> QED BY <1>2, <1>3, <4>1, <5>1, <5>2
      <4>4. md[c].prev = a
        BY <1>1, <4>1, <4>2, <4>3
      <4> QED BY <1>1, <4>1, <4>2, <4>4
    <3> QED BY <3>1, <3>2
  <2> QED BY <1>1, <1>3, <2>1, <2>2 DEF WellLinked
<1>6. PICK g \in rs : /\ g[1] <= l /\ l < r /\ r <= g[2]
                      /\ \/ EndOf(nd, r) = g[2] + 1 + H
                         \/ EndOf(nd, r) \in DOMAIN nd /\ EndOf(nd, r) <= g[2]
  BY SameRegion
<1>7. \A f \in rs : f[1] \in Nat /\ f[2] \in Nat
  BY DEF Shape, RegionsApart
<1>8. ASSUME NEW f \in rs, f[1] <= r, r <= f[2] PROVE f = g
  <2>1. f = g \/ Behind(f, g[1]) \/ Behind(g, f[1])
    BY DEF Shape, RegionsApart
  <2> QED BY <1>4, <1>6, <1>7, <1>8, <2>1 DEF Behind, H
<1>9. EndOf(md, l) = EndOf(nd, r) /\ EndOf(nd, r) > r
  BY <1>1, <1>3, <1>4 DEF EndOf, H
<1>10. \A a \in DOMAIN md \ {l} : EndOf(md, a) = EndOf(nd, a)
  BY <1>1 DEF EndOf
<1>11. \A a \in DOMAIN nd : EndOf(nd, a) > a
  BY <1>3 DEF EndOf, H
<1>12. \A a, c \in DOMAIN nd, f \in rs : f[1] <= a /\ a < c /\ c <= f[2] => EndOf(nd, a) <= c
  BY DEF Shape, Tiled
<1>13. Tiled(md, rs)
  <2>1. ASSUME NEW a \in DOMAIN md
        PROVE  \E f \in rs :
                 /\ f[1] <= a /\ a <= f[2]
                 /\ \/ EndOf(md, a) = f[2] + 1 + H
                    \/ EndOf(md, a) \in DOMAIN md /\ EndOf(md, a) <= f[2]
    <3>1. CASE a = l
      <4>1. EndOf(nd, r) # r /\ l <= g[2]
        BY <1>3, <1>4, <1>6, <1>7, <1>9, <1>11
      <4> QED BY <1>1, <1>6, <1>9, <3>1, <4>1
    <3>2. CASE a # l
      <4>1. PICK f \in rs : /\ f[1] <= a /\ a <= f[2]
                            /\ \/ EndOf(nd, a) = f[2] + 1 + H
                               \/ EndOf(nd, a) \in DOMAIN nd /\ EndOf(nd, a) <= f[2]
        BY <1>1 DEF Shape, Tiled
      <4>2. ASSUME EndOf(nd, a) \in DOMAIN nd, EndOf(nd, a) <= f[2] PROVE EndOf(nd, a) # r
        <5>1. SUFFICES ASSUME EndOf(nd, a) = r PROVE FALSE
          OBVIOUS
        <5>2. a \in Nat /\ a < r /\ a \in DOMAIN nd /\ a # r
          BY <1>1, <1>3, <1>11, <5>1
        <5>3. f = g
          BY <1>3, <1>4, <1>7, <1>8, <4>1, <4>2, <5>1, <5>2
        <5>4. CASE a < l
          <6>1. l <= g[2]
            BY <1>4, <1>6, <1>7
          <6>2. EndOf(nd, a) <= l
            BY <1>12, <4>1, <5>2, <5>3, <5>4, <6>1
          <6> QED BY <1>4, <5>1, <6>2
        <5>5. CASE l < a
          BY <1>4, <1>6, <1>12, <4>1, <5>2, <5>3, <5>5
        <5> QED BY <1>4, <3>2, <5>2, <5>4, <5>5
      <4> QED BY <1>1, <1>10, <3>2, <4>1, <4>2
    <3> QED BY <3>1, <3>2
  <2>2. ASSUME NEW a \in DOMAIN md, NEW c \in DOMAIN md, NEW f \in rs,
               f[1] <= a, a < c, c <= f[2]
        PROVE  EndOf(md, a) <= c
    <3>1. a \in DOMAIN nd /\ c \in DOMAIN nd /\ c # r /\ a \in Nat /\ c \in Nat
      BY <1>1, <1>3
    <3>2. EndOf(nd, a) <= c
      BY <1>12, <2>2, <3>1
    <3>3. CASE a = l
      <4>1. r < c
        BY <1>4, <3>1, <3>2, <3>3
      <4>2. f[1] <= r
        BY <1>4, <1>7, <2>2, <3>3
      <4> QED BY <1>9, <1>12, <2>2, <3>1, <3>3, <4>1, <4>2
    <3>4. CASE a # l
      BY <1>10, <3>2, <3>4
    <3> QED BY <3>3, <3>4
  <2>3. ASSUME NEW f \in rs PROVE f[1] \in DOMAIN md
    <3>1. f[1] \in DOMAIN nd /\ f[1] <= f[2]
      BY DEF Shape, Tiled, RegionsApart
    <3>2. f[1] # r
      BY <1>4, <1>6, <1>7, <1>8, <3>1
    <3> QED BY <1>1, <3>1, <3>2
  <2> QED BY <2>1, <2>2, <2>3 DEF Tiled
<1> QED BY <1>0, <1>5, <1>13 DEF Shape

\* A merge does not bring free nodes together, and leaves nodes in use alone.
LEMMA MergeFree ==
  ASSUME NEW nd, WellLinked(nd), NEW l \in DOMAIN nd, NEW r \in DOMAIN nd,
         nd[l].next = r, EndOf(nd, l) = r,
         nd[l].is_free = TRUE, nd[r].is_free = TRUE, FreeApart(nd, r),
         NEW md, md = merge_memory_nodes(nd, l, r)
  PROVE  /\ FreeApart(md, l)
         /\ \A a \in DOMAIN md : FreeApart(nd, a) => FreeApart(md, a)
         /\ \A x : InUseKept(nd, md, x)
<1>1. /\ DOMAIN md = DOMAIN nd \ {r}
      /\ md[l].size = nd[l].size + nd[r].size + H
      /\ md[l].is_free = nd[l].is_free
      /\ md[l].next = nd[r].next
      /\ \A a \in DOMAIN md \ {l} :
           /\ md[a].size = nd[a].size /\ md[a].is_free = nd[a].is_free
           /\ md[a].next = nd[a].next
  <2>1. Merged(nd, l, r, md)
    BY MergeFields
  <2> QED BY <2>1 DEF Merged
<1>2. /\ DOMAIN nd \subseteq Nat
      /\ \A a \in DOMAIN nd : nd[a].next # Null =>
           nd[a].next \in DOMAIN nd /\ nd[a].next > a /\ nd[nd[a].next].prev = a
      /\ \A a \in DOMAIN nd : nd[a].size \in Nat \ {0}
      /\ r # Null /\ l # r
  <2>1. Null \notin Nat
    BY KHeapAssumption
  <2> QED BY <2>1 DEF WellLinked, Records
<1>3. \A a \in DOMAIN md : md[a].is_free = nd[a].is_free
  BY <1>1
<1>4. FreeApart(md, l)
  <2>1. SUFFICES ASSUME md[l].next # Null, md[md[l].next].is_free PROVE md[l].next # EndOf(md, l)
    BY DEF FreeApart
  <2>2. /\ nd[r].next \in DOMAIN nd \ {r} /\ nd[nd[r].next].is_free
    BY <1>1, <1>2, <1>3, <2>1
  <2>3. nd[r].next # EndOf(nd, r)
    BY <1>1, <2>1, <2>2 DEF FreeApart
  <2>4. EndOf(md, l) = EndOf(nd, r)
    BY <1>1, <1>2 DEF EndOf, H
  <2> QED BY <1>1, <2>3, <2>4
<1>5. ASSUME NEW a \in DOMAIN md, a # l, FreeApart(nd, a) PROVE FreeApart(md, a)
  <2>1. SUFFICES ASSUME md[a].next # Null, md[a].is_free, md[md[a].next].is_free
                 PROVE  md[a].next # EndOf(md, a)
    BY DEF FreeApart
  <2>2. /\ md[a].next = nd[a].next /\ nd[a].next \in DOMAIN nd /\ nd[nd[a].next].prev = a
        /\ md[a].size = nd[a].size /\ nd[r].prev = l
    BY <1>1, <1>2, <1>5, <2>1
  <2>3. nd[a].next # r
    BY <1>5, <2>2
  <2> QED BY <1>1, <1>3, <1>5, <2>1, <2>2, <2>3 DEF FreeApart, EndOf
<1>6. ASSUME NEW x PROVE InUseKept(nd, md, x)
  BY <1>1 DEF InUseKept
<1> QED BY <1>4, <1>5, <1>6

-----------------------------------------------------------------------------
(* The flag of a node.                                                     *)

\* Only the flag of one node changes.
Flagged(nd, c, v, md) ==
  /\ DOMAIN md = DOMAIN nd /\ md = [a \in DOMAIN md |-> md[a]]
  /\ \A a \in DOMAIN nd :
       /\ md[a] \in Records
       /\ md[a].size = nd[a].size /\ md[a].next = nd[a].next /\ md[a].prev = nd[a].prev
  /\ md[c].is_free = v
  /\ \A a \in DOMAIN nd \ {c} : md[a].is_free = nd[a].is_free

\* Taking a node whole, or freeing it, changes its flag and nothing else.
LEMMA FlagFields ==
  ASSUME NEW nd, WellLinked(nd), NEW c \in DOMAIN nd, NEW v \in BOOLEAN
  PROVE  Flagged(nd, c, v, [nd EXCEPT ![c].is_free = v])
<1> DEFINE x == [nd[c] EXCEPT !.is_free = v]
           md == [nd EXCEPT ![c] = x]
<1>1. nd[c] \in Records /\ nd = [a \in DOMAIN nd |-> nd[a]] /\ \A a \in DOMAIN nd : nd[a] \in Records
  BY DEF WellLinked
<1>2. /\ x \in Records /\ x.size = nd[c].size /\ x.is_free = v /\ x.next = nd[c].next
      /\ x.prev = nd[c].prev
  BY <1>1 DEF Records
<1> HIDE DEF x
<1>3. DOMAIN md = DOMAIN nd /\ md = [a \in DOMAIN md |-> md[a]]
  BY <1>1
<1>4. md[c] = x /\ \A a \in DOMAIN nd \ {c} : md[a] = nd[a]
  BY <1>1
<1> HIDE DEF md
<1>5. Flagged(nd, c, v, md)
  BY <1>1, <1>2, <1>3, <1>4 DEF Flagged
<1> QED BY <1>5 DEF md, x

\* The shape does not depend on the flags.
LEMMA FlagShape ==
  ASSUME NEW nd, NEW rs, NEW b, Shape(nd, rs, b), NEW c \in DOMAIN nd, NEW v \in BOOLEAN,
         NEW md, Flagged(nd, c, v, md)
  PROVE  Shape(md, rs, b)
<1>1. WellLinked(md)
  BY DEF Shape, WellLinked, Flagged
<1>2. \A a \in DOMAIN nd : EndOf(md, a) = EndOf(nd, a)
  BY DEF Flagged, EndOf
<1>3. Tiled(md, rs)
  BY <1>2 DEF Shape, Tiled, Flagged
<1> QED BY <1>1, <1>3 DEF Shape

-----------------------------------------------------------------------------
(* Splitting.                                                              *)

\* The fields of the nodes after a split.
Divided(c, r, md) ==
  LET new == c + H + r
  IN  /\ DOMAIN md = Nodes \cup {new} /\ md = [a \in DOMAIN md |-> md[a]]
      /\ \A a \in DOMAIN md : md[a] \in Records
      /\ md[c].size = r /\ md[c].is_free = FALSE /\ md[c].next = new
      /\ md[c].prev = node[c].prev
      /\ md[new].size = node[c].size - (r + H) /\ md[new].is_free = TRUE
      /\ md[new].next = node[c].next /\ md[new].prev = c
      /\ \A a \in Nodes \ {c} :
           /\ md[a].size = node[a].size /\ md[a].is_free = node[a].is_free
           /\ md[a].next = node[a].next
           /\ md[a].prev = IF a = node[c].next THEN new ELSE node[a].prev

\* What create_kheap_node does to each field.
LEMMA SplitFields ==
  ASSUME WellLinked(node), NEW c \in Nodes, NEW r \in Nat \ {0},
         node[c].size - r > Minimum, c + H + r \notin Nodes
  PROVE  Divided(c, r, create_kheap_node(c, r))
<1> DEFINE new == c + H + r
           n == node[c].next
           s == node[c].size - (r + H)
           x == [node[c] EXCEPT !.is_free = FALSE, !.size = r, !.next = new]
           z == [size |-> s, is_free |-> TRUE, next |-> n, prev |-> c]
           y(a) == [node[a] EXCEPT !.prev = new]
           md == [a \in Nodes \cup {new} |->
                    CASE a = c -> x [] a = new -> z [] a = n -> y(a) [] OTHER -> node[a]]
<1>1. /\ c \in Nat /\ node[c] \in Records /\ new \in Nat /\ s \in Nat \ {0} /\ n \in Nat \cup {Null}
      /\ Null \notin Nat /\ new # c /\ n # c /\ n # new
  <2>1. Null \notin Nat
    BY KHeapAssumption
  <2>2. c \in Nat /\ node[c] \in Records /\ (node[c].next # Null => node[c].next \in Nodes /\ node[c].next > c)
    BY DEF WellLinked, Nodes
  <2>3. node[c].size \in Nat
    BY <2>2 DEF Records
  <2>4. n \in Nat \cup {Null}
    BY <2>2 DEF Records
  <2> QED BY <2>1, <2>2, <2>3, <2>4 DEF H, Minimum
<1>2. md = create_kheap_node(c, r)
  BY DEF create_kheap_node
<1>3. /\ x \in Records /\ x.size = r /\ x.is_free = FALSE /\ x.next = new /\ x.prev = node[c].prev
  <2> HIDE DEF new
  <2> QED BY <1>1, Zenon DEF Records
<1>4. z \in Records /\ z.size = s /\ z.is_free = TRUE /\ z.next = n /\ z.prev = c
  <2> HIDE DEF s, n
  <2> QED BY <1>1 DEF Records
<1>5. ASSUME NEW a \in Nodes
      PROVE  /\ y(a) \in Records /\ y(a).size = node[a].size /\ y(a).is_free = node[a].is_free
             /\ y(a).next = node[a].next /\ y(a).prev = new
  <2>1. node[a] \in Records
    BY DEF WellLinked, Nodes
  <2> HIDE DEF new
  <2> QED BY <1>1, <2>1 DEF Records
<1> HIDE DEF x, y, z, s, n, new
<1>6. DOMAIN md = Nodes \cup {new} /\ md = [a \in DOMAIN md |-> md[a]]
  OBVIOUS
<1>7. md[c] = x /\ md[new] = z
  BY <1>1
<1>8. ASSUME NEW a \in Nodes \ {c}
      PROVE  md[a] = IF a = n THEN y(a) ELSE node[a]
  BY DEF new
<1> HIDE DEF md
<1>9. ASSUME NEW a \in Nodes \ {c}
      PROVE  /\ md[a] \in Records
             /\ md[a].size = node[a].size /\ md[a].is_free = node[a].is_free
             /\ md[a].next = node[a].next
             /\ md[a].prev = IF a = n THEN new ELSE node[a].prev
  <2>1. CASE a = n
    BY <1>5, <1>8, <2>1
  <2>2. CASE a # n
    BY <1>8, <2>2 DEF WellLinked, Nodes
  <2> QED BY <2>1, <2>2
<1>10. Divided(c, r, md)
  BY <1>3, <1>4, <1>6, <1>7, <1>9 DEF s, n, new, Divided
<1> QED BY <1>2, <1>10

\* The new node begins inside the pages of the region, and no node is there.
LEMMA SplitPlace ==
  ASSUME Shape(node, regions, brk), NEW c \in Nodes, NEW r \in Nat \ {0},
         node[c].size - r > Minimum
  PROVE  /\ c + H + r \notin Nodes
         /\ \E g \in regions :
              /\ g[1] <= c /\ c + H + r <= g[2]
              /\ \/ EndOf(node, c) = g[2] + 1 + H
                 \/ EndOf(node, c) \in Nodes /\ EndOf(node, c) <= g[2]
<1>1. c \in Nat /\ node[c].size \in Nat
  BY DEF Shape, WellLinked, Records, Nodes
<1>2. PICK g \in regions :
        /\ g[1] <= c /\ c <= g[2]
        /\ \/ EndOf(node, c) = g[2] + 1 + H
           \/ EndOf(node, c) \in Nodes /\ EndOf(node, c) <= g[2]
  BY DEF Shape, Tiled, Nodes
<1>3. g[1] \in Nat /\ g[2] \in Nat
  BY DEF Shape, RegionsApart
<1>4. c + H + r <= g[2]
  BY <1>1, <1>2, <1>3 DEF EndOf, H, Minimum
<1>5. ASSUME c + H + r \in Nodes PROVE FALSE
  <2>1. c < c + H + r
    BY <1>1 DEF H
  <2>2. EndOf(node, c) <= c + H + r
    BY <1>2, <1>4, <1>5, <2>1 DEF Shape, Tiled, Nodes
  <2> QED BY <1>1, <2>2 DEF EndOf, H, Minimum
<1> QED BY <1>2, <1>4, <1>5

\* Splitting a node keeps the shape.
LEMMA SplitShape ==
  ASSUME Shape(node, regions, brk), NEW c \in Nodes, NEW r \in Nat \ {0},
         node[c].size - r > Minimum, NEW md, Divided(c, r, md)
  PROVE  Shape(md, regions, brk)
<1>0. PICK new : new = c + H + r
  OBVIOUS
<1>1. /\ DOMAIN md = Nodes \cup {new} /\ md = [a \in DOMAIN md |-> md[a]]
      /\ \A a \in DOMAIN md : md[a] \in Records
      /\ md[c].size = r /\ md[c].next = new /\ md[c].prev = node[c].prev
      /\ md[new].size = node[c].size - (r + H)
      /\ md[new].next = node[c].next /\ md[new].prev = c
      /\ \A a \in Nodes \ {c} :
           /\ md[a].size = node[a].size /\ md[a].next = node[a].next
           /\ md[a].prev = IF a = node[c].next THEN new ELSE node[a].prev
  BY <1>0 DEF Divided
<1>2. Null \notin Nat
  BY KHeapAssumption
<1>3. /\ Nodes \subseteq Nat /\ 0 \in Nodes /\ node[0].prev = Null
      /\ \A a \in Nodes : node[a].next # Null =>
           node[a].next \in Nodes /\ node[a].next > a /\ node[node[a].next].prev = a
      /\ \A a \in Nodes : node[a].size \in Nat \ {0}
  BY DEF Shape, WellLinked, Records, Nodes
<1>4. PICK g \in regions :
        /\ g[1] <= c /\ new <= g[2]
        /\ \/ EndOf(node, c) = g[2] + 1 + H
           \/ EndOf(node, c) \in Nodes /\ EndOf(node, c) <= g[2]
  BY <1>0, SplitPlace
<1>5. new \notin Nodes /\ c \in Nat /\ new \in Nat /\ c < new
  BY <1>0, <1>3, SplitPlace DEF H
<1>6. \A f \in regions : f[1] \in Nat /\ f[2] \in Nat
  BY DEF Shape, RegionsApart
<1>7. \A a, b \in Nodes, f \in regions : f[1] <= a /\ a < b /\ b <= f[2] => EndOf(node, a) <= b
  BY DEF Shape, Tiled, Nodes
<1>8. /\ EndOf(md, new) = EndOf(node, c) /\ EndOf(md, c) = new /\ EndOf(node, c) > new
      /\ EndOf(node, c) \in Nat
      /\ \A a \in Nodes \ {c} : EndOf(md, a) = EndOf(node, a)
  BY <1>0, <1>1, <1>3, <1>5 DEF EndOf, H, Minimum
<1>9. ASSUME NEW f \in regions, NEW x \in Nat, f[1] <= x, x <= f[2], g[1] <= x, x <= g[2]
      PROVE  f = g
  <2>1. f = g \/ Behind(f, g[1]) \/ Behind(g, f[1])
    BY DEF Shape, RegionsApart
  <2> QED BY <1>6, <1>9, <2>1 DEF Behind, H
\* A node above c is above the new one.
<1>10. ASSUME NEW b \in Nodes, b > c PROVE b > new
  <2>1. b \in Nat
    BY <1>3
  <2>2. CASE b <= g[2]
    <3>1. EndOf(node, c) <= b
      BY <1>4, <1>7, <1>10, <2>2
    <3> QED BY <1>5, <1>8, <2>1, <3>1
  <2>3. CASE ~(b <= g[2])
    BY <1>4, <1>5, <1>6, <2>1, <2>3
  <2> QED BY <2>2, <2>3
<1>11. WellLinked(md)
  <2>1. 0 \in DOMAIN md /\ md[0].prev = Null
    <3>1. 0 # node[c].next
      <4>1. node[c].next # Null => node[c].next # 0
        BY <1>3, <1>5
      <4> QED BY <1>2, <4>1
    <3> QED BY <1>1, <1>3, <3>1
  <2>2. ASSUME NEW a \in DOMAIN md, md[a].next # Null
        PROVE  md[a].next \in DOMAIN md /\ md[a].next > a /\ md[md[a].next].prev = a
    <3>1. CASE a = c
      BY <1>1, <1>5, <3>1
    <3>2. CASE a = new
      <4>1. node[c].next \in Nodes /\ node[c].next > c /\ md[a].next = node[c].next
        BY <1>1, <1>3, <2>2, <3>2
      <4>2. node[c].next > new
        BY <1>10, <4>1
      <4>3. node[c].next # c
        BY <1>3, <1>5, <4>1
      <4> QED BY <1>1, <3>2, <4>1, <4>2, <4>3
    <3>3. CASE a \in Nodes \ {c}
      <4> DEFINE d == node[a].next
      <4>1. md[a].next = d /\ d \in Nodes /\ d > a /\ node[d].prev = a
        BY <1>1, <1>3, <2>2, <3>3
      <4>2. d # node[c].next
        <5>1. node[c].next # Null => node[node[c].next].prev = c
          BY <1>3
        <5> QED BY <1>2, <1>3, <3>3, <4>1, <5>1, Zenon
      <4>3. md[d].prev = a
        BY <1>1, <4>1, <4>2
      <4> QED BY <1>1, <4>1, <4>3
    <3> QED BY <1>1, <3>1, <3>2, <3>3
  <2> QED BY <1>1, <1>3, <1>5, <2>1, <2>2 DEF WellLinked
<1>12. Tiled(md, regions)
  <2>1. ASSUME NEW a \in DOMAIN md
        PROVE  \E f \in regions :
                 /\ f[1] <= a /\ a <= f[2]
                 /\ \/ EndOf(md, a) = f[2] + 1 + H
                    \/ EndOf(md, a) \in DOMAIN md /\ EndOf(md, a) <= f[2]
    <3>1. CASE a = c
      <4>1. c <= g[2]
        BY <1>4, <1>5, <1>6
      <4> QED BY <1>1, <1>4, <1>8, <3>1, <4>1
    <3>2. CASE a = new
      <4>1. g[1] <= new
        BY <1>4, <1>5, <1>6
      <4> QED BY <1>1, <1>4, <1>8, <3>2, <4>1
    <3>3. CASE a \in Nodes \ {c}
      <4>1. PICK f \in regions :
              /\ f[1] <= a /\ a <= f[2]
              /\ \/ EndOf(node, a) = f[2] + 1 + H
                 \/ EndOf(node, a) \in Nodes /\ EndOf(node, a) <= f[2]
        BY <3>3 DEF Shape, Tiled, Nodes
      <4> QED BY <1>1, <1>8, <3>3, <4>1
    <3> QED BY <1>1, <3>1, <3>2, <3>3
  <2>2. ASSUME NEW a \in DOMAIN md, NEW b \in DOMAIN md, NEW f \in regions,
               f[1] <= a, a < b, b <= f[2]
        PROVE  EndOf(md, a) <= b
    <3>1. CASE b = new
      <4>1. a \in Nodes /\ a \in Nat
        BY <1>1, <1>3, <1>5, <2>2, <3>1
      <4>2. f = g
        BY <1>4, <1>5, <1>6, <1>9, <2>2, <3>1, <4>1
      <4>3. CASE a = c
        BY <1>5, <1>8, <3>1, <4>3
      <4>4. CASE a < c
        <5>1. c <= f[2]
          BY <1>4, <1>5, <1>6, <4>2
        <5>2. EndOf(node, a) <= c
          BY <1>7, <2>2, <4>1, <4>4, <5>1
        <5>3. EndOf(node, a) \in Nat
          BY <1>3, <4>1 DEF EndOf, H
        <5> QED BY <1>5, <1>8, <3>1, <4>1, <4>4, <5>2, <5>3
      <4>5. CASE a > c
        BY <1>10, <2>2, <3>1, <4>1, <4>5, <1>5
      <4> QED BY <1>5, <4>1, <4>3, <4>4, <4>5
    <3>2. CASE a = new
      <4>1. b \in Nodes /\ b \in Nat
        BY <1>1, <1>3, <1>5, <2>2, <3>2
      <4>2. f = g
        BY <1>4, <1>5, <1>6, <1>9, <2>2, <3>2, <4>1
      <4>3. EndOf(node, c) <= b
        BY <1>4, <1>5, <1>7, <2>2, <3>2, <4>1, <4>2
      <4> QED BY <1>8, <3>2, <4>3
    <3>3. CASE a = c /\ b \in Nodes
      <4>1. b \in Nat /\ b > new
        BY <1>3, <1>10, <2>2, <3>3
      <4> QED BY <1>5, <1>8, <3>3, <4>1
    <3>4. CASE a \in Nodes \ {c} /\ b \in Nodes
      BY <1>7, <1>8, <2>2, <3>4
    <3> QED BY <1>1, <3>1, <3>2, <3>3, <3>4
  <2>3. \A f \in regions : f[1] \in DOMAIN md
    BY <1>1 DEF Shape, Tiled, Nodes
  <2> QED BY <2>1, <2>2, <2>3 DEF Tiled
<1> QED BY <1>11, <1>12 DEF Shape

\* The two halves of a split are not both free, and nodes in use stay.
LEMMA SplitFree ==
  ASSUME WellLinked(node), NEW c \in Nodes, NEW r \in Nat \ {0},
         node[c].is_free = TRUE, c + H + r \notin Nodes,
         \A a \in Nodes : FreeApart(node, a), NEW md, Divided(c, r, md)
  PROVE  /\ \A a \in DOMAIN md : FreeApart(md, a)
         /\ \A x : InUseKept(node, md, x)
<1>0. PICK new : new = c + H + r
  OBVIOUS
<1>1. /\ DOMAIN md = Nodes \cup {new}
      /\ md[c].size = r /\ md[c].is_free = FALSE /\ md[c].next = new
      /\ md[new].size = node[c].size - (r + H) /\ md[new].is_free = TRUE
      /\ md[new].next = node[c].next
      /\ \A a \in Nodes \ {c} :
           /\ md[a].size = node[a].size /\ md[a].is_free = node[a].is_free
           /\ md[a].next = node[a].next
  BY <1>0 DEF Divided
<1>2. /\ Nodes \subseteq Nat
      /\ \A a \in Nodes : node[a].next # Null => node[a].next \in Nodes /\ node[a].next > a
      /\ \A a \in Nodes : node[a].size \in Nat
  BY DEF WellLinked, Records, Nodes
<1>3. FreeApart(md, c)
  BY <1>1 DEF FreeApart
<1>4. FreeApart(md, new)
  <2>1. SUFFICES ASSUME md[new].next # Null, md[md[new].next].is_free
                 PROVE  md[new].next # EndOf(md, new)
    BY DEF FreeApart
  <2>2. node[c].next \in Nodes \ {c}
    BY <1>1, <1>2, <2>1
  <2>3. node[node[c].next].is_free
    BY <1>1, <2>1, <2>2
  <2>4. node[c].next # EndOf(node, c)
    BY <1>1, <2>1, <2>3 DEF FreeApart
  <2>5. EndOf(md, new) = EndOf(node, c)
    BY <1>0, <1>1, <1>2 DEF EndOf, H
  <2> QED BY <1>1, <2>4, <2>5
<1>5. ASSUME NEW a \in Nodes \ {c} PROVE FreeApart(md, a)
  <2>1. SUFFICES ASSUME md[a].next # Null, md[a].is_free, md[md[a].next].is_free
                 PROVE  md[a].next # EndOf(md, a)
    BY DEF FreeApart
  <2>2. md[a].next = node[a].next /\ node[a].next \in Nodes /\ node[a].is_free
    BY <1>1, <1>2, <2>1, Zenon
  <2>3. node[node[a].next].is_free
    BY <1>1, <2>1, <2>2
  <2>4. EndOf(md, a) = EndOf(node, a)
    BY <1>1 DEF EndOf
  <2> QED BY <2>1, <2>2, <2>3, <2>4 DEF FreeApart
<1>6. ASSUME NEW x PROVE InUseKept(node, md, x)
  BY <1>1 DEF InUseKept, Nodes
<1> QED BY <1>1, <1>3, <1>4, <1>5, <1>6

-----------------------------------------------------------------------------
(* Growing.                                                                *)

\* The fields of the nodes after the heap has grown by s units behind c.
Grown(c, s, md) ==
  /\ DOMAIN md = Nodes \cup {brk} /\ md = [a \in DOMAIN md |-> md[a]]
  /\ \A a \in DOMAIN md : md[a] \in Records
  /\ md[brk].size = s /\ md[brk].is_free = TRUE /\ md[brk].next = Null /\ md[brk].prev = c
  /\ \A a \in Nodes :
       /\ md[a].size = node[a].size /\ md[a].is_free = node[a].is_free
       /\ md[a].prev = node[a].prev
       /\ md[a].next = IF a = c THEN brk ELSE node[a].next

\* What expand_heap does to each field.
LEMMA GrowFields ==
  ASSUME WellLinked(node), brk \in Nat, brk \notin Nodes, NEW c \in Nodes, NEW s \in Nat \ {0},
         NEW md, md = [a \in Nodes \cup {brk} |->
                         CASE a = brk -> [size |-> s, is_free |-> TRUE, next |-> Null, prev |-> c]
                           [] a = c   -> [node[a] EXCEPT !.next = brk]
                           [] OTHER   -> node[a]]
  PROVE  Grown(c, s, md)
<1> DEFINE z == [size |-> s, is_free |-> TRUE, next |-> Null, prev |-> c]
           y(a) == [node[a] EXCEPT !.next = brk]
<1>1. c \in Nat /\ \A a \in Nodes : node[a] \in Records
  BY DEF WellLinked, Nodes
<1>2. z \in Records /\ z.size = s /\ z.is_free = TRUE /\ z.next = Null /\ z.prev = c
  BY <1>1 DEF Records
<1>3. ASSUME NEW a \in Nodes
      PROVE  /\ y(a) \in Records /\ y(a).size = node[a].size /\ y(a).is_free = node[a].is_free
             /\ y(a).next = brk /\ y(a).prev = node[a].prev
  BY <1>1 DEF Records
<1>4. md = [a \in Nodes \cup {brk} |-> CASE a = brk -> z [] a = c -> y(a) [] OTHER -> node[a]]
  OBVIOUS
<1> HIDE DEF y, z
<1>5. DOMAIN md = Nodes \cup {brk} /\ md = [a \in DOMAIN md |-> md[a]]
  BY <1>4
<1>6. md[brk] = z
  BY <1>4
<1>7. ASSUME NEW a \in Nodes PROVE md[a] = IF a = c THEN y(a) ELSE node[a]
  BY <1>4
<1>8. ASSUME NEW a \in Nodes
      PROVE  /\ md[a] \in Records
             /\ md[a].size = node[a].size /\ md[a].is_free = node[a].is_free
             /\ md[a].prev = node[a].prev
             /\ md[a].next = IF a = c THEN brk ELSE node[a].next
  <2>1. CASE a = c
    BY <1>3, <1>7, <2>1
  <2>2. CASE a # c
    BY <1>1, <1>7, <2>2, Zenon
  <2> QED BY <2>1, <2>2, Zenon
<1> QED BY <1>2, <1>5, <1>6, <1>8, Zenon DEF Grown

\* The page the virtual memory manager gives out next holds no node.
LEMMA NodesBelowBrk ==
  ASSUME Shape(node, regions, brk)
  PROVE  \A a \in Nodes : a \in Nat /\ a < brk
<1> SUFFICES ASSUME NEW a \in Nodes PROVE a \in Nat /\ a < brk
  OBVIOUS
<1>1. a \in Nat /\ brk \in Nat
  BY DEF Shape, WellLinked, RegionsApart, Nodes
<1>2. PICK g \in regions : a <= g[2]
  BY DEF Shape, Tiled, Nodes
<1>3. g[2] \in Nat /\ Behind(g, brk)
  BY DEF Shape, RegionsApart
<1> QED BY <1>1, <1>2, <1>3 DEF Behind, H

\* Growing keeps the shape, with one region more.
LEMMA GrowShape ==
  ASSUME Shape(node, regions, brk), NEW c \in Nodes, NEW s \in Nat, s > H,
         NEW md, Grown(c, s, md)
  PROVE  Shape(md, regions \cup {<<brk, brk + s - 1>>}, brk + s)
<1> DEFINE new == <<brk, brk + s - 1>>
<1>0. PICK rs : rs = regions \cup {new}
  BY Zenon
<1>1. /\ DOMAIN md = Nodes \cup {brk} /\ md = [a \in DOMAIN md |-> md[a]]
      /\ \A a \in DOMAIN md : md[a] \in Records
      /\ md[brk].size = s /\ md[brk].next = Null /\ md[brk].prev = c
      /\ \A a \in Nodes :
           /\ md[a].size = node[a].size /\ md[a].prev = node[a].prev
           /\ md[a].next = IF a = c THEN brk ELSE node[a].next
  BY DEF Grown
<1>2. \A a \in Nodes : a \in Nat /\ a < brk
  BY NodesBelowBrk
<1>3. Null \notin Nat
  BY KHeapAssumption
<1>4. /\ Nodes \subseteq Nat /\ 0 \in Nodes /\ node[0].prev = Null
      /\ \A a \in Nodes : node[a].next # Null =>
           node[a].next \in Nodes /\ node[a].next > a /\ node[node[a].next].prev = a
      /\ \A a \in Nodes : node[a].size \in Nat \ {0}
  BY DEF Shape, WellLinked, Records, Nodes
<1>5. /\ brk \in Nat
      /\ \A r \in regions : r[1] \in Nat /\ r[2] \in Nat /\ r[1] <= r[2] /\ Behind(r, brk)
      /\ \A r, q \in regions : r = q \/ Behind(r, q[1]) \/ Behind(q, r[1])
  BY DEF Shape, RegionsApart
<1>6. new[1] = brk /\ new[2] = brk + s - 1 /\ new[1] \in Nat /\ new[2] \in Nat
  BY <1>5 DEF H
<1> HIDE DEF new
<1>7. WellLinked(md)
  <2>1. 0 \in DOMAIN md /\ md[0].prev = Null
    BY <1>1, <1>4
  <2>2. ASSUME NEW a \in DOMAIN md, md[a].next # Null
        PROVE  md[a].next \in DOMAIN md /\ md[a].next > a /\ md[md[a].next].prev = a
    <3>1. a \in Nodes
      BY <1>1, <2>2
    <3>2. CASE a = c
      BY <1>1, <1>2, <3>1, <3>2
    <3>3. CASE a # c
      BY <1>1, <1>4, <2>2, <3>1, <3>3
    <3> QED BY <3>2, <3>3
  <2> QED BY <1>1, <1>4, <1>5, <2>1, <2>2 DEF WellLinked
<1>8. RegionsApart(rs, brk + s)
  <2>1. \A r \in regions : Behind(r, brk + s)
    BY <1>5 DEF Behind, H
  <2>2. Behind(new, brk + s) /\ new[1] <= new[2]
    BY <1>5, <1>6 DEF Behind, H
  <2>3. brk + s \in Nat
    BY <1>5
  <2>4. \A r, q \in rs : r = q \/ Behind(r, q[1]) \/ Behind(q, r[1])
    BY <1>0, <1>5, <1>6
  <2> QED BY <1>0, <1>5, <1>6, <2>1, <2>2, <2>3, <2>4 DEF RegionsApart
<1>9. /\ EndOf(md, brk) = new[2] + 1 + H
      /\ \A a \in Nodes : EndOf(md, a) = EndOf(node, a)
  BY <1>1, <1>5, <1>6 DEF EndOf, H
<1>10. Tiled(md, rs)
  <2>1. ASSUME NEW a \in DOMAIN md
        PROVE  \E f \in rs :
                 /\ f[1] <= a /\ a <= f[2]
                 /\ \/ EndOf(md, a) = f[2] + 1 + H
                    \/ EndOf(md, a) \in DOMAIN md /\ EndOf(md, a) <= f[2]
    <3>1. CASE a = brk
      <4>1. new[1] <= brk /\ brk <= new[2] /\ new \in rs
        BY <1>0, <1>5, <1>6 DEF H
      <4> QED BY <1>9, <3>1, <4>1
    <3>2. CASE a \in Nodes
      <4>1. PICK f \in regions :
              /\ f[1] <= a /\ a <= f[2]
              /\ \/ EndOf(node, a) = f[2] + 1 + H
                 \/ EndOf(node, a) \in Nodes /\ EndOf(node, a) <= f[2]
        BY <3>2 DEF Shape, Tiled, Nodes
      <4> QED BY <1>0, <1>1, <1>9, <3>2, <4>1
    <3> QED BY <1>1, <3>1, <3>2
  <2>2. ASSUME NEW a \in DOMAIN md, NEW b \in DOMAIN md, NEW f \in rs,
               f[1] <= a, a < b, b <= f[2]
        PROVE  EndOf(md, a) <= b
    <3>1. a \in Nodes
      BY <1>1, <1>2, <1>5, <2>2
    <3>2. f \in regions
      BY <1>0, <1>2, <1>5, <1>6, <2>2, <3>1
    <3>3. b # brk
      BY <1>2, <1>5, <2>2, <3>2 DEF Behind, H
    <3>4. b \in Nodes
      BY <1>1, <3>3
    <3>5. EndOf(node, a) <= b
      BY <2>2, <3>1, <3>2, <3>4 DEF Shape, Tiled, Nodes
    <3> QED BY <1>9, <3>1, <3>5
  <2>3. \A f \in rs : f[1] \in DOMAIN md
    BY <1>0, <1>1, <1>6 DEF Shape, Tiled, Nodes
  <2> QED BY <2>1, <2>2, <2>3 DEF Tiled
<1> QED BY <1>0, <1>7, <1>8, <1>10 DEF Shape, new

\* The new node does not touch the old one, and nodes in use stay.
LEMMA GrowFree ==
  ASSUME Shape(node, regions, brk), NEW c \in Nodes, NEW s \in Nat, s > H,
         \A a \in Nodes : FreeApart(node, a), NEW md, Grown(c, s, md)
  PROVE  /\ \A a \in DOMAIN md : FreeApart(md, a)
         /\ \A x : InUseKept(node, md, x)
<1>1. /\ DOMAIN md = Nodes \cup {brk}
      /\ md[brk].next = Null
      /\ \A a \in Nodes :
           /\ md[a].size = node[a].size /\ md[a].is_free = node[a].is_free
           /\ md[a].next = IF a = c THEN brk ELSE node[a].next
  BY DEF Grown
<1>2. \A a \in Nodes : a \in Nat /\ a < brk
  BY NodesBelowBrk
<1>3. FreeApart(md, brk)
  BY <1>1 DEF FreeApart
<1>4. FreeApart(md, c)
  <2>1. PICK g \in regions :
          \/ EndOf(node, c) = g[2] + 1 + H
          \/ EndOf(node, c) \in Nodes
    BY DEF Shape, Tiled, Nodes
  <2>2. g[2] \in Nat /\ brk \in Nat /\ Behind(g, brk)
    BY DEF Shape, RegionsApart
  <2>3. brk # EndOf(node, c)
    BY <1>2, <2>1, <2>2 DEF Behind, H
  <2>4. EndOf(md, c) = EndOf(node, c) /\ md[c].next = brk
    BY <1>1 DEF EndOf
  <2> QED BY <2>3, <2>4 DEF FreeApart
<1>5. ASSUME NEW a \in Nodes \ {c} PROVE FreeApart(md, a)
  <2>1. /\ md[a].next = node[a].next /\ md[a].is_free = node[a].is_free
        /\ EndOf(md, a) = EndOf(node, a)
    BY <1>1 DEF EndOf
  <2>2. node[a].next # Null => md[node[a].next].is_free = node[node[a].next].is_free
    BY <1>1 DEF Shape, WellLinked, Nodes
  <2> QED BY <2>1, <2>2, Zenon DEF FreeApart
<1>6. ASSUME NEW x PROVE InUseKept(node, md, x)
  BY <1>1 DEF InUseKept, Nodes
<1> QED BY <1>1, <1>3, <1>4, <1>5, <1>6

-----------------------------------------------------------------------------
(* The steps.                                                              *)

\* Blocks stay good while the nodes in use that hold them are left alone.
LEMMA BlocksKept ==
  ASSUME NEW nd, NEW md, NEW bs, NEW x, BlocksIn(nd, bs), InUseKept(nd, md, x),
         x \in Nat, x + H \notin DOMAIN bs
  PROVE  BlocksIn(md, bs)
<1> SUFFICES ASSUME NEW p \in DOMAIN bs
             PROVE  /\ p \in Nat /\ p - H \in DOMAIN md /\ md[p - H].is_free = FALSE
                    /\ bs[p] \in Nat /\ bs[p] + H <= md[p - H].size
  BY Zenon DEF BlocksIn
<1>1. /\ p \in Nat /\ p - H \in DOMAIN nd /\ nd[p - H].is_free = FALSE
      /\ bs[p] \in Nat /\ bs[p] + H <= nd[p - H].size
  BY DEF BlocksIn
<1>2. p - H # x
  BY <1>1 DEF H
<1> QED BY <1>1, <1>2 DEF InUseKept

\* What a step may do to the nodes in use.
InUseStep ==
  \A a \in Nodes : ~node[a].is_free =>
    \/ a \in DOMAIN node' /\ node'[a].is_free = FALSE /\ node'[a].size = node[a].size
    \/ pc = "kfree" /\ arg = a + H

LEMMA KeptIsStep ==
  ASSUME WellLinked(node), NEW x, InUseKept(node, node', x),
         x \in Nodes => node[x].is_free \/ (pc = "kfree" /\ arg = x + H)
  PROVE  InUseStep
<1>1. \A a \in Nodes : node[a].is_free \in BOOLEAN
  BY DEF WellLinked, Records, Nodes
<1> QED BY <1>1 DEF InUseStep, InUseKept, Nodes

\* A node is handed out: whole, or its first part.
LEMMA TakeStep ==
  ASSUME HeapInv, KmallocTake
  PROVE  HeapInv' /\ InUseStep
<1>1. /\ pc = "kmalloc" /\ cur \in Nodes /\ arg \in Nat
      /\ node[cur].is_free /\ node[cur].size >= real_size(arg)
      /\ regions' = regions /\ brk' = brk
      /\ pc' = "ready" /\ cur' = Null
      /\ blocks' = [b \in DOMAIN blocks \cup {cur + H} |-> IF b = cur + H THEN arg + 1 ELSE blocks[b]]
  <2>1. Requests \subseteq Nat
    BY KHeapAssumption
  <2> QED BY <2>1 DEF KmallocTake, Walking, Fits, Hand, Return, vmm_vars, HeapInv, Walk
<1>2. /\ Shape(node, regions, brk) /\ WellLinked(node) /\ BlocksIn(node, blocks)
      /\ \A a \in Nodes : FreeApart(node, a)
  BY DEF HeapInv, Shape
<1>3. /\ cur \in Nat /\ node[cur].size \in Nat \ {0} /\ node[cur].is_free = TRUE
      /\ real_size(arg) \in Nat \ {0} /\ real_size(arg) = arg + 1 + H
  BY <1>1, <1>2 DEF WellLinked, Records, Nodes, real_size, H
<1>4. /\ Shape(node', regions, brk)
      /\ \A a \in DOMAIN node' : FreeApart(node', a)
      /\ InUseKept(node, node', cur)
      /\ cur \in DOMAIN node' /\ node'[cur].is_free = FALSE
      /\ node'[cur].size >= real_size(arg)
  <2>1. CASE node[cur].size - real_size(arg) > Minimum
    <3> DEFINE r == real_size(arg)
    <3>1. node' = create_kheap_node(cur, r)
      BY <2>1 DEF KmallocTake, split
    <3>2. cur + H + r \notin Nodes
      BY <1>1, <1>2, <1>3, <2>1, SplitPlace
    <3>3. Divided(cur, r, node')
      BY <1>1, <1>2, <1>3, <2>1, <3>1, <3>2, SplitFields
    <3>4. Shape(node', regions, brk)
      BY <1>1, <1>2, <1>3, <2>1, <3>3, SplitShape
    <3>5. /\ \A a \in DOMAIN node' : FreeApart(node', a)
          /\ InUseKept(node, node', cur)
      BY <1>1, <1>2, <1>3, <3>2, <3>3, SplitFree, Zenon
    <3>6. cur \in DOMAIN node' /\ node'[cur].is_free = FALSE /\ node'[cur].size = r
      BY <1>1, <3>3 DEF Divided
    <3> QED BY <1>3, <3>4, <3>5, <3>6
  <2>2. CASE ~(node[cur].size - real_size(arg) > Minimum)
    <3>1. node' = [node EXCEPT ![cur].is_free = FALSE]
      BY <2>2 DEF KmallocTake
    <3>2. Flagged(node, cur, FALSE, node')
      BY <1>1, <1>2, <3>1, FlagFields, Zenon DEF Nodes
    <3>3. Shape(node', regions, brk)
      BY <1>1, <1>2, <3>2, FlagShape, Zenon DEF Nodes
    <3>4. InUseKept(node, node', cur)
      BY <3>2 DEF Flagged, InUseKept
    <3>5. ASSUME NEW a \in DOMAIN node' PROVE FreeApart(node', a)
      <4>1. a \in Nodes /\ (node[a].next # Null => node[a].next \in Nodes) /\ FreeApart(node, a)
        BY <1>2, <3>2 DEF Flagged, Nodes, WellLinked
      <4>2. \A c \in Nodes : node'[c].is_free => node[c].is_free
        BY <1>1, <3>2 DEF Flagged, Nodes
      <4>3. node'[a].next = node[a].next /\ EndOf(node', a) = EndOf(node, a)
        BY <3>2, <4>1 DEF Flagged, EndOf, Nodes
      <4> QED BY <4>1, <4>2, <4>3 DEF FreeApart
    <3> QED BY <1>1, <3>2, <3>3, <3>4, <3>5 DEF Flagged, Nodes
  <2> QED BY <2>1, <2>2, Zenon
<1>5. cur + H \notin DOMAIN blocks
  <2>1. SUFFICES ASSUME cur + H \in DOMAIN blocks PROVE FALSE
    OBVIOUS
  <2>2. PICK p \in DOMAIN blocks : p = cur + H
    BY <2>1
  <2>3. node[p - H].is_free = FALSE
    BY <1>2 DEF BlocksIn
  <2>4. p - H = cur
    BY <1>3, <2>2 DEF H
  <2> QED BY <1>3, <2>3, <2>4
<1>6. BlocksIn(node', blocks)
  BY <1>2, <1>3, <1>4, <1>5, BlocksKept
<1>7. BlocksIn(node', blocks')
  <2>1. ASSUME NEW p \in DOMAIN blocks'
        PROVE  /\ p \in Nat /\ p - H \in DOMAIN node' /\ node'[p - H].is_free = FALSE
               /\ blocks'[p] \in Nat /\ blocks'[p] + H <= node'[p - H].size
    <3>1. CASE p = cur + H
      <4>1. p \in Nat /\ p - H = cur /\ blocks'[p] = arg + 1
        BY <1>1, <1>3, <3>1 DEF H
      <4>2. node'[cur].size \in Nat
        BY <1>4 DEF Shape, WellLinked, Records
      <4> QED BY <1>1, <1>3, <1>4, <4>1, <4>2 DEF H
    <3>2. CASE p \in DOMAIN blocks /\ p # cur + H
      BY <1>1, <1>6, <3>2 DEF BlocksIn
    <3> QED BY <1>1, <3>1, <3>2, Zenon
  <2> QED BY <2>1, Zenon DEF BlocksIn
<1>8. Walk'
  BY <1>1 DEF Walk
<1>9. InUseStep
  BY <1>1, <1>2, <1>4, KeptIsStep
<1> QED BY <1>1, <1>4, <1>7, <1>8, <1>9 DEF HeapInv, Nodes

\* The heap grows at kernel_heap_end.
LEMMA GrowStep ==
  ASSUME HeapInv, expand_heap
  PROVE  HeapInv' /\ InUseStep
<1>0. PICK s : s = pages(real_size(arg)) * PageUnits
  OBVIOUS
<1>1. /\ pc = "kmalloc" /\ cur \in Nodes /\ arg \in Requests /\ arg \in Nat
      /\ cur # 0 => node[cur].prev \in Nodes /\ node[node[cur].prev].next = cur
  <2>1. Requests \subseteq Nat
    BY KHeapAssumption
  <2> QED BY <2>1 DEF expand_heap, Walking, HeapInv, Walk
<1>2. /\ regions' = regions \cup {<<brk, brk + s - 1>>} /\ brk' = brk + s
      /\ node' = [a \in Nodes \cup {brk} |->
                    CASE a = brk -> [size |-> s, is_free |-> TRUE, next |-> Null, prev |-> cur]
                      [] a = cur -> [node[a] EXCEPT !.next = brk]
                      [] OTHER   -> node[a]]
      /\ cur' = IF node[cur].prev # Null THEN node'[node[cur].prev].next ELSE brk
      /\ UNCHANGED <<pc, arg, blocks>>
  BY <1>0 DEF expand_heap
<1>3. /\ Shape(node, regions, brk) /\ WellLinked(node) /\ BlocksIn(node, blocks)
      /\ \A a \in Nodes : FreeApart(node, a)
  BY DEF HeapInv, Shape
<1>4. s \in Nat \ {0} /\ s > H
  BY <1>0, <1>1, PagesPositive DEF H
<1>5. brk \in Nat /\ brk \notin Nodes
  BY <1>3, NodesBelowBrk DEF Shape, RegionsApart
<1>6. Grown(cur, s, node')
  BY <1>1, <1>2, <1>3, <1>4, <1>5, GrowFields, SMTT(30)
<1>7. Shape(node', regions', brk')
  BY <1>1, <1>2, <1>3, <1>4, <1>6, GrowShape
<1>8. /\ \A a \in DOMAIN node' : FreeApart(node', a)
      /\ \A x : InUseKept(node, node', x)
  BY <1>1, <1>3, <1>4, <1>6, GrowFree
<1>9. BlocksIn(node', blocks')
  <2>1. ASSUME NEW p \in DOMAIN blocks
        PROVE  p - H \in DOMAIN node' /\ node'[p - H].is_free = FALSE /\ node'[p - H].size = node[p - H].size
    <3>1. p \in Nat /\ p - H \in Nodes /\ node[p - H].is_free = FALSE
      BY <1>3 DEF BlocksIn, Nodes
    <3> QED BY <1>6, <3>1 DEF Grown
  <2> QED BY <1>2, <1>3, <2>1, Zenon DEF BlocksIn
<1>10. Walk'
  <2>1. Null \notin Nat
    BY KHeapAssumption
  <2>2. /\ cur' \in DOMAIN node' /\ node'[cur'].prev \in DOMAIN node'
        /\ node'[node'[cur'].prev].next = cur'
    <3>1. CASE cur = 0
      <4>1. node[cur].prev = Null
        BY <1>3, <3>1 DEF WellLinked
      <4>2. cur' = brk /\ brk \in DOMAIN node' /\ node'[brk].prev = cur
        BY <1>2, <1>6, <4>1 DEF Grown
      <4>3. cur \in DOMAIN node' /\ node'[cur].next = brk
        BY <1>1, <1>6 DEF Grown
      <4> QED BY <4>2, <4>3
    <3>2. CASE cur # 0
      <4>1. /\ node[cur].prev \in Nodes /\ node[node[cur].prev].next = cur
            /\ node[cur].prev # Null /\ node[cur].prev # cur
        <5>1. node[cur].prev \in Nodes /\ node[node[cur].prev].next = cur
          BY <1>1, <3>2
        <5>2. cur \in Nat /\ node[cur].prev \in Nat /\ cur # Null
          BY <1>1, <1>3, <2>1, <5>1 DEF WellLinked, Nodes
        <5>3. cur > node[cur].prev
          BY <1>3, <5>1, <5>2 DEF WellLinked, Nodes
        <5> QED BY <2>1, <5>1, <5>2, <5>3
      <4>2. cur' = cur
        BY <1>2, <1>6, <4>1, Zenon DEF Grown
      <4>3. /\ cur \in DOMAIN node' /\ node'[cur].prev = node[cur].prev
            /\ node[cur].prev \in DOMAIN node' /\ node'[node[cur].prev].next = cur
        BY <1>1, <1>6, <4>1 DEF Grown
      <4> QED BY <4>2, <4>3
    <3> QED BY <3>1, <3>2
  <2> QED BY <1>1, <1>2, <2>2, Zenon DEF Walk, Nodes
<1>11. InUseStep
  <2>1. Null \notin Nodes
    BY <1>3, KHeapAssumption DEF WellLinked, Nodes
  <2>2. InUseKept(node, node', Null)
    BY <1>8
  <2> QED BY <1>3, <2>1, <2>2, KeptIsStep
<1> QED BY <1>7, <1>8, <1>9, <1>10, <1>11 DEF HeapInv, Nodes

\* A node is freed and merged with its free neighbours.
LEMMA FreeStep ==
  ASSUME HeapInv, KfreeFound
  PROVE  HeapInv' /\ InUseStep
<1>0. Null \notin Nat
  BY KHeapAssumption
<1>1. /\ pc = "kfree" /\ cur \in Nodes /\ cur + H = arg /\ arg \notin DOMAIN blocks
      /\ cur # 0 => node[cur].prev \in Nodes /\ node[node[cur].prev].next = cur
      /\ UNCHANGED <<regions, brk, blocks>> /\ pc' = "ready" /\ cur' = Null
  BY DEF KfreeFound, Walking, Return, vmm_vars, HeapInv, Walk
<1>2. /\ Shape(node, regions, brk) /\ WellLinked(node) /\ BlocksIn(node, blocks)
      /\ \A a \in Nodes : FreeApart(node, a)
  BY DEF HeapInv, Shape
<1>l. PICK l : l = node[cur].prev
  OBVIOUS
<1>r. PICK r : r = node[cur].next
  OBVIOUS
<1>f. PICK freed : freed = [node EXCEPT ![cur].is_free = TRUE]
  BY Zenon
<1>g. PICK right : right = IF can_merge(freed, cur, r)
                           THEN merge_memory_nodes(freed, cur, r) ELSE freed
  OBVIOUS
<1>3. node' = IF can_merge(freed, l, cur) THEN merge_memory_nodes(right, l, cur) ELSE right
  BY <1>l, <1>r, <1>f, <1>g DEF KfreeFound
<1>4. /\ cur \in Nat /\ Nodes \subseteq Nat
      /\ r # Null => r \in Nodes /\ r > cur /\ node[r].prev = cur
      /\ l # Null => l \in Nodes /\ l < cur /\ node[l].next = cur
      /\ l = Null \/ l \in Nat
  <2>1. /\ cur \in Nat /\ Nodes \subseteq Nat
        /\ r # Null => r \in Nodes /\ r > cur /\ node[r].prev = cur
    BY <1>1, <1>2, <1>r DEF WellLinked, Nodes
  <2>2. cur = 0 => l = Null
    BY <1>2, <1>l DEF WellLinked
  <2>3. l # Null => l \in Nodes /\ node[l].next = cur
    BY <1>1, <1>l, <2>2
  <2>4. l # Null => cur > l
    BY <1>0, <1>2, <2>1, <2>3 DEF WellLinked, Nodes
  <2> QED BY <2>1, <2>3, <2>4, Zenon
<1>5. Flagged(node, cur, TRUE, freed)
  BY <1>1, <1>2, <1>f, FlagFields, Zenon DEF Nodes
<1>6. Shape(freed, regions, brk) /\ WellLinked(freed) /\ DOMAIN freed = Nodes
  BY <1>1, <1>2, <1>5, FlagShape, Zenon DEF Nodes, Flagged, Shape
<1>7. /\ freed[cur].is_free = TRUE /\ freed[cur].next = r /\ freed[cur].prev = l
      /\ \A a \in Nodes : freed[a].next = node[a].next /\ EndOf(freed, a) = EndOf(node, a)
      /\ \A a \in Nodes \ {cur} : freed[a].is_free = node[a].is_free
      /\ \A a \in Nodes : freed[a].is_free \in BOOLEAN
  BY <1>1, <1>5, <1>l, <1>r DEF Flagged, EndOf, Nodes, Records
<1>8. InUseKept(node, freed, cur)
  BY <1>5 DEF Flagged, InUseKept
<1>9. ASSUME NEW a \in Nodes \ {cur, l} PROVE FreeApart(freed, a)
  <2>1. SUFFICES ASSUME freed[a].next # Null, freed[a].is_free, freed[freed[a].next].is_free
                 PROVE  freed[a].next # EndOf(freed, a)
    BY DEF FreeApart
  <2>2. /\ freed[a].next = node[a].next /\ node[a].next \in Nodes /\ node[node[a].next].prev = a
    BY <1>2, <1>7, <2>1 DEF WellLinked, Nodes
  <2>3. node[a].next # cur
    BY <1>l, <2>2
  <2>4. node[a].is_free /\ node[node[a].next].is_free
    BY <1>7, <2>1, <2>2, <2>3
  <2> QED BY <1>2, <1>7, <2>1, <2>2, <2>4 DEF FreeApart
\* The merge with the right neighbour.
<1>10. /\ Shape(right, regions, brk) /\ DOMAIN right \subseteq Nodes
       /\ cur \in DOMAIN right /\ right[cur].is_free = TRUE
       /\ \A a \in DOMAIN right \ {l} : FreeApart(right, a)
       /\ InUseKept(node, right, cur)
       /\ l # Null => /\ l \in DOMAIN right /\ right[l].next = cur
                      /\ right[l].is_free = freed[l].is_free
                      /\ EndOf(right, l) = EndOf(freed, l)
  <2>1. CASE can_merge(freed, cur, r)
    <3>1. /\ r # Null /\ r \in Nodes /\ r > cur /\ freed[r].is_free = TRUE /\ EndOf(freed, cur) = r
          /\ right = merge_memory_nodes(freed, cur, r)
      BY <1>1, <1>4, <1>7, <1>g, <2>1 DEF can_merge, EndOf
    <3>2. r # cur /\ r # l
      BY <1>4, <3>1
    <3>3. FreeApart(freed, r)
      BY <1>9, <3>1, <3>2
    <3>4. Shape(right, regions, brk)
      BY <1>1, <1>6, <1>7, <3>1, MergeShape
    <3>5. Merged(freed, cur, r, right)
      BY <1>1, <1>6, <1>7, <3>1, MergeFields
    <3>6. /\ FreeApart(right, cur)
          /\ \A a \in DOMAIN right : FreeApart(freed, a) => FreeApart(right, a)
          /\ InUseKept(freed, right, cur)
      BY <1>1, <1>6, <1>7, <3>1, <3>3, MergeFree, Zenon
    <3>7. /\ DOMAIN right = Nodes \ {r} /\ right[cur].is_free = TRUE
      BY <1>6, <1>7, <3>5 DEF Merged
    <3>8. \A a \in DOMAIN right \ {l} : FreeApart(right, a)
      BY <1>9, <3>6, <3>7
    <3>9. InUseKept(node, right, cur)
      BY <1>6, <1>8, <3>6 DEF InUseKept, Nodes
    <3>10. l # Null => /\ l \in DOMAIN right \ {cur} /\ right[l].next = cur
                       /\ right[l].is_free = freed[l].is_free
                       /\ EndOf(right, l) = EndOf(freed, l)
      <4>1. SUFFICES ASSUME l # Null
                     PROVE  /\ l \in DOMAIN right \ {cur} /\ right[l].next = cur
                            /\ right[l].is_free = freed[l].is_free
                            /\ EndOf(right, l) = EndOf(freed, l)
        OBVIOUS
      <4>2. l \in Nodes /\ l # cur /\ freed[l].next = cur
        BY <1>4, <1>7, <4>1
      <4>3. l \in DOMAIN right \ {cur}
        BY <3>2, <3>7, <4>2
      <4> QED BY <3>5, <4>2, <4>3 DEF Merged, EndOf
    <3> QED BY <1>1, <3>2, <3>4, <3>7, <3>8, <3>9, <3>10
  <2>2. CASE ~can_merge(freed, cur, r)
    <3>1. right = freed
      BY <1>g, <2>2
    <3>2. FreeApart(freed, cur)
      <4>1. cur # Null
        BY <1>0, <1>4
      <4> QED BY <1>7, <2>2, <4>1 DEF can_merge, FreeApart, EndOf
    <3>3. \A a \in DOMAIN right \ {l} : FreeApart(right, a)
      BY <1>6, <1>9, <3>1, <3>2
    <3> QED BY <1>1, <1>4, <1>6, <1>7, <1>8, <3>1, <3>3
  <2> QED BY <2>1, <2>2, Zenon
\* The merge with the left neighbour.
<1>11. /\ Shape(node', regions, brk)
       /\ \A a \in DOMAIN node' : FreeApart(node', a)
       /\ InUseKept(node, node', cur)
  <2>1. CASE can_merge(freed, l, cur)
    <3>1. /\ l # Null /\ freed[l].is_free /\ EndOf(freed, l) = cur
          /\ node' = merge_memory_nodes(right, l, cur)
      BY <1>3, <2>1 DEF can_merge, EndOf
    <3>2. /\ l \in DOMAIN right /\ right[l].next = cur /\ right[l].is_free = TRUE
          /\ EndOf(right, l) = cur
      BY <1>4, <1>7, <1>10, <3>1, Zenon
    <3>3. l # cur /\ FreeApart(right, cur)
      BY <1>4, <1>10, <3>1
    <3>4. Shape(node', regions, brk)
      BY <1>10, <3>1, <3>2, MergeShape
    <3>5. /\ FreeApart(node', l)
          /\ \A a \in DOMAIN node' : FreeApart(right, a) => FreeApart(node', a)
          /\ InUseKept(right, node', cur)
      <4>1. WellLinked(right)
        BY <1>10 DEF Shape
      <4> QED BY <1>10, <3>1, <3>2, <3>3, <4>1, MergeFree, Zenon
    <3>6. DOMAIN node' \subseteq DOMAIN right
      BY <3>1 DEF merge_memory_nodes
    <3>7. \A a \in DOMAIN node' : FreeApart(node', a)
      BY <1>10, <3>5, <3>6
    <3>8. InUseKept(node, node', cur)
      BY <1>10, <3>5 DEF InUseKept
    <3> QED BY <3>4, <3>7, <3>8
  <2>2. CASE ~can_merge(freed, l, cur)
    <3>1. node' = right
      BY <1>3, <2>2
    <3>2. l \in DOMAIN right => FreeApart(right, l)
      <4>1. SUFFICES ASSUME l \in DOMAIN right PROVE FreeApart(right, l)
        OBVIOUS
      <4>2. l # Null /\ cur # Null
        BY <1>0, <1>4, <1>10, <4>1, Zenon
      <4>3. ~(freed[l].is_free /\ EndOf(freed, l) = cur)
        BY <1>7, <2>2, <4>2 DEF can_merge, EndOf
      <4>4. right[l].next = cur /\ right[l].is_free = freed[l].is_free /\ EndOf(right, l) = EndOf(freed, l)
        BY <1>10, <4>2
      <4> QED BY <4>3, <4>4 DEF FreeApart
    <3>3. \A a \in DOMAIN node' : FreeApart(node', a)
      BY <1>10, <3>1, <3>2
    <3> QED BY <1>10, <3>1, <3>3
  <2> QED BY <2>1, <2>2
<1>12. BlocksIn(node', blocks')
  <2>1. BlocksIn(node', blocks)
    BY <1>1, <1>2, <1>4, <1>11, BlocksKept
  <2> QED BY <1>1, <2>1
<1>13. Walk'
  BY <1>1 DEF Walk
<1>14. InUseStep
  BY <1>1, <1>2, <1>11, KeptIsStep
<1> QED BY <1>1, <1>11, <1>12, <1>13, <1>14 DEF HeapInv, Nodes

LEMMA InitHeap == Init => HeapInv
<1> SUFFICES ASSUME Init PROVE HeapInv
  OBVIOUS
<1>1. PageUnits \in Nat /\ PageUnits > H /\ Null \notin Nat
  BY KHeapAssumption
<1> DEFINE z == [size |-> PageUnits, is_free |-> TRUE, next |-> Null, prev |-> Null]
           g == <<0, PageUnits - 1>>
<1>2. z \in Records /\ z.size = PageUnits /\ z.next = Null /\ z.prev = Null
  BY <1>1 DEF Records, H
<1>3. node = [a \in {0} |-> z]
  BY DEF Init, kernel_heap_start
<1> HIDE DEF z
<1>4. Nodes = {0} /\ DOMAIN node = {0} /\ node[0] = z /\ node = [a \in DOMAIN node |-> node[a]]
  BY <1>3 DEF Nodes
<1>5. WellLinked(node)
  BY <1>2, <1>4 DEF WellLinked
<1>6. g[1] = 0 /\ g[2] = PageUnits - 1 /\ regions = {g} /\ brk = PageUnits
  BY DEF Init
<1> HIDE DEF g
<1>7. EndOf(node, 0) = g[2] + 1 + H
  BY <1>1, <1>2, <1>4, <1>6 DEF EndOf, H
<1>8. Tiled(node, regions)
  BY <1>1, <1>4, <1>6, <1>7 DEF Tiled, H
<1>9. RegionsApart(regions, brk)
  BY <1>1, <1>6 DEF RegionsApart, Behind, H
<1>10. \A a \in Nodes : FreeApart(node, a)
  BY <1>2, <1>4 DEF FreeApart
<1>11. DOMAIN blocks = {} /\ cur = Null /\ pc = "ready"
  BY DEF Init
<1> QED BY <1>5, <1>8, <1>9, <1>10, <1>11 DEF HeapInv, Shape, BlocksIn, Walk

\* A step that leaves the nodes alone.
LEMMA NodesUntouched ==
  ASSUME HeapInv, node' = node, regions' = regions, RegionsApart(regions, brk'),
         BlocksIn(node, blocks'), Walk'
  PROVE  HeapInv' /\ InUseStep
<1>1. HeapInv'
  BY DEF HeapInv, Shape, Nodes
<1>2. \A a \in Nodes : node[a].is_free \in BOOLEAN
  BY DEF HeapInv, Shape, WellLinked, Records, Nodes
<1>3. InUseStep
  BY <1>2 DEF InUseStep, Nodes
<1> QED BY <1>1, <1>3

\* Going on to the next node keeps the walk on the list.
LEMMA AdvanceStep ==
  ASSUME HeapInv, cur # Null, cur' = Successor(cur),
         UNCHANGED <<list_vars, vmm_vars, pc, arg, blocks>>
  PROVE  HeapInv' /\ InUseStep
<1>1. cur \in Nodes
  BY DEF HeapInv, Walk
<1>2. cur' # Null => cur' \in Nodes /\ node[cur'].prev = cur
  BY <1>1 DEF Successor, HeapInv, Shape, WellLinked, Nodes
<1>3. Walk'
  BY <1>1, <1>2 DEF Walk, HeapInv, list_vars, Successor, Nodes
<1> QED BY <1>3, NodesUntouched DEF list_vars, vmm_vars, HeapInv, Shape

LEMMA NextHeap == HeapInv /\ [Next]_vars => HeapInv' /\ InUseStep
<1> SUFFICES ASSUME HeapInv, [Next]_vars PROVE HeapInv' /\ InUseStep
  OBVIOUS
<1>0. /\ RegionsApart(regions, brk) /\ BlocksIn(node, blocks)
      /\ 0 \in Nodes /\ Null \notin Nat
  BY KHeapAssumption DEF HeapInv, Shape, WellLinked, Nodes
<1>1. CASE KmallocCall
  BY <1>0, <1>1, NodesUntouched
     DEF KmallocCall, Walk, list_vars, vmm_vars, kernel_heap_start, Nodes
<1>2. CASE KmallocTake
  BY <1>2, TakeStep
<1>3. CASE KmallocAdvance
  BY <1>3, AdvanceStep DEF KmallocAdvance, Walking
<1>4. CASE expand_heap
  BY <1>4, GrowStep
<1>5. CASE KmallocNull
  BY <1>0, <1>5, NodesUntouched DEF KmallocNull, Return, Walk, list_vars, vmm_vars
<1>6. CASE KfreeCall
  <2>1. PICK p \in DOMAIN blocks :
          /\ blocks' = [b \in DOMAIN blocks \ {p} |-> blocks[b]]
          /\ \/ pc' = "ready" /\ cur' = Null
             \/ pc' = "kfree" /\ cur' = kernel_heap_start /\ arg' = p
    BY <1>6 DEF KfreeCall, Return
  <2>2. BlocksIn(node, blocks')
    BY <1>0, <2>1 DEF BlocksIn
  <2>3. node' = node /\ regions' = regions /\ brk' = brk
    BY <1>6 DEF KfreeCall, list_vars, vmm_vars
  <2>4. Walk'
    BY <1>0, <2>1, <2>3 DEF Walk, kernel_heap_start, Nodes
  <2> QED BY <1>0, <2>2, <2>3, <2>4, NodesUntouched
<1>7. CASE KfreeAdvance
  BY <1>7, AdvanceStep DEF KfreeAdvance, Walking
<1>8. CASE KfreeMiss
  BY <1>0, <1>8, NodesUntouched DEF KfreeMiss, Return, Walk, list_vars, vmm_vars
<1>9. CASE KfreeFound
  BY <1>9, FreeStep
<1>10. CASE OtherVmmAlloc
  <2>1. /\ brk' = brk + PageUnits /\ node' = node /\ regions' = regions /\ blocks' = blocks
        /\ UNCHANGED <<pc, cur, arg>>
    BY <1>10 DEF OtherVmmAlloc, list_vars
  <2>2. RegionsApart(regions, brk')
    <3>1. PageUnits \in Nat /\ PageUnits > H
      BY KHeapAssumption
    <3> QED BY <1>0, <2>1, <3>1 DEF RegionsApart, Behind, H
  <2>3. Walk'
    BY <2>1 DEF HeapInv, Walk, Nodes
  <2> QED BY <1>0, <2>1, <2>2, <2>3, NodesUntouched
<1>11. CASE UNCHANGED vars
  <2>1. Walk'
    BY <1>11 DEF HeapInv, Walk, vars, list_vars, Nodes
  <2> QED BY <1>0, <1>11, <2>1, NodesUntouched DEF vars, list_vars, vmm_vars
<1> QED BY <1>1, <1>2, <1>3, <1>4, <1>5, <1>6, <1>7, <1>8, <1>9, <1>10, <1>11
       DEF Next, kmalloc, kfree

\* The invariant of the heap.
LEMMA HeapInvariant == Spec => []HeapInv
<1>1. HeapInv /\ [Next]_vars => HeapInv'
  BY NextHeap
<1> QED BY InitHeap, <1>1, PTL DEF Spec

-----------------------------------------------------------------------------
(* The properties.                                                         *)

\* For any requests in any order the list of the heap stays in address order
\* with prev and next agreeing, its nodes neither overlap nor leave a gap, and
\* between calls no two free neighbours touch.
THEOREM HeapListSound == Spec => []ListSound
<1>1. HeapInv => ListSound
  <2> SUFFICES ASSUME HeapInv PROVE ListSound
    OBVIOUS
  <2>1. ASSUME NEW a \in Nodes
        PROVE  /\ node[a].next # Null => node[a].next > a /\ node[node[a].next].prev = a
               /\ \/ a + H + node[a].size \in Nodes
                  \/ \E r \in regions : a <= r[2] /\ a + H + node[a].size = r[2] + 1 + H
    BY DEF HeapInv, Shape, WellLinked, Tiled, EndOf, Nodes
  <2>2. ASSUME NEW a \in Nodes, NEW b \in Nodes,
               node[a].is_free, node[b].is_free, node[a].next = b
        PROVE  b # a + H + node[a].size
    <3>1. b # Null
      BY KHeapAssumption DEF HeapInv, Shape, WellLinked, Nodes
    <3> QED BY <2>2, <3>1 DEF HeapInv, FreeApart, EndOf
  <2> QED BY <2>1, <2>2 DEF ListSound
<1> QED BY <1>1, HeapInvariant, PTL

\* Two blocks that callers hold, and what a block may reach to.
LEMMA BlockPlace ==
  ASSUME HeapInv, NEW p \in DOMAIN blocks
  PROVE  \E g \in regions :
           /\ p \in Nat /\ p - H \in Nodes /\ p - H \in Nat /\ node[p - H].is_free = FALSE
           /\ blocks[p] \in Nat /\ node[p - H].size \in Nat
           /\ g[1] \in Nat /\ g[2] \in Nat
           /\ g[1] <= p - H /\ p + blocks[p] <= EndOf(node, p - H) - H
           /\ p + blocks[p] <= g[2] + 1
<1>1. /\ p \in Nat /\ p - H \in Nodes /\ node[p - H].is_free = FALSE
      /\ blocks[p] \in Nat /\ blocks[p] + H <= node[p - H].size
  BY DEF HeapInv, BlocksIn, Nodes
<1>2. p - H \in Nat /\ node[p - H].size \in Nat
  BY <1>1 DEF HeapInv, Shape, WellLinked, Records, Nodes
<1>3. PICK g \in regions :
        /\ g[1] <= p - H /\ p - H <= g[2]
        /\ EndOf(node, p - H) = g[2] + 1 + H \/ EndOf(node, p - H) <= g[2]
  BY <1>1 DEF HeapInv, Shape, Tiled, Nodes
<1>4. g[1] \in Nat /\ g[2] \in Nat
  BY DEF HeapInv, Shape, RegionsApart
<1>5. p + blocks[p] <= EndOf(node, p - H) - H /\ EndOf(node, p - H) \in Nat
  BY <1>1, <1>2 DEF EndOf, H
<1>6. p + blocks[p] <= g[2] + 1
  BY <1>1, <1>3, <1>4, <1>5 DEF H
<1> QED BY <1>1, <1>2, <1>3, <1>4, <1>5, <1>6

\* The memory kmalloc hands out is the caller's alone: it lies inside a node
\* in use and inside the pages of the heap, and two callers never share a unit.
THEOREM CallersApart == Spec => []PayloadsSafe
<1>1. HeapInv => PayloadsSafe
  <2> SUFFICES ASSUME HeapInv, NEW p \in DOMAIN blocks
               PROVE  /\ p - H \in Nodes /\ ~node[p - H].is_free
                      /\ p..(p + blocks[p] - 1) \subseteq Extent(p - H) \cap Mapped
                      /\ \A q \in DOMAIN blocks \ {p} :
                           p..(p + blocks[p] - 1) \cap q..(q + blocks[q] - 1) = {}
    BY DEF PayloadsSafe
  <2>1. PICK g \in regions :
           /\ p \in Nat /\ p - H \in Nodes /\ p - H \in Nat /\ node[p - H].is_free = FALSE
           /\ blocks[p] \in Nat /\ node[p - H].size \in Nat
           /\ g[1] \in Nat /\ g[2] \in Nat
           /\ g[1] <= p - H /\ p + blocks[p] <= EndOf(node, p - H) - H
           /\ p + blocks[p] <= g[2] + 1
    BY BlockPlace, Zenon
  <2>2. p..(p + blocks[p] - 1) \subseteq Extent(p - H)
    BY <2>1 DEF Extent, EndOf, H
  <2>3. p..(p + blocks[p] - 1) \subseteq Mapped
    <3>1. p..(p + blocks[p] - 1) \subseteq g[1]..g[2]
      BY <2>1 DEF H
    <3> QED BY <3>1 DEF Mapped
  <2>4. ASSUME NEW q \in DOMAIN blocks \ {p}
        PROVE  p..(p + blocks[p] - 1) \cap q..(q + blocks[q] - 1) = {}
    <3>1. PICK f \in regions :
             /\ q \in Nat /\ q - H \in Nodes /\ q - H \in Nat /\ node[q - H].is_free = FALSE
             /\ blocks[q] \in Nat /\ node[q - H].size \in Nat
             /\ f[1] \in Nat /\ f[2] \in Nat
             /\ f[1] <= q - H /\ q + blocks[q] <= EndOf(node, q - H) - H
             /\ q + blocks[q] <= f[2] + 1
      BY BlockPlace, Zenon
    <3>2. f = g \/ Behind(f, g[1]) \/ Behind(g, f[1])
      BY DEF HeapInv, Shape, RegionsApart
    <3>3. p + blocks[p] <= q \/ q + blocks[q] <= p
      <4>1. CASE Behind(f, g[1])
        BY <2>1, <3>1, <4>1 DEF Behind, H
      <4>2. CASE Behind(g, f[1])
        BY <2>1, <3>1, <4>2 DEF Behind, H
      <4>3. CASE f = g /\ p - H < q - H
        <5>1. q - H > g[2] \/ EndOf(node, p - H) <= q - H
          BY <2>1, <3>1, <4>3 DEF HeapInv, Shape, Tiled, Nodes
        <5>2. EndOf(node, p - H) \in Nat
          BY <2>1 DEF EndOf, H
        <5> QED BY <2>1, <3>1, <5>1, <5>2 DEF H
      <4>4. CASE f = g /\ q - H < p - H
        <5>1. p - H > g[2] \/ EndOf(node, q - H) <= p - H
          BY <2>1, <3>1, <4>4 DEF HeapInv, Shape, Tiled, Nodes
        <5>2. EndOf(node, q - H) \in Nat
          BY <3>1 DEF EndOf, H
        <5> QED BY <2>1, <3>1, <4>4, <5>1, <5>2 DEF H
      <4>5. p - H < q - H \/ q - H < p - H
        BY <2>1, <3>1, <2>4 DEF H
      <4> QED BY <3>2, <4>1, <4>2, <4>3, <4>4, <4>5
    <3> QED BY <2>1, <3>1, <3>3
  <2> QED BY <2>1, <2>2, <2>3, <2>4
<1> QED BY <1>1, HeapInvariant, PTL

\* A node in use keeps its flag and its size through every call of anybody,
\* until kfree is called with its own address.
THEOREM InUseIsKept == Spec => InUseUntilFreed
<1>1. HeapInv /\ [Next]_vars =>
        [\A a \in Nodes : ~node[a].is_free =>
           \/ a \in DOMAIN node' /\ node'[a].is_free = FALSE /\ node'[a].size = node[a].size
           \/ pc = "kfree" /\ arg = a + H]_vars
  BY NextHeap DEF InUseStep
<1> QED BY <1>1, HeapInvariant, PTL DEF Spec, InUseUntilFreed
=============================================================================
