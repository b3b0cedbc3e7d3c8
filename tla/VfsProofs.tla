------------------------------ MODULE VfsProofs ------------------------------
(***************************************************************************)
(* Proofs about Vfs, for any archives, paths, mount points and numbers of  *)
(* descriptors: open and close keep the vnodes of the open files, and      *)
(* vfs_get_mountpoint_id finds the longest mount point.                    *)
(***************************************************************************)
EXTENDS Vfs, FiniteSetTheorems, NaturalsInduction, TLAPS

Slots == 0..(OPENEDFILES_MAX - 1)

\* A vnode, of which the fields may hold anything.
IsVnode(v) ==
  v = [size |-> v.size, refcount |-> v.refcount, v_type |-> v.v_type,
       vfs_root |-> v.vfs_root, v_data |-> v.v_data]

\* The vnode behind a descriptor that a caller holds.
Backed(v, file) ==
  /\ v.refcount = 1
  /\ v.v_data = 0 => v.vfs_root = -1 /\ file = <<>>
  /\ file # <<>> => archive[v.v_data].name = file

\* The vnodes of the descriptors that callers hold, of the others, and of those
\* not taken yet.
Intact ==
  /\ vnode_index \in 0..OPENEDFILES_MAX /\ ~halted
  /\ DOMAIN vnode_cache = Slots /\ \A fd \in Slots : IsVnode(vnode_cache[fd])
  /\ \A h \in handles : h.fd \in 0..(vnode_index - 1) /\ Backed(vnode_cache[h.fd], h.file)
  /\ \A h, g \in handles : h.fd = g.fd => h = g
  /\ \A fd \in Slots : fd >= vnode_index => vnode_cache[fd] = NoVnode
  /\ \A fd \in Slots : (\A h \in handles : h.fd # fd) =>
       vnode_cache[fd].refcount = 0 /\ vnode_cache[fd].v_data = 0
VfsInv == ~misled => Intact

-----------------------------------------------------------------------------
(* What the operations leave in a vnode.                                   *)

LEMMA NoVnodeFields ==
  /\ IsVnode(NoVnode) /\ NoVnode.refcount = 0 /\ NoVnode.v_data = 0 /\ NoVnode.vfs_root = -1
BY DEF IsVnode, NoVnode

LEMMA Cleared ==
  ASSUME NEW v, NEW c, c = vnode_clear(v)
  PROVE  IsVnode(c) /\ c.refcount = 0 /\ c.v_data = 0 /\ c.vfs_root = v.vfs_root
BY DEF IsVnode, NoVnode, vnode_clear

\* A vnode that was never used is cleared to what it was.
LEMMA ClearedUnused == vnode_clear(NoVnode) = NoVnode
BY DEF NoVnode, vnode_clear

LEMMA Closed ==
  ASSUME NEW v, IsVnode(v), NEW c, c = vfs_close(v)
  PROVE  IsVnode(c) /\ (v.refcount = 1 => c.refcount = 0 /\ c.v_data = 0)
<1>1. CASE v.refcount = 1
  BY <1>1, Cleared DEF vfs_close
<1>2. CASE v.refcount # 1
  BY <1>2 DEF vfs_close, IsVnode
<1> QED BY <1>1, <1>2

\* The vnode of a lookup on an unused one: when the file is not there it keeps
\* vfs_root -1.
LEMMA LookedUp ==
  ASSUME NEW path, NEW id, NEW d, d = vfs_lookup(path, id, NoVnode)
  PROVE  IsVnode(d) /\ d.refcount = 1 /\ (d.v_data = 0 => d.vfs_root = -1)
<1> DEFINE item  == ustar_seek(Tail(vfs_get_relative_path(mountpoints[id].path, path)), root_item)
           found == IF item = 0 THEN NoVnode
                    ELSE [ustar_lookup(item, NoVnode) EXCEPT !.vfs_root = id]
<1>1. d = [found EXCEPT !.refcount = @ + 1]
  BY DEF vfs_lookup
<1>2. IsVnode(found) /\ found.refcount = 0 /\ (found.v_data = 0 => found.vfs_root = -1)
  <2> HIDE DEF item
  <2>1. CASE item = 0
    BY <2>1, NoVnodeFields
  <2>2. CASE item # 0
    <3>1. PICK u : u = ustar_lookup(item, NoVnode)
      OBVIOUS
    <3>2. IsVnode(u) /\ u.refcount = 0 /\ u.v_data = item
      BY <3>1, Zenon DEF ustar_lookup, NoVnode, IsVnode
    <3>3. found = [u EXCEPT !.vfs_root = id]
      BY <2>2, <3>1
    <3> HIDE DEF found
    <3> QED BY <2>2, <3>2, <3>3 DEF IsVnode
  <2> QED BY <2>1, <2>2
<1> HIDE DEF found
<1> QED BY <1>1, <1>2 DEF IsVnode

-----------------------------------------------------------------------------
(* The descriptors and the vnodes.                                         *)

LEMMA InitVfs == Init => VfsInv
<1>1. OPENEDFILES_MAX \in Nat
  BY VfsAssumption
<1> QED BY <1>1, NoVnodeFields DEF Init, VfsInv, Intact, Slots

\* A step that touches neither vnodes nor descriptors.
LEMMA VnodesKept ==
  ASSUME Intact, UNCHANGED <<vnode_cache, vnode_index, archive, handles, halted>>
  PROVE  Intact'
BY DEF Intact, Backed, Slots

\* One descriptor more, for the next vnode; or the vnode alone.
LEMMA TakeVnode ==
  ASSUME Intact, vnode_index < OPENEDFILES_MAX, NEW v, IsVnode(v),
         vnode_cache' = [vnode_cache EXCEPT ![vnode_index] = v],
         vnode_index' = vnode_index + 1, UNCHANGED <<archive, halted>>,
         \/ v = NoVnode /\ handles' = handles
         \/ \E file : Backed(v, file) /\ handles' = handles \cup {[fd |-> vnode_index, file |-> file]}
  PROVE  Intact'
<1>0. PICK n \in Nat : n = vnode_index
  BY DEF Intact
<1>1. OPENEDFILES_MAX \in Nat
  BY VfsAssumption
<1>2. /\ n \in Slots /\ vnode_index' = n + 1 /\ n + 1 \in 0..OPENEDFILES_MAX
      /\ vnode_cache'[n] = v /\ DOMAIN vnode_cache' = Slots
      /\ \A fd \in Slots \ {n} : vnode_cache'[fd] = vnode_cache[fd]
  BY <1>0, <1>1 DEF Intact, Slots
<1>3. \A fd \in Slots : IsVnode(vnode_cache'[fd])
  BY <1>2 DEF Intact
<1>4. ASSUME NEW h \in handles
      PROVE  /\ h.fd \in 0..(n - 1) /\ h.fd \in 0..n /\ h.fd \in Slots /\ h.fd # n
             /\ Backed(vnode_cache'[h.fd], h.file)
  <2>1. h.fd \in 0..(n - 1) /\ Backed(vnode_cache[h.fd], h.file)
    BY <1>0 DEF Intact
  <2>2. h.fd \in Slots \ {n} /\ h.fd \in 0..n
    BY <1>0, <1>1, <1>2, <2>1 DEF Slots
  <2> QED BY <1>2, <2>1, <2>2
<1>5. \A h, g \in handles : h.fd = g.fd => h = g
  BY DEF Intact
<1>6. \A fd \in Slots : fd >= n + 1 => vnode_cache'[fd] = NoVnode
  <2>1. \A fd \in Slots : fd >= n => vnode_cache[fd] = NoVnode
    BY <1>0 DEF Intact
  <2>2. \A fd \in Slots : fd >= n + 1 => fd >= n /\ fd # n
    BY <1>0, <1>1 DEF Slots
  <2> QED BY <1>2, <2>1, <2>2
<1>7. ASSUME NEW fd \in Slots, fd # n, \A h \in handles : h.fd # fd
      PROVE  vnode_cache'[fd].refcount = 0 /\ vnode_cache'[fd].v_data = 0
  BY <1>2, <1>7 DEF Intact
<1>8. /\ \A h \in handles' : h.fd \in 0..n /\ Backed(vnode_cache'[h.fd], h.file)
      /\ \A h, g \in handles' : h.fd = g.fd => h = g
      /\ \A fd \in Slots : (\A h \in handles' : h.fd # fd) =>
           vnode_cache'[fd].refcount = 0 /\ vnode_cache'[fd].v_data = 0
  <2>1. CASE v = NoVnode /\ handles' = handles
    BY <1>2, <1>4, <1>5, <1>7, <2>1, NoVnodeFields
  <2>2. ASSUME NEW file, Backed(v, file),
               handles' = handles \cup {[fd |-> vnode_index, file |-> file]}
        PROVE  /\ \A h \in handles' : h.fd \in 0..n /\ Backed(vnode_cache'[h.fd], h.file)
               /\ \A h, g \in handles' : h.fd = g.fd => h = g
               /\ \A fd \in Slots : (\A h \in handles' : h.fd # fd) =>
                    vnode_cache'[fd].refcount = 0 /\ vnode_cache'[fd].v_data = 0
    <3> DEFINE x == [fd |-> vnode_index, file |-> file]
    <3>1. x.fd = n /\ x.file = file /\ handles' = handles \cup {x} /\ n \in 0..n
      BY <1>0, <2>2
    <3> HIDE DEF x
    <3>2. \A h \in handles' : h.fd \in 0..n /\ Backed(vnode_cache'[h.fd], h.file)
      BY <1>2, <1>4, <2>2, <3>1
    <3>3. \A h, g \in handles' : h.fd = g.fd => h = g
      BY <1>4, <1>5, <3>1
    <3>4. \A fd \in Slots : (\A h \in handles' : h.fd # fd) =>
            vnode_cache'[fd].refcount = 0 /\ vnode_cache'[fd].v_data = 0
      BY <1>7, <3>1
    <3> QED BY <3>2, <3>3, <3>4
  <2> QED BY <2>1, <2>2
<1>9. \A h \in handles' : h.fd \in 0..n => h.fd \in 0..(vnode_index' - 1)
  BY <1>0, <1>2
<1>10. ~halted' /\ archive' = archive
  BY DEF Intact
<1>11. \A h \in handles' : Backed(vnode_cache'[h.fd], h.file) => Backed(vnode_cache[h.fd], h.file)'
  BY <1>10 DEF Backed
<1> QED BY <1>2, <1>3, <1>6, <1>8, <1>9, <1>10, <1>11 DEF Intact, Slots

LEMMA OpenKeeps ==
  ASSUME Intact, NEW path, open(path), ~misled'
  PROVE  Intact'
<1> DEFINE id    == vfs_get_mountpoint_id(path)
           vnode == vnode_clear(vnode_cache[vnode_index])
           works == mountpoints[id].fs # "none" /\ mountpoints[id].lookup # "none"
           done  == vfs_lookup(path, id, vnode)
<1>0. UNCHANGED <<archive, halted>> /\ vfs_open(path)
  BY DEF open
<1>1. CASE vnode_index >= OPENEDFILES_MAX /\ UNCHANGED <<vnode_cache, vnode_index, handles, misled>>
  BY <1>0, <1>1, VnodesKept
<1>2. ASSUME vnode_index < OPENEDFILES_MAX PROVE vnode = NoVnode
  <2>1. vnode_index \in Slots /\ vnode_index >= vnode_index
    BY <1>2, VfsAssumption DEF Intact, Slots
  <2>2. vnode_cache[vnode_index] = NoVnode
    BY <2>1 DEF Intact
  <2> QED BY <2>2, ClearedUnused
<1>3. CASE /\ vnode_index < OPENEDFILES_MAX /\ works
           /\ vnode_cache' = [vnode_cache EXCEPT ![vnode_index] = done]
           /\ vnode_index' = vnode_get_next_free(vnode_index)
           /\ handles' = handles \cup {[fd |-> vnode_index,
                                       file |-> IF done.v_data = 0 THEN <<>> ELSE archive[done.v_data].name]}
  <2>1. PICK d : d = done
    OBVIOUS
  <2>2. PICK file : file = IF d.v_data = 0 THEN <<>> ELSE archive[d.v_data].name
    OBVIOUS
  <2>3. IsVnode(d) /\ d.refcount = 1 /\ (d.v_data = 0 => d.vfs_root = -1)
    <3>1. d = vfs_lookup(path, id, NoVnode)
      BY <1>2, <1>3, <2>1
    <3> HIDE DEF id
    <3> QED BY <3>1, LookedUp
  <2>4. Backed(d, file)
    BY <2>2, <2>3 DEF Backed
  <2>5. /\ vnode_index < OPENEDFILES_MAX
        /\ vnode_cache' = [vnode_cache EXCEPT ![vnode_index] = d]
        /\ vnode_index' = vnode_index + 1
        /\ handles' = handles \cup {[fd |-> vnode_index, file |-> file]}
    BY <1>3, <2>1, <2>2 DEF vnode_get_next_free
  <2> QED BY <1>0, <2>3, <2>4, <2>5, TakeVnode, Zenon
<1>4. CASE /\ vnode_index < OPENEDFILES_MAX
           /\ vnode_cache' = [vnode_cache EXCEPT ![vnode_index] = vnode]
           /\ vnode_index' = vnode_get_next_free(vnode_index)
           /\ \E garbage \in -1..(OPENEDFILES_MAX - 1) :
                /\ handles' = IF garbage < 0 THEN handles
                              ELSE handles \cup {[fd |-> garbage, file |-> <<>>]}
                /\ misled' = (misled \/ garbage >= 0)
  <2>1. handles' = handles
    <3>1. PICK garbage \in -1..(OPENEDFILES_MAX - 1) :
            /\ handles' = IF garbage < 0 THEN handles
                          ELSE handles \cup {[fd |-> garbage, file |-> <<>>]}
            /\ misled' = (misled \/ garbage >= 0)
      BY <1>4, Zenon
    <3>2. ~(garbage >= 0)
      BY <3>1, Zenon
    <3>3. garbage < 0
      BY <3>2, VfsAssumption
    <3> QED BY <3>1, <3>3
  <2>2. vnode_cache' = [vnode_cache EXCEPT ![vnode_index] = NoVnode] /\ vnode_index' = vnode_index + 1
    BY <1>2, <1>4, Zenon DEF vnode_get_next_free
  <2> QED BY <1>0, <1>4, <2>1, <2>2, NoVnodeFields, TakeVnode, Zenon
<1>5. \/ vnode_index >= OPENEDFILES_MAX /\ UNCHANGED <<vnode_cache, vnode_index, handles, misled>>
      \/ /\ vnode_index < OPENEDFILES_MAX /\ works
         /\ vnode_cache' = [vnode_cache EXCEPT ![vnode_index] = done]
         /\ vnode_index' = vnode_get_next_free(vnode_index)
         /\ handles' = handles \cup {[fd |-> vnode_index,
                                     file |-> IF done.v_data = 0 THEN <<>> ELSE archive[done.v_data].name]}
      \/ /\ vnode_index < OPENEDFILES_MAX
         /\ vnode_cache' = [vnode_cache EXCEPT ![vnode_index] = vnode]
         /\ vnode_index' = vnode_get_next_free(vnode_index)
         /\ \E garbage \in -1..(OPENEDFILES_MAX - 1) :
              /\ handles' = IF garbage < 0 THEN handles
                            ELSE handles \cup {[fd |-> garbage, file |-> <<>>]}
              /\ misled' = (misled \/ garbage >= 0)
  BY <1>0 DEF vfs_open
<1> QED BY <1>1, <1>3, <1>4, <1>5

LEMMA CloseKeeps ==
  ASSUME Intact, NEW h \in handles, close(h)
  PROVE  Intact'
<1>0. PICK fd \in Slots : fd = h.fd
  BY VfsAssumption DEF Intact, Slots
<1>1. PICK v : v = vnode_cache[fd]
  OBVIOUS
<1>2. IsVnode(v) /\ Backed(v, h.file)
  BY <1>0, <1>1 DEF Intact
<1>3. ~(v.vfs_root # -1 /\ mountpoints[v.vfs_root].fs = "ustar" /\ v.v_data = 0)
  BY <1>2 DEF Backed
<1>4. PICK c : c = vfs_close(v)
  OBVIOUS
<1>5. /\ handles' = handles \ {h} /\ ~halted' /\ UNCHANGED <<vnode_index, archive>>
      /\ vnode_cache' = [vnode_cache EXCEPT ![fd] = c]
  BY <1>0, <1>1, <1>3, <1>4, Zenon DEF close
<1>6. IsVnode(c) /\ c.refcount = 0 /\ c.v_data = 0
  BY <1>2, <1>4, Closed DEF Backed
<1>7. /\ DOMAIN vnode_cache' = Slots /\ vnode_cache'[fd] = c
      /\ \A x \in Slots \ {fd} : vnode_cache'[x] = vnode_cache[x]
  BY <1>5 DEF Intact
<1>8. \A x \in Slots : IsVnode(vnode_cache'[x])
  BY <1>6, <1>7 DEF Intact
<1>9. ASSUME NEW g \in handles'
      PROVE  g.fd \in 0..(vnode_index' - 1) /\ Backed(vnode_cache[g.fd], g.file)'
  <2>1. g \in handles /\ g.fd # fd
    BY <1>0, <1>5 DEF Intact
  <2>2. g.fd \in 0..(vnode_index - 1) /\ g.fd \in Slots
    BY <2>1, VfsAssumption DEF Intact, Slots
  <2>3. vnode_cache'[g.fd] = vnode_cache[g.fd]
    BY <1>7, <2>1, <2>2
  <2>4. Backed(vnode_cache[g.fd], g.file)
    BY <2>1 DEF Intact
  <2> QED BY <1>5, <2>2, <2>3, <2>4 DEF Backed
<1>10. \A x \in Slots : x >= vnode_index' => vnode_cache'[x] = NoVnode
  <2>1. ASSUME NEW x \in Slots, x >= vnode_index PROVE x # fd /\ vnode_cache[x] = NoVnode
    <3>1. fd < vnode_index
      BY <1>0, VfsAssumption DEF Intact, Slots
    <3>2. vnode_index \in Nat /\ fd \in Nat
      BY VfsAssumption DEF Intact, Slots
    <3> QED BY <2>1, <3>1, <3>2 DEF Intact
  <2> QED BY <1>5, <1>7, <2>1
<1>11. ASSUME NEW x \in Slots, \A g \in handles' : g.fd # x
       PROVE  vnode_cache'[x].refcount = 0 /\ vnode_cache'[x].v_data = 0
  <2>1. CASE x = fd
    BY <1>6, <1>7, <2>1
  <2>2. CASE x # fd
    <3>1. \A g \in handles : g.fd # x
      BY <1>0, <1>5, <1>11, <2>2
    <3> QED BY <1>7, <2>2, <3>1 DEF Intact
  <2> QED BY <2>1, <2>2
<1>12. \A g, k \in handles' : g.fd = k.fd => g = k
  BY <1>5 DEF Intact
<1> QED BY <1>5, <1>7, <1>8, <1>9, <1>10, <1>11, <1>12, SMTT(30) DEF Intact, Slots

LEMMA NextVfs == VfsInv /\ [Next]_vars => VfsInv'
<1> SUFFICES ASSUME VfsInv, [Next]_vars, ~misled' PROVE Intact'
  BY DEF VfsInv
<1>0. ASSUME ~misled PROVE Intact
  BY <1>0 DEF VfsInv
<1>1. CASE ustar_driver_init
  BY <1>0, <1>1, VnodesKept DEF ustar_driver_init
<1>2. ASSUME NEW m \in NewMounts, vfs_register(m) PROVE Intact'
  BY <1>0, <1>2, VnodesKept DEF vfs_register
<1>3. ASSUME NEW path \in Paths, open(path) PROVE Intact'
  <2>1. ~misled
    BY <1>3, Zenon DEF open, vfs_open
  <2> QED BY <1>0, <1>3, <2>1, OpenKeeps
<1>4. ASSUME NEW h \in handles, NEW nbytes \in Counts, read(h, nbytes) PROVE Intact'
  BY <1>0, <1>4, VnodesKept DEF read
<1>5. ASSUME NEW h \in handles, close(h) PROVE Intact'
  <2>1. misled' = misled
    BY <1>5 DEF close
  <2> QED BY <1>0, <1>5, <2>1, CloseKeeps
<1>6. CASE UNCHANGED vars
  BY <1>0, <1>6, VnodesKept DEF vars
<1> QED BY <1>1, <1>2, <1>3, <1>4, <1>5, <1>6 DEF Next

\* Whatever is opened and closed in whatever order, each open file keeps its
\* vnode with one reference, a closed one holds nothing, and close never reads
\* at NULL, as long as no failed open handed out a descriptor (vfs.c).
THEOREM DescriptorsKeepVnodes == Spec => []VnodesOfOpenFiles
<1>1. VfsInv => VnodesOfOpenFiles
  <2> SUFFICES ASSUME Intact, NEW fd \in 0..(OPENEDFILES_MAX - 1)
               PROVE  LET open_here == {h \in handles : h.fd = fd}
                      IN  IF open_here = {} THEN vnode_cache[fd].refcount = 0 /\ vnode_cache[fd].v_data = 0
                          ELSE /\ Cardinality(open_here) = 1 /\ vnode_cache[fd].refcount = 1
                               /\ \A h \in open_here : h.file # <<>> =>
                                    archive[vnode_cache[fd].v_data].name = h.file
    BY Zenon DEF VfsInv, VnodesOfOpenFiles, Intact
  <2> DEFINE open_here == {h \in handles : h.fd = fd}
  <2>1. CASE open_here = {}
    BY <2>1 DEF Intact, Slots
  <2>2. ASSUME NEW h \in open_here
        PROVE  /\ open_here = {h} /\ vnode_cache[fd].refcount = 1
               /\ h.file # <<>> => archive[vnode_cache[fd].v_data].name = h.file
    BY DEF Intact, Backed
  <2>3. \A h \in open_here : Cardinality(open_here) = 1
    BY <2>2, FS_Singleton, Zenon
  <2> QED BY <2>1, <2>2, <2>3
<1>2. VfsInv /\ [Next]_vars => VfsInv'
  BY NextVfs
<1> QED BY <1>1, <1>2, InitVfs, PTL DEF Spec

-----------------------------------------------------------------------------
(* The mount point of a path.  vfs_get_mountpoint_id keeps the longest one *)
(* met so far; what it has after i rows is right for those rows.           *)

\* The characters of the paths of vfs_init are named: the provers do not know
\* that a literal is a string.
Chars == STRING \cup {"/", "e", "h", "m", "u"}
MountRows == [path : Seq(Chars), fs : {"none", "ustar", "other"}, lookup : {"none", "ustar"}]
Rows == 0..(MOUNTPOINTS_MAX - 1)
MountInv ==
  mountpoints \in [Rows -> MountRows] /\ mountpoint_index \in Nat /\ mountpoint_index <= MOUNTPOINTS_MAX

\* The rows that start the path, and one step of the loop.
Starts(i, path) == mountpoints[i].path # <<>> /\ IsPrefix(mountpoints[i].path, path)
Longer(i, path, r) ==
  IF Starts(i, path) /\ Len(mountpoints[i].path) > r.len
  THEN [id |-> i, len |-> Len(mountpoints[i].path)] ELSE r
\* What the loop has after row i.
BestOf(i, path, r) ==
  /\ r.len \in Nat /\ r.id \in 0..i
  /\ IF r.id = 0 THEN r.len = 0
     ELSE Starts(r.id, path) /\ r.len = Len(mountpoints[r.id].path)
  /\ \A j \in 1..i : Starts(j, path) => Len(mountpoints[j].path) <= r.len

LEMMA SmallestRow ==
  ASSUME NEW S \in SUBSET Nat, S # {}
  PROVE  \E n \in S : \A m \in S : n <= m
<1>1. IsWellFoundedOn(OpToRel(<, Nat), Nat)
  BY NatLessThanWellFounded, Zenon
<1>2. PICK n \in S : \A m \in S : <<m, n>> \notin OpToRel(<, Nat)
  BY <1>1, WFMin, Zenon
<1>3. \A m \in S : ~(m < n)
  BY <1>2, Zenon DEF OpToRel
<1> QED BY <1>3

\* The loop is well defined: its results form a function of the row.
LEMMA LoopRuns ==
  ASSUME NEW path, NEW n \in Nat
  PROVE  \E f : f = [i \in 0..n |-> IF i = 0 THEN [id |-> 0, len |-> 0] ELSE Longer(i, path, f[i - 1])]
<1> DEFINE Runs(k, f) == f = [i \in 0..k |-> IF i = 0 THEN [id |-> 0, len |-> 0] ELSE Longer(i, path, f[i - 1])]
           Bad == {k \in Nat : ~\E f : Runs(k, f)}
<1>1. SUFFICES ASSUME Bad # {} PROVE FALSE
  BY Zenon
<1>2. PICK k \in Bad : \A m \in Bad : k <= m
  <2> HIDE DEF Runs
  <2>1. Bad \in SUBSET Nat
    OBVIOUS
  <2> HIDE DEF Bad
  <2> QED BY <1>1, <2>1, SmallestRow
<1>3. CASE k = 0
  <2> DEFINE g == [i \in 0..0 |-> [id |-> 0, len |-> 0]]
  <2>1. g = [i \in 0..0 |-> IF i = 0 THEN [id |-> 0, len |-> 0] ELSE Longer(i, path, g[i - 1])]
    OBVIOUS
  <2>2. Runs(0, g)
    BY <2>1
  <2> HIDE DEF g, Runs
  <2> QED BY <1>3, <2>2
<1>4. CASE k # 0
  <2>1. k - 1 \in Nat /\ k \in Nat /\ ~(k <= k - 1)
    BY <1>4
  <2>2. PICK f : Runs(k - 1, f)
    <3> HIDE DEF Runs
    <3> QED BY <1>2, <2>1
  <2> DEFINE g == [i \in 0..k |-> IF i = k THEN Longer(k, path, f[k - 1]) ELSE f[i]]
  <2>3. \A i \in 0..(k - 1) : g[i] = f[i]
    BY <2>1
  <2>4. \A i \in 0..k : g[i] = IF i = 0 THEN [id |-> 0, len |-> 0] ELSE Longer(i, path, g[i - 1])
    <3> SUFFICES ASSUME NEW i \in 0..k
                 PROVE  g[i] = IF i = 0 THEN [id |-> 0, len |-> 0] ELSE Longer(i, path, g[i - 1])
      BY Zenon
    <3>1. CASE i = k
      <4>1. k - 1 \in 0..(k - 1) /\ g[k] = Longer(k, path, f[k - 1])
        BY <2>1
      <4> HIDE DEF g, Runs
      <4> QED BY <1>4, <2>3, <3>1, <4>1
    <3>2. CASE i # k
      <4>1. i \in 0..(k - 1) /\ (i # 0 => i - 1 \in 0..(k - 1))
        BY <2>1, <3>2
      <4>2. f[i] = IF i = 0 THEN [id |-> 0, len |-> 0] ELSE Longer(i, path, f[i - 1])
        BY <2>2, <4>1
      <4> HIDE DEF g, Runs
      <4> QED BY <2>3, <4>1, <4>2
    <3> QED BY <3>1, <3>2
  <2>5. g = [i \in 0..k |-> g[i]]
    OBVIOUS
  <2> HIDE DEF g
  <2>6. Runs(k, g)
    BY <2>4, <2>5, Zenon
  <2> HIDE DEF Runs
  <2> QED BY <2>6
<1> QED BY <1>3, <1>4

\* One row more.
LEMMA RowRight ==
  ASSUME MountInv, NEW path, NEW i \in Rows, i # 0, NEW r, BestOf(i - 1, path, r),
         NEW s, s = Longer(i, path, r)
  PROVE  BestOf(i, path, s)
<1>1. i \in Nat /\ i - 1 \in Nat /\ i \in 0..i /\ 0..(i - 1) \subseteq 0..i
      /\ \A j \in 1..i : j \in 1..(i - 1) \/ j = i
  BY VfsAssumption DEF Rows
<1>2. \A j \in Rows : Len(mountpoints[j].path) \in Nat
  <2>1. \A j \in Rows : mountpoints[j].path \in Seq(Chars)
    BY DEF MountInv, MountRows
  <2> QED BY <2>1
<1>3. \A j \in 1..i : j \in Rows
  BY VfsAssumption DEF Rows
<1>4. CASE Starts(i, path) /\ Len(mountpoints[i].path) > r.len
  <2>1. s.id = i /\ s.len = Len(mountpoints[i].path)
    BY <1>4 DEF Longer
  <2>2. ASSUME NEW j \in 1..i, Starts(j, path) PROVE Len(mountpoints[j].path) <= s.len
    <3>1. CASE j = i
      BY <1>2, <2>1, <3>1
    <3>2. CASE j \in 1..(i - 1)
      <4>1. Len(mountpoints[j].path) <= r.len /\ r.len \in Nat
        BY <2>2, <3>2 DEF BestOf
      <4> QED BY <1>2, <1>3, <1>4, <2>1, <4>1, SMTT(30)
    <3> QED BY <1>1, <3>1, <3>2
  <2> QED BY <1>1, <1>2, <1>4, <2>1, <2>2, SMTT(30) DEF BestOf
<1>5. CASE ~(Starts(i, path) /\ Len(mountpoints[i].path) > r.len)
  <2>1. s = r
    BY <1>5 DEF Longer
  <2>2. ASSUME NEW j \in 1..i, Starts(j, path) PROVE Len(mountpoints[j].path) <= s.len
    <3>1. CASE j = i
      BY <1>2, <1>5, <2>1, <2>2, <3>1, SMTT(30) DEF BestOf
    <3>2. CASE j \in 1..(i - 1)
      BY <2>1, <2>2, <3>2, SMTT(30) DEF BestOf
    <3> QED BY <1>1, <3>1, <3>2
  <2> QED BY <1>1, <2>1, <2>2 DEF BestOf
<1> QED BY <1>4, <1>5

\* All the rows: vfs_get_mountpoint_id returns the longest mount point that
\* starts the path, the root when none does.
LEMMA MountFound ==
  ASSUME MountInv, NEW path
  PROVE  LongestMount(path, vfs_get_mountpoint_id(path))
<1> DEFINE Runs(f) == f = [i \in Rows |-> IF i = 0 THEN [id |-> 0, len |-> 0] ELSE Longer(i, path, f[i - 1])]
           n == MOUNTPOINTS_MAX - 1
           last == CHOOSE f : Runs(f)
<1>1. n \in Nat /\ n # 0 /\ n \in Rows /\ 0 \in Rows
  BY VfsAssumption DEF Rows
<1>2. \E f : Runs(f)
  BY <1>1, LoopRuns, Zenon DEF Rows
<1>3. Runs(last)
  <2> HIDE DEF Runs
  <2> QED BY <1>2
<1>4. vfs_get_mountpoint_id(path) = last[n].id
  BY DEF vfs_get_mountpoint_id, Longer, Starts, Rows
<1> HIDE DEF last
<1>5. last[0] = [id |-> 0, len |-> 0] /\ \A i \in Rows : i # 0 => last[i] = Longer(i, path, last[i - 1])
  BY <1>1, <1>3, Zenon
<1> HIDE DEF Runs
<1>6. BestOf(0, path, last[0])
  BY <1>5 DEF BestOf
<1> DEFINE Bad == {i \in Rows : ~BestOf(i, path, last[i])}
<1>7. Bad = {}
  <2> SUFFICES ASSUME Bad # {} PROVE FALSE
    OBVIOUS
  <2>1. Bad \in SUBSET Nat
    BY <1>1 DEF Rows
  <2>2. PICK i \in Bad : \A m \in Bad : i <= m
    <3> HIDE DEF Bad
    <3> QED BY <2>1, SmallestRow
  <2>3. i \in Rows /\ i # 0
    BY <1>6
  <2>4. i - 1 \in Rows /\ ~(i <= i - 1)
    BY <1>1, <2>3 DEF Rows
  <2>5. BestOf(i - 1, path, last[i - 1])
    BY <2>2, <2>4
  <2>6. BestOf(i, path, last[i])
    BY <1>5, <2>3, <2>5, RowRight, SMTT(30)
  <2> QED BY <2>6
<1>8. BestOf(n, path, last[n])
  BY <1>1, <1>7
<1>9. PICK id : id = last[n].id
  OBVIOUS
<1>10. /\ id \in 0..n /\ (id # 0 => Starts(id, path))
       /\ \A j \in 1..n : Starts(j, path) => id # 0 /\ Len(mountpoints[j].path) <= Len(mountpoints[id].path)
  <2>1. id \in 0..n /\ (id # 0 => Starts(id, path) /\ last[n].len = Len(mountpoints[id].path))
    BY <1>8, <1>9 DEF BestOf
  <2>2. ASSUME NEW j \in 1..n, Starts(j, path) PROVE id # 0 /\ Len(mountpoints[j].path) <= last[n].len
    <3>1. Len(mountpoints[j].path) <= last[n].len
      BY <1>8, <2>2 DEF BestOf
    <3>2. j \in Rows /\ mountpoints[j].path # <<>>
      BY <1>1, <2>2 DEF Rows, Starts
    <3>3. mountpoints[j].path \in Seq(Chars)
      BY <3>2 DEF MountInv, MountRows
    <3>4. Len(mountpoints[j].path) \in Nat /\ Len(mountpoints[j].path) # 0
      BY <3>2, <3>3
    <3>5. id = 0 => last[n].len = 0
      BY <1>8, <1>9 DEF BestOf
    <3> QED BY <3>1, <3>4, <3>5, SMTT(30)
  <2> QED BY <2>1, <2>2
<1>11. id # 0 => id \in 1..n
  BY <1>1, <1>10
<1> QED BY <1>4, <1>9, <1>10, <1>11 DEF LongestMount, Starts

LEMMA InitMounts == Init => MountInv
<1> SUFFICES ASSUME Init PROVE MountInv
  OBVIOUS
<1>1. ASSUME NEW i \in Rows PROVE mountpoints[i] \in MountRows
  <2>1. mountpoints[i] = CASE i = 0 -> [NoMount EXCEPT !.path = <<"/">>]
                           [] i = 1 -> [NoMount EXCEPT !.path = <<"/", "h", "/", "m">>]
                           [] i = 2 -> [NoMount EXCEPT !.path = <<"/", "u">>]
                           [] i = 3 -> [path |-> <<"/", "e">>, fs |-> "ustar", lookup |-> "ustar"]
                           [] OTHER -> NoMount
    BY DEF Init, Rows
  <2>2. \A p \in Seq(Chars) : [NoMount EXCEPT !.path = p] \in MountRows
    BY DEF NoMount, MountRows
  <2>3. /\ <<"/">> \in Seq(Chars) /\ <<"/", "h", "/", "m">> \in Seq(Chars)
        /\ <<"/", "u">> \in Seq(Chars) /\ <<"/", "e">> \in Seq(Chars) /\ <<>> \in Seq(Chars)
    BY DEF Chars
  <2>4. /\ NoMount \in MountRows
        /\ [path |-> <<"/", "e">>, fs |-> "ustar", lookup |-> "ustar"] \in MountRows
    BY <2>3 DEF NoMount, MountRows
  <2>5. /\ [NoMount EXCEPT !.path = <<"/">>] \in MountRows
        /\ [NoMount EXCEPT !.path = <<"/", "h", "/", "m">>] \in MountRows
        /\ [NoMount EXCEPT !.path = <<"/", "u">>] \in MountRows
    BY <2>2, <2>3, Zenon
  <2> QED BY <2>1, <2>4, <2>5
<1>2. mountpoints = [i \in Rows |-> mountpoints[i]]
  BY DEF Init, Rows
<1>3. mountpoint_index = 3 /\ 3 <= MOUNTPOINTS_MAX
  BY VfsAssumption DEF Init
<1> QED BY <1>1, <1>2, <1>3 DEF MountInv

LEMMA NextMounts == MountInv /\ [Next]_vars => MountInv'
<1> SUFFICES ASSUME MountInv, [Next]_vars PROVE MountInv'
  OBVIOUS
<1>1. ASSUME NEW m \in NewMounts, vfs_register(m) PROVE MountInv'
  <2>1. mountpoint_index \in Rows /\ mountpoint_index + 1 <= MOUNTPOINTS_MAX
    BY <1>1, VfsAssumption DEF vfs_register, MountInv, Rows
  <2>2. m \in Seq(Chars)
    <3>1. m \in Seq(STRING)
      BY VfsAssumption
    <3> QED BY <3>1 DEF Chars
  <2> DEFINE row == [mountpoints[mountpoint_index] EXCEPT !.path = m, !.fs = "other"]
  <2>3. row \in MountRows
    BY <2>1, <2>2, Zenon DEF MountInv, MountRows
  <2>4. mountpoints' = [mountpoints EXCEPT ![mountpoint_index] = row]
    <3>1. mountpoints' = [mountpoints EXCEPT ![mountpoint_index].path = m,
                                             ![mountpoint_index].fs = "other"]
      BY <1>1 DEF vfs_register
    <3>2. DOMAIN mountpoints = Rows /\ mountpoints = [i \in Rows |-> mountpoints[i]]
      BY DEF MountInv
    <3>3. mountpoints[mountpoint_index] \in MountRows
      BY <2>1 DEF MountInv
    <3> QED BY <2>1, <3>1, <3>2, <3>3, Zenon DEF MountRows
  <2> HIDE DEF row
  <2>5. mountpoint_index' = mountpoint_index + 1
    BY <1>1 DEF vfs_register
  <2> QED BY <2>1, <2>3, <2>4, <2>5 DEF MountInv, Rows
<1>2. CASE UNCHANGED <<mountpoints, mountpoint_index>>
  BY <1>2 DEF MountInv
<1>3. CASE ustar_driver_init
  BY <1>2, <1>3 DEF ustar_driver_init
<1>4. ASSUME NEW path \in Paths, open(path) PROVE MountInv'
  BY <1>2, <1>4 DEF open
<1>5. ASSUME NEW h \in handles, NEW nbytes \in Counts, read(h, nbytes) PROVE MountInv'
  BY <1>2, <1>5 DEF read
<1>6. ASSUME NEW h \in handles, close(h) PROVE MountInv'
  BY <1>2, <1>6 DEF close
<1> QED BY <1>1, <1>2, <1>3, <1>4, <1>5, <1>6, SMTT(30) DEF Next, vars

\* Whatever was registered, a path belongs to the longest mount point that is a
\* prefix of it, the root when there is none (vfs_get_mountpoint_id): the first
\* half of PathsResolve, for every path and not only those that are opened.
THEOREM LongestMountWins ==
  Spec => [](\A path : LongestMount(path, vfs_get_mountpoint_id(path)))
<1>1. MountInv => \A path : LongestMount(path, vfs_get_mountpoint_id(path))
  BY MountFound
<1> QED BY <1>1, InitMounts, NextMounts, PTL DEF Spec
=============================================================================
