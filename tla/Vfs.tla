--------------------------------- MODULE Vfs ---------------------------------
(***************************************************************************)
(* The file layer: mount points and vnodes (fs/vfs.c, fs/vnode.c),         *)
(* open, read and close (fs/fcntl.c, libc/unistd.c) and the ustar driver   *)
(* (drivers/fs/ustar.c) on a tar archive loaded as a boot module.          *)
(*                                                                         *)
(* The calls are made by kernel_start before the timer is started, so each *)
(* is one step.  A string is a sequence of characters; the ones that occur *)
(* are a small set, and Nul ends a string.  The archive is the sequence of *)
(* its blocks: a header, the blocks of the file, ..., two zero blocks.     *)
(*                                                                         *)
(* An operator whose name starts with mut_ is a wrong version of the one   *)
(* that follows it and is used by no definition.                           *)
(***************************************************************************)
EXTENDS Integers, Sequences, SequencesExt, FiniteSets, FiniteSetsExt

CONSTANTS Block,            \* bytes of a block, 512
          OctWidth,         \* USTAR_FILESIZE_SIZE
          Archives,         \* the archives: sequences of [name, data, typeflag]
          Paths,            \* the paths that are opened
          NewMounts,        \* the mount points that are registered
          Counts,           \* the nbytes of a read
          MOUNTPOINTS_MAX,
          OPENEDFILES_MAX,
          MaxRegister,      \* bound: registrations, inside the array
          MaxOpens          \* bound: calls of open

ASSUME VfsAssumption ==
  /\ Block \in Nat \ {0} /\ OctWidth \in Nat \ {0, 1}
  /\ MOUNTPOINTS_MAX \in Nat /\ MOUNTPOINTS_MAX > 3
  /\ OPENEDFILES_MAX \in Nat \ {0}
  /\ MaxRegister \in Nat /\ 3 + MaxRegister <= MOUNTPOINTS_MAX
  /\ MaxOpens \in Nat
  /\ NewMounts \subseteq Seq(STRING)

Nul == "nul"
EOPEN_ERROR == -1

VARIABLES mountpoints,       \* [0..MOUNTPOINTS_MAX-1 -> path and operations]
          mountpoint_index,
          vnode_cache,       \* [0..OPENEDFILES_MAX-1 -> vnode]
          vnode_index,
          archive,           \* the blocks at tar_module_start_hh
          files,             \* what the archive was made of
          root_item,         \* ustar_root_fs.root_item: a block, 0 for NULL
          next_file_descriptor,
          handles,           \* the descriptors callers hold: [fd, file]
          misled,            \* a failed open returned a descriptor
          got,               \* the last read: [file, count, bytes]
          halted             \* a read at NULL ended in hlt

vars == <<mountpoints, mountpoint_index, vnode_cache, vnode_index, archive, files,
          root_item, next_file_descriptor, handles, misled, got, halted>>

-----------------------------------------------------------------------------
(* tar archives                                                            *)

\* The size field as tar writes it: octal digits, the last byte is NUL.
OctalField(n) == [i \in 1..OctWidth |-> IF i = OctWidth THEN Nul ELSE (n \div (8 ^ (OctWidth - 1 - i))) % 8]
BlocksOf(bytes) == (bytes + Block - 1) \div Block
Zero == [kind |-> "zero"]
Header(f) == [kind |-> "header", name |-> f.name, file_size |-> OctalField(Len(f.data)), typeflag |-> f.typeflag]
Data(f, k) == [kind |-> "data", bytes |-> [i \in 1..Block |->
                 LET p == (k - 1) * Block + i IN IF p <= Len(f.data) THEN f.data[p] ELSE Nul]]
Tar(fs) == FlattenSeq([j \in 1..Len(fs) |->
             <<Header(fs[j])>> \o [k \in 1..BlocksOf(Len(fs[j].data)) |-> Data(fs[j], k)]])
           \o <<Zero, Zero>>

octascii_to_dec(number, size) ==
  FoldFunction(+, 0, [i \in 0..(size - 2) |-> number[i + 1] * 8 ^ (size - 2 - i)])

ustar_is_zeroed(b) == archive[b].kind = "zero"

\* A zero block is not passed, so it is counted twice and ends the search.
\* NULL is 0.
ustar_seek(filename, tar_root) ==
  LET seek[b \in 1..Len(archive)] ==
        IF ustar_is_zeroed(b) THEN 0
        ELSE IF archive[b].name = filename THEN b
        ELSE seek[b + BlocksOf(octascii_to_dec(archive[b].file_size, OctWidth)) + 1]
  IN  seek[tar_root]

\* The position among the items, or -1, and the item.
ustar_find(filename, tar_root) ==
  LET find[b \in 1..Len(archive), counter \in 0..Len(archive)] ==
        IF ustar_is_zeroed(b) THEN <<-1, 0>>
        ELSE IF archive[b].name = filename THEN <<counter, b>>
        ELSE find[b + BlocksOf(octascii_to_dec(archive[b].file_size, OctWidth)) + 1, counter + 1]
  IN  find[tar_root, 0]

ustar_get_type(type) == CASE type = "0" -> "V_REGULAR_FILE" [] type = "5" -> "V_DIR" [] OTHER -> "V_BAD"
ustar_get_file_start(item) == item + 1

\* The byte at an offset from a block, through the blocks that follow; the
\* zero blocks stop every read inside the archive.
ByteAt(b, offset) ==
  LET n  == b + offset \div Block
      at == IF n <= Len(archive) THEN archive[n] ELSE Zero
      i  == (offset % Block) + 1
  IN  CASE at.kind = "zero"   -> Nul
        [] at.kind = "data"   -> at.bytes[i]
        [] at.kind = "header" -> IF i <= Len(at.name) THEN at.name[i] ELSE Nul

\* nbytes bytes, or those before the first NUL; the size of the file is not
\* looked at.
mut_read_one_more(item, nbytes) ==
  LET start == ustar_get_file_start(item)
      stop  == Min({nbytes} \cup {i \in 0..nbytes : ByteAt(start, i) = Nul})
  IN  [i \in 1..(stop + 1) |-> ByteAt(start, i - 1)]
ustar_read(item, nbytes) ==
  LET start == ustar_get_file_start(item)
      stop  == Min({nbytes} \cup {i \in 0..(nbytes - 1) : ByteAt(start, i) = Nul})
  IN  [i \in 1..stop |-> ByteAt(start, i - 1)]

-----------------------------------------------------------------------------
(* vfs.c and vnode.c                                                       *)

NoVnode == [size |-> 0, refcount |-> 0, v_type |-> "V_NONE", vfs_root |-> -1, v_data |-> 0]
NoMount == [path |-> <<>>, fs |-> "none", lookup |-> "none"]

Init ==
  /\ files \in Archives /\ archive = Tar(files)
  /\ mountpoints = [i \in 0..(MOUNTPOINTS_MAX - 1) |->
       CASE i = 0 -> [NoMount EXCEPT !.path = <<"/">>]
         [] i = 1 -> [NoMount EXCEPT !.path = <<"/", "h", "/", "m">>]
         [] i = 2 -> [NoMount EXCEPT !.path = <<"/", "u">>]
         [] i = 3 -> [path |-> <<"/", "e">>, fs |-> "ustar", lookup |-> "ustar"]
         [] OTHER -> NoMount]
  /\ mountpoint_index = 3
  /\ vnode_cache = [i \in 0..(OPENEDFILES_MAX - 1) |-> NoVnode] /\ vnode_index = 0
  /\ root_item = 0 /\ next_file_descriptor = 3
  /\ handles = {} /\ misled = FALSE /\ halted = FALSE
  /\ got = [file |-> <<>>, count |-> 0, bytes |-> <<>>]

ustar_driver_init ==
  /\ root_item = 0 /\ root_item' = 1
  /\ UNCHANGED <<mountpoints, mountpoint_index, vnode_cache, vnode_index, archive, files,
                 next_file_descriptor, handles, misled, got, halted>>

\* A registration takes the slot mountpoint_index, the first time that of
\* /external; the lookup of the slot stays.
vfs_register(mountpoint) ==
  /\ root_item # 0 /\ ~halted /\ mountpoint_index < 3 + MaxRegister
  /\ mountpoints' = [mountpoints EXCEPT ![mountpoint_index].path = mountpoint,
                                        ![mountpoint_index].fs = "other"]
  /\ mountpoint_index' = mountpoint_index + 1
  /\ UNCHANGED <<vnode_cache, vnode_index, archive, files, root_item,
                 next_file_descriptor, handles, misled, got, halted>>

mut_last_mountpoint_id(path) ==
  Max({0} \cup {i \in 1..(MOUNTPOINTS_MAX - 1) : mountpoints[i].path # <<>> /\ IsPrefix(mountpoints[i].path, path)})
\* The longest mount point that starts the path; of equals, the first.
vfs_get_mountpoint_id(path) ==
  LET last[i \in 0..(MOUNTPOINTS_MAX - 1)] ==
        IF i = 0 THEN [id |-> 0, len |-> 0]
        ELSE LET p == mountpoints[i].path
             IN  IF p # <<>> /\ IsPrefix(p, path) /\ Len(p) > last[i - 1].len
                 THEN [id |-> i, len |-> Len(p)] ELSE last[i - 1]
  IN  last[MOUNTPOINTS_MAX - 1].id

vfs_get_relative_path(root_prefix, path) == SubSeq(path, Len(root_prefix) + 1, Len(path))

\* ustar_lookup: what it leaves in a vnode; NULL leaves it as it is.
ustar_lookup(item, vnode) ==
  [vnode EXCEPT !.v_type = IF archive[item].typeflag = "0" THEN ustar_get_type("0") ELSE @,
                !.v_data = item,
                !.size = octascii_to_dec(archive[item].file_size, OctWidth)]

\* vnode_get_next_free and vnode_clear keep vfs_root.
mut_vnode_clear(vnode) == [NoVnode EXCEPT !.vfs_root = vnode.vfs_root, !.v_data = vnode.v_data]
vnode_clear(vnode) == [NoVnode EXCEPT !.vfs_root = vnode.vfs_root]

\* A vnode is taken even when the lookup fails.
vnode_get_next_free(index) == index + 1

\* The file whose name follows the mount point and a slash, when it is there.
vfs_lookup(path, id, vnode) ==
  LET relative == vfs_get_relative_path(mountpoints[id].path, path)
      item     == ustar_seek(Tail(relative), root_item)
      found    == IF item = 0 THEN vnode
                  ELSE [ustar_lookup(item, vnode) EXCEPT !.vfs_root = id]
  IN  [found EXCEPT !.refcount = @ + 1]

task_alloc_fd == next_file_descriptor' = next_file_descriptor + 1

\* Without a vnode to give it returns an error; after a failed lookup it
\* returns no value, and the caller sees whatever the register holds.
vfs_open(path) ==
  LET id    == vfs_get_mountpoint_id(path)
      vnode == vnode_clear(vnode_cache[vnode_index])
      works == mountpoints[id].fs # "none" /\ mountpoints[id].lookup # "none"
      done  == vfs_lookup(path, id, vnode)
  IN  \/ /\ vnode_index >= OPENEDFILES_MAX
         /\ UNCHANGED <<vnode_cache, vnode_index, handles, misled>>
      \/ /\ vnode_index < OPENEDFILES_MAX /\ works
         /\ vnode_cache' = [vnode_cache EXCEPT ![vnode_index] = done]
         /\ vnode_index' = vnode_get_next_free(vnode_index)
         /\ handles' = handles \cup {[fd |-> vnode_index,
                                      file |-> IF done.v_data = 0 THEN <<>> ELSE archive[done.v_data].name]}
         /\ UNCHANGED misled
      \/ /\ vnode_index < OPENEDFILES_MAX /\ ~works
         /\ vnode_cache' = [vnode_cache EXCEPT ![vnode_index] = vnode]
         /\ vnode_index' = vnode_get_next_free(vnode_index)
         /\ \E garbage \in -1..(OPENEDFILES_MAX - 1) :
              /\ handles' = IF garbage < 0 THEN handles
                            ELSE handles \cup {[fd |-> garbage, file |-> <<>>]}
              /\ misled' = (misled \/ garbage >= 0)

\* The descriptor of the task is counted and not used.
open(path) ==
  /\ root_item # 0 /\ ~halted /\ next_file_descriptor < 3 + MaxOpens
  /\ task_alloc_fd /\ vfs_open(path)
  /\ UNCHANGED <<mountpoints, mountpoint_index, archive, files, root_item, got, halted>>

\* vfs_read: a vnode without a file reads nothing; a registered file system
\* returns bytes of its own.
vfs_read(vnode, nbytes) ==
  CASE vnode.vfs_root = -1 \/ vnode.v_data = 0 -> <<>>
    [] vnode.vfs_root # -1 /\ vnode.v_data # 0 ->
         IF mountpoints[vnode.vfs_root].fs = "ustar" THEN ustar_read(vnode.v_data, nbytes) ELSE <<"other">>

read(h, nbytes) ==
  /\ ~halted
  /\ got' = [file |-> h.file, count |-> nbytes, bytes |-> vfs_read(vnode_cache[h.fd], nbytes)]
  /\ UNCHANGED <<mountpoints, mountpoint_index, vnode_cache, vnode_index, archive, files,
                 root_item, next_file_descriptor, handles, misled, halted>>

\* vfs_close: ustar_close reads the name of the item, at NULL once the vnode
\* has been cleared.
vfs_close(vnode) ==
  IF vnode.refcount = 1 THEN vnode_clear(vnode) ELSE [vnode EXCEPT !.refcount = @ - 1]

close(h) ==
  LET vnode == vnode_cache[h.fd]
      fault == vnode.vfs_root # -1 /\ mountpoints[vnode.vfs_root].fs = "ustar" /\ vnode.v_data = 0
  IN  /\ ~halted
      /\ handles' = handles \ {h}
      /\ halted' = fault
      /\ vnode_cache' = IF fault THEN vnode_cache ELSE [vnode_cache EXCEPT ![h.fd] = vfs_close(vnode)]
      /\ UNCHANGED <<mountpoints, mountpoint_index, vnode_index, archive, files, root_item,
                     next_file_descriptor, misled, got>>

Next ==
  \/ ustar_driver_init
  \/ \E mountpoint \in NewMounts : vfs_register(mountpoint)
  \/ \E path \in Paths : open(path)
  \/ \E h \in handles, nbytes \in Counts : read(h, nbytes)
  \/ \E h \in handles : close(h)

Spec == Init /\ [][Next]_vars

-----------------------------------------------------------------------------
(* Properties                                                              *)

\* The longest of the mount points that are a prefix of the path, or the root.
LongestMount(path, id) ==
  LET mounts == {i \in 1..(MOUNTPOINTS_MAX - 1) :
                   mountpoints[i].path # <<>> /\ IsPrefix(mountpoints[i].path, path)}
  IN  IF mounts = {} THEN id = 0
      ELSE id \in mounts /\ \A i \in mounts : Len(mountpoints[i].path) <= Len(mountpoints[id].path)

\* A path belongs to the longest mount point that is a prefix of it, the root
\* when there is none, whatever was registered (vfs_get_mountpoint_id); and the
\* search for a name walks from header to header by the octal sizes and returns
\* the first file of the name, NULL when there is none, ustar_find the same
\* item and its position (ustar_seek, octascii_to_dec).
PathsResolve ==
  /\ \A path \in Paths : LongestMount(path, vfs_get_mountpoint_id(path))
  /\ \A name \in {files[j].name : j \in 1..Len(files)} \cup {<<"z">>} :
       LET at    == {j \in 1..Len(files) : files[j].name = name}
           item  == ustar_seek(name, 1)
           found == ustar_find(name, 1)
       IN  IF at = {} THEN item = 0 /\ found = <<-1, 0>>
           ELSE /\ archive[item] = Header(files[Min(at)])
                /\ found = <<Min(at) - 1, item>>

\* What a reader of the file is given at most: its bytes before the first NUL.
\* The size is not looked at, so a file without a NUL that fills its last block
\* is followed by the name in the next header.
Readable(j) ==
  LET data == files[j].data
      nuls == {i \in 1..Len(data) : data[i] = Nul}
  IN  IF nuls # {} THEN SubSeq(data, 1, Min(nuls) - 1)
      ELSE IF Len(data) % Block = 0 /\ j < Len(files) THEN data \o files[j + 1].name
      ELSE data

\* A read through the descriptor of an open file returns the first bytes of
\* that file and of no other, whatever else was opened, read and closed, with
\* the two exceptions of ustar_read: it ends at the first NUL of the file, and
\* it runs past a file that fills its last block into the name of the next one.
\* It says nothing once a failed open handed out a descriptor, or another file
\* system was registered in the place of the mounted one.
ReadReturnsFile ==
  ~misled /\ mountpoints[3].fs = "ustar" /\ got.file # <<>> =>
    LET text == Readable(Min({j \in 1..Len(files) : files[j].name = got.file}))
    IN  got.bytes = SubSeq(text, 1, Min({got.count, Len(text)}))

\* Closing releases exactly the vnode of the descriptor: every open file keeps
\* its vnode with one reference, a closed one holds nothing, and nobody reads
\* at NULL, as long as no failed open handed out a descriptor.
VnodesOfOpenFiles ==
  ~misled => /\ ~halted
             /\ \A fd \in 0..(OPENEDFILES_MAX - 1) :
                  LET open_here == {h \in handles : h.fd = fd}
                  IN  IF open_here = {} THEN vnode_cache[fd].refcount = 0 /\ vnode_cache[fd].v_data = 0
                      ELSE /\ Cardinality(open_here) = 1 /\ vnode_cache[fd].refcount = 1
                           /\ \A h \in open_here : h.file # <<>> =>
                                archive[vnode_cache[fd].v_data].name = h.file
=============================================================================
