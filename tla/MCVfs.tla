-------------------------------- MODULE MCVfs --------------------------------
(* Instances of Vfs: blocks of three bytes, archives whose files are empty, *)
(* shorter than a block, exactly one block and more than eight bytes long,  *)
(* with a NUL inside, the mount points of vfs_init, and registrations below *)
(* and beside them.                                                         *)
EXTENDS Vfs

File(name, data, typeflag) == [name |-> name, data |-> data, typeflag |-> typeflag]
Text(n) == [i \in 1..n |-> IF i % 2 = 1 THEN "x" ELSE "y"]

MCArchives == {<<File(<<"a">>, Text(10), "0"), File(<<"b">>, Text(2), "0")>>,
               <<File(<<"d">>, <<>>, "5"), File(<<"b">>, Text(3), "0"), File(<<"a">>, Text(4), "0")>>,
               <<File(<<"b">>, Text(1), "0"), File(<<"b">>, Text(2), "0")>>,
               <<File(<<"a">>, <<"x", "y", Nul, "x">>, "0"), File(<<"b">>, Text(3), "0")>>}
MCPaths == {<<"/", "e", "/", "a">>, <<"/", "e", "/", "b">>, <<"/", "u", "/", "a">>,
            <<"/", "h", "/", "m", "/", "a">>, <<"/", "h", "/", "a">>}
MCNewMounts == {<<"/", "h">>, <<"/", "e">>}
=============================================================================
