-------------------------- MODULE MCWorkspaceFiles --------------------------
(***************************************************************************)
(* Three requests in two threads on a tree of two names, one of which may  *)
(* be new: tars with two members, with an unsafe one at the end and for    *)
(* the other spelling of the user's id, pulls with and without the lock,   *)
(* and a single write.                                                     *)
(***************************************************************************)
EXTENDS WorkspaceFiles
CONSTANTS f, g, Old

Op(kind, id, files) == [kind |-> kind, id |-> id, files |-> files]
AllOps == {Op("push", "1", <<f, g>>), Op("push", "1", <<g, Unsafe>>),
           Op("push", "+1", <<f>>), Op("pull", "1", <<>>),
           Op("pull", NoLock, <<>>), Op("write", "1", <<f>>)}
TwoTrees == {[n \in Files |-> IF n = f THEN Old ELSE c] : c \in {Old, Absent}}
=============================================================================
