-------------------------------- MODULE Access --------------------------------
(***************************************************************************)
(* file::validate_access (file.cpp:933-1013) and validate_ownership        *)
(* (:1015-1034). A node has an owner, a group and a mode; the mode of a    *)
(* class of users is a set of bits. A context is a user with a group. dirs *)
(* is pathPermissions, the directories from the root to the parent of the  *)
(* file.                                                                   *)
(***************************************************************************)
EXTENDS Integers, Sequences, SequencesExt

CONSTANT superuser         \* uid 0

Bits == {"R", "W", "X"}
ModeType == [sticky : BOOLEAN, user : SUBSET Bits, group : SUBSET Bits,
             other : SUBSET Bits]

(* The first class that applies decides: an owner without a bit does not   *)
(* get it from the group.                                                  *)
ClassOf(node, ctx) ==
  IF node.uid = ctx.uid THEN "user"
  ELSE IF node.gid = ctx.gid THEN "group" ELSE "other"

Grants(node, ctx, want) == want \subseteq node.mode[ClassOf(node, ctx)]

(* stickySet: the first directory of the path that has FLAG_SVTX.          *)
FirstSticky(dirs, k) ==
  dirs[k].mode.sticky /\ \A j \in 1 .. k - 1 : ~dirs[j].mode.sticky
StickyOwner(ctx, dirs, node) ==
  \A k \in DOMAIN dirs : FirstSticky(dirs, k) => ctx.uid \in {node.uid, dirs[k].uid}

(* da: what is asked of the file; dda: what is asked of its directory. *)
ValidateAccess(ctx, dirs, node, da, dda, checkStickyOwner) ==
  \/ ctx.uid = superuser
  \/ /\ \A k \in DOMAIN dirs : Grants(dirs[k], ctx, {"X"})
     /\ dirs # <<>> => Grants(Last(dirs), ctx, dda)
     /\ checkStickyOwner => StickyOwner(ctx, dirs, node)
     /\ Grants(node, ctx, da)

ValidateOwnership(ctx, node, mode) ==
  \/ ctx.uid \in {superuser, node.uid}
  \/ ctx.gid = node.gid
  \/ [mode EXCEPT !.sticky = TRUE] = [node.mode EXCEPT !.sticky = TRUE]
=============================================================================
