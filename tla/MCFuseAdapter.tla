---------------------------- MODULE MCFuseAdapter ----------------------------
(* A small file system for TLC: root and two users, user 2 also in user  *)
(* 1's group; the root directory and two more inodes; two names; one or  *)
(* two handles; sizes 0 and 1.                                            *)
EXTENDS FuseAdapter, TLC

CONSTANTS root, i2, i3, n1, n2, unset, noAttr, noHandle, noIno

MCUsers == {0, 1, 2}
MCGidOf == (0 :> 0 @@ 1 :> 10 @@ 2 :> 20)
MCGroupsOf == (0 :> {0} @@ 1 :> {10} @@ 2 :> {10, 20})
MCInos == {root, i2, i3}
MCNames == {n1, n2}

(* Nothing tells two names, or two inodes other than the root, apart.   *)
MCSymmetry == {a @@ b : a \in Permutations({i2, i3}), b \in Permutations(MCNames)}

(* A mode from the rights of owner, group and other and the special bits. *)
Mode(u, g, o, special) == ({"u"} \X u) \cup ({"g"} \X g) \cup ({"o"} \X o) \cup special

RW == {"r", "w"}
RWX == {"r", "w", "x"}
RX == {"r", "x"}
R == {"r"}

MCFileModes == {Mode(RW, R, R, {})}
MCDirModes == {Mode(RWX, RWX, RWX, {})}
MCChmodModes == {Mode(RWX, RWX, RWX, {SVTX}), Mode(RWX, RX, RX, {SUID})}

(* chmod to each mode, chown to user 1, and truncate to 0 (the kernel    *)
(* sends the new mtime with it).                                          *)
MCSetAttrs ==
    {[mode |-> m, uid |-> unset, gid |-> unset, size |-> unset, time |-> FALSE]
        : m \in MCChmodModes}
    \cup {[mode |-> unset, uid |-> 1, gid |-> unset, size |-> unset, time |-> FALSE],
          [mode |-> unset, uid |-> unset, gid |-> unset, size |-> 0, time |-> TRUE]}

(* States that differ only in the history variable caller have the same   *)
(* successors: caller is read only, primed, by the action properties.     *)
MCView == <<attr, dirent, handles>>

MCOpenFlags ==
    {[acc |-> "rdonly", trunc |-> FALSE, exec |-> TRUE],
     [acc |-> "wronly", trunc |-> FALSE, exec |-> FALSE],
     [acc |-> "rdwr", trunc |-> TRUE, exec |-> FALSE]}
=============================================================================
