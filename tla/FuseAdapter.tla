----------------------------- MODULE FuseAdapter -----------------------------
(***************************************************************************)
(* The FUSE adapter of src/encryptedfs_fuse3.rs over the EncryptedFs       *)
(* facade it calls.                                                        *)
(*                                                                         *)
(* EncryptedFsFuse3 turns each kernel request into calls of EncryptedFs    *)
(* (get_inode, find_by_name, create_nod, remove_file, remove_dir, rename,  *)
(* open, truncate, write, release, update_inode) and makes the POSIX       *)
(* permission decisions itself (check_access, the sticky bit, the setid    *)
(* rules).  EncryptedFs is not in src/: what its calls do is taken from    *)
(* the spec (section 4.8) and kept as small as the adapter needs.          *)
(*                                                                         *)
(* Each handler is one step.  The kernel holds the VFS lock of the parent *)
(* directory (of both parents for rename) and of the inode (for setattr)  *)
(* while it waits for the reply, so handlers that work on one name or one *)
(* inode cannot interleave.  A request that ends in an error changes      *)
(* nothing and is a stuttering step, so only the successful paths are     *)
(* actions; every guard below is an early return of the code.              *)
(*                                                                         *)
(* Permission bits are a set: the three setid/sticky bits and the pairs    *)
(* <<class, right>> for the nine rwx bits; a shift-and-mask of the code    *)
(* becomes a membership test.  Contents are abstracted to their size.      *)
(***************************************************************************)
EXTENDS Naturals, FiniteSets

CONSTANTS
    Users,       \* request uids; 0 is root, as in the code
    GidOf,       \* GidOf[u]: the gid of u's requests (req.gid)
    GroupsOf,    \* GroupsOf[u]: get_groups(req.pid), u's supplementary groups
    Inos,        \* inode numbers
    RootIno,     \* the root directory
    NoIno,       \* find_by_name returned None
    Names,       \* directory entry names
    Fhs,         \* file handle numbers
    MaxSize,     \* the largest file size of the model
    SuidSupport, \* self.suid_support (only with the abi-7-26 feature)
    FileModes,   \* modes passed to mknod/create for a regular file
    DirModes,    \* modes passed to mknod/mkdir for a directory
    SetAttrs,    \* setattr requests: [mode, uid, gid, size, time]
    OpenFlags,   \* open flags: [acc, trunc, exec]
    Unset,       \* an absent Option field of a setattr request
    NoAttr,      \* get_inode fails: no such inode
    NoHandle     \* no open handle under this number

ASSUME FuseAdapterAssumption ==
    /\ 0 \in Users
    /\ RootIno \in Inos /\ NoIno \notin Inos
    /\ MaxSize \in Nat
    /\ SuidSupport \in BOOLEAN

VARIABLES
    attr,        \* attr[i]: the FileAttr of inode i, or NoAttr
    dirent,      \* dirent[d][n]: the inode named n in directory d, or NoIno
    handles,     \* handles[fh]: [ino, read, write, uid] of an open handle
    caller       \* the uid of the request that took the last step (history)

vars == <<attr, dirent, handles, caller>>

SUID == <<"s", "uid">>
SGID == <<"s", "gid">>
SVTX == <<"s", "vtx">>
Rights == {"r", "w", "x"}
PermBits == {SUID, SGID, SVTX} \cup ({"u", "g", "o"} \X Rights)
XBits == {"u", "g", "o"} \X {"x"}

Attrs == [kind : {"file", "dir"}, uid : Users, gid : {GidOf[u] : u \in Users},
          perm : SUBSET PermBits, size : 0..MaxSize]

Handles == [ino : Inos, read : BOOLEAN, write : BOOLEAN, uid : Users]

(* The requests are well formed: modes are sets of permission bits, and a *)
(* setattr carries a mode, a size in range, or Unset; the sentinels are   *)
(* no attributes and no handle.                                            *)
ASSUME FuseAdapterInputs ==
    /\ FileModes \subseteq SUBSET PermBits
    /\ DirModes \subseteq SUBSET PermBits
    /\ \A sa \in SetAttrs :
          /\ sa.mode \in (SUBSET PermBits) \cup {Unset}
          /\ sa.size \in (0..MaxSize) \cup {Unset}
          /\ sa.time \in BOOLEAN
    /\ NoAttr \notin Attrs
    /\ NoHandle \notin Handles

-----------------------------------------------------------------------------
(* clear_suid_sgid: SUID always, SGID only when group-execute is set.     *)
ClearSuidSgid(perm) ==
    perm \ ({SUID} \cup (IF <<"g", "x">> \in perm THEN {SGID} ELSE {}))

(* EncryptedFsFuse3::creation_mode. *)
CreationMode(mode) == IF SuidSupport THEN mode ELSE mode \ {SUID, SGID}

(* creation_gid: a new inode takes the group of an SGID parent. *)
CreationGid(pa, gid) == IF SGID \in pa.perm THEN pa.gid ELSE gid

(* check_access: root may read and write anything and execute what has   *)
(* some x bit; anyone else gets exactly the rights of one class: owner if *)
(* the uid matches, else group if the primary gid matches, else other.    *)
CheckAccess(a, uid, gid, mask) ==
    LET cls == IF uid = a.uid THEN "u" ELSE IF gid = a.gid THEN "g" ELSE "o"
    IN  \/ mask = {}
        \/ uid = 0 /\ ("x" \notin mask \/ XBits \cap a.perm # {})
        \/ uid # 0 /\ mask \subseteq {r \in Rights : <<cls, r>> \in a.perm}

(* The sticky-bit test of unlink, rmdir and rename. *)
StickyDenies(pa, a, uid) ==
    SVTX \in pa.perm /\ uid # 0 /\ uid # pa.uid /\ uid # a.uid

-----------------------------------------------------------------------------
(* The EncryptedFs state the adapter reads through get_inode and          *)
(* find_by_name.                                                           *)
Live(i) == attr[i] # NoAttr
Entries(d) == {n \in Names : dirent[d][n] # NoIno}
Linked(i) == \E d \in Inos, n \in Names : dirent[d][n] = i
HasHandle(i) == \E fh \in Fhs : handles[fh] # NoHandle /\ handles[fh].ino = i
FreeInos == {i \in Inos : ~Live(i)}
FreeFhs == {fh \in Fhs : handles[fh] = NoHandle}

(* The directories below d, d included (the kernel refuses to move a      *)
(* directory below itself before it asks the file system).                *)
Subtree(d) ==
    LET below[k \in 0..Cardinality(Inos)] ==
            IF k = 0 THEN {d}
            ELSE below[k - 1] \cup
                 ({dirent[x][n] : x \in below[k - 1], n \in Names} \ {NoIno})
    IN  below[Cardinality(Inos)]

(* After an entry naming i is gone, i is freed unless a handle keeps it   *)
(* (spec 3: handles outlive unlink until close).                          *)
Forget(i) == [attr EXCEPT ![i] = IF HasHandle(i) THEN @ ELSE NoAttr]

(* EncryptedFs::create_nod: AlreadyExists if the name is taken; a fresh   *)
(* inode, and a handle when it is opened for reading or writing.          *)
FsCreateNod(p, n, a, read, write, u) ==
    /\ attr[p].kind = "dir"
    /\ dirent[p][n] = NoIno
    /\ \E i \in FreeInos :
          /\ attr' = [attr EXCEPT ![i] = a]
          /\ dirent' = [dirent EXCEPT ![p][n] = i]
          /\ IF read \/ write
                THEN \E fh \in FreeFhs :
                        handles' = [handles EXCEPT ![fh] =
                            [ino |-> i, read |-> read, write |-> write, uid |-> u]]
                ELSE UNCHANGED handles

TypeOK ==
    /\ attr \in [Inos -> Attrs \cup {NoAttr}]
    /\ dirent \in [Inos -> [Names -> Inos \cup {NoIno}]]
    /\ handles \in [Fhs -> Handles \cup {NoHandle}]
    /\ caller \in Users

(* The root directory a first mount creates: dir_attr(), owned by root.  *)
Init ==
    /\ attr = [i \in Inos |->
                 IF i = RootIno
                 THEN [kind |-> "dir", uid |-> 0, gid |-> GidOf[0],
                       perm |-> {"u", "g", "o"} \X Rights, size |-> 0]
                 ELSE NoAttr]
    /\ dirent = [d \in Inos |-> [n \in Names |-> NoIno]]
    /\ handles = [fh \in Fhs |-> NoHandle]
    /\ caller = 0


-----------------------------------------------------------------------------
(* Plausible bug: the new attributes built with uid and gid swapped.      *)
CreateNodSwappingIds(u, p, n, kind, mode, read, write) ==
    LET pa == attr[p]
        m  == IF u # 0 THEN mode \ {SUID, SGID} ELSE mode
    IN  /\ Live(p)
        /\ CheckAccess(pa, u, GidOf[u], {"w"})
        /\ FsCreateNod(p, n, [kind |-> kind, uid |-> CreationGid(pa, GidOf[u]),
                              gid |-> u, perm |-> CreationMode(m), size |-> 0],
                       read, write, u)
        /\ caller' = u

(* create_nod, shared by mknod and create: write access to the parent,    *)
(* setid bits dropped for a non-root caller, owner the caller, group by   *)
(* creation_gid, then EncryptedFs::create_nod.                             *)
CreateNod(u, p, n, kind, mode, read, write) ==
    LET pa == attr[p]
        m  == IF u # 0 THEN mode \ {SUID, SGID} ELSE mode
    IN  /\ Live(p)
        /\ CheckAccess(pa, u, GidOf[u], {"w"})
        /\ FsCreateNod(p, n, [kind |-> kind, uid |-> u,
                              gid |-> CreationGid(pa, GidOf[u]),
                              perm |-> CreationMode(m), size |-> 0],
                       read, write, u)
        /\ caller' = u

(* mknod of a regular file or a directory (other types are ENOSYS): no    *)
(* handle.                                                                 *)
MkNod(u, p, n, kind, mode) == CreateNod(u, p, n, kind, mode, FALSE, FALSE)

(* create: a regular file opened with the requested access mode. *)
Create(u, p, n, mode, acc) ==
    CreateNod(u, p, n, "file", mode, acc # "wronly", acc # "rdonly")

(* mkdir: like create_nod, but the SGID of the parent is added to the     *)
(* mode before creation_mode is applied.                                   *)
MkDir(u, p, n, mode) ==
    LET pa == attr[p]
        m0 == IF u # 0 THEN mode \ {SUID, SGID} ELSE mode
        m  == IF SGID \in pa.perm THEN m0 \cup {SGID} ELSE m0
    IN  /\ Live(p)
        /\ CheckAccess(pa, u, GidOf[u], {"w"})
        /\ FsCreateNod(p, n, [kind |-> "dir", uid |-> u,
                              gid |-> CreationGid(pa, GidOf[u]),
                              perm |-> CreationMode(m), size |-> 0],
                       FALSE, FALSE, u)
        /\ caller' = u

(* unlink: write access to the parent, the entry exists, the sticky bit,  *)
(* then EncryptedFs::remove_file (NotFile for a directory).               *)
Unlink(u, p, n) ==
    LET c == dirent[p][n]
    IN  /\ Live(p)
        /\ CheckAccess(attr[p], u, GidOf[u], {"w"})
        /\ c # NoIno
        /\ ~StickyDenies(attr[p], attr[c], u)
        /\ attr[c].kind = "file"
        /\ dirent' = [dirent EXCEPT ![p][n] = NoIno]
        /\ attr' = Forget(c)
        /\ caller' = u
        /\ UNCHANGED handles

(* Plausible bug: rmdir without its ENOTDIR test, on a facade whose       *)
(* remove_dir relies on the adapter for it.                                *)
RmDirAcceptingFiles(u, p, n) ==
    LET c == dirent[p][n]
    IN  /\ Live(p)
        /\ CheckAccess(attr[p], u, GidOf[u], {"w"})
        /\ c # NoIno
        /\ ~StickyDenies(attr[p], attr[c], u)
        /\ Entries(c) = {}
        /\ dirent' = [dirent EXCEPT ![p][n] = NoIno]
        /\ attr' = [attr EXCEPT ![c] = NoAttr]
        /\ caller' = u
        /\ UNCHANGED handles

(* rmdir: as unlink, plus ENOTDIR; EncryptedFs::remove_dir refuses a      *)
(* directory that is not empty.                                            *)
RmDir(u, p, n) ==
    LET c == dirent[p][n]
    IN  /\ Live(p)
        /\ CheckAccess(attr[p], u, GidOf[u], {"w"})
        /\ c # NoIno
        /\ attr[c].kind = "dir"
        /\ ~StickyDenies(attr[p], attr[c], u)
        /\ Entries(c) = {}
        /\ dirent' = [dirent EXCEPT ![p][n] = NoIno]
        /\ attr' = [attr EXCEPT ![c] = NoAttr]
        /\ caller' = u
        /\ UNCHANGED handles


(* Plausible bug: rename without the sticky test of the new parent.       *)
RenameIgnoringTargetSticky(u, p, n, q, m) ==
    LET c == dirent[p][n]
        d == dirent[q][m]
    IN  /\ Live(p) /\ c # NoIno
        /\ CheckAccess(attr[p], u, GidOf[u], {"w"})
        /\ ~StickyDenies(attr[p], attr[c], u)
        /\ Live(q) /\ CheckAccess(attr[q], u, GidOf[u], {"w"})
        /\ attr[c].kind = "dir" /\ p # q => CheckAccess(attr[c], u, GidOf[u], {"w"})
        /\ attr[q].kind = "dir" /\ q \notin Subtree(c) /\ <<p, n>> # <<q, m>>
        /\ IF d = NoIno THEN TRUE
           ELSE attr[d].kind = attr[c].kind /\ Entries(d) = {}
        /\ dirent' = [dirent EXCEPT ![p][n] = NoIno, ![q][m] = c]
        /\ attr' = IF d = NoIno THEN attr ELSE Forget(d)
        /\ caller' = u
        /\ UNCHANGED handles

(* Plausible bug: EncryptedFs::rename adding the new entry but leaving    *)
(* the old one, so the move becomes a hard link.                            *)
RenameKeepingSource(u, p, n, q, m) ==
    LET c == dirent[p][n]
        d == dirent[q][m]
    IN  /\ Live(p) /\ c # NoIno
        /\ CheckAccess(attr[p], u, GidOf[u], {"w"})
        /\ ~StickyDenies(attr[p], attr[c], u)
        /\ Live(q) /\ CheckAccess(attr[q], u, GidOf[u], {"w"})
        /\ d # NoIno => ~StickyDenies(attr[q], attr[d], u)
        /\ attr[c].kind = "dir" /\ p # q => CheckAccess(attr[c], u, GidOf[u], {"w"})
        /\ attr[q].kind = "dir" /\ q \notin Subtree(c) /\ <<p, n>> # <<q, m>>
        /\ IF d = NoIno THEN TRUE
           ELSE attr[d].kind = attr[c].kind /\ Entries(d) = {}
        /\ dirent' = [dirent EXCEPT ![q][m] = c]
        /\ attr' = IF d = NoIno THEN attr ELSE Forget(d)
        /\ caller' = u
        /\ UNCHANGED handles

(* rename: find_by_name of the source, write access and the sticky test   *)
(* on its parent, write access to the new parent and, if that one is      *)
(* sticky, the sticky test on the entry being replaced, write access to a *)
(* directory that changes parent; then EncryptedFs::rename, which         *)
(* replaces a target of the same kind (NotEmpty for a directory with      *)
(* entries).                                                               *)
Rename(u, p, n, q, m) ==
    LET c == dirent[p][n]
        d == dirent[q][m]
    IN  /\ Live(p) /\ c # NoIno
        /\ CheckAccess(attr[p], u, GidOf[u], {"w"})
        /\ ~StickyDenies(attr[p], attr[c], u)
        /\ Live(q) /\ CheckAccess(attr[q], u, GidOf[u], {"w"})
        /\ d # NoIno => ~StickyDenies(attr[q], attr[d], u)
        /\ attr[c].kind = "dir" /\ p # q => CheckAccess(attr[c], u, GidOf[u], {"w"})
        /\ attr[q].kind = "dir" /\ q \notin Subtree(c) /\ <<p, n>> # <<q, m>>
        /\ IF d = NoIno THEN TRUE
           ELSE attr[d].kind = attr[c].kind /\ Entries(d) = {}
        /\ dirent' = [dirent EXCEPT ![p][n] = NoIno, ![q][m] = c]
        /\ attr' = IF d = NoIno THEN attr ELSE Forget(d)
        /\ caller' = u
        /\ UNCHANGED handles

(* Plausible bug: chmod without its owner test. *)
ChmodByAnyone(u, i, sa) ==
    LET a == attr[i]
    IN  attr' = [attr EXCEPT ![i].perm =
                    IF u # 0 /\ GidOf[u] # a.gid /\ a.gid \notin GroupsOf[u]
                    THEN sa.mode \ {SGID} ELSE sa.mode]

(* setattr with a mode: EPERM unless root or the owner; SGID dropped when *)
(* a non-root caller is outside the file's group.                          *)
Chmod(u, i, sa) ==
    LET a == attr[i]
    IN  /\ u = 0 \/ u = a.uid
        /\ attr' = [attr EXCEPT ![i].perm =
                       IF u # 0 /\ GidOf[u] # a.gid /\ a.gid \notin GroupsOf[u]
                       THEN sa.mode \ {SGID} ELSE sa.mode]

(* setattr with a uid or gid.  The code tests and applies the uid and gid *)
(* of set_attr2, a SetFileAttr it has just defaulted, which are None: the *)
(* permission tests and the owner change never happen, and only the       *)
(* permission is written back (setid cleared on an executable).           *)
Chown(u, i, sa) ==
    LET a == attr[i]
    IN  attr' = [attr EXCEPT ![i].perm =
                    IF a.perm \cap XBits # {} THEN ClearSuidSgid(a.perm) ELSE a.perm]

(* setattr otherwise: truncate first (IsDir fails it), then the utimens   *)
(* test, whose EACCES comes after the truncation; on success one          *)
(* update_inode with the setid bits cleared if the size was set.  Times   *)
(* are not modelled.                                                       *)
TruncateUtimens(u, i, sa) ==
    LET a  == attr[i]
        tr == IF sa.size = Unset THEN a ELSE [a EXCEPT !.size = sa.size]
        denied == sa.time /\ a.uid # u /\ ~CheckAccess(a, u, GidOf[u], {"w"})
    IN  /\ sa.size # Unset => a.kind = "file"
        /\ attr' = [attr EXCEPT ![i] =
                       IF denied \/ sa.size = Unset THEN tr
                       ELSE [tr EXCEPT !.perm = ClearSuidSgid(a.perm)]]

(* setattr: get_inode, then the first branch the request selects. *)
Setattr(u, i, sa) ==
    /\ Live(i)
    /\ IF sa.mode # Unset THEN Chmod(u, i, sa)
       ELSE IF sa.uid # Unset \/ sa.gid # Unset THEN Chown(u, i, sa)
       ELSE TruncateUtimens(u, i, sa)
    /\ caller' = u
    /\ UNCHANGED <<dirent, handles>>

(* open: the access mask from the flags (O_RDONLY|O_TRUNC is EACCES),     *)
(* get_inode, check_access, truncate to 0 on O_TRUNC, EncryptedFs::open   *)
(* (IsDir for a directory).                                                *)
Open(u, i, f) ==
    LET mask == CASE f.acc = "rdonly" -> IF f.exec THEN {"x"} ELSE {"r"}
                  [] f.acc = "wronly" -> {"w"}
                  [] f.acc = "rdwr"   -> {"r", "w"}
    IN  /\ ~(f.acc = "rdonly" /\ f.trunc)
        /\ Live(i)
        /\ CheckAccess(attr[i], u, GidOf[u], mask)
        /\ attr[i].kind = "file"
        /\ attr' = IF f.trunc THEN [attr EXCEPT ![i].size = 0] ELSE attr
        /\ \E fh \in FreeFhs :
              handles' = [handles EXCEPT ![fh] =
                  [ino |-> i, read |-> f.acc # "wronly",
                   write |-> f.acc # "rdonly", uid |-> u]]
        /\ caller' = u
        /\ UNCHANGED dirent

(* write: EncryptedFs::write through a write handle (ReadOnlyHandle       *)
(* otherwise); the file grows to any size up to the bound.                 *)
Write(fh) ==
    LET h == handles[fh]
    IN  /\ h # NoHandle /\ h.write
        /\ \E s \in (attr[h.ino].size + 1)..MaxSize :
              attr' = [attr EXCEPT ![h.ino].size = s]
        /\ caller' = h.uid
        /\ UNCHANGED <<dirent, handles>>

(* copy_file_range: EncryptedFs::copy_file_range from a read handle into  *)
(* a write handle; the target grows.                                       *)
CopyFileRange(fin, fout) ==
    LET hi == handles[fin]
        ho == handles[fout]
    IN  /\ hi # NoHandle /\ hi.read
        /\ ho # NoHandle /\ ho.write
        /\ \E s \in (attr[ho.ino].size + 1)..MaxSize :
              attr' = [attr EXCEPT ![ho.ino].size = s]
        /\ caller' = ho.uid
        /\ UNCHANGED <<dirent, handles>>

(* release: flush, EncryptedFs::release (an unlinked inode goes with its  *)
(* last handle), then the is_write_handle future.  That future is only    *)
(* created before fs.release and runs at its .await, after the handle is  *)
(* gone, so it yields false and the setid bits are never cleared.         *)
Release(u, fh) ==
    LET i == handles[fh].ino
    IN  /\ handles[fh] # NoHandle
        /\ handles' = [handles EXCEPT ![fh] = NoHandle]
        /\ attr' = IF Linked(i) \/ \E g \in Fhs \ {fh} :
                                        handles[g] # NoHandle /\ handles[g].ino = i
                   THEN attr ELSE [attr EXCEPT ![i] = NoAttr]
        /\ caller' = u
        /\ UNCHANGED dirent

-----------------------------------------------------------------------------
Next ==
    \/ \E u \in Users :
          \/ \E p \in Inos, n \in Names :
                \/ \E m \in FileModes : MkNod(u, p, n, "file", m)
                \/ \E m \in DirModes : MkNod(u, p, n, "dir", m)
                \/ \E m \in FileModes, acc \in {"rdonly", "wronly", "rdwr"} :
                      Create(u, p, n, m, acc)
                \/ \E m \in DirModes : MkDir(u, p, n, m)
                \/ Unlink(u, p, n)
                \/ RmDir(u, p, n)
                \/ \E q \in Inos, m \in Names : Rename(u, p, n, q, m)
          \/ \E i \in Inos : \/ \E sa \in SetAttrs : Setattr(u, i, sa)
                             \/ \E f \in OpenFlags : Open(u, i, f)
          \/ \E fh \in Fhs : Release(u, fh)
    \/ \E fh \in Fhs : Write(fh)
    \/ \E fin, fout \in Fhs : CopyFileRange(fin, fout)

Spec == Init /\ [][Next]_vars


-----------------------------------------------------------------------------
(* Sticky directories (unlink, rmdir and rename, src lines 625, 676, 729, *)
(* 752): an entry of a sticky directory is removed or replaced only by    *)
(* root, the directory's owner or the owner of the file it names, whether *)
(* by unlink, rmdir, rename away or rename over it.                        *)
StickyProtected ==
    [][\A d \in Inos, n \in Names :
          LET c == dirent[d][n]
          IN  Live(d) /\ SVTX \in attr[d].perm /\ c # NoIno /\ dirent'[d][n] # c
                  => caller' \in {0, attr[d].uid, attr[c].uid}]_vars

(* A permission bit is granted on an existing inode only by root or its   *)
(* owner: chmod checks the owner, and chown, truncate and release only    *)
(* ever clear bits, from the attributes read at the start of setattr.     *)
PermGrantedByOwner ==
    [][\A i \in Inos :
          Live(i) /\ Live(i)' /\ ~(attr'[i].perm \subseteq attr[i].perm)
              => caller' \in {0, attr[i].uid}]_vars

(* The namespace stays whole across create, unlink, rmdir, rename and     *)
(* release: every entry names a live inode, every handle a live regular   *)
(* file, and an inode no entry names is freed unless a handle keeps it.   *)
NamespaceIntact ==
    /\ \A d \in Inos, n \in Names : dirent[d][n] # NoIno => Live(dirent[d][n])
    /\ \A fh \in Fhs : handles[fh] # NoHandle =>
          Live(handles[fh].ino) /\ attr[handles[fh].ino].kind = "file"
    /\ \A i \in Inos : Live(i) /\ i # RootIno /\ ~Linked(i) => HasHandle(i)

(* No hard links: rename moves an entry (the source name is gone when the *)
(* target names the inode), create_nod names only a fresh inode, and no   *)
(* handler adds a second name; unlink, rmdir and rename-over free the     *)
(* inode of the name they remove on the strength of this.                  *)
NamedOnce ==
    \A d, e \in Inos, n, m \in Names :
        dirent[d][n] # NoIno /\ dirent[d][n] = dirent[e][m] => d = e /\ n = m

(* chown by root changes the owner (the spec, section 9, flags setattr's  *)
(* reading of uid and gid from an empty patch).                            *)
ChownApplies ==
    [][\A i \in Inos, sa \in SetAttrs :
          Setattr(0, i, sa) /\ sa.mode = Unset /\ sa.uid # Unset
              => attr'[i].uid = sa.uid]_vars

(* Closing a write handle drops SUID (the comment at src line 935 and the *)
(* write-kill-priv rule release implements).                               *)
KillPrivOnRelease ==
    [][\A fh \in Fhs :
          LET i == handles[fh].ino
          IN  handles[fh] # NoHandle /\ handles[fh].write
              /\ handles'[fh] = NoHandle /\ attr'[i] # NoAttr
                  => SUID \notin attr'[i].perm]_vars

(* The size of a file changes only for a request with write access to it *)
(* or through a write handle of its caller (the spec, 6.2: the adapter     *)
(* performs the POSIX permission checks; setattr's truncate checks none). *)
TruncateNeedsWrite ==
    [][\A i \in Inos :
          Live(i) /\ Live(i)' /\ attr'[i].size # attr[i].size
              => \/ CheckAccess(attr[i], caller', GidOf[caller'], {"w"})
                 \/ \E fh \in Fhs : /\ handles[fh] # NoHandle
                                    /\ handles[fh].ino = i /\ handles[fh].write
                                    /\ handles[fh].uid = caller']_vars

=============================================================================
