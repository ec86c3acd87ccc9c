------------------------- MODULE FuseAdapterProofs --------------------------
(***************************************************************************)
(* Proofs about the FUSE adapter model for every set of users, inodes,     *)
(* names and handles and every well-formed set of requests.                *)
(*                                                                         *)
(* NamespaceIntact is not inductive by itself.  unlink, rmdir and a       *)
(* rename over an entry free the inode the entry named, which is right    *)
(* only if no other entry names it (NamedOnce), if nothing ever names the *)
(* root (RootUnnamed, with RootLive), and if a freed inode takes no       *)
(* entries with it, so that an inode create_nod reuses starts empty        *)
(* (OnlyDirsHaveEntries).                                                  *)
(***************************************************************************)
EXTENDS FuseAdapter, TLAPS

(* The root directory is never freed. *)
RootLive == Live(RootIno) /\ attr[RootIno].kind = "dir"

(* No entry names the root: it is never a source or target of an entry. *)
RootUnnamed == \A d \in Inos, n \in Names : dirent[d][n] # RootIno

(* Only live directories have entries. *)
OnlyDirsHaveEntries ==
    \A d \in Inos : ~Live(d) \/ attr[d].kind = "file" => Entries(d) = {}

IInv ==
    /\ TypeOK
    /\ NamespaceIntact
    /\ RootLive
    /\ RootUnnamed
    /\ NamedOnce
    /\ OnlyDirsHaveEntries


USE FuseAdapterAssumption, FuseAdapterInputs

(* clear_suid_sgid only ever removes bits, and always removes SUID. *)
LEMMA ClearSuidSgidNarrows ==
    ASSUME NEW perm
    PROVE  /\ ClearSuidSgid(perm) \subseteq perm
           /\ SUID \notin ClearSuidSgid(perm)
BY DEF ClearSuidSgid

-----------------------------------------------------------------------------
LEMMA InitIInv == Init => IInv
<1> SUFFICES ASSUME Init PROVE IInv
    OBVIOUS
<1>1. [kind |-> "dir", uid |-> 0, gid |-> GidOf[0],
       perm |-> {"u", "g", "o"} \X Rights, size |-> 0] \in Attrs
    BY DEF Attrs, PermBits
<1>2. TypeOK
    BY <1>1 DEF Init, TypeOK
<1>. QED
    BY <1>1, <1>2 DEF Init, IInv, NamespaceIntact, RootLive, RootUnnamed, NamedOnce,
                OnlyDirsHaveEntries, Live, Entries, Linked, HasHandle

-----------------------------------------------------------------------------
(* EncryptedFs::create_nod into a live directory, with the attributes the  *)
(* adapter built, keeps the invariant; mknod, create and mkdir use it.    *)
LEMMA FsCreateNodIInv ==
    ASSUME IInv, NEW u \in Users, NEW p \in Inos, NEW n \in Names,
           NEW a \in Attrs, NEW read \in BOOLEAN, NEW write \in BOOLEAN,
           Live(p), FsCreateNod(p, n, a, read, write, u),
           (read \/ write) => a.kind = "file",
           caller' \in Users
    PROVE  IInv'
<1> USE DEF IInv
<1>1. PICK i \in FreeInos :
         /\ attr' = [attr EXCEPT ![i] = a]
         /\ dirent' = [dirent EXCEPT ![p][n] = i]
         /\ IF read \/ write
               THEN \E fh \in FreeFhs :
                       handles' = [handles EXCEPT ![fh] =
                           [ino |-> i, read |-> read, write |-> write, uid |-> u]]
               ELSE UNCHANGED handles
    BY DEF FsCreateNod
<1>2. /\ attr[p].kind = "dir" /\ dirent[p][n] = NoIno
      /\ i \in Inos /\ attr[i] = NoAttr /\ i # RootIno /\ i # p
      /\ \A d \in Inos, m \in Names : dirent[d][m] # i
      /\ \A m \in Names : dirent[i][m] = NoIno
      /\ \A fh \in Fhs : handles[fh] # NoHandle => handles[fh].ino # i
    BY <1>1 DEF FsCreateNod, FreeInos, Live, RootLive, NamespaceIntact,
                OnlyDirsHaveEntries, Entries, TypeOK
<1>3. attr' \in [Inos -> Attrs \cup {NoAttr}] /\ dirent' \in [Inos -> [Names -> Inos \cup {NoIno}]]
    BY <1>1, <1>2 DEF TypeOK
<1>4. \A j \in Inos \ {i} : attr'[j] = attr[j]
    BY <1>1 DEF TypeOK
<1>5. \A d \in Inos, m \in Names : <<d, m>> # <<p, n>> => dirent'[d][m] = dirent[d][m]
    BY <1>1 DEF TypeOK
<1>6. dirent'[p][n] = i /\ attr'[i] = a
    BY <1>1, <1>2 DEF TypeOK
<1>7. /\ handles' \in [Fhs -> Handles \cup {NoHandle}]
      /\ \A fh \in Fhs : handles'[fh] # NoHandle =>
            \/ handles'[fh] = handles[fh]
            \/ handles'[fh].ino = i /\ a.kind = "file"
      /\ \A fh \in Fhs : handles[fh] # NoHandle => handles'[fh] = handles[fh]
    <2>1. CASE read \/ write
        <3>1. PICK fh0 \in FreeFhs :
                 handles' = [handles EXCEPT ![fh0] =
                     [ino |-> i, read |-> read, write |-> write, uid |-> u]]
            BY <1>1, <2>1
        <3>. QED
            BY <2>1, <3>1, <1>2 DEF FreeFhs, TypeOK, Handles
    <2>3. CASE ~(read \/ write)
        BY <1>1, <2>3 DEF TypeOK
    <2>. QED
        BY <2>1, <2>3
<1>8. TypeOK'
    BY <1>3, <1>7 DEF TypeOK
<1>9. NamespaceIntact'
    <2>1. ASSUME NEW d \in Inos, NEW m \in Names, dirent'[d][m] # NoIno
          PROVE  attr'[dirent'[d][m]] # NoAttr
        BY <2>1, <1>2, <1>4, <1>5, <1>6, NoAttr \notin Attrs
           DEF NamespaceIntact, Live, TypeOK
    <2>2. ASSUME NEW fh \in Fhs, handles'[fh] # NoHandle
          PROVE  attr'[handles'[fh].ino] # NoAttr /\ attr'[handles'[fh].ino].kind = "file"
        <3>1. CASE handles'[fh] = handles[fh]
            <4>1. handles[fh].ino \in Inos \ {i} /\ attr[handles[fh].ino] # NoAttr
                  /\ attr[handles[fh].ino].kind = "file"
                BY <2>2, <3>1, <1>2 DEF NamespaceIntact, Live, TypeOK, Handles
            <4>. QED
                BY <3>1, <4>1, <1>4
        <3>2. CASE handles'[fh].ino = i /\ a.kind = "file"
            BY <3>2, <1>6, NoAttr \notin Attrs
        <3>. QED
            BY <2>2, <3>1, <3>2, <1>7
    <2>3. ASSUME NEW j \in Inos, Live(j)', j # RootIno, ~Linked(j)'
          PROVE  HasHandle(j)'
        <3>1. j # i
            BY <2>3, <1>6 DEF Linked
        <3>2. Live(j) /\ ~Linked(j)
            BY <2>3, <3>1, <1>2, <1>4, <1>5 DEF Live, Linked
        <3>3. HasHandle(j)
            BY <2>3, <3>2 DEF NamespaceIntact
        <3>. QED
            BY <3>3, <1>7 DEF HasHandle
    <2>. QED
        BY <2>1, <2>2, <2>3 DEF NamespaceIntact, Live
<1>10. RootLive' /\ RootUnnamed'
    BY <1>2, <1>4, <1>5, <1>6 DEF RootLive, RootUnnamed, Live
<1>11. NamedOnce'
    <2> SUFFICES ASSUME NEW d \in Inos, NEW e \in Inos, NEW k \in Names, NEW m \in Names,
                        dirent'[d][k] # NoIno, dirent'[d][k] = dirent'[e][m]
                 PROVE  d = e /\ k = m
        BY DEF NamedOnce
    <2>1. CASE <<d, k>> = <<p, n>> /\ <<e, m>> = <<p, n>>
        BY <2>1
    <2>2. CASE <<d, k>> = <<p, n>> /\ <<e, m>> # <<p, n>>
        BY <2>2, <1>2, <1>5, <1>6
    <2>3. CASE <<d, k>> # <<p, n>> /\ <<e, m>> = <<p, n>>
        BY <2>3, <1>2, <1>5, <1>6
    <2>4. CASE <<d, k>> # <<p, n>> /\ <<e, m>> # <<p, n>>
        BY <2>4, <1>5 DEF NamedOnce
    <2>. QED
        BY <2>1, <2>2, <2>3, <2>4
<1>12. OnlyDirsHaveEntries'
    <2> SUFFICES ASSUME NEW d \in Inos, NEW m \in Names,
                        ~Live(d)' \/ attr'[d].kind = "file"
                 PROVE  dirent'[d][m] = NoIno
        BY DEF OnlyDirsHaveEntries, Entries
    <2>1. CASE d = i
        BY <2>1, <1>2, <1>5
    <2>2. CASE d = p
        BY <2>2, <1>2, <1>4 DEF Live
    <2>3. CASE d # i /\ d # p
        BY <2>3, <1>4, <1>5 DEF OnlyDirsHaveEntries, Entries, Live
    <2>. QED
        BY <2>1, <2>2, <2>3
<1>. QED
    BY <1>8, <1>9, <1>10, <1>11, <1>12


-----------------------------------------------------------------------------
(* A step that rewrites the attributes of one live inode without changing *)
(* its kind, and may open a handle on it when it is a file, keeps the     *)
(* invariant: setattr, open, write and copy_file_range are such steps.    *)
(* The attributes an inode may be rewritten to: same kind, well typed. *)
AttrUpdate(i) ==
    \E r \in Attrs : r.kind = attr[i].kind /\ attr' = [attr EXCEPT ![i] = r]

(* The handles after a step that may open one on the file i. *)
HandleOpened(i) ==
    /\ handles' \in [Fhs -> Handles \cup {NoHandle}]
    /\ \A fh \in Fhs : handles'[fh] # NoHandle =>
          \/ handles'[fh] = handles[fh]
          \/ handles'[fh].ino = i /\ attr[i].kind = "file"
    /\ \A fh \in Fhs : handles[fh] # NoHandle => handles'[fh] = handles[fh]

LEMMA AttrStepIInv ==
    ASSUME IInv, NEW i \in Inos, Live(i), AttrUpdate(i), HandleOpened(i),
           dirent' = dirent, caller' \in Users
    PROVE  IInv'
<1> USE DEF IInv
<1>0. PICK r \in Attrs : r.kind = attr[i].kind /\ attr' = [attr EXCEPT ![i] = r]
    BY DEF AttrUpdate
<1>1. /\ attr'[i] = r /\ r # NoAttr
      /\ \A j \in Inos \ {i} : attr'[j] = attr[j]
      /\ \A j \in Inos : (attr'[j] # NoAttr) = (attr[j] # NoAttr)
      /\ \A j \in Inos : attr[j] # NoAttr => attr'[j].kind = attr[j].kind
    BY <1>0, NoAttr \notin Attrs DEF TypeOK, Live
<1>2. TypeOK'
    BY <1>0, <1>1 DEF TypeOK, HandleOpened
<1>3. NamespaceIntact'
    <2>1. ASSUME NEW fh \in Fhs, handles'[fh] # NoHandle
          PROVE  attr'[handles'[fh].ino] # NoAttr /\ attr'[handles'[fh].ino].kind = "file"
        <3>1. CASE handles'[fh] = handles[fh]
            BY <2>1, <3>1, <1>1 DEF NamespaceIntact, Live, TypeOK, Handles
        <3>2. CASE handles'[fh].ino = i /\ attr[i].kind = "file"
            BY <3>2, <1>0, <1>1
        <3>. QED
            BY <2>1, <3>1, <3>2 DEF HandleOpened
    <2>2. \A j \in Inos : HasHandle(j) => HasHandle(j)'
        BY DEF HasHandle, HandleOpened
    <2>. QED
        BY <2>1, <2>2, <1>1 DEF NamespaceIntact, Live, Linked, TypeOK
<1>4. RootLive' /\ RootUnnamed' /\ NamedOnce' /\ OnlyDirsHaveEntries'
    BY <1>1 DEF RootLive, RootUnnamed, NamedOnce, OnlyDirsHaveEntries, Live, Entries
<1>. QED
    BY <1>2, <1>3, <1>4

LEMMA SetattrIInv ==
    ASSUME IInv, NEW u \in Users, NEW i \in Inos, NEW sa \in SetAttrs, Setattr(u, i, sa)
    PROVE  IInv'
<1> DEFINE a == attr[i]
<1>1. Live(i) /\ a \in Attrs /\ caller' = u /\ UNCHANGED <<dirent, handles>>
    BY DEF Setattr, IInv, TypeOK, Live
<1>2. ASSUME sa.mode # Unset PROVE AttrUpdate(i)
    <2> DEFINE X == IF u # 0 /\ GidOf[u] # a.gid /\ a.gid \notin GroupsOf[u]
                    THEN sa.mode \ {SGID} ELSE sa.mode
    <2>1. attr' = [attr EXCEPT ![i] = [a EXCEPT !.perm = X]]
        BY <1>1, <1>2 DEF Setattr, Chmod, IInv, TypeOK
    <2>2. [a EXCEPT !.perm = X] \in Attrs
        BY <1>1, <1>2 DEF Attrs
    <2>3. [a EXCEPT !.perm = X].kind = attr[i].kind
        BY <1>1 DEF Attrs
    <2>. QED
        BY <2>1, <2>2, <2>3 DEF AttrUpdate
<1>3. ASSUME sa.mode = Unset, sa.uid # Unset \/ sa.gid # Unset PROVE AttrUpdate(i)
    <2> DEFINE X == IF a.perm \cap XBits # {} THEN ClearSuidSgid(a.perm) ELSE a.perm
    <2>1. attr' = [attr EXCEPT ![i] = [a EXCEPT !.perm = X]]
        BY <1>1, <1>3 DEF Setattr, Chown, IInv, TypeOK
    <2>2. [a EXCEPT !.perm = X] \in Attrs
        BY <1>1, ClearSuidSgidNarrows DEF Attrs
    <2>3. [a EXCEPT !.perm = X].kind = attr[i].kind
        BY <1>1 DEF Attrs
    <2>. QED
        BY <2>1, <2>2, <2>3 DEF AttrUpdate
<1>4. ASSUME sa.mode = Unset, sa.uid = Unset, sa.gid = Unset PROVE AttrUpdate(i)
    <2> DEFINE tr == IF sa.size = Unset THEN a ELSE [a EXCEPT !.size = sa.size]
               denied == sa.time /\ a.uid # u /\ ~CheckAccess(a, u, GidOf[u], {"w"})
               r == IF denied \/ sa.size = Unset THEN tr
                    ELSE [tr EXCEPT !.perm = ClearSuidSgid(a.perm)]
    <2>1. attr' = [attr EXCEPT ![i] = r]
        BY <1>1, <1>4 DEF Setattr, TruncateUtimens
    <2>2. tr \in Attrs /\ tr.kind = a.kind /\ tr.perm = a.perm
        BY <1>1 DEF Attrs
    <2>3. r \in Attrs /\ r.kind = a.kind
        BY <2>2, ClearSuidSgidNarrows DEF Attrs
    <2>. QED
        BY <2>1, <2>3 DEF AttrUpdate
<1>5. HandleOpened(i)
    BY <1>1 DEF HandleOpened, IInv, TypeOK
<1>. QED
    BY <1>1, <1>2, <1>3, <1>4, <1>5, AttrStepIInv


LEMMA OpenIInv ==
    ASSUME IInv, NEW u \in Users, NEW i \in Inos, NEW f \in OpenFlags, Open(u, i, f)
    PROVE  IInv'
<1> DEFINE r == IF f.trunc THEN [attr[i] EXCEPT !.size = 0] ELSE attr[i]
<1>1. Live(i) /\ attr[i] \in Attrs /\ attr[i].kind = "file"
      /\ caller' = u /\ dirent' = dirent
    BY DEF Open, IInv, TypeOK, Live
<1>2. AttrUpdate(i)
    <2>1. r \in Attrs /\ r.kind = attr[i].kind
        BY <1>1 DEF Attrs
    <2>2. attr' = [attr EXCEPT ![i] = r]
        BY DEF Open, IInv, TypeOK
    <2>. QED
        BY <2>1, <2>2 DEF AttrUpdate
<1>3. HandleOpened(i)
    <2>1. PICK fh \in FreeFhs :
             handles' = [handles EXCEPT ![fh] =
                 [ino |-> i, read |-> f.acc # "wronly",
                  write |-> f.acc # "rdonly", uid |-> u]]
        BY DEF Open
    <2>. QED
        BY <2>1, <1>1 DEF HandleOpened, FreeFhs, IInv, TypeOK, Handles
<1>. QED
    BY <1>1, <1>2, <1>3, AttrStepIInv

(* write and copy_file_range grow a file through an open write handle. *)
LEMMA GrowIInv ==
    ASSUME IInv, NEW fh \in Fhs, handles[fh] # NoHandle,
           NEW s \in Nat, s <= MaxSize,
           attr' = [attr EXCEPT ![handles[fh].ino].size = s],
           caller' \in Users, UNCHANGED <<dirent, handles>>
    PROVE  IInv'
<1> DEFINE i == handles[fh].ino
<1>1. i \in Inos /\ Live(i) /\ attr[i] \in Attrs
    BY DEF IInv, TypeOK, NamespaceIntact, Handles, Live
<1>2. AttrUpdate(i)
    <2>1. [attr[i] EXCEPT !.size = s] \in Attrs /\ [attr[i] EXCEPT !.size = s].kind = attr[i].kind
        BY <1>1 DEF Attrs
    <2>2. attr' = [attr EXCEPT ![i] = [attr[i] EXCEPT !.size = s]]
        BY <1>1 DEF IInv, TypeOK
    <2>. QED
        BY <2>1, <2>2 DEF AttrUpdate
<1>3. HandleOpened(i)
    BY DEF HandleOpened, IInv, TypeOK
<1>. QED
    BY <1>1, <1>2, <1>3, AttrStepIInv

LEMMA WriteIInv ==
    ASSUME IInv, NEW fh \in Fhs, Write(fh)
    PROVE  IInv'
<1>1. /\ handles[fh] # NoHandle
      /\ handles[fh].uid \in Users
      /\ attr[handles[fh].ino] \in Attrs
    BY DEF Write, IInv, TypeOK, Handles, NamespaceIntact, Live
<1>2. PICK s \in (attr[handles[fh].ino].size + 1)..MaxSize :
         attr' = [attr EXCEPT ![handles[fh].ino].size = s]
    BY DEF Write
<1>3. s \in Nat /\ s <= MaxSize
    BY <1>1 DEF Attrs
<1>. QED
    BY <1>1, <1>2, <1>3, GrowIInv DEF Write

LEMMA CopyFileRangeIInv ==
    ASSUME IInv, NEW fin \in Fhs, NEW fout \in Fhs, CopyFileRange(fin, fout)
    PROVE  IInv'
<1>1. /\ handles[fout] # NoHandle
      /\ handles[fout].uid \in Users
      /\ attr[handles[fout].ino] \in Attrs
    BY DEF CopyFileRange, IInv, TypeOK, Handles, NamespaceIntact, Live
<1>2. PICK s \in (attr[handles[fout].ino].size + 1)..MaxSize :
         attr' = [attr EXCEPT ![handles[fout].ino].size = s]
    BY DEF CopyFileRange
<1>3. s \in Nat /\ s <= MaxSize
    BY <1>1 DEF Attrs
<1>. QED
    BY <1>1, <1>2, <1>3, GrowIInv DEF CopyFileRange

-----------------------------------------------------------------------------
(* The attributes create_nod and mkdir build are well typed. *)
LEMMA NewAttrsType ==
    ASSUME NEW u \in Users, NEW pa \in Attrs, NEW kind \in {"file", "dir"},
           NEW m \in SUBSET PermBits
    PROVE  [kind |-> kind, uid |-> u, gid |-> CreationGid(pa, GidOf[u]),
            perm |-> CreationMode(m), size |-> 0] \in Attrs
BY DEF Attrs, CreationGid, CreationMode

LEMMA CreateNodIInv ==
    ASSUME IInv, NEW u \in Users, NEW p \in Inos, NEW n \in Names,
           NEW kind \in {"file", "dir"}, NEW mode \in SUBSET PermBits,
           NEW read \in BOOLEAN, NEW write \in BOOLEAN,
           (read \/ write) => kind = "file",
           CreateNod(u, p, n, kind, mode, read, write)
    PROVE  IInv'
<1> DEFINE pa == attr[p]
           m  == IF u # 0 THEN mode \ {SUID, SGID} ELSE mode
           a  == [kind |-> kind, uid |-> u, gid |-> CreationGid(pa, GidOf[u]),
                  perm |-> CreationMode(m), size |-> 0]
<1>1. Live(p) /\ pa \in Attrs /\ m \in SUBSET PermBits
    BY DEF CreateNod, IInv, TypeOK, Live, PermBits
<1>2. a \in Attrs
    BY <1>1, NewAttrsType
<1>. QED
    BY <1>1, <1>2, FsCreateNodIInv DEF CreateNod

LEMMA MkDirIInv ==
    ASSUME IInv, NEW u \in Users, NEW p \in Inos, NEW n \in Names,
           NEW mode \in DirModes, MkDir(u, p, n, mode)
    PROVE  IInv'
<1> DEFINE pa == attr[p]
           m0 == IF u # 0 THEN mode \ {SUID, SGID} ELSE mode
           m  == IF SGID \in pa.perm THEN m0 \cup {SGID} ELSE m0
           a  == [kind |-> "dir", uid |-> u, gid |-> CreationGid(pa, GidOf[u]),
                  perm |-> CreationMode(m), size |-> 0]
<1>1. Live(p) /\ pa \in Attrs /\ m \in SUBSET PermBits
    BY DEF MkDir, IInv, TypeOK, Live, PermBits
<1>2. a \in Attrs
    BY <1>1, NewAttrsType
<1>. QED
    BY <1>1, <1>2, FsCreateNodIInv DEF MkDir


-----------------------------------------------------------------------------
(* Removing the entry n of p, then forgetting the inode c it named (freed *)
(* unless a handle keeps it) keeps the invariant when c has no entries of  *)
(* its own: unlink of a file, rmdir of an empty directory.                 *)
LEMMA RemoveEntryIInv ==
    ASSUME IInv, NEW p \in Inos, NEW n \in Names, NEW c \in Inos,
           dirent[p][n] = c, Entries(c) = {},
           dirent' = [dirent EXCEPT ![p][n] = NoIno],
           attr' = Forget(c),
           caller' \in Users, UNCHANGED handles
    PROVE  IInv'
<1> USE DEF IInv
<1>1. /\ c # RootIno /\ attr[c] # NoAttr
      /\ \A d \in Inos, m \in Names : <<d, m>> # <<p, n>> => dirent[d][m] # c
    BY DEF RootUnnamed, NamespaceIntact, NamedOnce, Live
<1>2. /\ \A j \in Inos \ {c} : attr'[j] = attr[j]
      /\ attr'[c] = IF HasHandle(c) THEN attr[c] ELSE NoAttr
    BY DEF Forget, TypeOK
<1>3. /\ dirent'[p][n] = NoIno
      /\ \A d \in Inos, m \in Names : <<d, m>> # <<p, n>> => dirent'[d][m] = dirent[d][m]
    BY DEF TypeOK
<1>4. TypeOK'
    BY <1>3 DEF TypeOK, Forget
<1>5. \A j \in Inos : HasHandle(j)' = HasHandle(j)
    BY DEF HasHandle
<1>6. NamespaceIntact'
    <2>1. ASSUME NEW d \in Inos, NEW m \in Names, dirent'[d][m] # NoIno
          PROVE  attr'[dirent'[d][m]] # NoAttr
        BY <2>1, <1>1, <1>2, <1>3 DEF NamespaceIntact, Live, TypeOK
    <2>2. ASSUME NEW fh \in Fhs, handles'[fh] # NoHandle
          PROVE  attr'[handles'[fh].ino] # NoAttr /\ attr'[handles'[fh].ino].kind = "file"
        BY <2>2, <1>2 DEF NamespaceIntact, Live, TypeOK, Handles, HasHandle
    <2>3. ASSUME NEW j \in Inos, attr'[j] # NoAttr, j # RootIno, ~Linked(j)'
          PROVE  HasHandle(j)'
        <3>1. CASE j = c
            BY <2>3, <3>1, <1>2, <1>5
        <3>2. CASE j # c
            <4>1. ~Linked(j)
                BY <2>3, <3>2, <1>3 DEF Linked
            <4>. QED
                BY <2>3, <3>2, <4>1, <1>2, <1>5 DEF NamespaceIntact, Live
        <3>. QED
            BY <3>1, <3>2
    <2>. QED
        BY <2>1, <2>2, <2>3 DEF NamespaceIntact, Live
<1>7. RootLive' /\ RootUnnamed' /\ NamedOnce'
    BY <1>1, <1>2, <1>3 DEF RootLive, RootUnnamed, NamedOnce, Live
<1>8. OnlyDirsHaveEntries'
    <2> SUFFICES ASSUME NEW d \in Inos, NEW m \in Names,
                        attr'[d] = NoAttr \/ attr'[d].kind = "file"
                 PROVE  dirent'[d][m] = NoIno
        BY DEF OnlyDirsHaveEntries, Entries, Live
    <2>1. CASE d = c
        <3>1. c # p
            BY <1>1 DEF Entries
        <3>. QED
            BY <2>1, <3>1, <1>3 DEF Entries
    <2>2. CASE d # c
        BY <2>2, <1>2, <1>3 DEF OnlyDirsHaveEntries, Entries, Live
    <2>. QED
        BY <2>1, <2>2
<1>. QED
    BY <1>4, <1>6, <1>7, <1>8

LEMMA UnlinkIInv ==
    ASSUME IInv, NEW u \in Users, NEW p \in Inos, NEW n \in Names, Unlink(u, p, n)
    PROVE  IInv'
<1> DEFINE c == dirent[p][n]
<1>1. c \in Inos /\ attr[c] # NoAttr /\ attr[c].kind = "file"
    BY DEF Unlink, IInv, TypeOK, NamespaceIntact, Live
<1>2. Entries(c) = {}
    BY <1>1 DEF IInv, OnlyDirsHaveEntries, Live
<1>. QED
    BY <1>1, <1>2, RemoveEntryIInv DEF Unlink

LEMMA RmDirIInv ==
    ASSUME IInv, NEW u \in Users, NEW p \in Inos, NEW n \in Names, RmDir(u, p, n)
    PROVE  IInv'
<1> DEFINE c == dirent[p][n]
<1>1. c \in Inos /\ attr[c] # NoAttr /\ attr[c].kind = "dir" /\ Entries(c) = {}
    BY DEF RmDir, IInv, TypeOK, NamespaceIntact, Live
<1>2. ~HasHandle(c)
    BY <1>1 DEF HasHandle, IInv, NamespaceIntact, TypeOK, Handles
<1>3. [attr EXCEPT ![c] = NoAttr] = Forget(c)
    BY <1>2 DEF Forget
<1>. QED
    BY <1>1, <1>3, RemoveEntryIInv DEF RmDir


(* rename moves the entry naming c from <<p, n>> to <<q, m>>, forgetting  *)
(* the inode d it replaces there, if any.                                  *)
LEMMA RenameIInv ==
    ASSUME IInv, NEW u \in Users, NEW p \in Inos, NEW n \in Names,
           NEW q \in Inos, NEW m \in Names, Rename(u, p, n, q, m)
    PROVE  IInv'
<1> USE DEF IInv
<1> DEFINE c == dirent[p][n]
           d == dirent[q][m]
<1>1. /\ c \in Inos /\ c # RootIno /\ attr[c] # NoAttr
      /\ attr[q] # NoAttr /\ attr[q].kind = "dir" /\ (p # q \/ n # m)
      /\ \A e \in Inos, k \in Names : (e # p \/ k # n) => dirent[e][k] # c
      /\ d # NoIno => /\ d \in Inos /\ d # RootIno /\ d # c /\ attr[d] # NoAttr
                      /\ Entries(d) = {} /\ d # p /\ d # q
                      /\ \A e \in Inos, k \in Names : (e # q \/ k # m) => dirent[e][k] # d
      /\ dirent' = [dirent EXCEPT ![p][n] = NoIno, ![q][m] = c]
      /\ attr' = IF d = NoIno THEN attr ELSE Forget(d)
      /\ caller' = u /\ UNCHANGED handles
    BY DEF Rename, TypeOK, RootUnnamed, NamespaceIntact, NamedOnce, Live, Entries
<1>2. /\ dirent'[q][m] = c /\ dirent'[p][n] = NoIno
      /\ \A e \in Inos, k \in Names : (e # p \/ k # n) /\ (e # q \/ k # m) =>
            dirent'[e][k] = dirent[e][k]
    BY <1>1 DEF TypeOK
<1>3. /\ \A j \in Inos : j # d => attr'[j] = attr[j]
      /\ d # NoIno => attr'[d] = IF HasHandle(d) THEN attr[d] ELSE NoAttr
    BY <1>1 DEF Forget, TypeOK
<1>4. \A j \in Inos : HasHandle(j)' = HasHandle(j)
    BY <1>1 DEF HasHandle
<1>5. TypeOK'
    BY <1>1, <1>2 DEF TypeOK, Forget
<1>6. NamespaceIntact'
    <2>1. ASSUME NEW e \in Inos, NEW k \in Names, dirent'[e][k] # NoIno
          PROVE  attr'[dirent'[e][k]] # NoAttr
        <3>1. CASE e = q /\ k = m
            BY <3>1, <1>1, <1>2, <1>3
        <3>2. CASE (e # q \/ k # m) /\ (e # p \/ k # n)
            <4>1. dirent'[e][k] = dirent[e][k] /\ dirent[e][k] \in Inos
                BY <2>1, <3>2, <1>2 DEF TypeOK
            <4>2. dirent[e][k] # d
                BY <3>2, <4>1, <1>1
            <4>3. attr[dirent[e][k]] # NoAttr
                BY <4>1 DEF NamespaceIntact, Live
            <4>. QED
                BY <4>1, <4>2, <4>3, <1>3
        <3>. QED
            BY <2>1, <3>1, <3>2, <1>2
    <2>2. ASSUME NEW fh \in Fhs, handles'[fh] # NoHandle
          PROVE  attr'[handles'[fh].ino] # NoAttr /\ attr'[handles'[fh].ino].kind = "file"
        BY <2>2, <1>1, <1>3 DEF NamespaceIntact, Live, TypeOK, Handles, HasHandle
    <2>3. ASSUME NEW j \in Inos, attr'[j] # NoAttr, j # RootIno, ~Linked(j)'
          PROVE  HasHandle(j)'
        <3>1. j # c
            BY <2>3, <1>2 DEF Linked
        <3>2. CASE d # NoIno /\ j = d
            BY <2>3, <3>2, <1>3, <1>4
        <3>3. CASE j # d
            <4>1. ~Linked(j)
                BY <2>3, <3>1, <3>3, <1>2 DEF Linked
            <4>. QED
                BY <2>3, <3>3, <4>1, <1>3, <1>4 DEF NamespaceIntact, Live
        <3>. QED
            BY <3>2, <3>3
    <2>. QED
        BY <2>1, <2>2, <2>3 DEF NamespaceIntact, Live
<1>7. RootLive' /\ RootUnnamed'
    <2>1. d # RootIno
        BY DEF RootUnnamed
    <2>2. RootLive'
        BY <2>1, <1>3 DEF RootLive, Live
    <2>3. ASSUME NEW e \in Inos, NEW k \in Names PROVE dirent'[e][k] # RootIno
        <3>1. CASE e = q /\ k = m
            BY <3>1, <1>1, <1>2
        <3>2. CASE e = p /\ k = n /\ (e # q \/ k # m)
            BY <3>2, <1>1, <1>2
        <3>3. CASE (e # q \/ k # m) /\ (e # p \/ k # n)
            BY <3>3, <1>2 DEF RootUnnamed
        <3>. QED
            BY <3>1, <3>2, <3>3
    <2>. QED
        BY <2>2, <2>3 DEF RootUnnamed
<1>8. NamedOnce'
    <2> SUFFICES ASSUME NEW e \in Inos, NEW f \in Inos, NEW k \in Names, NEW l \in Names,
                        dirent'[e][k] # NoIno, dirent'[e][k] = dirent'[f][l]
                 PROVE  e = f /\ k = l
        BY DEF NamedOnce
    <2>1. ASSUME NEW g \in Inos, NEW h \in Names, dirent'[g][h] # NoIno
          PROVE  \/ g = q /\ h = m
                 \/ (g # p \/ h # n) /\ (g # q \/ h # m) /\ dirent'[g][h] = dirent[g][h]
                    /\ dirent[g][h] # c
        <3>1. CASE g = q /\ h = m
            BY <3>1
        <3>2. CASE g = p /\ h = n /\ (g # q \/ h # m)
            BY <2>1, <3>2, <1>2
        <3>3. CASE (g # q \/ h # m) /\ (g # p \/ h # n)
            BY <3>3, <1>1, <1>2
        <3>. QED
            BY <3>1, <3>2, <3>3
    <2>. QED
        BY <2>1, <1>2 DEF NamedOnce
<1>9. OnlyDirsHaveEntries'
    <2> SUFFICES ASSUME NEW e \in Inos, NEW k \in Names,
                        attr'[e] = NoAttr \/ attr'[e].kind = "file"
                 PROVE  dirent'[e][k] = NoIno
        BY DEF OnlyDirsHaveEntries, Entries, Live
    <2>1. CASE e = q
        BY <2>1, <1>1, <1>3
    <2>2. CASE d # NoIno /\ e = d
        BY <2>2, <1>1, <1>2 DEF Entries, TypeOK
    <2>3. CASE e # q /\ e # d
        BY <2>3, <1>2, <1>3 DEF OnlyDirsHaveEntries, Entries, Live
    <2>. QED
        BY <2>1, <2>2, <2>3
<1>. QED
    BY <1>5, <1>6, <1>7, <1>8, <1>9


(* release frees the handle, and the file with it when no entry and no    *)
(* other handle refers to the file any more.                               *)
LEMMA ReleaseIInv ==
    ASSUME IInv, NEW u \in Users, NEW fh \in Fhs, Release(u, fh)
    PROVE  IInv'
<1> USE DEF IInv
<1> DEFINE i == handles[fh].ino
           Other == \E g \in Fhs \ {fh} : handles[g] # NoHandle /\ handles[g].ino = i
           Freed == ~Linked(i) /\ ~Other
<1>1. /\ handles[fh] # NoHandle /\ i \in Inos
      /\ attr[i] # NoAttr /\ attr[i].kind = "file" /\ i # RootIno
      /\ Entries(i) = {}
      /\ handles' = [handles EXCEPT ![fh] = NoHandle]
      /\ attr' = IF Freed THEN [attr EXCEPT ![i] = NoAttr] ELSE attr
      /\ caller' = u /\ UNCHANGED dirent
    BY DEF Release, TypeOK, Handles, NamespaceIntact, Live, RootLive, OnlyDirsHaveEntries
<1>2. /\ \A j \in Inos : j # i => attr'[j] = attr[j]
      /\ attr'[i] = IF Freed THEN NoAttr ELSE attr[i]
    BY <1>1 DEF TypeOK
<1>3. TypeOK'
    BY <1>1 DEF TypeOK
<1>4. NamespaceIntact'
    <2>1. ASSUME NEW d \in Inos, NEW k \in Names, dirent'[d][k] # NoIno
          PROVE  attr'[dirent'[d][k]] # NoAttr
        <3>1. dirent[d][k] \in Inos /\ attr[dirent[d][k]] # NoAttr
            BY <2>1, <1>1 DEF TypeOK, NamespaceIntact, Live
        <3>2. dirent[d][k] = i => ~Freed
            BY DEF Linked
        <3>. QED
            BY <3>1, <3>2, <1>1, <1>2
    <2>2. ASSUME NEW g \in Fhs, handles'[g] # NoHandle
          PROVE  attr'[handles'[g].ino] # NoAttr /\ attr'[handles'[g].ino].kind = "file"
        <3>1. g # fh /\ handles'[g] = handles[g]
            BY <2>2, <1>1 DEF TypeOK
        <3>2. handles[g].ino = i => ~Freed
            BY <2>2, <3>1
        <3>3. handles[g].ino \in Inos
            BY <2>2, <3>1 DEF TypeOK, Handles
        <3>. QED
            BY <2>2, <3>1, <3>2, <3>3, <1>2 DEF NamespaceIntact, Live
    <2>3. ASSUME NEW j \in Inos, attr'[j] # NoAttr, j # RootIno, ~Linked(j)'
          PROVE  HasHandle(j)'
        <3>1. CASE j = i
            BY <2>3, <3>1, <1>1, <1>2 DEF Linked, HasHandle
        <3>2. CASE j # i
            <4>1. PICK g \in Fhs : handles[g] # NoHandle /\ handles[g].ino = j
                BY <2>3, <3>2, <1>1, <1>2 DEF NamespaceIntact, Live, Linked, HasHandle
            <4>. QED
                BY <4>1, <3>2, <1>1 DEF HasHandle, TypeOK
        <3>. QED
            BY <3>1, <3>2
    <2>. QED
        BY <2>1, <2>2, <2>3 DEF NamespaceIntact, Live
<1>5. RootLive' /\ RootUnnamed' /\ NamedOnce'
    BY <1>1, <1>2 DEF RootLive, RootUnnamed, NamedOnce, Live
<1>6. OnlyDirsHaveEntries'
    BY <1>1, <1>2 DEF OnlyDirsHaveEntries, Entries, Live
<1>. QED
    BY <1>3, <1>4, <1>5, <1>6


-----------------------------------------------------------------------------
(* Every step of the adapter, and a stutter, keeps IInv. *)
LEMMA NextIInv == IInv /\ [Next]_vars => IInv'
<1> SUFFICES ASSUME IInv, [Next]_vars PROVE IInv'
    OBVIOUS
<1>1. ASSUME NEW u \in Users, NEW p \in Inos, NEW n \in Names
      PROVE  /\ \A m \in FileModes : MkNod(u, p, n, "file", m) => IInv'
             /\ \A m \in DirModes : MkNod(u, p, n, "dir", m) => IInv'
             /\ \A m \in FileModes, acc \in {"rdonly", "wronly", "rdwr"} :
                   Create(u, p, n, m, acc) => IInv'
    <2>1. ASSUME NEW m \in FileModes, MkNod(u, p, n, "file", m) PROVE IInv'
        BY <2>1, CreateNodIInv DEF MkNod
    <2>2. ASSUME NEW m \in DirModes, MkNod(u, p, n, "dir", m) PROVE IInv'
        BY <2>2, CreateNodIInv DEF MkNod
    <2>3. ASSUME NEW m \in FileModes, NEW acc \in {"rdonly", "wronly", "rdwr"},
                 Create(u, p, n, m, acc)
          PROVE  IInv'
        BY <2>3, CreateNodIInv DEF Create
    <2>. QED
        BY <2>1, <2>2, <2>3
<1>2. CASE UNCHANGED vars
    BY <1>2 DEF vars, IInv, TypeOK, NamespaceIntact, RootLive, RootUnnamed,
                NamedOnce, OnlyDirsHaveEntries, Live, Entries, Linked, HasHandle
<1>. QED
    BY <1>1, <1>2, MkDirIInv, UnlinkIInv, RmDirIInv, RenameIInv, SetattrIInv,
       OpenIInv, ReleaseIInv, WriteIInv, CopyFileRangeIInv DEF Next

(* IInv holds in every state the adapter reaches. *)
THEOREM IInvariant == Spec => []IInv
BY InitIInv, NextIInv, PTL DEF Spec

(* The adapter's state keeps its type under every sequence of FUSE calls:  *)
(* inode attributes, directory entries and the handle table that the      *)
(* handlers of src/encryptedfs_fuse3.rs change.                            *)
THEOREM TypeCorrect == Spec => []TypeOK
BY IInvariant, PTL DEF IInv

(* For every number of inodes, names, handles and users: every entry names *)
(* a live inode, every handle refers to a live regular file, and an inode  *)
(* is freed only when no entry and no handle refers to it (unlink, rmdir   *)
(* and rename forgetting the inode, release freeing an unlinked file).     *)
THEOREM NamespaceIntactness == Spec => []NamespaceIntact
BY IInvariant, PTL DEF IInv

(* For every tree and every sequence of requests, no inode is named by two *)
(* entries: rename moves its entry, and create_nod and mkdir name only a   *)
(* free inode.                                                              *)
THEOREM NoHardLinks == Spec => []NamedOnce
BY IInvariant, PTL DEF IInv


-----------------------------------------------------------------------------
(* The action properties need only the type invariant.                    *)

(* A step leaves the permission of inode i alone, narrows it, or i is     *)
(* free before or after.                                                    *)
PermKept(i) ==
    attr[i] = NoAttr \/ attr'[i] = NoAttr \/ attr'[i].perm \subseteq attr[i].perm

(* create_nod and mkdir write only a free inode. *)
LEMMA FsCreateNodKeepsLive ==
    ASSUME TypeOK, NEW p \in Inos, NEW n \in Names, NEW a, NEW read, NEW write,
           NEW u, FsCreateNod(p, n, a, read, write, u),
           NEW i \in Inos, Live(i)
    PROVE  attr'[i] = attr[i] /\ (dirent[p][n] = NoIno)
           /\ \A d \in Inos, k \in Names : (d # p \/ k # n) => dirent'[d][k] = dirent[d][k]
<1>1. PICK j \in FreeInos : attr' = [attr EXCEPT ![j] = a]
                         /\ dirent' = [dirent EXCEPT ![p][n] = j]
    BY DEF FsCreateNod
<1>2. j # i
    BY <1>1 DEF FreeInos, Live
<1>3. attr'[i] = attr[i]
    BY <1>1, <1>2 DEF TypeOK
<1>4. dirent[p][n] = NoIno
    BY DEF FsCreateNod
<1>5. \A d \in Inos, k \in Names : (d # p \/ k # n) => dirent'[d][k] = dirent[d][k]
    BY <1>1 DEF TypeOK
<1>. QED
    BY <1>3, <1>4, <1>5

(* So create_nod and mkdir change no existing entry. *)
LEMMA FsCreateNodKeepsEntries ==
    ASSUME TypeOK, NEW p \in Inos, NEW n \in Names, NEW a, NEW read, NEW write,
           NEW u, FsCreateNod(p, n, a, read, write, u),
           NEW d \in Inos, NEW k \in Names, Live(d), dirent[d][k] # NoIno
    PROVE  dirent'[d][k] = dirent[d][k]
<1>1. (d # p \/ k # n) => dirent'[d][k] = dirent[d][k]
    BY FsCreateNodKeepsLive
<1>2. dirent[p][n] = NoIno
    BY FsCreateNodKeepsLive
<1>. QED
    BY <1>1, <1>2

(* Every step but a chmod keeps or narrows every permission. *)
LEMMA PermKeptNext ==
    ASSUME TypeOK, [Next]_vars, NEW i \in Inos,
           ~\E u \in Users, sa \in SetAttrs : Setattr(u, i, sa) /\ sa.mode # Unset
    PROVE  PermKept(i)
<1> USE DEF PermKept
<1>1. CASE attr[i] = NoAttr
    BY <1>1
<1> SUFFICES ASSUME Live(i) PROVE PermKept(i)
    BY <1>1 DEF Live
<1>2. attr[i] \in Attrs
    BY DEF Live, TypeOK
<1>3. ASSUME NEW u \in Users, NEW p \in Inos, NEW n \in Names, NEW kind, NEW mode,
             NEW read, NEW write, CreateNod(u, p, n, kind, mode, read, write)
      PROVE  PermKept(i)
    BY <1>3, FsCreateNodKeepsLive DEF CreateNod
<1>4. ASSUME NEW u \in Users, NEW p \in Inos, NEW n \in Names, NEW mode, MkDir(u, p, n, mode)
      PROVE  PermKept(i)
    BY <1>4, FsCreateNodKeepsLive DEF MkDir
<1>5. ASSUME NEW j \in Inos, attr' = Forget(j) \/ attr' = [attr EXCEPT ![j] = NoAttr]
      PROVE  PermKept(i)
    BY <1>5 DEF Forget, TypeOK
<1>6. ASSUME NEW u \in Users, NEW j \in Inos, NEW sa \in SetAttrs, Setattr(u, j, sa)
      PROVE  PermKept(i)
    <2>1. CASE j # i
        BY <1>6, <2>1 DEF Setattr, Chmod, Chown, TruncateUtimens, TypeOK
    <2>2. CASE j = i /\ sa.mode # Unset
        BY <1>6, <2>2
    <2>3. CASE j = i /\ sa.mode = Unset /\ (sa.uid # Unset \/ sa.gid # Unset)
        BY <1>2, <1>6, <2>3, ClearSuidSgidNarrows DEF Setattr, Chown, TypeOK, Attrs
    <2>4. CASE j = i /\ sa.mode = Unset /\ ~(sa.uid # Unset \/ sa.gid # Unset)
        <3> DEFINE a  == attr[i]
                   tr == IF sa.size = Unset THEN a ELSE [a EXCEPT !.size = sa.size]
        <3>1. attr'[i] = tr \/ attr'[i] = [tr EXCEPT !.perm = ClearSuidSgid(a.perm)]
            BY <1>6, <2>4 DEF Setattr, TruncateUtimens, TypeOK
        <3>2. tr.perm = a.perm /\ tr \in [kind : {"file", "dir"}, uid : Users,
                    gid : {GidOf[v] : v \in Users}, perm : SUBSET PermBits, size : Nat]
            BY <1>2, FuseAdapterInputs, FuseAdapterAssumption DEF Attrs
        <3>. QED
            BY <3>1, <3>2, ClearSuidSgidNarrows
    <2>. QED
        BY <2>1, <2>2, <2>3, <2>4
<1>7. ASSUME NEW j \in Inos, NEW s, attr' = [attr EXCEPT ![j].size = s]
      PROVE  PermKept(i)
    BY <1>2, <1>7 DEF TypeOK, Attrs
<1>8. ASSUME NEW u \in Users, NEW j \in Inos, NEW f \in OpenFlags, Open(u, j, f)
      PROVE  PermKept(i)
    <2>1. CASE f.trunc
        BY <1>7, <1>8, <2>1 DEF Open
    <2>2. CASE ~f.trunc
        BY <1>8, <2>2 DEF Open
    <2>. QED
        BY <2>1, <2>2
<1>9. ASSUME NEW fh \in Fhs, Write(fh) PROVE PermKept(i)
    BY <1>7, <1>9, TypeOK DEF Write, TypeOK
<1>10. ASSUME NEW fin \in Fhs, NEW fout \in Fhs, CopyFileRange(fin, fout) PROVE PermKept(i)
    BY <1>7, <1>10 DEF CopyFileRange, TypeOK
<1>11. ASSUME NEW u \in Users, NEW fh \in Fhs, Release(u, fh) PROVE PermKept(i)
    BY <1>11, <1>5 DEF Release, TypeOK, Handles
<1>12. CASE UNCHANGED vars
    BY <1>12 DEF vars
<1>13. ASSUME NEW u \in Users, NEW p \in Inos, NEW n \in Names,
              Unlink(u, p, n) \/ RmDir(u, p, n)
       PROVE  PermKept(i)
    <2>1. dirent[p][n] \in Inos
        BY <1>13 DEF Unlink, RmDir, TypeOK
    <2>. QED
        BY <2>1, <1>13, <1>5 DEF Unlink, RmDir
<1>14. ASSUME NEW u \in Users, NEW p \in Inos, NEW n \in Names, NEW q \in Inos,
              NEW m \in Names, Rename(u, p, n, q, m)
       PROVE  PermKept(i)
    <2>1. CASE dirent[q][m] = NoIno
        BY <2>1, <1>14 DEF Rename
    <2>2. CASE dirent[q][m] # NoIno
        <3>1. dirent[q][m] \in Inos
            BY <2>2 DEF TypeOK
        <3>. QED
            BY <2>2, <3>1, <1>14, <1>5 DEF Rename
    <2>. QED
        BY <2>1, <2>2
<1>. QED
    BY <1>3, <1>4, <1>6, <1>8, <1>9, <1>10, <1>11, <1>12, <1>13, <1>14
       DEF Next, MkNod, Create


(* Only a chmod by root or the owner widens a permission. *)
LEMMA PermStep ==
    ASSUME TypeOK, [Next]_vars
    PROVE  \A i \in Inos :
              Live(i) /\ Live(i)' /\ ~(attr'[i].perm \subseteq attr[i].perm)
                  => caller' \in {0, attr[i].uid}
<1> SUFFICES ASSUME NEW i \in Inos, Live(i), Live(i)',
                    ~(attr'[i].perm \subseteq attr[i].perm)
             PROVE  caller' \in {0, attr[i].uid}
    OBVIOUS
<1>1. ~PermKept(i)
    BY DEF PermKept, Live
<1>2. PICK u \in Users, sa \in SetAttrs : Setattr(u, i, sa) /\ sa.mode # Unset
    BY <1>1, PermKeptNext
<1>. QED
    BY <1>2 DEF Setattr, Chmod

(* The entries a step changes: only unlink, rmdir and rename remove or    *)
(* replace one, each after its sticky test.                                *)
LEMMA StickyStep ==
    ASSUME TypeOK, [Next]_vars
    PROVE  \A d \in Inos, n \in Names :
              LET c == dirent[d][n]
              IN  Live(d) /\ SVTX \in attr[d].perm /\ c # NoIno /\ dirent'[d][n] # c
                      => caller' \in {0, attr[d].uid, attr[c].uid}
<1> SUFFICES ASSUME NEW d \in Inos, NEW k \in Names, Live(d), SVTX \in attr[d].perm,
                    dirent[d][k] # NoIno, dirent'[d][k] # dirent[d][k]
             PROVE  caller' \in {0, attr[d].uid, attr[dirent[d][k]].uid}
    OBVIOUS
<1> DEFINE Allowed(p, c, u) == ~StickyDenies(attr[p], attr[c], u) /\ caller' = u
<1>1. ASSUME NEW p \in Inos, NEW u \in Users, d = p, Allowed(p, dirent[d][k], u)
      PROVE  caller' \in {0, attr[d].uid, attr[dirent[d][k]].uid}
    BY <1>1 DEF StickyDenies
<1>2. ASSUME NEW u \in Users, NEW p \in Inos, NEW n \in Names, NEW kind, NEW mode,
             NEW read, NEW write, CreateNod(u, p, n, kind, mode, read, write)
      PROVE  FALSE
    <2>1. \E a : FsCreateNod(p, n, a, read, write, u)
        BY <1>2 DEF CreateNod
    <2>2. PICK a : FsCreateNod(p, n, a, read, write, u)
        BY <2>1
    <2>. QED
        BY <2>2, FsCreateNodKeepsEntries
<1>3. ASSUME NEW u \in Users, NEW p \in Inos, NEW n \in Names, NEW mode, MkDir(u, p, n, mode)
      PROVE  FALSE
    <2>1. \E a : FsCreateNod(p, n, a, FALSE, FALSE, u)
        BY <1>3 DEF MkDir
    <2>2. PICK a : FsCreateNod(p, n, a, FALSE, FALSE, u)
        BY <2>1
    <2>. QED
        BY <2>2, FsCreateNodKeepsEntries
<1>4. ASSUME NEW u \in Users, NEW p \in Inos, NEW n \in Names,
             Unlink(u, p, n) \/ RmDir(u, p, n)
      PROVE  caller' \in {0, attr[d].uid, attr[dirent[d][k]].uid}
    <2>1. d = p /\ k = n
        BY <1>4 DEF Unlink, RmDir, TypeOK
    <2>. QED
        BY <2>1, <1>4, <1>1 DEF Unlink, RmDir
<1>5. ASSUME NEW u \in Users, NEW p \in Inos, NEW n \in Names, NEW q \in Inos,
             NEW m \in Names, Rename(u, p, n, q, m)
      PROVE  caller' \in {0, attr[d].uid, attr[dirent[d][k]].uid}
    <2>1. (d = p /\ k = n) \/ (d = q /\ k = m)
        BY <1>5 DEF Rename, TypeOK
    <2>2. CASE d = p /\ k = n
        BY <2>2, <1>5, <1>1 DEF Rename
    <2>3. CASE d = q /\ k = m
        BY <2>3, <1>5, <1>1 DEF Rename
    <2>. QED
        BY <2>1, <2>2, <2>3
<1>6. CASE UNCHANGED dirent
    BY <1>6
<1>7. ASSUME NEW u \in Users,
             \/ \E i \in Inos : \/ \E sa \in SetAttrs : Setattr(u, i, sa)
                              \/ \E f \in OpenFlags : Open(u, i, f)
             \/ \E fh \in Fhs : Release(u, fh)
      PROVE  UNCHANGED dirent
    BY <1>7 DEF Setattr, Open, Release
<1>8. ASSUME \/ \E fh \in Fhs : Write(fh)
             \/ \E fin, fout \in Fhs : CopyFileRange(fin, fout)
             \/ UNCHANGED vars
      PROVE  UNCHANGED dirent
    BY <1>8 DEF Write, CopyFileRange, vars
<1>. QED
    BY <1>2, <1>3, <1>4, <1>5, <1>6, <1>7, <1>8 DEF Next, MkNod, Create

(* setattr widens the permission of an existing file only for root or the *)
(* file's owner (chmod's owner test), for every set of users, groups and  *)
(* modes; chown, truncate and release only ever clear bits.                *)
THEOREM OwnerGrantsPerm == Spec => PermGrantedByOwner
<1>1. TypeOK /\ [Next]_vars =>
         [\A i \in Inos :
             Live(i) /\ Live(i)' /\ ~(attr'[i].perm \subseteq attr[i].perm)
                 => caller' \in {0, attr[i].uid}]_vars
    BY PermStep
<1>. QED
    BY <1>1, TypeCorrect, PTL DEF Spec, PermGrantedByOwner

(* unlink, rmdir and rename remove or replace an entry of a sticky         *)
(* directory only for root, the directory's owner or the owner of the     *)
(* inode the entry names, for every tree and every sequence of requests.  *)
THEOREM StickyProtection == Spec => StickyProtected
<1>1. TypeOK /\ [Next]_vars =>
         [\A d \in Inos, n \in Names :
             LET c == dirent[d][n]
             IN  Live(d) /\ SVTX \in attr[d].perm /\ c # NoIno /\ dirent'[d][n] # c
                     => caller' \in {0, attr[d].uid, attr[c].uid}]_vars
    BY StickyStep
<1>. QED
    BY <1>1, TypeCorrect, PTL DEF Spec, StickyProtected

=============================================================================
