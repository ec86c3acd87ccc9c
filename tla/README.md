# TLA+ models of rencfs

This directory holds TLA+ specifications of the concurrent parts of rencfs,
TLC models that check them on small instances, and TLAPS proofs. Source
paths below are relative to the repository root.

## The system and its parts

rencfs is an encrypted filesystem that is mounted through FUSE. Its parts:

| Part | Source | State | Operations | Status |
|---|---|---|---|---|
| ArcHashMap | `src/src/arc_hashmap.rs` | `RwLock<HashMap<K,(Arc<V>,Arc<AtomicUsize>)>>` | `get_or_insert_with`, `insert`, `get`, `Holder::drop` (fetch_sub, then `purge`), `len` | modelled: `ArcHashMap` |
| ExpireValue | `src/src/expire_value.rs` | timed `retainer::Cache` with one entry, `RwLock<Option<Weak<T>>>` | `get` (weak → cache → provider → insert → weak), `clear`, expiry by the monitor task | modelled: `ExpireValue` |
| FUSE adapter | `src/src/encryptedfs_fuse3.rs` | none of its own; it calls into EncryptedFs | setattr (chmod/chown/truncate/utimens), mknod, create, mkdir, unlink, rmdir, rename, open, write, copy_file_range, release | modelled: `FuseAdapter` (flush/fsync only move data, which is abstracted) |
| EncryptedFs | not under `src/src` (only tests are) | inodes, directory entries, open handles | the calls the adapter makes | partly: the calls are modelled from the spec inside `FuseAdapter` |
| crypto readers and writers, key holder | not under `src/src` | blocks, key bytes | write/seek/finish, zeroize | not modelled |
| mount dummy | `src/src/mount/dummy.rs` | none | stubs | not modelled: it does nothing |

How they interact: EncryptedFs keeps per-inode locks in ArcHashMaps. Every
handler that touches an inode takes a Holder for it, and the Holder is
dropped when the handler returns. The derived encryption key is kept in an
ExpireValue, so that it is zeroized when no one uses it and it has expired.
The FUSE adapter translates each kernel request into EncryptedFs calls and
checks permissions before it makes them.

What makes these parts hard:
- ArcHashMap's `Holder::drop` lowers the count outside the lock and purges
  later under the write lock. A `get` in between may revive the entry.
- ExpireValue's `get` has five await points and holds no lock across the
  provider call.
- The adapter enforces POSIX permissions itself (owner, group, sticky bit,
  setid bits) across several requests, so whether a user can take over a
  file is a property of request sequences, not of one handler.

## Modules

### `ArcHashMap.tla`

State:
- `entry[k]`: the allocation Id stored under key k.
- `rc[id]`: the AtomicUsize shared by an entry and its Holders.
- `pc[t]`, `key[t]`, `ref[t]`: where thread t is, and which Holder it has.

Ids are reused once nothing refers to them, so the ABA case is included.

Actions:
- `GetOrInsertWith`: the whole write-locked section of lines 67-78,
  including the `get_internal` fetch_add.
- `Get` and `GetInternal`: `get` split at the fetch_add. The read guard is
  held across it.
- `Drop` and `Purge`: `Holder::drop` split between the fetch_sub (no lock)
  and the write-locked `purge`.

Properties:
- `HolderCoherent` (invariant): every Holder refers to the value the map
  holds for its key.
- `ZombieHasPendingPurge` (invariant): an entry whose count is zero always
  has a purge pending, so `len()` over-counts only transiently.
- `EntryStable` (action property): a stored value is never replaced, and it
  is removed only when its count is zero.
- `ZombiesPurged` (liveness): a dead entry eventually leaves the map or is
  taken up again.
- `ImplementsContract` (refinement): the map implements `HolderMap`.

### `HolderMap.tla`: what the map promises

`HolderMap` is the abstract specification of ArcHashMap. It has no locks,
counts or purges. Its state:
- `val[k]`: the value stored under key k, or `NoId`.
- `holders`: the live holders, as `<<thread, key, value>>` triples.

Its actions:
- `Acquire(t, k)`: t gets a holder on the stored value. If k has no value,
  a value that nothing uses is stored first.
- `Release(t)`: t lets go of one holder.
- `Evict`: any set of keys whose values nobody holds lose their values.

ArcHashMap instantiates it with `val <- entry` and `holders <-
HolderTriples`. `HolderTriples` collects the Holder of every thread that is
back in its caller (`pc = "idle"`) and has one.

Each concrete step maps to an abstract one:
- `GetOrInsertWith` and `GetInternal` hand a Holder back, so each is an
  `Acquire`.
- `Drop` is a `Release`. The thread's Holder is gone once its fetch_sub is
  done.
- `Purge` is an `Evict`. It removes only entries with count zero, which
  nobody holds.
- `Get`'s lookup changes neither the entries nor the Holders, so it is a
  stutter.

Ids are reused. So the refinement also shows that an Id is stored afresh
only when no stored entry and no Holder still uses it.

### `ExpireValue.tla`

Each stretch of `get` between two awaits is one action: `ReadWeak`,
`CacheGet`, `Provide`, `CacheInsert` and `SetWeak`. `Clear` models
`clear()`, and `Expire` models the monitor's sweep. A value is alive while
the cache, a task's local `v`, or a caller owns an Arc to it.

Properties:
- `GetReturns` (liveness): every call of `get` returns.
- `SingleFlight`: the claim of the spec (section 4.7) and of the tests
  `test_concurrent_access` / `test_rapid_consecutive_calls` that concurrent
  missing calls run the provider once.
- `ZeroizedWhenQuiet` (liveness): once no `get` runs and no caller holds
  the value, the value is eventually freed. This is the promise of the doc
  comment (lines 19-21). It rests on two things:
  - the monitor's sweep (line 53);
  - `get` leaving only a `Weak` in its field (line 69).

  The mutant `SetWeakStoringStrong` stores a strong reference there, and
  TLC finds the value kept alive forever.
- `QuietOnlyCacheRetains` (invariant): the safety half of the same
  promise. When no `get` runs and no caller holds the value, nothing but
  the cache's Arc keeps it alive.
- `GuardOnlyInLookup` (invariant): a task holds the read guard of
  `self.weak` only while it awaits `cache.get()` (lines 74-83). So the
  write guard at line 68 never waits on its own task. The mutant
  `CacheGetKeepingGuard` keeps the guard past the lookup, which breaks this
  invariant (and makes `GetReturns` fail).

### `FuseAdapter.tla`

State:
- `attr[i]`: the attributes of inode i (kind, uid, gid, permission bits,
  size), or `NoAttr` when the inode is free.
- `dirent[d][n]`: the inode that name n denotes in directory d, or `NoIno`.
- `handles[fh]`: the inode, read and write flags of an open handle.
- `caller`: the uid of the last request. It is a history variable, read
  only (primed) by the action properties, and is left out of the state
  fingerprint by `MCView`.

The permission field is a set of bits: `<<"u","r">>` ... `<<"o","x">>` and
`SUID`, `SGID`, `SVTX`. The model keeps only the uid and gid of a request.
The call `get_groups(pid)` is the constant `GroupsOf`.

Each handler is one action, from its first await to its reply. Its guard
is the conjunction of the checks that do not return an error. An error
reply changes nothing, so it is a stutter. The kernel serializes the
requests that these handlers race on. It holds the parent directory's
inode lock for create, mknod, mkdir, unlink and rmdir, both parents' locks
and the rename lock for rename, and the inode lock for setattr. So a
handler's reads and its write are not interleaved with a conflicting
handler. The kernel also refuses a rename of a directory into its own
subtree (`Subtree`). The operators `CheckAccess`, `ClearSuidSgid`,
`CreationMode`, `CreationGid` and `StickyDenies` translate their Rust
helpers. The EncryptedFs calls (`FsCreateNod`, `Forget`, ...) follow spec
section 4.8. They are not under `src/`.

`Release` models the code as it runs. `fs.is_write_handle(fh)` is an async
fn, and its future is created before `fs.release(fh)` but polled after it.
So it finds no handle, and the setid bits are never cleared.

Properties:
- `NamespaceIntact` (invariant): every entry names a live inode. Every
  live inode other than the root is named or still has an open handle.
  Every handle is on a live file.
- `NamedOnce` (invariant): no hard links. No inode is named by two
  entries. The mutant `RenameKeepingSource` links instead of moving.
- `StickyProtected` (action): an entry of a sticky directory is removed or
  replaced only by root, the directory's owner or the entry's owner.
- `PermGrantedByOwner` (action): the permission bits of an existing file
  gain a bit only by a request of root or of the owner.

The assumption `FuseAdapterInputs` says the model's inputs are well formed:
- creation modes and setattr modes are sets of permission bits;
- a setattr size is within `0..MaxSize`;
- `NoAttr` and `NoHandle` are not attribute records or handles.

TLC evaluates it on every adapter run.

`ChownApplies`, `KillPrivOnRelease` and `TruncateNeedsWrite` are the
properties of the violation runs; see the findings below.

## Runs

| Run | Config | Checks | Result |
|---|---|---|---|
| arc_hashmap_safety | `MCArcHashMapSafety.cfg` | `TypeOK`, `HolderCoherent`, `ZombieHasPendingPurge`, `EntryStable` | pass, 1832 states |
| arc_hashmap_liveness | `MCArcHashMapLiveness.cfg` | `ZombiesPurged` under `FairSpec` | pass |
| arc_hashmap_refinement | `MCArcHashMapRefinement.cfg` | `ImplementsContract` (`HolderMap!CSpec`) | pass, 1832 states |
| expire_value_safety | `MCExpireValueSafety.cfg` | `GuardOnlyInLookup`, `QuietOnlyCacheRetains`, 3 tasks | pass, 58972 states |
| expire_value_zeroized | `MCExpireValueZeroized.cfg` | `ZeroizedWhenQuiet` under `FairSpec` | pass, 3009 states |
| expire_value_returns | `MCExpireValueReturns.cfg` | `GetReturns` under `FairSpec` | pass, 3009 states |
| expire_value_single_flight | `MCExpireValueSingleFlight.cfg` | `SingleFlight` | violation |
| fuse_adapter_safety | `MCFuseAdapterSafety.cfg` | `TypeOK`, `NamespaceIntact`, `NamedOnce`, `StickyProtected`, `PermGrantedByOwner` | pass, about 79k states |
| fuse_adapter_chown | `MCFuseAdapterChownApplies.cfg` | `ChownApplies` | violation |
| fuse_adapter_kill_priv | `MCFuseAdapterKillPrivOnRelease.cfg` | `KillPrivOnRelease` | violation |
| fuse_adapter_truncate | `MCFuseAdapterTruncateNeedsWrite.cfg` | `TruncateNeedsWrite` | violation |

The single-flight violation is a finding. Two tasks can both miss and both
reach `self.provider.provide()` at `expire_value.rs:63`, because no lock is
held from the miss to the store. Each then inserts its own value, and the
second overwrites the first.

The adapter runs give three findings in `encryptedfs_fuse3.rs`:
- Line 385: chown is a no-op. The branch reads uid and gid from
  `set_attr2`, a freshly defaulted `SetFileAttr`, so they are always None.
  It rewrites only the permission. TLC's trace: root creates a file, then
  chowns it to user 1, and the owner is still root.
- Line 921: release never clears SUID/SGID, for the reason given under
  `FuseAdapter.tla`. Trace: root creates a file with a write handle, sets
  mode 4755, and releases the handle. The SUID bit stays.
- Line 437: setattr truncates with no permission check. With a time in the
  same request, the EACCES of utimens comes after the truncation. Trace:
  root creates a file, user 1 truncates it. This diverges from spec 6.2,
  which makes the adapter perform the permission checks. It matters on a
  mount without `default_permissions`.

Bounds:
- ArcHashMap uses 3 threads, 2 keys and 3 Ids. That allows two holders of
  one key while a third thread drops and purges, and an Id that is freed
  and reused.
- ExpireValue uses 2 tasks for liveness, 3 tasks for the violation, and 5
  value slots. This is enough that `FreeValues` is never empty while every
  task and the cache hold distinct values.

Symmetry is not used for those two modules. Under symmetry the state space
was too small for the runs to exercise every action.

FuseAdapter bounds:
- 3 users: root, user 1 in group 10, and user 2 in groups 10 and 20. So
  owner, group and other access each occur.
- 3 inodes (the root and two more) and 2 names. That allows a file inside
  a subdirectory, a rename over an existing entry, and an orphan that is
  still open.
- 1 handle, file size at most 1.
- One creation mode (0644 for files, 0777 for directories). Chmod modes are
  1777 (sticky) and 4755 (SUID).
- The open flags are read-only, write-only, and read-write with truncate.

The two non-root inodes are symmetric, and so are the names (`MCSymmetry`).
None of the properties names a particular one of them. `MCView` drops
`caller` from the fingerprint. That is sound because no action reads
`caller` and only the action properties read it, primed.

Fairness:
- Threads run once they are inside a call, so `GetInternal` and the steps
  of `get` are weakly fair.
- Purge and `SetWeak` wait for a write lock that readers keep taking and
  releasing. std's RwLock makes new readers wait while a writer waits, and
  tokio's RwLock is FIFO, so those steps are strongly fair.
- Callers and `clear` get no fairness: a caller may keep its value forever.
- `Expire` is weakly fair. `new()` spawns the monitor task (line 52), and
  it loops until the ExpireValue is dropped, sweeping expired entries each
  round. The model's `Expire` merges the end of the duration with the
  sweep. So `ZeroizedWhenQuiet` assumes a duration that ends and a monitor
  that keeps running. `GetReturns` holds without the `Expire` fairness too.

## Proofs

### `ArcHashMapProofs.tla`

The proofs hold for every finite set of threads, every non-empty set of
keys, and every set of Ids. `HolderCoherent` is not inductive by itself,
because purge removes entries whose count is zero. The inductive invariant
`IInv` adds three conjuncts:
- `RcExact`: every count equals the number of Holders sharing it. So a
  Holder's entry has a positive count and survives a purge.
- `PendingCoherent`: a thread between the lookup and the fetch_add of
  `get` still sees its entry. Its read guard keeps purges out.
- `PurgeHoldsNothing`: a thread inside a drop holds no Holder.

The proof has one lemma per action and uses the cardinality lemmas of
FiniteSetTheorems.

Theorems:
- `IInvariant`: `Spec => []IInv`.
- `TypeCorrect`, `HolderCoherence` and `ZombiesArePending`: the
  corresponding invariants hold in every state of `Spec`.
- `EntryStability`: `Spec => EntryStable`. It needs only `TypeOK`:
  `GetOrInsertWith` writes only an absent key, and `Purge` empties only a
  key whose count is not positive, which for a `Nat` count means zero.
- `Implementation`: `Spec => ImplementsContract`, the refinement of
  `HolderMap`. The proof shows two things:
  - `Init` maps to `HolderMap`'s `CInit`.
  - Under `IInv`, each action maps to the abstract step listed under
    `HolderMap.tla`, and `Get` maps to a stutter. One lemma per action.

  Two conjuncts of `IInv` carry the argument:
  - `RcExact` shows that a purged entry is held by no one.
  - `PendingCoherent` shows that `GetInternal` returns the stored value.

  PTL then combines the step lemma with `IInvariant`.
- `CoherenceByRefinement`: `Spec => []HolderCoherent` a second way. It
  takes `ContractCoherence` from `HolderMapProofs` through the instance
  `ContractProofs` (the same mapping) and combines it with
  `Implementation`. `MappedCoherence` shows that the contract's
  `CCoherent`, under the mapping, is `HolderCoherent`.

### `HolderMapProofs.tla`

`ContractCoherence`: under `NoId \notin Ids`, `CSpec => []CCoherent`.
The contract alone keeps every holder on the value stored under its key.
The invariant is inductive together with the state's type (`CTypeOK`):
- an empty key has no holder, so a fresh value stored there cannot
  contradict one;
- `Evict` removes only values nobody holds.

Any implementation of HolderMap inherits this.

### `FuseAdapterProofs.tla`

The proofs hold for every set of users, inodes, names and handles, under
`FuseAdapterAssumption` and `FuseAdapterInputs`. `NamespaceIntact` is not
inductive by itself. Its inductive strengthening `IInv` adds:
- `NamedOnce`: no hard links. unlink, rmdir and rename-over free the inode
  of the entry they remove, which is right only if no other entry names it.
- `RootUnnamed` and `RootLive`: the root is never the target of an entry,
  so no request frees it.
- `OnlyDirsHaveEntries`: a free inode or a file has no entries. Without it,
  an inode that `create_nod` reuses could come back with stale entries that
  name freed inodes.

TLC checked `IInv` as an invariant of the safety run before it was proved.

There is one lemma per handler. `CreateNod`, `MkDir`, setattr and `open`
share the lemmas `FsCreateNodIInv` and `AttrStepIInv`. `unlink` and `rmdir`
share `RemoveEntryIInv`. `rename` has its own lemma: it removes the source
entry, writes the target entry, and forgets the inode it replaces, which
is neither directory involved because that inode is empty.

Theorems:
- `IInvariant`: `Spec => []IInv`.
- `TypeCorrect`: `Spec => []TypeOK`.
- `NamespaceIntactness`: `Spec => []NamespaceIntact`.
- `NoHardLinks`: `Spec => []NamedOnce`.
- `OwnerGrantsPerm`: `Spec => PermGrantedByOwner`. The lemma
  `PermKeptNext` shows that every step except a chmod keeps, narrows or
  frees each permission:
  - chown and truncate write `ClearSuidSgid` of the old bits;
  - open, write and copy_file_range change only the size;
  - unlink, rmdir, rename and release keep an inode or free it;
  - create_nod and mkdir write only a free inode.

  Chmod's guard admits only root and the owner.
- `StickyProtection`: `Spec => StickyProtected`. Only unlink, rmdir and
  rename change an existing entry, and each one does it after its
  `StickyDenies` test on that entry. Rename tests both the source and the
  entry it replaces.

Both action theorems need only `TypeOK`. The operator lemma
`ClearSuidSgidNarrows` (clear_suid_sgid only removes bits, and always
removes SUID) is cited wherever chown or truncate rewrites the bits.

### `ExpireValueProofs.tla`

The proofs hold for every finite set of tasks and every set of
allocations. `QuietOnlyCacheRetains` is not inductive: it says nothing
about a task inside `get`, which may hold the provider's fresh Arc in its
local `v`. The strengthening `LocalInFlight` says that `v` is set only
between the provider's return and `SetWeak`, which hands it to the caller.
`IInv` is `TypeOK /\ GuardOnlyInLookup /\ LocalInFlight`. There is one
lemma per step of `get`, and one for drops, `clear` and expiry.

Theorems:
- `IInvariant`;
- `TypeCorrect`;
- `GuardDiscipline`: `Spec => []GuardOnlyInLookup`;
- `QuietRetention`: `Spec => []QuietOnlyCacheRetains`.

Only TLC checks the liveness properties (`ZombiesPurged`, `GetReturns`,
`ZeroizedWhenQuiet`) and anything that uses ENABLED. TLAPS cannot prove
those here. The violated properties are shown by TLC's counterexample
traces. Every invariant and action property of a passing run is stated by
a theorem.

## Plan for the remaining work

Added in the latest sittings:
- the `HolderMap` contract, with its refinement checked and proved, and
  the contract's own coherence carried through it;
- `ZeroizedWhenQuiet`, and its safety half `QuietOnlyCacheRetains`;
- the adapter's inductive invariant and its proofs, and proofs of the
  adapter's action properties;
- proofs for ExpireValue.

Remaining:
1. `SeekWriter`: a block-level model of the crypto writer (write, seek,
   finish) against an abstract byte sequence, with a refinement mapping.
   It would be modelled from the spec, because the code is not under
   `src/`.
2. Adapter questions not yet checked:
   - `check_access` uses only the primary gid and `get_groups`. Compare it
     with POSIX supplementary-group semantics.
   - With `SuidSupport = FALSE`, `creation_mode` strips SGID from a new
     directory, so setgid inheritance is lost.
3. Proofs:
   - an abstract contract for ExpireValue. What `get` promises its callers
     depends on allocation reuse, which makes it hard to state usefully.
   - Directory acyclicity, which rests on rename's `Subtree` guard. It
     needs induction over the recursive `below` function, which the
     provers cannot do here, so it would stay a TLC property.
