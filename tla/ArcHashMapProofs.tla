-------------------------- MODULE ArcHashMapProofs --------------------------
(***************************************************************************)
(* Proofs about ArcHashMap for every finite set of threads, keys and      *)
(* allocation Ids.                                                          *)
(*                                                                         *)
(* HolderCoherent is not inductive by itself: purge removes an entry       *)
(* when its count is zero, so the proof must know that the count of an    *)
(* entry is exactly the number of its holders (RcExact), and that a       *)
(* thread between get's lookup and its fetch_add still sees the entry it  *)
(* looked up (PendingCoherent), which holds because its read guard keeps  *)
(* purge out.                                                              *)
(***************************************************************************)
EXTENDS ArcHashMap, FiniteSetTheorems, TLAPS

(* A thread inside get() holds a pair the map still stores under its key. *)
PendingCoherent ==
    \A t \in Threads :
        pc[t] = "get_incr" => ref[t] # NoId /\ entry[key[t]] = ref[t]

(* The AtomicUsize of every pair counts exactly the Holders sharing it.   *)
RcExact ==
    \A id \in Ids : rc[id] = Cardinality(Holders(id))

(* A thread inside drop has already given its Holder up. *)
PurgeHoldsNothing ==
    \A t \in Threads : pc[t] = "purge" => ref[t] = NoId

IInv ==
    /\ TypeOK
    /\ PurgeHoldsNothing
    /\ HolderCoherent
    /\ PendingCoherent
    /\ RcExact
    /\ ZombieHasPendingPurge

USE ArcHashMapAssumption

-----------------------------------------------------------------------------
(* Every Holders set is finite, and a thread in it makes it non-empty.    *)
LEMMA HoldersFinite ==
    ASSUME TypeOK, NEW id
    PROVE  IsFiniteSet(Holders(id))
BY FS_Subset DEF Holders

LEMMA HeldCountPositive ==
    ASSUME TypeOK, RcExact, NEW t \in Threads, pc[t] = "idle", ref[t] # NoId
    PROVE  rc[ref[t]] > 0
<1>1. ref[t] \in Ids /\ t \in Holders(ref[t])
    BY DEF TypeOK, Holders
<1>2. IsFiniteSet(Holders(ref[t]))
    BY HoldersFinite
<1>3. Cardinality(Holders(ref[t])) # 0
    BY <1>1, <1>2, FS_EmptySet
<1>4. Cardinality(Holders(ref[t])) \in Nat
    BY <1>2, FS_CardinalityType
<1>. QED
    BY <1>1, <1>3, <1>4 DEF RcExact

(* A step that adds one thread to the holders of one id and bumps its     *)
(* count, or removes one and lowers it, keeps the counts exact.            *)
LEMMA CountAdd ==
    ASSUME NEW S, NEW x, IsFiniteSet(S), x \notin S
    PROVE  Cardinality(S \cup {x}) = Cardinality(S) + 1
BY FS_AddElement

LEMMA CountRemove ==
    ASSUME NEW S, NEW x, IsFiniteSet(S), x \in S
    PROVE  Cardinality(S \ {x}) = Cardinality(S) - 1
BY FS_RemoveElement

-----------------------------------------------------------------------------
LEMMA InitIInv == Init => IInv
<1> SUFFICES ASSUME Init PROVE IInv
    OBVIOUS
<1>1. TypeOK
    BY DEF Init, TypeOK, PCs
<1>2. \A id \in Ids : Holders(id) = {}
    BY DEF Init, Holders
<1>3. RcExact
    BY <1>2, FS_EmptySet DEF Init, RcExact
<1>. QED
    BY <1>1, <1>3 DEF Init, IInv, HolderCoherent, PendingCoherent,
                      ZombieHasPendingPurge, PurgeHoldsNothing

LEMMA GetOrInsertWithIInv ==
    ASSUME IInv, NEW t \in Threads, NEW k \in Keys, GetOrInsertWith(t, k)
    PROVE  IInv'
<1> USE DEF IInv
<1>1. CASE entry[k] # NoId
    <2> DEFINE id0 == entry[k]
    <2>1. /\ rc' = [rc EXCEPT ![id0] = @ + 1]
          /\ ref' = [ref EXCEPT ![t] = id0]
          /\ entry' = entry /\ pc' = pc /\ key' = [key EXCEPT ![t] = k]
          /\ pc[t] = "idle" /\ ref[t] = NoId /\ id0 \in Ids
        BY <1>1 DEF GetOrInsertWith, TypeOK
    <2>2. TypeOK'
        BY <2>1 DEF TypeOK
    <2>3. Holders(id0)' = Holders(id0) \cup {t} /\ t \notin Holders(id0)
        BY <2>1 DEF Holders, TypeOK
    <2>4. \A id \in Ids \ {id0} : Holders(id)' = Holders(id)
        BY <2>1 DEF Holders, TypeOK
    <2>5. RcExact'
        BY <2>1, <2>3, <2>4, HoldersFinite, CountAdd DEF RcExact, TypeOK
    <2>6. HolderCoherent' /\ PendingCoherent'
        BY <2>1 DEF HolderCoherent, PendingCoherent, TypeOK
    <2>7. ZombieHasPendingPurge' /\ PurgeHoldsNothing'
        BY <2>1 DEF ZombieHasPendingPurge, PurgeHoldsNothing, TypeOK
    <2>. QED
        BY <2>2, <2>5, <2>6, <2>7
<1>2. CASE entry[k] = NoId
    <2>1. PICK id \in FreeIds :
             /\ entry' = [entry EXCEPT ![k] = id]
             /\ rc' = [rc EXCEPT ![id] = 1]
             /\ ref' = [ref EXCEPT ![t] = id]
        BY <1>2 DEF GetOrInsertWith
    <2>2. /\ pc' = pc /\ key' = [key EXCEPT ![t] = k]
          /\ pc[t] = "idle" /\ ref[t] = NoId
          /\ id \in Ids
          /\ \A s \in Threads : ref[s] # id
          /\ \A j \in Keys : entry[j] # id
        BY <1>2 DEF GetOrInsertWith, FreeIds, InUse
    <2>3. TypeOK'
        BY <2>1, <2>2 DEF TypeOK
    <2>4. Holders(id)' = {t}
        BY <2>1, <2>2 DEF Holders, TypeOK
    <2>5. \A j \in Ids \ {id} : Holders(j)' = Holders(j)
        BY <2>1, <2>2 DEF Holders, TypeOK
    <2>6. RcExact'
        BY <2>1, <2>4, <2>5, FS_Singleton DEF RcExact, TypeOK
    <2>7. HolderCoherent'
        BY <1>2, <2>1, <2>2 DEF HolderCoherent, TypeOK
    <2>8. PendingCoherent'
        BY <1>2, <2>1, <2>2 DEF PendingCoherent, TypeOK
    <2>9. ZombieHasPendingPurge' /\ PurgeHoldsNothing'
        BY <2>1, <2>2 DEF ZombieHasPendingPurge, PurgeHoldsNothing, TypeOK
    <2>. QED
        BY <2>3, <2>6, <2>7, <2>8, <2>9
<1>. QED
    BY <1>1, <1>2

LEMMA GetIInv ==
    ASSUME IInv, NEW t \in Threads, NEW k \in Keys, Get(t, k)
    PROVE  IInv'
<1> USE DEF IInv
<1>1. /\ pc' = [pc EXCEPT ![t] = "get_incr"]
      /\ ref' = [ref EXCEPT ![t] = entry[k]]
      /\ key' = [key EXCEPT ![t] = k]
      /\ entry' = entry /\ rc' = rc
      /\ pc[t] = "idle" /\ ref[t] = NoId /\ entry[k] # NoId
    BY DEF Get
<1>2. TypeOK'
    BY <1>1 DEF TypeOK, PCs
<1>3. \A id \in Ids : Holders(id)' = Holders(id)
    BY <1>1 DEF Holders, TypeOK
<1>4. RcExact'
    BY <1>1, <1>3 DEF RcExact
<1>5. HolderCoherent' /\ PendingCoherent'
    BY <1>1 DEF HolderCoherent, PendingCoherent, TypeOK
<1>6. ZombieHasPendingPurge' /\ PurgeHoldsNothing'
    BY <1>1 DEF ZombieHasPendingPurge, PurgeHoldsNothing, TypeOK
<1>. QED
    BY <1>2, <1>4, <1>5, <1>6

LEMMA GetInternalIInv ==
    ASSUME IInv, NEW t \in Threads, GetInternal(t)
    PROVE  IInv'
<1> USE DEF IInv
<1> DEFINE id0 == ref[t]
<1>1. /\ rc' = [rc EXCEPT ![id0] = @ + 1]
      /\ pc' = [pc EXCEPT ![t] = "idle"]
      /\ entry' = entry /\ key' = key /\ ref' = ref
      /\ pc[t] = "get_incr" /\ id0 \in Ids /\ entry[key[t]] = id0
    BY DEF GetInternal, PendingCoherent, TypeOK
<1>2. TypeOK'
    BY <1>1 DEF TypeOK, PCs
<1>3. Holders(id0)' = Holders(id0) \cup {t} /\ t \notin Holders(id0)
    BY <1>1 DEF Holders, TypeOK
<1>4. \A id \in Ids \ {id0} : Holders(id)' = Holders(id)
    BY <1>1 DEF Holders, TypeOK
<1>5. RcExact'
    BY <1>1, <1>3, <1>4, HoldersFinite, CountAdd DEF RcExact, TypeOK
<1>6. HolderCoherent' /\ PendingCoherent'
    BY <1>1 DEF HolderCoherent, PendingCoherent, TypeOK
<1>7. ZombieHasPendingPurge' /\ PurgeHoldsNothing'
    BY <1>1 DEF ZombieHasPendingPurge, PurgeHoldsNothing, TypeOK
<1>. QED
    BY <1>2, <1>5, <1>6, <1>7

LEMMA DropIInv ==
    ASSUME IInv, NEW t \in Threads, Drop(t)
    PROVE  IInv'
<1> USE DEF IInv
<1>0. PICK id0 \in Ids : id0 = ref[t]
    \* a rigid name: ref[t] itself changes in this step
    BY DEF Drop, TypeOK
<1>1. /\ rc' = [rc EXCEPT ![id0] = @ - 1]
      /\ ref' = [ref EXCEPT ![t] = NoId]
      /\ pc' = [pc EXCEPT ![t] = "purge"]
      /\ entry' = entry /\ key' = key
      /\ pc[t] = "idle" /\ id0 \in Ids
    BY <1>0 DEF Drop, TypeOK
<1>2. rc[id0] > 0
    BY <1>0, <1>1, HeldCountPositive
<1>3. TypeOK'
    BY <1>1, <1>2 DEF TypeOK, PCs
<1>4. Holders(id0)' = Holders(id0) \ {t} /\ t \in Holders(id0)
    BY <1>0, <1>1 DEF Holders, TypeOK
<1>5. \A id \in Ids \ {id0} : Holders(id)' = Holders(id)
    BY <1>0, <1>1 DEF Holders, TypeOK
<1>6. RcExact'
    BY <1>1, <1>4, <1>5, HoldersFinite, CountRemove DEF RcExact, TypeOK
<1>7. HolderCoherent' /\ PendingCoherent'
    BY <1>1 DEF HolderCoherent, PendingCoherent, TypeOK
<1>8. ZombieHasPendingPurge' /\ PurgeHoldsNothing'
    BY <1>1 DEF ZombieHasPendingPurge, PurgeHoldsNothing, TypeOK
<1>. QED
    BY <1>3, <1>6, <1>7, <1>8

LEMMA PurgeIInv ==
    ASSUME IInv, NEW t \in Threads, Purge(t)
    PROVE  IInv'
<1> USE DEF IInv
<1>1. /\ entry' = [k \in Keys |->
                     IF entry[k] # NoId /\ rc[entry[k]] > 0 THEN entry[k] ELSE NoId]
      /\ pc' = [pc EXCEPT ![t] = "idle"]
      /\ rc' = rc /\ key' = key /\ ref' = ref
      /\ pc[t] = "purge"
      /\ \A s \in Threads : pc[s] # "get_incr"
    BY DEF Purge, WriteLockFree, ReadGuards
<1>2. TypeOK'
    BY <1>1 DEF TypeOK, PCs
<1>3. ref[t] = NoId
    BY <1>1 DEF PurgeHoldsNothing
<1>4. \A id \in Ids : Holders(id)' = Holders(id)
    BY <1>1, <1>3 DEF Holders, TypeOK
<1>5. RcExact' /\ PurgeHoldsNothing'
    BY <1>1, <1>4 DEF RcExact, PurgeHoldsNothing, TypeOK
<1>6. HolderCoherent'
    <2> SUFFICES ASSUME NEW s \in Threads, pc'[s] = "idle", ref'[s] # NoId
                 PROVE  entry'[key'[s]] = ref'[s]
        BY DEF HolderCoherent
    <2>1. s # t /\ pc[s] = "idle" /\ ref[s] = ref'[s]
        BY <1>1, <1>3 DEF TypeOK
    <2>2. rc[ref[s]] > 0 /\ entry[key[s]] = ref[s]
        BY <2>1, HeldCountPositive DEF HolderCoherent
    <2>. QED
        BY <1>1, <2>1, <2>2 DEF TypeOK
<1>7. PendingCoherent'
    BY <1>1 DEF PendingCoherent, TypeOK
<1>8. ZombieHasPendingPurge' /\ PurgeHoldsNothing'
    BY <1>1 DEF ZombieHasPendingPurge, PurgeHoldsNothing, TypeOK
<1>. QED
    BY <1>2, <1>5, <1>6, <1>7, <1>8

-----------------------------------------------------------------------------
LEMMA NextIInv == IInv /\ [Next]_vars => IInv'
<1> SUFFICES ASSUME IInv, [Next]_vars PROVE IInv'
    OBVIOUS
<1>1. CASE UNCHANGED vars
    BY <1>1 DEF vars, IInv, TypeOK, PurgeHoldsNothing, HolderCoherent,
                PendingCoherent, RcExact, ZombieHasPendingPurge, Holders
<1>. QED
    BY <1>1, GetOrInsertWithIInv, GetIInv, GetInternalIInv, DropIInv, PurgeIInv
       DEF Next

(* The inductive invariant holds in every reachable state. *)
THEOREM IInvariant == Spec => []IInv
BY InitIInv, NextIInv, PTL DEF Spec

(* Every Holder refers to the value the map holds for its key, for every  *)
(* number of threads, keys and allocations: the holder map never gives    *)
(* two live holders of one key different values.                          *)
THEOREM HolderCoherence == Spec => []HolderCoherent
BY IInvariant, PTL DEF IInv

(* The type invariant: in particular no AtomicUsize is ever decremented   *)
(* below zero by Holder::drop.                                             *)
THEOREM TypeCorrect == Spec => []TypeOK
BY IInvariant, PTL DEF IInv

(* len() over-counts only while a drop is between fetch_sub and purge.   *)
THEOREM ZombiesArePending == Spec => []ZombieHasPendingPurge
BY IInvariant, PTL DEF IInv


-----------------------------------------------------------------------------
(* Refinement: every step of ArcHashMap is a step of HolderMap under the  *)
(* mapping HolderTriples, or leaves the mapped state unchanged.  The      *)
(* purge step needs RcExact: a count of zero means no Holder refers to    *)
(* the pair, which is what the contract's Evict asks.                      *)
LEMMA GetOrInsertWithRefines ==
    ASSUME IInv, NEW t \in Threads, NEW k \in Keys, GetOrInsertWith(t, k)
    PROVE  Contract!Acquire(t, k)
<1> USE DEF IInv
<1>1. CASE entry[k] # NoId
    <2>1. /\ ref' = [ref EXCEPT ![t] = entry[k]]
          /\ entry' = entry /\ pc' = pc /\ key' = [key EXCEPT ![t] = k]
          /\ pc[t] = "idle" /\ ref[t] = NoId
        BY <1>1 DEF GetOrInsertWith
    <2>2. HolderTriples' = HolderTriples \cup {<<t, k, entry[k]>>}
        BY <1>1, <2>1 DEF HolderTriples, TypeOK
    <2>. QED
        BY <1>1, <2>1, <2>2 DEF Contract!Acquire
<1>2. CASE entry[k] = NoId
    <2>1. PICK id \in FreeIds :
             /\ entry' = [entry EXCEPT ![k] = id]
             /\ ref' = [ref EXCEPT ![t] = id]
        BY <1>2 DEF GetOrInsertWith
    <2>2. /\ pc' = pc /\ key' = [key EXCEPT ![t] = k]
          /\ pc[t] = "idle" /\ ref[t] = NoId /\ id \in Ids
        BY <1>2 DEF GetOrInsertWith, FreeIds
    <2>3. id \in Ids \ Contract!Used
        BY <2>1 DEF FreeIds, InUse, Contract!Used, HolderTriples
    <2>4. HolderTriples' = HolderTriples \cup {<<t, k, id>>}
        BY <2>1, <2>2, NoId \notin Ids DEF HolderTriples, TypeOK
    <2>. QED
        BY <1>2, <2>1, <2>3, <2>4 DEF Contract!Acquire
<1>. QED
    BY <1>1, <1>2

LEMMA GetRefines ==
    ASSUME IInv, NEW t \in Threads, NEW k \in Keys, Get(t, k)
    PROVE  UNCHANGED <<entry, HolderTriples>>
<1>1. /\ pc' = [pc EXCEPT ![t] = "get_incr"]
      /\ ref' = [ref EXCEPT ![t] = entry[k]]
      /\ key' = [key EXCEPT ![t] = k]
      /\ entry' = entry /\ ref[t] = NoId
    BY DEF Get
<1>. QED
    BY <1>1 DEF HolderTriples, IInv, TypeOK

LEMMA GetInternalRefines ==
    ASSUME IInv, NEW t \in Threads, GetInternal(t)
    PROVE  Contract!Acquire(t, key[t])
<1>1. /\ pc' = [pc EXCEPT ![t] = "idle"]
      /\ entry' = entry /\ key' = key /\ ref' = ref
      /\ pc[t] = "get_incr" /\ ref[t] # NoId /\ entry[key[t]] = ref[t]
      /\ key[t] \in Keys
    BY DEF GetInternal, IInv, PendingCoherent, TypeOK
<1>2. HolderTriples' = HolderTriples \cup {<<t, key[t], entry[key[t]]>>}
    BY <1>1 DEF HolderTriples, IInv, TypeOK
<1>. QED
    BY <1>1, <1>2 DEF Contract!Acquire

LEMMA DropRefines ==
    ASSUME IInv, NEW t \in Threads, Drop(t)
    PROVE  Contract!Release(t)
<1>1. /\ ref' = [ref EXCEPT ![t] = NoId]
      /\ pc' = [pc EXCEPT ![t] = "purge"]
      /\ entry' = entry /\ key' = key
      /\ pc[t] = "idle" /\ ref[t] # NoId
    BY DEF Drop
<1>2. <<t, key[t], ref[t]>> \in HolderTriples
    BY <1>1 DEF HolderTriples
<1>3. HolderTriples' = HolderTriples \ {<<t, key[t], ref[t]>>}
    BY <1>1 DEF HolderTriples, IInv, TypeOK
<1>. QED
    BY <1>1, <1>2, <1>3 DEF Contract!Release

LEMMA PurgeRefines ==
    ASSUME IInv, NEW t \in Threads, Purge(t)
    PROVE  Contract!Evict
<1> DEFINE S == {k \in Keys : entry[k] # NoId /\ rc[entry[k]] = 0}
<1>1. /\ entry' = [k \in Keys |->
                     IF entry[k] # NoId /\ rc[entry[k]] > 0 THEN entry[k] ELSE NoId]
      /\ pc' = [pc EXCEPT ![t] = "idle"]
      /\ key' = key /\ ref' = ref /\ pc[t] = "purge"
    BY DEF Purge
<1>2. ref[t] = NoId
    BY <1>1 DEF IInv, PurgeHoldsNothing
<1>3. HolderTriples' = HolderTriples
    BY <1>1, <1>2 DEF HolderTriples, IInv, TypeOK
<1>4. S \subseteq {k \in Keys : entry[k] # NoId /\ ~Contract!Held(entry[k])}
    <2> SUFFICES ASSUME NEW k \in S, NEW h \in HolderTriples, h[3] = entry[k]
                 PROVE  FALSE
        BY DEF Contract!Held
    <2>1. PICK s \in Threads : pc[s] = "idle" /\ ref[s] # NoId /\ h = <<s, key[s], ref[s]>>
        BY DEF HolderTriples
    <2>2. rc[ref[s]] > 0
        BY <2>1, HeldCountPositive DEF IInv
    <2>. QED
        BY <2>1, <2>2
<1>5. entry' = [k \in Keys |-> IF k \in S THEN NoId ELSE entry[k]]
    BY <1>1 DEF IInv, TypeOK
<1>. QED
    BY <1>3, <1>4, <1>5 DEF Contract!Evict

LEMMA NextRefines ==
    IInv /\ [Next]_vars => [Contract!CNext]_Contract!cvars
<1> SUFFICES ASSUME IInv, [Next]_vars PROVE [Contract!CNext]_Contract!cvars
    OBVIOUS
<1>1. CASE UNCHANGED vars
    BY <1>1 DEF vars, Contract!cvars, HolderTriples
<1>2. ASSUME NEW t \in Threads, NEW k \in Keys, GetOrInsertWith(t, k)
      PROVE  Contract!CNext
    BY <1>2, GetOrInsertWithRefines DEF Contract!CNext
<1>3. ASSUME NEW t \in Threads, NEW k \in Keys, Get(t, k)
      PROVE  UNCHANGED Contract!cvars
    BY <1>3, GetRefines DEF Contract!cvars
<1>4. ASSUME NEW t \in Threads, GetInternal(t)
      PROVE  Contract!CNext
    <2>1. key[t] \in Keys
        BY DEF IInv, TypeOK
    <2>. QED
        BY <1>4, <2>1, GetInternalRefines DEF Contract!CNext
<1>5. ASSUME NEW t \in Threads, Drop(t)
      PROVE  Contract!CNext
    BY <1>5, DropRefines DEF Contract!CNext
<1>6. ASSUME NEW t \in Threads, Purge(t)
      PROVE  Contract!CNext
    BY <1>6, PurgeRefines DEF Contract!CNext
<1>. QED
    BY <1>1, <1>2, <1>3, <1>4, <1>5, <1>6 DEF Next

(* ArcHashMap implements its contract HolderMap for every finite set of   *)
(* threads, keys and allocations: whatever the interleaving of lookups,   *)
(* fetch_adds, fetch_subs and purges, the callers see a map that hands     *)
(* out the stored value and drops a value only when no Holder has it.    *)
THEOREM Implementation == Spec => ImplementsContract
<1>1. Init => Contract!CInit
    BY DEF Init, Contract!CInit, HolderTriples
<1>. QED
    BY <1>1, IInvariant, NextRefines, PTL DEF Spec, ImplementsContract, Contract!CSpec


-----------------------------------------------------------------------------
(* What one step does to one key: nothing, or insert fills it while it is *)
(* empty, or purge empties it while its count is zero.                     *)
LEMMA EntryStep ==
    ASSUME TypeOK, [Next]_vars, NEW k \in Keys, entry[k] # NoId
    PROVE  \/ entry'[k] = entry[k]
           \/ entry'[k] = NoId /\ rc[entry[k]] = 0
<1>1. ASSUME NEW t \in Threads, NEW j \in Keys, GetOrInsertWith(t, j)
      PROVE  entry'[k] = entry[k]
    BY <1>1 DEF GetOrInsertWith, TypeOK
<1>2. ASSUME NEW t \in Threads, Purge(t)
      PROVE  \/ entry'[k] = entry[k]
             \/ entry'[k] = NoId /\ rc[entry[k]] = 0
    BY <1>2 DEF Purge, TypeOK
<1>3. ASSUME NEW t \in Threads,
             \/ \E j \in Keys : Get(t, j)
             \/ GetInternal(t) \/ Drop(t) \/ UNCHANGED vars
      PROVE  entry'[k] = entry[k]
    BY <1>3 DEF Get, GetInternal, Drop, vars
<1>4. CASE UNCHANGED vars
    BY <1>4 DEF vars
<1>. QED
    BY <1>1, <1>2, <1>3, <1>4 DEF Next

(* A stored value is never replaced, and leaves the map only once its     *)
(* count is zero, for every number of threads, keys and allocations:      *)
(* get_or_insert_with's or_insert_with never overwrites, and purge's      *)
(* retain keeps every entry with a positive count.                        *)
THEOREM EntryStability == Spec => EntryStable
<1>1. TypeOK /\ [Next]_vars =>
         [\A k \in Keys :
             entry[k] # NoId =>
                 \/ entry'[k] = entry[k]
                 \/ entry'[k] = NoId /\ rc[entry[k]] = 0]_vars
    BY EntryStep
<1>. QED
    BY <1>1, TypeCorrect, PTL DEF Spec, EntryStable


-----------------------------------------------------------------------------
(* The contract's own guarantee, seen through the refinement mapping.     *)
ContractProofs == INSTANCE HolderMapProofs WITH val <- entry, holders <- HolderTriples

(* Under the mapping, the contract's coherence is HolderCoherent. *)
LEMMA MappedCoherence == Contract!CCoherent => HolderCoherent
<1> SUFFICES ASSUME Contract!CCoherent, NEW t \in Threads, pc[t] = "idle", ref[t] # NoId
             PROVE  entry[key[t]] = ref[t]
    BY DEF HolderCoherent
<1>1. <<t, key[t], ref[t]>> \in HolderTriples
    BY DEF HolderTriples
<1>. QED
    BY <1>1 DEF Contract!CCoherent

(* HolderCoherent a second way, for every number of threads, keys and     *)
(* values: it holds of anything that implements HolderMap, and            *)
(* ArcHashMap does, so the proof of the map's locking need not be redone  *)
(* for a caller that only relies on the contract.                          *)
THEOREM CoherenceByRefinement == Spec => []HolderCoherent
<1>1. Spec => []Contract!CCoherent
    <2>1. Contract!CSpec => []Contract!CCoherent
        BY ContractProofs!ContractCoherence, ArcHashMapAssumption, PTL
           DEF Contract!CSpec, ContractProofs!CSpec, Contract!CCoherent,
               ContractProofs!CCoherent, Contract!CInit, ContractProofs!CInit,
               Contract!CNext, ContractProofs!CNext, Contract!cvars, ContractProofs!cvars,
               Contract!Acquire, ContractProofs!Acquire, Contract!Release,
               ContractProofs!Release, Contract!Evict, ContractProofs!Evict,
               Contract!Held, ContractProofs!Held, Contract!Used, ContractProofs!Used
    <2>. QED
        BY <2>1, Implementation DEF ImplementsContract
<1>. QED
    BY <1>1, MappedCoherence, PTL

=============================================================================
