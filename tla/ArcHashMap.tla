----------------------------- MODULE ArcHashMap -----------------------------
(***************************************************************************)
(* The reference-counted holder map of src/arc_hashmap.rs.                 *)
(*                                                                         *)
(* ArcHashMap<K, V> keeps, under one RwLock, a HashMap from K to a pair    *)
(* (Arc<V>, Arc<AtomicUsize>).  Every Holder handed out shares the two     *)
(* Arcs; dropping it does an atomic fetch_sub on the count OUTSIDE the     *)
(* lock and only then takes the write lock to purge every entry whose      *)
(* count is zero.  The model keeps that split, because everything that    *)
(* can go wrong in this code happens between the two steps.               *)
(*                                                                         *)
(* A pair of Arcs is named by an allocation Id.  An Id that neither the    *)
(* map nor any thread still refers to has been freed and may be handed     *)
(* out again by the allocator, so a stale Id and a fresh one can coincide *)
(* (the ABA case a pointer comparison would meet).                         *)
(*                                                                         *)
(* Each thread is a caller with at most one Holder at a time; a caller     *)
(* holding two Holders behaves as two threads.                             *)
(***************************************************************************)
EXTENDS Naturals, FiniteSets

CONSTANTS
    Threads,    \* the threads calling into one shared ArcHashMap
    Keys,       \* the keys they use (K)
    Ids,        \* allocation identities of the (Arc<V>, Arc<AtomicUsize>) pairs
    NoId        \* "no entry" / "no holder"

ASSUME ArcHashMapAssumption ==
    /\ IsFiniteSet(Threads)
    /\ Keys # {}
    /\ NoId \notin Ids

VARIABLES
    entry,      \* entry[k]: the Id stored under k in the HashMap, or NoId
    rc,         \* rc[id]: the AtomicUsize shared by the entry and its holders
    pc,         \* pc[t]: where thread t is inside an ArcHashMap call
    key,        \* key[t]: the key t last passed to the map
    ref         \* ref[t]: the Id t holds (pc "idle") or has looked up (pc "get_incr")

vars == <<entry, rc, pc, key, ref>>

PCs == {"idle", "get_incr", "purge"}

(* The threads that own a Holder on id. *)
Holders(id) == {t \in Threads : pc[t] = "idle" /\ ref[t] = id}

(* A thread between the lookup and the fetch_add of get() holds the read  *)
(* guard: self.map.read() lives until get_internal has returned.           *)
ReadGuards == {t \in Threads : pc[t] = "get_incr"}

(* Plausible bug: get's read guard released before the fetch_add (a       *)
(* lookup that clones the pair and lets the guard go), so a writer no    *)
(* longer waits for it.                                                    *)
WriteLockIgnoringLookups == TRUE

(* self.map.write() can be acquired: no read guard is outstanding.  Write  *)
(* sections are single steps of the model, so no writer is ever left      *)
(* holding the lock between steps.                                         *)
WriteLockFree == ReadGuards = {}

(* Ids still reachable from the map or from a thread; the others are free. *)
InUse == {entry[k] : k \in Keys} \cup {ref[t] : t \in Threads}
FreeIds == Ids \ InUse

TypeOK ==
    /\ entry \in [Keys -> Ids \cup {NoId}]
    /\ rc \in [Ids -> Nat]
    /\ pc \in [Threads -> PCs]
    /\ key \in [Threads -> Keys]
    /\ ref \in [Threads -> Ids \cup {NoId}]

(* ArcHashMap::default(): an empty HashMap. *)
Init ==
    /\ entry = [k \in Keys |-> NoId]
    /\ rc = [id \in Ids |-> 0]
    /\ pc = [t \in Threads |-> "idle"]
    /\ key = [t \in Threads |-> CHOOSE k \in Keys : TRUE]
    /\ ref = [t \in Threads |-> NoId]

-----------------------------------------------------------------------------
(* Plausible bugs of the code below, each used in place of the definition *)
(* it mimics to show that a property can see it.                          *)

(* insert as an assignment (HashMap::insert) rather than or_insert_with.  *)
InsertOverwriting(t, k) ==
    /\ pc[t] = "idle"
    /\ ref[t] = NoId
    /\ WriteLockFree
    /\ \E id \in FreeIds :
          /\ entry' = [entry EXCEPT ![k] = id]
          /\ rc' = [rc EXCEPT ![id] = 1]
          /\ ref' = [ref EXCEPT ![t] = id]
    /\ key' = [key EXCEPT ![t] = k]
    /\ UNCHANGED pc

(* Holder::drop without the trailing purge(). *)
DropWithoutPurge(t) ==
    /\ pc[t] = "idle"
    /\ ref[t] # NoId
    /\ rc' = [rc EXCEPT ![ref[t]] = @ - 1]
    /\ ref' = [ref EXCEPT ![t] = NoId]
    /\ UNCHANGED <<entry, key, pc>>

(* A Holder whose drop runs twice (a clone of the holder that shares its  *)
(* count without a fetch_add of its own): fetch_sub but the holder stays. *)
DropKeepingHolder(t) ==
    /\ pc[t] = "idle"
    /\ ref[t] # NoId
    /\ rc' = [rc EXCEPT ![ref[t]] = @ - 1]
    /\ pc' = [pc EXCEPT ![t] = "purge"]
    /\ UNCHANGED <<entry, key, ref>>

(* purge retaining count >= 0 instead of > 0: it never removes anything. *)
PurgeRetainingZero(t) ==
    /\ pc[t] = "purge"
    /\ WriteLockFree
    /\ entry' = [k \in Keys |->
                    IF entry[k] # NoId /\ rc[entry[k]] >= 0 THEN entry[k] ELSE NoId]
    /\ pc' = [pc EXCEPT ![t] = "idle"]
    /\ UNCHANGED <<rc, key, ref>>

-----------------------------------------------------------------------------
(* get_or_insert_with(k, f), and insert(k, v) which calls it.  Under the   *)
(* write lock: map.entry(k).or_insert_with stores a fresh pair with count  *)
(* 0 only if k is absent, then get_internal does fetch_add and returns a   *)
(* Holder.  An existing value is returned, never replaced.                 *)
GetOrInsertWith(t, k) ==
    /\ pc[t] = "idle"
    /\ ref[t] = NoId
    /\ WriteLockFree
    /\ \/ /\ entry[k] # NoId
          /\ rc' = [rc EXCEPT ![entry[k]] = @ + 1]
          /\ ref' = [ref EXCEPT ![t] = entry[k]]
          /\ UNCHANGED entry
       \/ /\ entry[k] = NoId
          /\ \E id \in FreeIds :
                /\ entry' = [entry EXCEPT ![k] = id]
                /\ rc' = [rc EXCEPT ![id] = 1]
                /\ ref' = [ref EXCEPT ![t] = id]
    /\ key' = [key EXCEPT ![t] = k]
    /\ UNCHANGED pc

(* get(k), first half: take the read guard and look k up.  A miss returns *)
(* None and changes nothing, so only the hit is a step.                    *)
Get(t, k) ==
    /\ pc[t] = "idle"
    /\ ref[t] = NoId
    /\ entry[k] # NoId
    /\ pc' = [pc EXCEPT ![t] = "get_incr"]
    /\ ref' = [ref EXCEPT ![t] = entry[k]]
    /\ key' = [key EXCEPT ![t] = k]
    /\ UNCHANGED <<entry, rc>>

(* get_internal on the looked-up pair: fetch_add, build the Holder; then  *)
(* the read guard of get() is dropped.                                     *)
GetInternal(t) ==
    /\ pc[t] = "get_incr"
    /\ rc' = [rc EXCEPT ![ref[t]] = @ + 1]
    /\ pc' = [pc EXCEPT ![t] = "idle"]
    /\ UNCHANGED <<entry, key, ref>>

(* Holder::drop, first half: fetch_sub on the shared count, no lock held. *)
Drop(t) ==
    /\ pc[t] = "idle"
    /\ ref[t] # NoId
    /\ rc' = [rc EXCEPT ![ref[t]] = @ - 1]
    /\ ref' = [ref EXCEPT ![t] = NoId]
    /\ pc' = [pc EXCEPT ![t] = "purge"]
    /\ UNCHANGED <<entry, key>>

(* Holder::drop, second half: purge() takes the write lock and retains    *)
(* only the entries whose count is still above zero.                       *)
Purge(t) ==
    /\ pc[t] = "purge"
    /\ WriteLockFree
    /\ entry' = [k \in Keys |->
                    IF entry[k] # NoId /\ rc[entry[k]] > 0 THEN entry[k] ELSE NoId]
    /\ pc' = [pc EXCEPT ![t] = "idle"]
    /\ UNCHANGED <<rc, key, ref>>

Next ==
    \E t \in Threads :
        \/ \E k \in Keys : GetOrInsertWith(t, k) \/ Get(t, k)
        \/ GetInternal(t)
        \/ Drop(t)
        \/ Purge(t)

Spec == Init /\ [][Next]_vars

(* Threads keep running once they are inside a call.  A purge waits for   *)
(* the write lock, which read guards keep taking and releasing; std's     *)
(* RwLock blocks new readers while a writer waits, so the purge is        *)
(* strongly fair.                                                          *)
Fairness ==
    /\ \A t \in Threads : WF_vars(GetInternal(t))
    /\ \A t \in Threads : SF_vars(Purge(t))

FairSpec == Spec /\ Fairness

-----------------------------------------------------------------------------
(* Every Holder a thread owns refers to the value the map currently holds *)
(* for its key: two holders of one key always share one value.  This is   *)
(* what makes the map usable for per-inode locks; it breaks if purge      *)
(* could remove an entry a holder still counts on, or if get's lookup and *)
(* fetch_add could be separated by a purge.                                *)
HolderCoherent ==
    \A t \in Threads :
        pc[t] = "idle" /\ ref[t] # NoId => entry[key[t]] = ref[t]

(* len() over-counts only while a drop is between its fetch_sub and its   *)
(* purge: an entry whose count is zero always has a purge pending.        *)
ZombieHasPendingPurge ==
    \A k \in Keys :
        entry[k] # NoId /\ rc[entry[k]] = 0 => \E t \in Threads : pc[t] = "purge"

(* A stored value is never overwritten: a step either keeps the value      *)
(* under k or removes it, and removes it only when its count is zero      *)
(* (get_or_insert_with's or_insert_with and purge's retain).               *)
EntryStable ==
    [][\A k \in Keys :
          entry[k] # NoId =>
              \/ entry'[k] = entry[k]
              \/ entry'[k] = NoId /\ rc[entry[k]] = 0]_vars

(* After its last holder is dropped, an entry eventually leaves the map   *)
(* or is taken up again (Holder::drop always purges).                      *)
ZombiesPurged ==
    \A k \in Keys :
        (entry[k] # NoId /\ rc[entry[k]] = 0)
            ~> (entry[k] = NoId \/ rc[entry[k]] > 0)


-----------------------------------------------------------------------------
(* Refinement.  A thread owns a Holder once get_internal has returned it   *)
(* (pc "idle" with an Id): that is the contract's holder.  A thread        *)
(* between get's lookup and its fetch_add has no Holder yet, and one       *)
(* inside drop has given it up.                                            *)
HolderTriples ==
    {<<t, key[t], ref[t]>> : t \in {s \in Threads : pc[s] = "idle" /\ ref[s] # NoId}}

Contract == INSTANCE HolderMap WITH val <- entry, holders <- HolderTriples

(* ArcHashMap implements HolderMap: get_or_insert_with and get_internal   *)
(* acquire, the fetch_sub of Holder::drop releases, and purge drops only  *)
(* values no Holder refers to, though it takes no lock while the count    *)
(* falls and decides on counts alone.                                      *)
ImplementsContract == Contract!CSpec

=============================================================================
