----------------------------- MODULE ExpireValue -----------------------------
(***************************************************************************)
(* The short-lived secret cache of src/expire_value.rs.                    *)
(*                                                                         *)
(* ExpireValue<T> holds the derived key in a timed cache (retainer::Cache, *)
(* one entry under KEY, swept by a monitor task spawned in new()) and a    *)
(* Weak<T> behind a tokio RwLock.  get() is an async fn: every .await is a *)
(* point where another task may run, so each stretch of code between two  *)
(* awaits is one step of the model:                                       *)
(*   "start"     self.weak.read().await, upgrade the Weak            74-78 *)
(*   "cache_get" self.cache.get(..).await under the read guard       81-83 *)
(*   "provide"   self.provider.provide().await                          63 *)
(*   "insert"    self.cache.insert(.., self.duration).await          65-67 *)
(*   "set_weak"  self.weak.write().await, store Arc::downgrade       68-69 *)
(* A value is an Arc<T> allocation; it is alive (not yet zeroized and     *)
(* freed) while the cache or some task owns a strong reference to it.     *)
(* The allocation itself survives as long as the Weak points at it, so    *)
(* the allocator only hands out an Id that neither is alive nor is the    *)
(* Weak's target.                                                          *)
(***************************************************************************)
EXTENDS Naturals, FiniteSets

CONSTANTS
    Tasks,      \* tokio tasks sharing one Arc<ExpireValue>
    Values,     \* Arc<T> allocations the provider's results can occupy
    NoValue     \* None: no Weak yet, empty cache, no Arc held

ASSUME ExpireValueAssumption ==
    /\ IsFiniteSet(Tasks)
    /\ NoValue \notin Values

VARIABLES
    cache,      \* the Arc<T> stored under KEY in the timed cache, or NoValue
    weak,       \* self.weak: the allocation the Weak points to, or NoValue (None)
    pc,         \* pc[t]: the await point task t is at inside get()
    readers,    \* tasks holding the read guard of self.weak
    local,      \* local[t]: the Arc `v` get() built from the provider's result
    held        \* held[t]: the Arc<T> get() returned to task t, or NoValue

vars == <<cache, weak, pc, readers, local, held>>

PCs == {"idle", "start", "cache_get", "provide", "insert", "set_weak"}

(* The values some strong reference keeps alive. *)
Alive == ({cache} \cup {local[t] : t \in Tasks} \cup {held[t] : t \in Tasks})
            \ {NoValue}

(* Allocations the provider's next Arc::new can occupy. *)
FreeValues == Values \ (Alive \cup {weak})

TypeOK ==
    /\ cache \in Values \cup {NoValue}
    /\ weak \in Values \cup {NoValue}
    /\ pc \in [Tasks -> PCs]
    /\ readers \in SUBSET Tasks
    /\ local \in [Tasks -> Values \cup {NoValue}]
    /\ held \in [Tasks -> Values \cup {NoValue}]

(* ExpireValue::new: empty cache, weak = None. *)
Init ==
    /\ cache = NoValue
    /\ weak = NoValue
    /\ pc = [t \in Tasks |-> "idle"]
    /\ readers = {}
    /\ local = [t \in Tasks |-> NoValue]
    /\ held = [t \in Tasks |-> NoValue]

(* Task t is back from get() with the Arc v (Ok(value)). *)
Return(t, v) ==
    /\ pc' = [pc EXCEPT ![t] = "idle"]
    /\ held' = [held EXCEPT ![t] = v]

-----------------------------------------------------------------------------
(* A task that holds no Arc calls get(). *)
CallGet(t) ==
    /\ pc[t] = "idle"
    /\ held[t] = NoValue
    /\ pc' = [pc EXCEPT ![t] = "start"]
    /\ UNCHANGED <<cache, weak, readers, local, held>>

(* Plausible bug: a dead Weak sends get() back to retry the upgrade       *)
(* instead of on to the cache, so it spins until some other task stores a *)
(* live value.                                                             *)
ReadWeakRetrying(t) ==
    /\ pc[t] = "start"
    /\ \/ /\ weak \in Alive
          /\ Return(t, weak)
       \/ /\ weak \in Values \ Alive
          /\ UNCHANGED <<pc, held>>
       \/ /\ weak = NoValue
          /\ pc' = [pc EXCEPT ![t] = "provide"]
          /\ UNCHANGED held
    /\ UNCHANGED <<cache, weak, readers, local>>

(* get_from_ref_or_cache: take the read guard; if the Weak upgrades,      *)
(* return the value; if the Weak is set but dead, go on to the cache      *)
(* with the guard held; if it is None, drop the guard and miss.            *)
ReadWeak(t) ==
    /\ pc[t] = "start"
    /\ \/ /\ weak \in Alive
          /\ Return(t, weak)
          /\ UNCHANGED readers
       \/ /\ weak \in Values \ Alive
          /\ pc' = [pc EXCEPT ![t] = "cache_get"]
          /\ readers' = readers \cup {t}
          /\ UNCHANGED held
       \/ /\ weak = NoValue
          /\ pc' = [pc EXCEPT ![t] = "provide"]
          /\ UNCHANGED <<readers, held>>
    /\ UNCHANGED <<cache, weak, local>>

(* Plausible bug: the read guard outlives get_from_ref_or_cache (bound to *)
(* a variable of get() instead of a temporary of the lookup).              *)
CacheGetKeepingGuard(t) ==
    /\ pc[t] = "cache_get"
    /\ \/ /\ cache # NoValue
          /\ Return(t, cache)
       \/ /\ cache = NoValue
          /\ pc' = [pc EXCEPT ![t] = "provide"]
          /\ UNCHANGED held
    /\ UNCHANGED <<cache, weak, local, readers>>

(* self.cache.get(KEY).await under the read guard, then drop the guard.   *)
CacheGet(t) ==
    /\ pc[t] = "cache_get"
    /\ readers' = readers \ {t}
    /\ \/ /\ cache # NoValue
          /\ Return(t, cache)
       \/ /\ cache = NoValue
          /\ pc' = [pc EXCEPT ![t] = "provide"]
          /\ UNCHANGED held
    /\ UNCHANGED <<cache, weak, local>>

(* self.provider.provide().await?: a fresh Arc, or the error returned as  *)
(* is.                                                                     *)
Provide(t) ==
    /\ pc[t] = "provide"
    /\ \/ \E v \in FreeValues :
             /\ local' = [local EXCEPT ![t] = v]
             /\ pc' = [pc EXCEPT ![t] = "insert"]
             /\ UNCHANGED held
       \/ /\ Return(t, NoValue)
          /\ UNCHANGED local
    /\ UNCHANGED <<cache, weak, readers>>

(* self.cache.insert(KEY, v.clone(), self.duration).await: replaces and   *)
(* drops whatever Arc was cached.                                          *)
CacheInsert(t) ==
    /\ pc[t] = "insert"
    /\ cache' = local[t]
    /\ pc' = [pc EXCEPT ![t] = "set_weak"]
    /\ UNCHANGED <<weak, readers, local, held>>

(* Plausible bug: the field keeps a strong Arc (Some(v.clone()) instead   *)
(* of Arc::downgrade(&v)), so get()'s copy of the value never goes away.  *)
SetWeakStoringStrong(t) ==
    /\ pc[t] = "set_weak"
    /\ readers = {}
    /\ weak' = local[t]
    /\ Return(t, local[t])
    /\ UNCHANGED <<cache, readers, local>>

(* self.weak.write().await (no read guard outstanding), then              *)
(* *weak = Some(Arc::downgrade(&v)) and Ok(v).                             *)
SetWeak(t) ==
    /\ pc[t] = "set_weak"
    /\ readers = {}
    /\ weak' = local[t]
    /\ local' = [local EXCEPT ![t] = NoValue]
    /\ Return(t, local[t])
    /\ UNCHANGED <<cache, readers>>

(* The caller drops the Arc get() gave it. *)
DropValue(t) ==
    /\ pc[t] = "idle"
    /\ held[t] # NoValue
    /\ held' = [held EXCEPT ![t] = NoValue]
    /\ UNCHANGED <<cache, weak, pc, readers, local>>

(* clear(): self.cache.clear().await; the Weak is left alone. *)
Clear(t) ==
    /\ pc[t] = "idle"
    /\ cache # NoValue
    /\ cache' = NoValue
    /\ UNCHANGED <<weak, pc, readers, local, held>>

(* The entry's duration has elapsed and the monitor spawned by new()      *)
(* sweeps it out of the cache, dropping the cache's Arc.                   *)
Expire ==
    /\ cache # NoValue
    /\ cache' = NoValue
    /\ UNCHANGED <<weak, pc, readers, local, held>>

Next ==
    \/ \E t \in Tasks :
          \/ CallGet(t) \/ ReadWeak(t) \/ CacheGet(t) \/ Provide(t)
          \/ CacheInsert(t) \/ SetWeak(t) \/ DropValue(t) \/ Clear(t)
    \/ Expire

Spec == Init /\ [][Next]_vars

(* Tokio runs every task that is ready, so the steps inside get() are     *)
(* fair; the write guard is only intermittently free (readers come and    *)
(* go) and tokio's RwLock queues waiters in FIFO order, so SetWeak is     *)
(* strongly fair.  Callers, clear() and the expiry sweep are not: a       *)
(* caller may keep its Arc forever.  The monitor task spawned by new()   *)
(* loops until the ExpireValue is dropped, sweeping expired entries each  *)
(* round, so Expire is weakly fair.                                        *)
Fairness ==
    /\ \A t \in Tasks :
          /\ WF_vars(ReadWeak(t)) /\ WF_vars(CacheGet(t)) /\ WF_vars(Provide(t))
          /\ WF_vars(CacheInsert(t))
          /\ SF_vars(SetWeak(t))
    /\ WF_vars(Expire)

FairSpec == Spec /\ Fairness

-----------------------------------------------------------------------------
(* Single flight, as the spec (section 4.7) and the tests                 *)
(* test_concurrent_access and test_rapid_consecutive_calls require: of    *)
(* concurrent get() calls that all miss, only one runs the provider.      *)
(* The code holds no lock from the miss to the store of the new value.    *)
SingleFlight ==
    Cardinality({t \in Tasks : pc[t] \in {"provide", "insert", "set_weak"}}) <= 1

(* Every get() returns, with a value or the provider's error: the read  *)
(* guard taken in get_from_ref_or_cache is always dropped before get()    *)
(* asks for the write guard, so a task never waits on itself, and the     *)
(* fall-through from a dead Weak to the cache to the provider ends.       *)
GetReturns ==
    \A t \in Tasks : (pc[t] # "idle") ~> (pc[t] = "idle")


(* No get() is running and no caller holds the value. *)
Quiet == \A t \in Tasks : pc[t] = "idle" /\ held[t] = NoValue

(* The doc comment of ExpireValue (lines 19-21): once no one uses the key, *)
(* it leaves the cache when its duration ends and is then zeroized and     *)
(* freed.  So if every task stays out of get() and drops its Arc, no       *)
(* value stays alive; this rests on the monitor task's sweep (line 53)    *)
(* and on get() keeping only a Weak once it has returned.                 *)
ZeroizedWhenQuiet ==
    Quiet ~> (Alive = {} \/ ~Quiet)


(* The read guard of self.weak is held only inside get_from_ref_or_cache, *)
(* across cache.get().await (lines 74-83): a task that goes on to the     *)
(* provider or to the write guard at line 68 has let it go, so the write  *)
(* waits only on other tasks' lookups, never on its own.                   *)
GuardOnlyInLookup ==
    \A t \in Tasks : t \in readers => pc[t] = "cache_get"

(* The doc comment (lines 19-21): the value stays in memory only while    *)
(* the cache or some strong reference keeps it.  get() keeps none of its  *)
(* own once it returns (line 69 stores a Weak and hands v to the caller), *)
(* so when no get() runs and no caller holds the value, only the cache's  *)
(* Arc can keep it alive, and after expiry or clear() nothing does.        *)
QuietOnlyCacheRetains ==
    Quiet => Alive \subseteq {cache}

=============================================================================
