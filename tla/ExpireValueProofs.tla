------------------------- MODULE ExpireValueProofs --------------------------
(***************************************************************************)
(* Proofs about the ExpireValue model for every number of tasks and of    *)
(* Arc allocations.                                                        *)
(*                                                                         *)
(* QuietOnlyCacheRetains is not inductive: it says nothing about a task   *)
(* inside get(), and such a task may hold the provider's fresh Arc in its *)
(* local v.  LocalInFlight says where: only between the provider's return *)
(* and the store of the Weak, the two steps after which SetWeak moves v   *)
(* to the caller.                                                          *)
(***************************************************************************)
EXTENDS ExpireValue, TLAPS

(* get()'s local v is set only from the provider's result to SetWeak. *)
LocalInFlight ==
    \A t \in Tasks : local[t] # NoValue => pc[t] \in {"insert", "set_weak"}

IInv ==
    /\ TypeOK
    /\ GuardOnlyInLookup
    /\ LocalInFlight

USE ExpireValueAssumption

LEMMA InitIInv == Init => IInv
BY DEF Init, IInv, TypeOK, GuardOnlyInLookup, LocalInFlight, PCs

(* Returning from get() to the caller keeps the type when the value is    *)
(* an allocation or NoValue.                                                *)
LEMMA ReturnType ==
    ASSUME TypeOK, NEW t \in Tasks, NEW v \in Values \cup {NoValue}, Return(t, v)
    PROVE  pc' \in [Tasks -> PCs] /\ held' \in [Tasks -> Values \cup {NoValue}]
           /\ pc'[t] = "idle"
           /\ \A s \in Tasks \ {t} : pc'[s] = pc[s]
BY DEF Return, TypeOK, PCs

LEMMA CallGetIInv ==
    ASSUME IInv, NEW t \in Tasks, CallGet(t) PROVE IInv'
BY DEF CallGet, IInv, TypeOK, GuardOnlyInLookup, LocalInFlight, PCs

LEMMA ReadWeakIInv ==
    ASSUME IInv, NEW t \in Tasks, ReadWeak(t) PROVE IInv'
<1>1. CASE weak \in Alive /\ Return(t, weak) /\ UNCHANGED readers
    <2>1. weak \in Values
        BY <1>1 DEF Alive, IInv, TypeOK
    <2>2. ~(t \in readers)
        BY DEF ReadWeak, IInv, GuardOnlyInLookup
    <2>. QED
        BY <1>1, <2>1, <2>2, ReturnType
           DEF ReadWeak, IInv, TypeOK, GuardOnlyInLookup, LocalInFlight
<1>2. CASE weak \in Values \ Alive /\ pc' = [pc EXCEPT ![t] = "cache_get"]
           /\ readers' = readers \cup {t} /\ UNCHANGED held
    BY <1>2 DEF ReadWeak, IInv, TypeOK, GuardOnlyInLookup, LocalInFlight, PCs
<1>3. CASE weak = NoValue /\ pc' = [pc EXCEPT ![t] = "provide"]
           /\ UNCHANGED <<readers, held>>
    BY <1>3 DEF ReadWeak, IInv, TypeOK, GuardOnlyInLookup, LocalInFlight, PCs
<1>. QED
    BY <1>1, <1>2, <1>3 DEF ReadWeak

LEMMA CacheGetIInv ==
    ASSUME IInv, NEW t \in Tasks, CacheGet(t) PROVE IInv'
<1>1. CASE cache # NoValue /\ Return(t, cache)
    BY <1>1, ReturnType DEF CacheGet, IInv, TypeOK, GuardOnlyInLookup, LocalInFlight
<1>2. CASE cache = NoValue /\ pc' = [pc EXCEPT ![t] = "provide"] /\ UNCHANGED held
    BY <1>2 DEF CacheGet, IInv, TypeOK, GuardOnlyInLookup, LocalInFlight, PCs
<1>. QED
    BY <1>1, <1>2 DEF CacheGet

LEMMA ProvideIInv ==
    ASSUME IInv, NEW t \in Tasks, Provide(t) PROVE IInv'
<1>1. ~(t \in readers) /\ local[t] = NoValue
    BY DEF Provide, IInv, GuardOnlyInLookup, LocalInFlight
<1>2. CASE \E v \in FreeValues : /\ local' = [local EXCEPT ![t] = v]
                                 /\ pc' = [pc EXCEPT ![t] = "insert"]
                                 /\ UNCHANGED held
    BY <1>1, <1>2 DEF Provide, FreeValues, IInv, TypeOK, GuardOnlyInLookup,
                      LocalInFlight, PCs
<1>3. CASE Return(t, NoValue) /\ UNCHANGED local
    BY <1>1, <1>3, ReturnType DEF Provide, IInv, TypeOK, GuardOnlyInLookup, LocalInFlight
<1>. QED
    BY <1>2, <1>3 DEF Provide

LEMMA CacheInsertIInv ==
    ASSUME IInv, NEW t \in Tasks, CacheInsert(t) PROVE IInv'
BY DEF CacheInsert, IInv, TypeOK, GuardOnlyInLookup, LocalInFlight, PCs

LEMMA SetWeakIInv ==
    ASSUME IInv, NEW t \in Tasks, SetWeak(t) PROVE IInv'
<1>1. local[t] \in Values \cup {NoValue}
    BY DEF IInv, TypeOK
<1>. QED
    BY <1>1, ReturnType DEF SetWeak, IInv, TypeOK, GuardOnlyInLookup, LocalInFlight

LEMMA OtherStepsIInv ==
    ASSUME IInv, \/ \E t \in Tasks : DropValue(t) \/ Clear(t)
                 \/ Expire
                 \/ UNCHANGED vars
    PROVE  IInv'
BY DEF DropValue, Clear, Expire, vars, IInv, TypeOK, GuardOnlyInLookup, LocalInFlight

LEMMA NextIInv == IInv /\ [Next]_vars => IInv'
BY CallGetIInv, ReadWeakIInv, CacheGetIInv, ProvideIInv, CacheInsertIInv,
   SetWeakIInv, OtherStepsIInv DEF Next

(* IInv holds in every state the cache reaches. *)
THEOREM IInvariant == Spec => []IInv
BY InitIInv, NextIInv, PTL DEF Spec

(* The cache's state stays well typed, for any number of tasks calling    *)
(* get(), clear() and dropping their Arcs.                                 *)
THEOREM TypeCorrect == Spec => []TypeOK
BY IInvariant, PTL DEF IInv

(* For any number of tasks, a task holds the read guard of self.weak only *)
(* while it awaits cache.get() inside get_from_ref_or_cache; so SetWeak's *)
(* write guard never waits on the task that asks for it.                   *)
THEOREM GuardDiscipline == Spec => []GuardOnlyInLookup
BY IInvariant, PTL DEF IInv

(* Once no get() runs and no caller holds the value, the cache's Arc is   *)
(* the only strong reference left: get() keeps no copy of its own, so     *)
(* expiry or clear() leaves the secret to be zeroized.                     *)
THEOREM QuietRetention == Spec => []QuietOnlyCacheRetains
<1>1. IInv => QuietOnlyCacheRetains
    BY DEF IInv, LocalInFlight, QuietOnlyCacheRetains, Quiet, Alive
<1>. QED
    BY <1>1, IInvariant, PTL
=============================================================================
