-------------------------- MODULE HolderMapProofs ---------------------------
(***************************************************************************)
(* What the HolderMap contract guarantees by itself: every holder refers   *)
(* to the value stored under its key.  Any implementation of the contract *)
(* inherits it; ArcHashMapProofs carries it to ArcHashMap through the      *)
(* refinement.                                                             *)
(*                                                                         *)
(* CCoherent is inductive together with the type of the state, which      *)
(* needs NoId to be no value: an empty key then has no holder, so a fresh *)
(* value stored there cannot contradict one.                               *)
(***************************************************************************)
EXTENDS HolderMap, TLAPS

CTypeOK ==
    /\ val \in [Keys -> Ids \cup {NoId}]
    /\ holders \subseteq Threads \X Keys \X Ids

CInv == CTypeOK /\ CCoherent

LEMMA CInitCInv == CInit => CInv
BY DEF CInit, CInv, CTypeOK, CCoherent

LEMMA CNextCInv ==
    ASSUME NoId \notin Ids
    PROVE  CInv /\ [CNext]_cvars => CInv'
<1> SUFFICES ASSUME CInv, [CNext]_cvars PROVE CInv'
    OBVIOUS
<1> USE DEF CInv, CTypeOK, CCoherent
<1>1. ASSUME NEW t \in Threads, NEW k \in Keys, Acquire(t, k) PROVE CInv'
    <2>1. CASE val[k] # NoId /\ holders' = holders \cup {<<t, k, val[k]>>}
               /\ UNCHANGED val
        BY <2>1
    <2>2. CASE val[k] = NoId /\ \E id \in Ids \ Used :
                                  /\ val' = [val EXCEPT ![k] = id]
                                  /\ holders' = holders \cup {<<t, k, id>>}
        <3>1. PICK id \in Ids \ Used : /\ val' = [val EXCEPT ![k] = id]
                                        /\ holders' = holders \cup {<<t, k, id>>}
            BY <2>2
        <3>2. \A h \in holders : h[2] # k
            BY <2>2
        <3>. QED
            BY <3>1, <3>2
    <2>. QED
        BY <1>1, <2>1, <2>2 DEF Acquire
<1>2. ASSUME NEW t \in Threads, Release(t) PROVE CInv'
    BY <1>2 DEF Release
<1>3. ASSUME Evict PROVE CInv'
    <2>1. PICK S \in SUBSET {k \in Keys : val[k] # NoId /\ ~Held(val[k])} :
              /\ val' = [k \in Keys |-> IF k \in S THEN NoId ELSE val[k]]
              /\ UNCHANGED holders
        BY <1>3 DEF Evict
    <2>2. \A h \in holders : h[2] \notin S
        BY <2>1 DEF Held
    <2>. QED
        BY <2>1, <2>2
<1>4. CASE UNCHANGED cvars
    BY <1>4 DEF cvars
<1>. QED
    BY <1>1, <1>2, <1>3, <1>4 DEF CNext

(* Under the contract alone, for every set of threads, keys and values:    *)
(* every live holder refers to the value stored under its key, so two     *)
(* holders of one key share one value, as per-inode locks need.            *)
THEOREM ContractCoherence ==
    ASSUME NoId \notin Ids
    PROVE  CSpec => []CCoherent
<1>1. CInv /\ [CNext]_cvars => CInv'
    BY CNextCInv
<1>2. CInv => CCoherent
    BY DEF CInv
<1>. QED
    BY <1>1, <1>2, CInitCInv, PTL DEF CSpec
=============================================================================
