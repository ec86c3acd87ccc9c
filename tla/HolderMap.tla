------------------------------ MODULE HolderMap ------------------------------
(***************************************************************************)
(* What ArcHashMap promises its callers, with no locks, counts or purges.  *)
(*                                                                         *)
(* The map stores at most one value per key.  A caller that asks for a     *)
(* key gets a holder on the value stored under it, storing a fresh value   *)
(* first when the key is absent.  A value stays stored while any holder on *)
(* it is alive; once it has none, it may be dropped from the map at any    *)
(* time.  A holder is a triple <<thread, key, value>>.                     *)
(*                                                                         *)
(* ArcHashMap implements this specification; see ImplementsContract there. *)
(***************************************************************************)
CONSTANTS
    Threads,    \* the callers
    Keys,       \* the keys
    Ids,        \* the values a key can be mapped to
    NoId        \* no value stored

VARIABLES
    val,        \* val[k]: the value stored under k, or NoId
    holders     \* the live holders, as <<thread, key, value>> triples

cvars == <<val, holders>>

(* A value some live holder refers to. *)
Held(id) == \E h \in holders : h[3] = id

(* Values stored or held; any other value may be stored afresh. *)
Used == {val[k] : k \in Keys} \cup {h[3] : h \in holders}

CInit ==
    /\ val = [k \in Keys |-> NoId]
    /\ holders = {}

(* Thread t asks for key k: it gets the stored value, or k is given a      *)
(* value that nothing uses and t gets that.                                *)
Acquire(t, k) ==
    \/ /\ val[k] # NoId
       /\ holders' = holders \cup {<<t, k, val[k]>>}
       /\ UNCHANGED val
    \/ /\ val[k] = NoId
       /\ \E id \in Ids \ Used :
             /\ val' = [val EXCEPT ![k] = id]
             /\ holders' = holders \cup {<<t, k, id>>}

(* Thread t lets a holder go. *)
Release(t) ==
    \E h \in holders :
        /\ h[1] = t
        /\ holders' = holders \ {h}
        /\ UNCHANGED val

(* Some of the keys whose values no one holds lose them. *)
Evict ==
    \E S \in SUBSET {k \in Keys : val[k] # NoId /\ ~Held(val[k])} :
        /\ val' = [k \in Keys |-> IF k \in S THEN NoId ELSE val[k]]
        /\ UNCHANGED holders

CNext ==
    \/ \E t \in Threads : \E k \in Keys : Acquire(t, k)
    \/ \E t \in Threads : Release(t)
    \/ Evict

CSpec == CInit /\ [][CNext]_cvars

(* Every live holder refers to the value stored under its key. *)
CCoherent == \A h \in holders : val[h[2]] = h[3]

=============================================================================
