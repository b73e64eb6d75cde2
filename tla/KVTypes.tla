------------------------------- MODULE KVTypes -------------------------------
(***************************************************************************)
(* The vocabulary of the key-value stores (AtomicKVStore).  What may be    *)
(* missing, `undefined` in the code, is a set of at most one element: the  *)
(* entry of a key, the expiry of an entry, a ttlSec option, an answer.     *)
(* A call with a ttlSec <= 0 throws before it does anything and is left    *)
(* out.                                                                    *)
(***************************************************************************)
EXTENDS Naturals

CONSTANTS Keys, Values, Ttls

ASSUME KVAssumption ==
  /\ Values \subseteq Nat
  /\ Ttls \subseteq Nat \ {0}

VARIABLE now   \* the time, in the unit of the TTLs

Entry == [value : Nat, until : SUBSET Nat]

MaybeTtl == {{}} \cup {{s} : s \in Ttls}

(* A new entry, persistent without a TTL.                                  *)
MakeEntry(v, ttl) == [value |-> v, until |-> {now + s : s \in ttl}]

(* An entry with another expiry, or with its number increased.             *)
Renewed(e, s) == [value |-> e.value, until |-> {now + s}]
Increased(e, by) == [value |-> e.value + by, until |-> e.until]

(* How a yes and a no are answered.                                        *)
Answer(yes) == IF yes THEN {1} ELSE {}

=============================================================================
