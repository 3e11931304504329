-------------------------------- MODULE Maps --------------------------------
(***************************************************************************)
(* A std::map is a function whose domain is the set of its keys.           *)
(* (TLC's @@ would do for Store, but the prover cannot expand it.)         *)
(***************************************************************************)
EmptyMap == [k \in {} |-> k]

\* m[k] = v, for a key that may be new.
Store(m, k, v) == [x \in DOMAIN m \cup {k} |-> IF x = k THEN v ELSE m[x]]

\* m.erase(k)
Erase(m, k) == [x \in DOMAIN m \ {k} |-> m[x]]

\* m is a map with keys in K and values in V.
IsMap(m, K, V) == DOMAIN m \subseteq K /\ m \in [DOMAIN m -> V]
=============================================================================
