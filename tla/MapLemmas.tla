----------------------------- MODULE MapLemmas -----------------------------
(***************************************************************************)
(* What the operators of Maps return, for every map, key and value.        *)
(***************************************************************************)
EXTENDS Maps, TLAPS

\* Storing adds the key and changes no other entry.
LEMMA StoreEntries ==
  ASSUME NEW m, NEW k, NEW v
  PROVE  /\ DOMAIN Store(m, k, v) = DOMAIN m \cup {k}
         /\ Store(m, k, v)[k] = v
         /\ \A x \in DOMAIN m : x # k => Store(m, k, v)[x] = m[x]
  BY DEF Store

\* Erasing takes the key away and changes no other entry.
LEMMA EraseEntries ==
  ASSUME NEW m, NEW k
  PROVE  /\ DOMAIN Erase(m, k) = DOMAIN m \ {k}
         /\ \A x \in DOMAIN m : x # k => Erase(m, k)[x] = m[x]
  BY DEF Erase

\* The empty map is a map of any type.
LEMMA EmptyIsMap ==
  ASSUME NEW K, NEW V
  PROVE  IsMap(EmptyMap, K, V) /\ DOMAIN EmptyMap = {}
  BY DEF IsMap, EmptyMap

\* Storing a value of the type keeps the type.
LEMMA StoreIsMap ==
  ASSUME NEW K, NEW V, NEW m, IsMap(m, K, V), NEW k \in K, NEW v \in V
  PROVE  IsMap(Store(m, k, v), K, V)
  BY DEF IsMap, Store

\* Erasing keeps the type.
LEMMA EraseIsMap ==
  ASSUME NEW K, NEW V, NEW m, IsMap(m, K, V), NEW k
  PROVE  IsMap(Erase(m, k), K, V)
  BY DEF IsMap, Erase
=============================================================================
