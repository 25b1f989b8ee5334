-------------------------------- MODULE Lru --------------------------------
(***************************************************************************)
(* The caches of golang-lru: a cache is the sequence of its entries, pairs  *)
(* of a key and a value, the one used last in front; a key has one entry.   *)
(***************************************************************************)
EXTENDS Integers, SequencesExt

Keys(c) == {c[i][1] : i \in DOMAIN c}

\* Where the entry of key k is; k must be in the cache.
Place(c, k) == CHOOSE i \in DOMAIN c : c[i][1] = k

Val(c, k) == c[Place(c, k)][2]

Without(c, k) == IF k \in Keys(c) THEN RemoveAt(c, Place(c, k)) ELSE c

\* Get of a key that is there.
Used(c, k) == <<<<k, Val(c, k)>>>> \o Without(c, k)

\* Add to a cache of n entries: the entry that was not used for longest goes.
Added(c, k, v, n) ==
  LET all == <<<<k, v>>>> \o Without(c, k)
  IN  IF Len(all) > n THEN SubSeq(all, 1, n) ELSE all
=============================================================================
