-------------------------------- MODULE Lru --------------------------------
(***************************************************************************)
(* The least-recently-used map of the `lru` crate, as ConfiguredClient     *)
(* uses it for downloaded hours and for parsed ticks.  A cache is the      *)
(* sequence of its keys, most recently used first; the values are a        *)
(* function of the key in every module that uses this one.                 *)
(***************************************************************************)
EXTENDS Naturals, Sequences, SequencesExt

Cached(cache, key) == \E i \in DOMAIN cache : cache[i] = key

PositionOf(cache, key) == CHOOSE i \in DOMAIN cache : cache[i] = key

Without(cache, key) ==
    IF Cached(cache, key) THEN RemoveAt(cache, PositionOf(cache, key)) ELSE cache

(* LruCache::get of a key that is present: it becomes the most recent.     *)
Promote(cache, key) == <<key>> \o Without(cache, key)

(* LruCache::put: the key becomes the most recent; a new key that finds    *)
(* the cache full evicts the least recent one.                             *)
Insert(cache, key, capacity) ==
    LET promoted == Promote(cache, key)
    IN  IF Len(promoted) > capacity THEN Front(promoted) ELSE promoted
=============================================================================
