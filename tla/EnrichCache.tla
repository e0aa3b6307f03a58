----------------------------- MODULE EnrichCache -----------------------------
(***************************************************************************)
(* The cache of an HTTP enricher, enrichers/http.rs `Cache`: entries with an *)
(* expiry and a queue of the keys, least recently used first.               *)
(*                                                                         *)
(* `left` is the time until the entry's expires_at; an entry with none left  *)
(* is expired.  The queue holds keys of the entries, each once, as long as    *)
(* the code keeps the two in step.                                         *)
(***************************************************************************)
EXTENDS Naturals, Sequences, FiniteSets, SequencesExt, Picks

NewCache == [entries |-> << >>, lru |-> << >>]

Expired(entry) == entry.left = 0

\* remove_lru_key: the first occurrence.
remove_lru_key(lru, key) == RemoveFirst(lru, key)

touch(lru, key) == Append(remove_lru_key(lru, key), key)

Without(entries, keys) == [k \in DOMAIN entries \ keys |-> entries[k]]

\* mutant: only the entry of an expired key is removed
GetForgetful(cache, key) ==
  IF key \notin DOMAIN cache.entries THEN [cache |-> cache, hit |-> << >>]
  ELSE IF Expired(cache.entries[key])
  THEN [cache |-> [cache EXCEPT !.entries = Without(@, {key})], hit |-> << >>]
  ELSE [cache |-> [cache EXCEPT !.lru = touch(@, key)], hit |-> <<cache.entries[key].labels>>]

\* mutant: a hit starts the time to live again
GetRenewing(cache, key) ==
  IF key \notin DOMAIN cache.entries \/ Expired(cache.entries[key])
  THEN [cache |-> cache, hit |-> << >>]
  ELSE [cache |-> [entries |-> [cache.entries EXCEPT ![key].left = @ + 1],
                   lru     |-> touch(cache.lru, key)],
        hit   |-> <<cache.entries[key].labels>>]

get(cache, key) ==
  IF key \notin DOMAIN cache.entries THEN [cache |-> cache, hit |-> << >>]
  ELSE IF Expired(cache.entries[key])
  THEN [cache |-> [entries |-> Without(cache.entries, {key}),
                   lru     |-> remove_lru_key(cache.lru, key)],
        hit   |-> << >>]
  ELSE [cache |-> [cache EXCEPT !.lru = touch(@, key)], hit |-> <<cache.entries[key].labels>>]

evict_expired(cache) ==
  LET expired == {k \in DOMAIN cache.entries : Expired(cache.entries[k])}
  IN  [entries |-> Without(cache.entries, expired),
       lru     |-> Picked(cache.lru, {i \in DOMAIN cache.lru : cache.lru[i] \notin expired})]

\* put's loop: the front of the queue goes until there is room for one more.
MakeRoom(cache, capacity) ==
  LET gone == SubSeq(cache.lru, 1, Cardinality(DOMAIN cache.entries) + 1 - capacity)
  IN  IF Cardinality(DOMAIN cache.entries) < capacity THEN cache
      ELSE [entries |-> Without(cache.entries, ToSet(gone)),
            lru     |-> SubSeq(cache.lru, Len(gone) + 1, Len(cache.lru))]

put(cache, key, labels, ttl, capacity) ==
  LET fresh == evict_expired(cache)
      entry == [labels |-> labels, left |-> ttl]
      roomy == MakeRoom(fresh, capacity)
  IN  IF capacity = 0 THEN cache
      ELSE IF key \in DOMAIN fresh.entries
      THEN [entries |-> [fresh.entries EXCEPT ![key] = entry], lru |-> touch(fresh.lru, key)]
      ELSE [entries |-> [k \in DOMAIN roomy.entries \cup {key} |->
                           IF k = key THEN entry ELSE roomy.entries[k]],
            lru     |-> Append(roomy.lru, key)]

\* A moment passes.
Aged(cache) ==
  [cache EXCEPT !.entries = [k \in DOMAIN cache.entries |->
     [cache.entries[k] EXCEPT !.left = IF @ = 0 THEN 0 ELSE @ - 1]]]
=============================================================================
