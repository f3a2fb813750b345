-------------------------------- MODULE Cache --------------------------------
(***************************************************************************)
(* pkg/infrastructure/cache/memory.go: a map of entries and a doubly       *)
(* linked list of the same entries, most recently used first, changed      *)
(* together under one mutex. An entry is named by its key: the map holds   *)
(* at most one per key, and an unlinked one is never seen again.           *)
(*                                                                         *)
(* A call whose context has ended returns before the lock and changes      *)
(* nothing. Copies of values keep callers and the cache apart.             *)
(***************************************************************************)
EXTENDS Naturals, FiniteSets

CONSTANTS
  CacheKeys, CacheValues,
  TTLs,            \* 0: never expires
  MaxEntries,      \* 0: no limit
  MaxCacheClock,   \* bound: how far time runs
  Sentinel, Unlinked, Nothing

CacheEntry == [value : CacheValues, expiresAt : Nat]

ASSUME CacheAssumption ==
  /\ MaxEntries \in Nat /\ TTLs \subseteq Nat
  /\ Sentinel \notin CacheKeys /\ Unlinked \notin CacheKeys \cup {Sentinel}
  /\ Nothing \notin CacheEntry

VARIABLES
  entries,         \* [keys -> [value, expiresAt]]
  links,           \* [next, prev : keys and Sentinel -> the same, or Unlinked]
  cacheClock,
  sweepNow,        \* the time sweep read before the lock, or 0
  sweeping,        \* whether sweep holds the lock
  got,             \* what the call that just ended returned: [key, value], or Nothing
  newer,           \* history: <<a, b>> when key a was used after b, or b never
  stored           \* history: [keys -> the last entry set and not deleted, or Nothing]

cacheVars == <<entries, links, cacheClock, sweepNow, sweeping, got, newer, stored>>

CacheInit ==
  /\ entries = [k \in {} |-> Nothing]
  /\ LET none == [n \in CacheKeys \cup {Sentinel} |-> IF n = Sentinel THEN Sentinel ELSE Unlinked]
     IN links = [next |-> none, prev |-> none]
  /\ cacheClock = 1 /\ sweepNow = 0 /\ sweeping = FALSE /\ got = Nothing
  /\ newer = {} /\ stored = [k \in CacheKeys |-> Nothing]

-----------------------------------------------------------------------------
(* The list.                                                               *)
PushFront(l, k) ==
  [next |-> [l.next EXCEPT ![k] = l.next[Sentinel], ![Sentinel] = k],
   prev |-> [[l.prev EXCEPT ![k] = Sentinel] EXCEPT ![l.next[Sentinel]] = k]]

Unlink(l, k) ==
  IF Unlinked \in {l.prev[k], l.next[k]} THEN l
  ELSE [next |-> [l.next EXCEPT ![l.prev[k]] = l.next[k], ![k] = Unlinked],
        prev |-> [l.prev EXCEPT ![l.next[k]] = l.prev[k], ![k] = Unlinked]]

(* Mutant: an entry that is used stays where it is.                        *)
StayInPlace(l, k) == l

MoveToFront(l, k) == PushFront(Unlink(l, k), k)

Expired(e, now) == e.expiresAt # 0 /\ now > e.expiresAt

With(es, k, e) == [m \in DOMAIN es \cup {k} |-> IF m = k THEN e ELSE es[m]]

Without(es, k) == [m \in DOMAIN es \ {k} |-> es[m]]

RemoveLocked(k) ==
  /\ entries' = Without(entries, k)
  /\ links' = Unlink(links, k)

Used(k) == newer' = {pair \in newer : pair[2] # k} \cup {<<k, m>> : m \in CacheKeys \ {k}}

-----------------------------------------------------------------------------
CacheMiss(k) ==
  /\ k \notin DOMAIN entries
  /\ got' = Nothing
  /\ UNCHANGED <<entries, links, newer, stored>>

GetExpired(k) ==
  /\ k \in DOMAIN entries /\ Expired(entries[k], cacheClock)
  /\ RemoveLocked(k)
  /\ got' = Nothing
  /\ UNCHANGED <<newer, stored>>

GetHit(k) ==
  /\ k \in DOMAIN entries /\ ~Expired(entries[k], cacheClock)
  /\ links' = MoveToFront(links, k)
  /\ got' = [key |-> k, value |-> entries[k].value]
  /\ Used(k)
  /\ UNCHANGED <<entries, stored>>

(* Calls wait while sweep holds the lock.                                  *)
CacheGet(k) ==
  /\ ~sweeping
  /\ CacheMiss(k) \/ GetExpired(k) \/ GetHit(k)
  /\ UNCHANGED <<cacheClock, sweepNow, sweeping>>

(* A new entry may push out the last of the list; as the map was within    *)
(* its limit, the loop removes one at most.                                *)
CacheSet(k, v, ttl) ==
  LET e == [value |-> v, expiresAt |-> IF ttl > 0 THEN cacheClock + ttl ELSE 0]
      with == With(entries, k, e)
      front == PushFront(links, k)
      victim == front.prev[Sentinel]
  IN /\ ~sweeping
     /\ IF k \in DOMAIN entries
        THEN entries' = with /\ links' = MoveToFront(links, k)
        ELSE IF MaxEntries > 0 /\ Cardinality(DOMAIN with) > MaxEntries
        THEN entries' = Without(with, victim) /\ links' = Unlink(front, victim)
        ELSE entries' = with /\ links' = front
     /\ stored' = [stored EXCEPT ![k] = e]
     /\ Used(k)
     /\ got' = Nothing
     /\ UNCHANGED <<cacheClock, sweepNow, sweeping>>

CacheDelete(k) ==
  /\ ~sweeping
  /\ IF k \in DOMAIN entries THEN RemoveLocked(k) ELSE UNCHANGED <<entries, links>>
  /\ stored' = [stored EXCEPT ![k] = Nothing]
  /\ got' = Nothing
  /\ UNCHANGED <<cacheClock, sweepNow, sweeping, newer>>

(* sweep reads the clock, waits for the lock, and removes what had expired *)
(* by then, entry by entry in any order, before it lets go.                *)
SweepStart ==
  /\ sweepNow = 0
  /\ sweepNow' = cacheClock
  /\ got' = Nothing
  /\ UNCHANGED <<entries, links, cacheClock, sweeping, newer, stored>>

SweepLock ==
  /\ sweepNow # 0 /\ ~sweeping
  /\ sweeping' = TRUE
  /\ got' = Nothing
  /\ UNCHANGED <<entries, links, cacheClock, sweepNow, newer, stored>>

SweepRemove(k) ==
  /\ sweeping /\ k \in DOMAIN entries /\ Expired(entries[k], sweepNow)
  /\ RemoveLocked(k)
  /\ got' = Nothing
  /\ UNCHANGED <<cacheClock, sweepNow, sweeping, newer, stored>>

SweepEnd ==
  /\ sweeping /\ \A k \in DOMAIN entries : ~Expired(entries[k], sweepNow)
  /\ sweepNow' = 0 /\ sweeping' = FALSE
  /\ got' = Nothing
  /\ UNCHANGED <<entries, links, cacheClock, newer, stored>>

CacheTick ==
  /\ cacheClock < MaxCacheClock
  /\ cacheClock' = cacheClock + 1
  /\ got' = Nothing
  /\ UNCHANGED <<entries, links, sweepNow, sweeping, newer, stored>>

CacheNext ==
  \/ \E k \in CacheKeys : CacheGet(k) \/ CacheDelete(k) \/ SweepRemove(k)
  \/ \E k \in CacheKeys, v \in CacheValues, ttl \in TTLs : CacheSet(k, v, ttl)
  \/ SweepStart \/ SweepLock \/ SweepEnd \/ CacheTick

-----------------------------------------------------------------------------
(* In the order of last use, the newest first, with the sentinel before    *)
(* and behind them all: b comes next to a among the keys of entries.       *)
Before(a, b) == Sentinel \in {a, b} \/ <<a, b>> \in newer

Follows(a, b) ==
  Before(a, b) /\ \A c \in DOMAIN entries : ~(Before(a, c) /\ Before(c, b))

(* The map and the list hold the same entries, the list in order of last   *)
(* use in both directions, within the limit. A hit is the value last set,  *)
(* neither deleted nor expired. An entry that is missing though it still   *)
(* counts was pushed out, and only because every entry left was used after *)
(* it: neither a sweep with an old clock nor an expiry ever takes one      *)
(* (memory.go:11-15, 121-123, 181-189, 231-247).                           *)
CacheSound ==
  /\ \A a \in DOMAIN entries \cup {Sentinel} :
       /\ links.next[a] \in DOMAIN entries \cup {Sentinel} /\ Follows(a, links.next[a])
       /\ links.prev[a] \in DOMAIN entries \cup {Sentinel} /\ Follows(links.prev[a], a)
  /\ \A k \in CacheKeys \ DOMAIN entries : Unlinked = links.next[k] /\ Unlinked = links.prev[k]
  /\ MaxEntries > 0 => Cardinality(DOMAIN entries) <= MaxEntries
  /\ \A k \in DOMAIN entries : entries[k] = stored[k]
  /\ \A k \in CacheKeys \ DOMAIN entries :
       stored[k] # Nothing => \/ Expired(stored[k], cacheClock)
                              \/ \A m \in DOMAIN entries : <<m, k>> \in newer
  /\ got # Nothing =>
       /\ stored[got.key] # Nothing /\ stored[got.key].value = got.value
       /\ ~Expired(stored[got.key], cacheClock)
=============================================================================
