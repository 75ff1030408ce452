------------------------------- MODULE Dedup -------------------------------
(***************************************************************************)
(* The cache of the deduplication middleware: internal/pipeline/dedup.go.  *)
(* An event is its body's hash: events with equal bodies are the           *)
(* duplicates it looks for.  Module Chain has the mutex and the stages     *)
(* around it.                                                              *)
(***************************************************************************)
EXTENDS Integers, Sequences, SequencesExt

CONSTANTS
  Hashes,     \* FNV-1a hashes of event bodies
  TTL,        \* dedup.ttl, in clock ticks
  CacheSize,  \* dedup.cache_size
  MaxTime,    \* bound on the clock
  Probes,     \* the hashes whose arrivals are noted: any of them, to keep the states few
  Never       \* the time of what has not happened

ASSUME DedupAssumption ==
  /\ TTL \in Nat \ {0}
  /\ CacheSize \in Nat \ {0}
  /\ MaxTime \in Nat
  /\ Probes \subseteq Hashes
  /\ Never \notin Nat

VARIABLES
  now,      \* time.Now
  ll,       \* hashes of the list ll, front first; cache has the same ones
  ts,       \* ts[h]: entry.ts of the entry for h, while it is in ll
  recency,  \* history: every hash seen, the most recently seen first
  seen,     \* history: when an event with this hash, one of Probes, last came in
  passed    \* history: when an event with this hash was last handed to next

cacheVars == <<ll, ts, recency, seen, passed>>

CacheInit ==
  /\ now = 0
  /\ ll = <<>>
  /\ ts = [h \in Hashes |-> Never]
  /\ recency = <<>>
  /\ seen = [h \in Hashes |-> Never]
  /\ passed = [h \in Hashes |-> Never]

ToFront(s, h) == <<h>> \o RemoveFirst(s, h)

\* History: h came in.
Note(h) ==
  /\ recency' = ToFront(recency, h)
  /\ seen' = [seen EXCEPT ![h] = IF h \in Probes THEN now ELSE @]

\* The entry exists and its TTL has not elapsed.
FreshEntry(h) == Contains(ll, h) /\ now - ts[h] <= TTL

\* Mutants: a drop does not count as a use; the timestamp is not looked at.
DropInPlace(h) ==
  /\ FreshEntry(h)
  /\ Note(h)
  /\ UNCHANGED <<ll, ts, passed>>

DropForEver(h) ==
  /\ Contains(ll, h)
  /\ ll' = ToFront(ll, h)
  /\ Note(h)
  /\ UNCHANGED <<ts, passed>>

\* A duplicate: moved to the front and dropped.
Drop(h) ==
  /\ FreshEntry(h)
  /\ ll' = ToFront(ll, h)
  /\ Note(h)
  /\ UNCHANGED <<ts, passed>>

\* The list with room for one more: the oldest entry is evicted when full.
Evicted(s) == IF Len(s) >= CacheSize THEN Front(s) ELSE s

\* Not a duplicate: an expired entry is taken out, the oldest one evicted if the
\* cache is full, and the event marked as seen.
Pass(h) ==
  /\ ~FreshEntry(h)
  /\ ll' = <<h>> \o Evicted(RemoveFirst(ll, h))
  /\ ts' = [ts EXCEPT ![h] = now]
  /\ Note(h)
  /\ passed' = [passed EXCEPT ![h] = now]

---------------------------------------------------------------------------
(* Properties.                                                             *)

\* Types, the bound on the cache and the map's keys being unique.
CacheTypeOK ==
  /\ now \in 0..MaxTime
  /\ ll \in Seq(Hashes) /\ Len(ll) <= CacheSize
  /\ ts \in [Hashes -> 0..MaxTime \cup {Never}]
  /\ \A i, j \in DOMAIN ll : ll[i] = ll[j] => i = j
  /\ \A h \in Hashes : Contains(ll, h) => ts[h] # Never

\* The LRU against its definition: after any mix of drops, expiries, evictions and
\* insertions it holds exactly the CacheSize most recently seen hashes, in that
\* order.
MostRecent == SubSeq(recency, 1, IF Len(recency) < CacheSize THEN Len(recency) ELSE CacheSize)

\* Time t was no longer than TTL ago.
InWindow(t) == t # Never /\ now - t <= TTL

\* At least CacheSize other bodies came in since h did.
CrowdedOut(h) == \E i \in DOMAIN recency : recency[i] = h /\ i > CacheSize
============================================================================
