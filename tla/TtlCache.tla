------------------------------ MODULE TtlCache ------------------------------
(***************************************************************************)
(* The process-local cache that every invocation on one host shares        *)
(* (krit-cache: Cache, Namespace, CacheConfig; krit-runtime: cache_get,    *)
(* cache_put, cache_delete).  Each operation runs under one mutex, so it is *)
(* one action; but its caller reads the cache's clock before it takes the  *)
(* mutex, so an operation may work with an instant that is up to MaxLag    *)
(* behind the clock.                                                       *)
(*                                                                         *)
(* Access stamps grow with every operation and only their order matters:   *)
(* `older` orders the entries of all namespaces by stamp.  The indexes     *)
(* by_access and by_expiry are read off `older` and `entries`; the byte    *)
(* and entry counters, which the code maintains incrementally, are state.  *)
(* Operations that change nothing (a miss, an unknown namespace, a bad key) *)
(* and the statistics are left out.                                        *)
(***************************************************************************)
EXTENDS Integers, FiniteSets, FiniteSetsExt, Recency

CONSTANTS
    Namespaces,
    Keys,              \* numbers, in the order of the key strings
    Values,
    Policy,            \* NamespacePolicy of each namespace
    KeyBytes, ValueBytes,
    EntryOverhead,     \* ENTRY_OVERHEAD_BYTES
    MaxTotalEntries, MaxTotalBytes,
    MaxSweep,          \* MAX_SWEEP_PER_OPERATION
    MaxLag,
    MaxInstant,        \* bound: the model's clock stops there
    Absent             \* model value

\* CacheConfig::validate and NamespacePolicy::validate.
ValidConfig ==
    /\ MaxTotalEntries \in Nat \ {0} /\ MaxTotalBytes \in Nat \ {0}
    /\ \A n \in Namespaces :
          /\ Policy[n].mode \in {"read-only", "read-write"}
          /\ Policy[n].max_entries \in 1..MaxTotalEntries
          /\ Policy[n].max_bytes \in 1..MaxTotalBytes
          /\ Policy[n].max_key_bytes \in Nat \ {0} /\ Policy[n].max_value_bytes \in Nat \ {0}
          /\ Policy[n].max_ttl \in Nat \ {0}
          /\ Policy[n].max_key_bytes + Policy[n].max_value_bytes + EntryOverhead
                <= Policy[n].max_bytes

ASSUME CacheAssumption ==
    /\ ValidConfig
    /\ IsFiniteSet(Namespaces) /\ IsFiniteSet(Keys)
    /\ KeyBytes \in [Keys -> Nat] /\ ValueBytes \in [Values -> Nat] /\ EntryOverhead \in Nat
    /\ MaxSweep \in Nat /\ MaxLag \in Nat
    /\ Absent \notin [value : Values, deadline : Nat]

Writers == {"guest", "host"}
Slots == Namespaces \X Keys
Ttls == UNION {1..Policy[n].max_ttl : n \in Namespaces}

VARIABLES
    entries,         \* the cached slots, with their values and deadlines
    older,           \* <<s, t>> when the stamp of entry s is below that of entry t
    bytes,           \* Namespace::bytes
    total_entries, total_bytes,
    clock,           \* the monotonic timeline of Cache::now
    \* History, read by no action:
    latest,          \* the last write of each slot that was not deleted since
    fault            \* the first answer that should not have been given

cached == <<entries, older, bytes, total_entries, total_bytes>>
vars == <<cached, clock, latest, fault>>

Init ==
    /\ entries = <<>> /\ older = {}
    /\ bytes = [n \in Namespaces |-> 0]
    /\ total_entries = 0 /\ total_bytes = 0
    /\ clock = 0
    /\ latest = [s \in Slots |-> Absent]
    /\ fault = "none"

-----------------------------------------------------------------------------
(* The store as one value, and taking entries out of it                    *)

Cache == [entries |-> entries, older |-> older, bytes |-> bytes,
          count |-> total_entries, total |-> total_bytes]

Becomes(c) ==
    /\ entries' = c.entries /\ older' = c.older /\ bytes' = c.bytes
    /\ total_entries' = c.count /\ total_bytes' = c.total

Charge(s, v) == KeyBytes[s[2]] + ValueBytes[v] + EntryOverhead
Held(E, S) ==
    LET charged == [s \in S |-> Charge(s, E[s].value)]
    IN  MapThenSumSet(LAMBDA s : charged[s], S)
SaturatingSub(a, b) == IF a > b THEN a - b ELSE 0
Own(c, n) == {s \in DOMAIN c.entries : s[1] = n}

\* Namespace::remove of each slot of S, and State::release.
Dropped(c, S) ==
    LET kept == DOMAIN c.entries \ S
    IN  [entries |-> [s \in kept |-> c.entries[s]],
         older |-> Among(c.older, kept),
         bytes |-> [n \in Namespaces |->
                       SaturatingSub(c.bytes[n], Held(c.entries, {s \in S : s[1] = n}))],
         count |-> SaturatingSub(c.count, Cardinality(S)),
         total |-> SaturatingSub(c.total, Held(c.entries, S))]

\* The first MaxSweep expired entries of n by deadline and key (sweep_expired).
Swept(c, n, now) ==
    LET expired == {s \in Own(c, n) : c.entries[s].expires <= now}
        before(s, t) == \/ c.entries[s].expires < c.entries[t].expires
                        \/ c.entries[s].expires = c.entries[t].expires /\ s[2] < t[2]
    IN  {s \in expired : Cardinality({t \in expired : before(t, s)}) < MaxSweep}

NamespaceFits(c, n, charge) ==
    /\ Cardinality(Own(c, n)) < Policy[n].max_entries
    /\ c.bytes[n] + charge <= Policy[n].max_bytes

GlobalFits(c, charge) ==
    /\ c.count < MaxTotalEntries
    /\ c.total + charge <= MaxTotalBytes

\* evict_one, as often as the namespace needs it.
EvictedLocally(c, n, charge) ==
    LET enough == {t \in Own(c, n) : NamespaceFits(Dropped(c, UpTo(c.older, Own(c, n), t)), n, charge)}
    IN  IF NamespaceFits(c, n, charge) THEN c ELSE Dropped(c, Victims(c.older, Own(c, n), enough))

\* Evicting entries of C, as often as the whole cache needs it.
EvictedFrom(c, C, charge) ==
    LET enough == {t \in C : GlobalFits(Dropped(c, UpTo(c.older, C, t)), charge)}
    IN  IF GlobalFits(c, charge) THEN c ELSE Dropped(c, Victims(c.older, C, enough))

\* Faulty variant: whole-cache pressure falls on the destination first.
EvictedGloballyFrom(c, n, charge) ==
    LET kept == EvictedFrom(c, Own(c, n), charge)
    IN  EvictedFrom(kept, DOMAIN kept.entries, charge)

\* evict_globally, as often as the whole cache needs it.
EvictedGlobally(c, n, charge) == EvictedFrom(c, DOMAIN c.entries, charge)

\* Faulty variant: the replaced entry's cost is not released.
MadeRoomOverwriting(c, s, charge, now) ==
    LET n == s[1]
        kept == Dropped(c, Swept(c, n, now))
        shadowed == [kept EXCEPT !.entries = [t \in DOMAIN @ \ {s} |-> @[t]],
                                 !.older = Among(@, DOMAIN kept.entries \ {s})]
    IN  EvictedGlobally(EvictedLocally(shadowed, n, charge), n, charge)

\* What a write does before it inserts: sweep, release what it replaces, evict
\* for the namespace, evict for the whole cache.
MadeRoom(c, s, charge, now) ==
    LET n == s[1]
        swept == Dropped(c, Swept(c, n, now))
        replaced == Dropped(swept, {s} \cap DOMAIN swept.entries)
        local == EvictedLocally(replaced, n, charge)
    IN  IF NamespaceFits(local, n, charge) THEN EvictedGlobally(local, n, charge) ELSE local

Inserted(c, s, entry, charge) ==
    [entries |-> [t \in DOMAIN c.entries \cup {s} |-> IF t = s THEN entry ELSE c.entries[t]],
     older |-> UsedNow(c.older, DOMAIN c.entries, s),
     bytes |-> [c.bytes EXCEPT ![s[1]] = @ + charge],
     count |-> c.count + 1,
     total |-> c.total + charge]

-----------------------------------------------------------------------------
(* Operations                                                              *)

\* The instants an operation that takes effect now may have read.
Readings == {now \in 0..clock : clock - now <= MaxLag}

\* Faulty variant: an entry is still returned at its deadline.
ExpiredLate(e, now) == e.expires < now

Expired(e, now) == e.expires <= now

GetExpired(s, now) ==
    /\ s \in DOMAIN entries /\ Expired(entries[s], now)
    /\ Becomes(Dropped(Cache, {s}))
    /\ UNCHANGED <<clock, latest, fault>>

\* The answer v for slot s to a reader of instant now is the last write, neither
\* deleted since nor older than the time to live it asked for.
Fresh(s, v, now) == latest[s] # Absent /\ v = latest[s].value /\ now < latest[s].deadline

GetHit(s, now) ==
    /\ s \in DOMAIN entries /\ ~Expired(entries[s], now)
    /\ older' = UsedNow(older, DOMAIN entries, s)
    /\ fault' = IF fault = "none" /\ ~Fresh(s, entries[s].value, now) THEN "stale" ELSE fault
    /\ UNCHANGED <<entries, bytes, total_entries, total_bytes, clock, latest>>

\* The checks of a write that come before any change.
WriteAllowed(s, v, ttl, writer) ==
    LET policy == Policy[s[1]]
    IN  /\ writer = "guest" => policy.mode = "read-write"
        /\ KeyBytes[s[2]] <= policy.max_key_bytes
        /\ ValueBytes[v] <= policy.max_value_bytes
        /\ ttl \in 1..policy.max_ttl

\* put and seed; the two "cannot fit" errors come after everything that could
\* go was evicted.
Write(s, v, now) ==
    LET charge == Charge(s, v)
        room == MadeRoom(Cache, s, charge, now)
        fits == NamespaceFits(room, s[1], charge) /\ GlobalFits(room, charge)
    IN  \E ttl \in Ttls :
           /\ {writer \in Writers : WriteAllowed(s, v, ttl, writer)} # {}
           /\ IF fits
              THEN /\ Becomes(Inserted(room, s, [value |-> v, expires |-> now + ttl], charge))
                   /\ latest' = [latest EXCEPT ![s] = [value |-> v, deadline |-> clock + ttl]]
                   /\ UNCHANGED fault
              ELSE /\ Becomes(room)
                   /\ latest' = [latest EXCEPT ![s] = Absent]
                   /\ fault' = IF fault = "none" THEN "no room" ELSE fault
           /\ UNCHANGED clock

Delete(s) ==
    /\ Policy[s[1]].mode = "read-write"
    /\ KeyBytes[s[2]] <= Policy[s[1]].max_key_bytes
    /\ Becomes(Dropped(Cache, {s} \cap DOMAIN entries))
    /\ latest' = [latest EXCEPT ![s] = Absent]
    /\ UNCHANGED <<clock, fault>>

Tick ==
    /\ clock < MaxInstant
    /\ clock' = clock + 1
    /\ UNCHANGED <<cached, latest, fault>>

Next ==
    \/ \E s \in Slots :
          \/ Delete(s)
          \/ \E now \in Readings :
                \/ GetExpired(s, now)
                \/ GetHit(s, now)
                \/ \E v \in Values : Write(s, v, now)
    \/ Tick

Spec == Init /\ [][Next]_vars

-----------------------------------------------------------------------------
(* Properties                                                              *)

\* "Accounting is exact rather than estimated": the counters that are kept up
\* by adding and releasing are the sums over the entries, and every entry is
\* in the access order exactly once (Namespace::remove, State::release, write).
AccountingExact ==
    /\ total_entries = Cardinality(DOMAIN entries)
    /\ total_bytes = Held(entries, DOMAIN entries)
    /\ \A n \in Namespaces : bytes[n] = Held(entries, Own(Cache, n))
    /\ OrdersStrictly(older, DOMAIN entries)

\* Neither a namespace nor the cache ever exceeds its entries or its bytes,
\* although a write sweeps only a few expired entries (write).
WithinBudgets ==
    /\ Cardinality(DOMAIN entries) <= MaxTotalEntries
    /\ Held(entries, DOMAIN entries) <= MaxTotalBytes
    /\ \A n \in Namespaces :
          /\ Cardinality(Own(Cache, n)) <= Policy[n].max_entries
          /\ Held(entries, Own(Cache, n)) <= Policy[n].max_bytes

\* With a validated configuration a write that passes its checks always finds
\* room: eviction never empties the cache only to fail (CacheConfig::validate,
\* write).
ValidWriteFits == fault # "no room"

\* The three together: the counters that decide what must go are exact, nothing
\* ever exceeds its budget, and making room never fails half way.
BudgetsExact == AccountingExact /\ WithinBudgets /\ ValidWriteFits

\* A hit returns the last value written, neither deleted since nor, at the
\* instant the reader looked at the clock, past the time to live that write
\* asked for (get).
HitsAreFresh == fault # "stale"

\* Whether writing entry e of slot s into the full content of its namespace
\* breaks the namespace's own budget.
Presses(s, e) ==
    LET others == Own(Cache, s[1]) \ {s}
    IN  \/ Cardinality(others) >= Policy[s[1]].max_entries
        \/ Held(entries, others) + Charge(s, e.value) > Policy[s[1]].max_bytes

\* What goes while it is still live goes after all that was used less recently.
EvictsInOrder ==
    LET evicted == {s \in DOMAIN entries \ DOMAIN entries' :
                       entries[s].expires > clock /\ latest'[s] # Absent}
    IN  \A s \in DOMAIN entries, t \in evicted :
            <<s, t>> \in older =>
                \E d \in DOMAIN entries' :
                    /\ (DOMAIN entries' \ {d}) \X {d} \subseteq older'  \* the entry written
                    /\ \/ s = d
                       \/ s \notin DOMAIN entries'
                       \/ s[1] # d[1] /\ t[1] = d[1] /\ Presses(d, entries'[d])

\* "Exact global recency": a write evicts a live entry only together with all
\* that were used less recently, in its namespace if that is what the entry
\* had to make room in, and in the whole cache otherwise (write, evict_one,
\* evict_globally).
EvictsLeastRecent == [][EvictsInOrder]_vars
=============================================================================
