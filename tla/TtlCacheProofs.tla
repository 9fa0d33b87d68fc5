--------------------------- MODULE TtlCacheProofs ---------------------------
(***************************************************************************)
(* Proofs about TtlCache: the counters are exact and the budgets hold for  *)
(* every configuration that validates, a hit is fresh, and eviction        *)
(* follows the order of use.                                               *)
(*                                                                         *)
(* The operations of the cache are functions of a store c, so most lemmas  *)
(* are about such functions: taking entries out keeps a store sound, and   *)
(* eviction takes out a beginning of the order of use that is long enough  *)
(* and, because a valid configuration admits one entry of every size it    *)
(* lets in, always exists.                                                 *)
(***************************************************************************)
EXTENDS TtlCache, Arithmetic, FiniteSetTheorems, TLAPS

Entries == [value : Values, expires : Nat]

\* The store c is sound: its counters and its order are those of its entries.
Sound(c) ==
    /\ DOMAIN c.entries \subseteq Slots
    /\ \A s \in DOMAIN c.entries : c.entries[s] \in Entries
    /\ OrdersStrictly(c.older, DOMAIN c.entries)
    /\ c.count = Cardinality(DOMAIN c.entries)
    /\ c.total = Held(c.entries, DOMAIN c.entries)
    /\ DOMAIN c.bytes = Namespaces
    /\ \A n \in Namespaces : c.bytes[n] = Held(c.entries, Own(c, n))

\* d is c without some of its entries.
Shrinks(c, d) ==
    /\ DOMAIN d.entries \subseteq DOMAIN c.entries
    /\ \A s \in DOMAIN d.entries : d.entries[s] = c.entries[s]
    /\ d.older = Among(c.older, DOMAIN d.entries)

\* What a slot's entry is charged in E, as a function to sum.
ChargesOf(E, S) == [s \in S |-> Charge(s, E[s].value)]

-----------------------------------------------------------------------------
(* Sums of charges                                                         *)

\* The bytes held by S are a sum of the charges of its slots (Namespace::charge).
LEMMA HeldIsSum == \A E, S : Held(E, S) = SumOver(ChargesOf(E, S), S)
  BY DEF Held, SumOver, ChargesOf

\* A charge is a natural number (Namespace::charge).
LEMMA ChargeNat == \A s \in Slots, v \in Values : Charge(s, v) \in Nat
  BY CacheAssumption DEF Charge, Slots

\* There are finitely many slots.
LEMMA SlotsFinite == IsFiniteSet(Slots)
  BY CacheAssumption, FS_Product DEF Slots

\* The slots of a sound store, and of any part of them, are finitely many.
LEMMA PartFinite == \A S : S \subseteq Slots => IsFiniteSet(S)
  BY SlotsFinite, FS_Subset

\* Two contents with the same entries in S hold the same bytes there.
LEMMA HeldSame ==
  ASSUME NEW E, NEW F, NEW S, S \subseteq Slots, \A s \in S : E[s] = F[s]
  PROVE  Held(E, S) = Held(F, S)
<1>1. ChargesOf(E, S) = ChargesOf(F, S)
  BY DEF ChargesOf
<1> QED
  BY <1>1, HeldIsSum

\* The bytes of a set are those of a part and those of the rest.
LEMMA HeldSplit ==
  ASSUME NEW E, NEW S, S \subseteq Slots, \A s \in S : E[s] \in Entries, NEW T \in SUBSET S
  PROVE  /\ Held(E, S) \in Nat /\ Held(E, T) \in Nat /\ Held(E, S \ T) \in Nat
         /\ Held(E, S) = Held(E, T) + Held(E, S \ T)
<1> DEFINE f == ChargesOf(E, S)
<1>1. \A s \in S : f[s] \in Nat
  BY ChargeNat DEF ChargesOf, Entries
<1>2. IsFiniteSet(S)
  BY PartFinite
<1>3. \A U \in SUBSET S : Held(E, U) = SumOver(f, U) /\ Held(E, U) \in Nat
  <2> SUFFICES ASSUME NEW U \in SUBSET S PROVE Held(E, U) = SumOver(f, U) /\ Held(E, U) \in Nat
    OBVIOUS
  <2>1. IsFiniteSet(U)
    BY <1>2, FS_Subset
  <2>2. \A s \in U : f[s] = ChargesOf(E, U)[s]
    BY DEF ChargesOf
  <2>3. SumOver(f, U) = SumOver(ChargesOf(E, U), U)
    BY <2>1, <2>2, SumSame
  <2>4. \A s \in U : f[s] \in Nat
    BY <1>1
  <2>5. SumOver(f, U) \in Nat
    BY <2>1, <2>4, SumNat
  <2> QED
    BY <2>3, <2>5, HeldIsSum
<1>4. SumOver(f, S) = SumOver(f, T) + SumOver(f, S \ T)
  <2> HIDE DEF f
  <2> QED
    BY <1>1, <1>2, SumSplit
<1>5. S \in SUBSET S /\ T \in SUBSET S /\ S \ T \in SUBSET S
  OBVIOUS
<1> QED
  BY <1>3, <1>4, <1>5

\* The same for the entries of a sound store: the bytes of what stays are those
\* of all less those of what goes.
LEMMA SoundSplit ==
  ASSUME NEW c, Sound(c)
  PROVE  \A S \in SUBSET (DOMAIN c.entries) : \A T \in SUBSET S :
             /\ Held(c.entries, S) \in Nat
             /\ Held(c.entries, T) \in Nat
             /\ Held(c.entries, S \ T) \in Nat
             /\ Held(c.entries, S \ T) = Held(c.entries, S) - Held(c.entries, T)
<1> DEFINE E == c.entries
<1> SUFFICES ASSUME NEW S \in SUBSET (DOMAIN c.entries), NEW T \in SUBSET S
             PROVE  /\ Held(E, S) \in Nat
                    /\ Held(E, T) \in Nat
                    /\ Held(E, S \ T) \in Nat
                    /\ Held(E, S \ T) = Held(E, S) - Held(E, T)
  OBVIOUS
<1>1. S \subseteq Slots /\ \A s \in S : E[s] \in Entries
  BY DEF Sound
<1> HIDE DEF E
<1>2. Held(E, S) \in Nat
  BY <1>1, HeldSplit
<1>3. Held(E, T) \in Nat /\ Held(E, S \ T) \in Nat
  BY <1>1, HeldSplit
<1>4. Held(E, S) = Held(E, T) + Held(E, S \ T)
  BY <1>1, HeldSplit
<1> QED
  BY <1>2, <1>3, <1>4

\* Nothing holds no bytes.
LEMMA HeldEmpty == \A E : Held(E, {}) = 0
  BY HeldIsSum, SumEmpty

\* One more entry adds its charge.
LEMMA HeldAdd ==
  ASSUME NEW E, NEW S, S \subseteq Slots, NEW d \in Slots, d \notin S,
         \A s \in S \cup {d} : E[s] \in Entries
  PROVE  Held(E, S \cup {d}) = Held(E, S) + Charge(d, E[d].value)
<1> DEFINE f == ChargesOf(E, S \cup {d})
           g == ChargesOf(E, S)
<1>1. \A s \in S \cup {d} : f[s] \in Nat
  BY ChargeNat DEF ChargesOf, Entries
<1>2. IsFiniteSet(S)
  BY PartFinite
<1>3. f[d] = Charge(d, E[d].value) /\ \A s \in S : f[s] = g[s]
  BY DEF ChargesOf
<1>4. Held(E, S \cup {d}) = SumOver(f, S \cup {d}) /\ Held(E, S) = SumOver(g, S)
  BY HeldIsSum
<1> HIDE DEF f, g
<1>5. SumOver(f, S \cup {d}) = SumOver(f, S) + f[d]
  BY <1>1, <1>2, SumAdd
<1>6. SumOver(f, S) = SumOver(g, S)
  BY <1>2, <1>3, SumSame
<1> QED
  BY <1>3, <1>4, <1>5, <1>6

-----------------------------------------------------------------------------
(* Taking entries out                                                      *)

\* Namespace::remove and State::release leave exactly the entries that were
\* not removed.
LEMMA DroppedShrinks ==
  ASSUME NEW c, NEW S
  PROVE  /\ DOMAIN Dropped(c, S).entries = DOMAIN c.entries \ S
         /\ Shrinks(c, Dropped(c, S))
<1> DEFINE d == Dropped(c, S)
           kept == DOMAIN c.entries \ S
<1>1. d.entries = [s \in kept |-> c.entries[s]] /\ d.older = Among(c.older, kept)
  BY DEF Dropped
<1> HIDE DEF d
<1>2. DOMAIN d.entries = kept /\ \A s \in kept : d.entries[s] = c.entries[s]
  BY <1>1
<1>3. kept \subseteq DOMAIN c.entries
  OBVIOUS
<1> HIDE DEF kept
<1>4. Shrinks(c, d)
  BY <1>1, <1>2, <1>3, DOMAIN d.entries = kept DEF Shrinks
<1> QED
  BY <1>2, <1>4 DEF d, kept

\* Removing entries keeps every counter exact: what is subtracted is what they
\* were charged, so no subtraction saturates (Namespace::remove,
\* State::release).
LEMMA DroppedSound ==
  ASSUME NEW c, Sound(c), NEW S, S \subseteq DOMAIN c.entries
  PROVE  Sound(Dropped(c, S))
<1> DEFINE d == Dropped(c, S)
           D == DOMAIN c.entries
<1>1. DOMAIN d.entries = D \ S /\ \A s \in D \ S : d.entries[s] = c.entries[s]
  BY DEF Dropped
<1>2. D \subseteq Slots /\ (\A s \in D : c.entries[s] \in Entries)
  BY DEF Sound
<1>3. OrdersStrictly(d.older, DOMAIN d.entries)
  <2>1. d.older = Among(c.older, D \ S)
    BY DEF Dropped
  <2> QED
    BY <1>1, <2>1, PartOrdered DEF Sound
<1>4. d.count = Cardinality(DOMAIN d.entries)
  <2>1. IsFiniteSet(D) /\ IsFiniteSet(S) /\ IsFiniteSet(D \ S)
    BY <1>2, PartFinite
  <2>2. Cardinality(D \ S) = Cardinality(D) - Cardinality(S)
    BY <2>1, FS_Difference, D \cap S = S
  <2>3. Cardinality(D) \in Nat /\ Cardinality(S) \in Nat /\ Cardinality(D \ S) \in Nat
    BY <2>1, FS_CardinalityType
  <2>4. d.count = SaturatingSub(Cardinality(D), Cardinality(S))
    BY DEF Dropped, Sound
  <2> QED
    BY <1>1, <2>2, <2>3, <2>4 DEF SaturatingSub
<1>5. d.total = Held(d.entries, DOMAIN d.entries)
  <2>1. /\ Held(c.entries, D) \in Nat /\ Held(c.entries, S) \in Nat /\ Held(c.entries, D \ S) \in Nat
        /\ Held(c.entries, D \ S) = Held(c.entries, D) - Held(c.entries, S)
    BY SoundSplit, S \in SUBSET D
  <2>2. d.total = SaturatingSub(Held(c.entries, D), Held(c.entries, S))
    BY DEF Dropped, Sound
  <2>3. Held(d.entries, D \ S) = Held(c.entries, D \ S)
    BY <1>1, <1>2, HeldSame, D \ S \subseteq Slots
  <2> QED
    BY <1>1, <2>1, <2>2, <2>3 DEF SaturatingSub
<1>6. DOMAIN d.bytes = Namespaces
  BY DEF Dropped
<1>7. ASSUME NEW n \in Namespaces
      PROVE  d.bytes[n] = Held(d.entries, Own(d, n))
  <2> DEFINE own == Own(c, n)
             gone == {s \in S : s[1] = n}
  <2>1. own \subseteq D /\ own \subseteq Slots /\ gone \in SUBSET own
    BY <1>2 DEF Own
  <2>2. Own(d, n) = own \ gone
    BY <1>1 DEF Own
  <2>3. \A s \in own : c.entries[s] \in Entries
    BY <1>2, <2>1
  <2>4. d.bytes[n] = SaturatingSub(Held(c.entries, own), Held(c.entries, gone))
    BY DEF Dropped, Sound
  <2> HIDE DEF own, gone, d
  <2>5. Held(c.entries, own) \in Nat /\ Held(c.entries, gone) \in Nat /\ Held(c.entries, own \ gone) \in Nat
    BY <2>1, SoundSplit
  <2>6. Held(c.entries, own \ gone) = Held(c.entries, own) - Held(c.entries, gone)
    BY <2>1, SoundSplit
  <2>7. Held(d.entries, own \ gone) = Held(c.entries, own \ gone)
    <3>1. own \ gone \subseteq Slots /\ \A s \in own \ gone : d.entries[s] = c.entries[s]
      BY <1>1, <2>1, <2>2 DEF Own
    <3> QED
      BY <3>1, HeldSame
  <2> QED
    BY <2>2, <2>4, <2>5, <2>6, <2>7 DEF SaturatingSub
<1>8. \A s \in DOMAIN d.entries : d.entries[s] \in Entries
  BY <1>1, <1>2
<1>9. DOMAIN d.entries \subseteq Slots
  BY <1>1, <1>2
<1> HIDE DEF d
<1>10. Sound(d)
  BY <1>3, <1>4, <1>5, <1>6, <1>7, <1>8, <1>9 DEF Sound
<1> QED
  BY <1>10 DEF d

-----------------------------------------------------------------------------
(* Evicting                                                                *)

\* d is c less a beginning of the order of use of C.
EvictedIn(c, d, C) ==
    /\ Shrinks(c, d)
    /\ \A t \in DOMAIN c.entries \ DOMAIN d.entries :
          t \in C /\ \A s \in C : <<s, t>> \in c.older => s \notin DOMAIN d.entries

\* Dropping what eviction picks leaves a sound store (evict_one, evict_globally).
LEMMA VictimsEvicted ==
  ASSUME NEW c, Sound(c), NEW C, C \subseteq DOMAIN c.entries, NEW enough \in SUBSET C
  PROVE  /\ Sound(Dropped(c, Victims(c.older, C, enough)))
         /\ EvictedIn(c, Dropped(c, Victims(c.older, C, enough)), C)
<1> DEFINE V == Victims(c.older, C, enough)
           d == Dropped(c, V)
<1>1. V \subseteq C
  BY DEF Victims
<1>2. Sound(d)
  BY <1>1, DroppedSound
<1>3. \A t \in V : \A s \in C : <<s, t>> \in c.older => s \in V
  BY VictimsDownward DEF Sound
<1>4. DOMAIN d.entries = DOMAIN c.entries \ V /\ Shrinks(c, d)
  BY DroppedShrinks
<1> HIDE DEF V, d
<1>5. EvictedIn(c, d, C)
  BY <1>1, <1>3, <1>4 DEF EvictedIn
<1> QED
  BY <1>2, <1>5 DEF V, d

\* A store from which nothing was evicted.
LEMMA NothingEvicted ==
  ASSUME NEW c, Sound(c), NEW C
  PROVE  EvictedIn(c, c, C)
<1>1. c.older = Among(c.older, DOMAIN c.entries)
  BY DEF Sound, OrdersStrictly, Among
<1> QED
  BY <1>1 DEF EvictedIn, Shrinks

\* Evicting for the namespace ends with room for the entry: an empty namespace
\* has room for every entry that the checks let in (NamespacePolicy::validate,
\* write).
LEMMA LocalRoom ==
  ASSUME NEW c, Sound(c), NEW n \in Namespaces, NEW charge \in Nat, charge <= Policy[n].max_bytes
  PROVE  LET d == EvictedLocally(c, n, charge)
         IN  /\ Sound(d)
             /\ NamespaceFits(d, n, charge)
             /\ EvictedIn(c, d, Own(c, n))
             /\ NamespaceFits(c, n, charge) => d = c
<1> DEFINE own == Own(c, n)
           enough == {t \in own : NamespaceFits(Dropped(c, UpTo(c.older, own, t)), n, charge)}
           V == Victims(c.older, own, enough)
<1>1. CASE NamespaceFits(c, n, charge)
  <2>1. EvictedLocally(c, n, charge) = c
    BY <1>1 DEF EvictedLocally
  <2> QED
    BY <1>1, <2>1, NothingEvicted
<1>2. CASE ~NamespaceFits(c, n, charge)
  <2>1. EvictedLocally(c, n, charge) = Dropped(c, V)
    BY <1>2 DEF EvictedLocally
  <2>2. own \subseteq DOMAIN c.entries /\ enough \in SUBSET own
    BY DEF Own
  <2>3. Sound(Dropped(c, V)) /\ EvictedIn(c, Dropped(c, V), own)
    <3> HIDE DEF own, enough
    <3> QED
      BY <2>2, VictimsEvicted
  <2>4. NamespaceFits(Dropped(c, V), n, charge)
    <3>1. CASE V = own
      <4> DEFINE d == Dropped(c, own)
      <4>1. Own(d, n) = {}
        BY DroppedShrinks DEF Own
      <4>2. Sound(d)
        BY <2>2, DroppedSound
      <4>3. d.bytes[n] = 0
        BY <4>1, <4>2, HeldEmpty DEF Sound
      <4>4. Cardinality(Own(d, n)) = 0
        BY <4>1, FS_EmptySet
      <4> HIDE DEF d
      <4>5. NamespaceFits(d, n, charge)
        BY <4>3, <4>4, CacheAssumption DEF NamespaceFits, ValidConfig
      <4> QED
        BY <3>1, <4>5 DEF d
    <3>2. CASE \E t \in enough : V = UpTo(c.older, own, t)
      BY <3>2
    <3>3. V = own \/ \E t \in enough : V = UpTo(c.older, own, t)
      <4> HIDE DEF own, enough
      <4> QED
        BY <2>2, VictimsStop, PartFinite DEF Sound
    <3> QED
      BY <3>1, <3>2, <3>3
  <2> QED
    BY <1>2, <2>1, <2>3, <2>4
<1> QED
  BY <1>1, <1>2

\* Evicting for the whole cache ends with room: an empty cache has room for
\* every entry that a namespace admits (CacheConfig::validate, write).
LEMMA GlobalRoom ==
  ASSUME NEW c, Sound(c), NEW n, NEW charge \in Nat, charge <= MaxTotalBytes
  PROVE  LET d == EvictedGlobally(c, n, charge)
         IN  /\ Sound(d)
             /\ GlobalFits(d, charge)
             /\ EvictedIn(c, d, DOMAIN c.entries)
<1> DEFINE D == DOMAIN c.entries
           enough == {t \in D : GlobalFits(Dropped(c, UpTo(c.older, D, t)), charge)}
           V == Victims(c.older, D, enough)
<1>1. CASE GlobalFits(c, charge)
  <2>1. EvictedGlobally(c, n, charge) = c
    BY <1>1 DEF EvictedGlobally, EvictedFrom
  <2> QED
    BY <1>1, <2>1, NothingEvicted
<1>2. CASE ~GlobalFits(c, charge)
  <2>1. EvictedGlobally(c, n, charge) = Dropped(c, V)
    BY <1>2 DEF EvictedGlobally, EvictedFrom
  <2>2. D \subseteq DOMAIN c.entries /\ enough \in SUBSET D
    OBVIOUS
  <2>3. Sound(Dropped(c, V)) /\ EvictedIn(c, Dropped(c, V), D)
    <3> HIDE DEF D, enough
    <3> QED
      BY <2>2, VictimsEvicted
  <2>4. GlobalFits(Dropped(c, V), charge)
    <3>1. CASE V = D
      <4> DEFINE d == Dropped(c, D)
      <4>1. DOMAIN d.entries = {}
        BY DroppedShrinks
      <4>2. Sound(d)
        BY <2>2, DroppedSound
      <4>3. d.count = 0 /\ d.total = 0
        BY <4>1, <4>2, HeldEmpty, FS_EmptySet DEF Sound
      <4> HIDE DEF d
      <4>4. GlobalFits(d, charge)
        BY <4>3, CacheAssumption DEF GlobalFits, ValidConfig
      <4> QED
        BY <3>1, <4>4 DEF d
    <3>2. CASE \E t \in enough : V = UpTo(c.older, D, t)
      BY <3>2
    <3>3. V = D \/ \E t \in enough : V = UpTo(c.older, D, t)
      <4> HIDE DEF D, enough
      <4> QED
        BY <2>2, VictimsStop, PartFinite DEF Sound
    <3> QED
      BY <3>1, <3>2, <3>3
  <2> QED
    BY <2>1, <2>3, <2>4
<1> QED
  BY <1>1, <1>2

\* A namespace with less in it has room for what it had room for.
LEMMA ShrunkFits ==
  ASSUME NEW c, Sound(c), NEW d, Sound(d), Shrinks(c, d), NEW n \in Namespaces,
         NEW charge \in Nat, NamespaceFits(c, n, charge)
  PROVE  NamespaceFits(d, n, charge)
<1> DEFINE S == Own(c, n)
           T == Own(d, n)
<1>1. T \in SUBSET S /\ S \in SUBSET (DOMAIN c.entries) /\ S \subseteq Slots
  BY DEF Own, Shrinks, Sound
<1>2. \A s \in T : d.entries[s] = c.entries[s]
  BY DEF Own, Shrinks
<1>3. c.bytes[n] = Held(c.entries, S) /\ d.bytes[n] = Held(d.entries, T)
  BY DEF Sound
<1>4. Policy[n].max_entries \in Nat /\ Policy[n].max_bytes \in Nat
  BY CacheAssumption DEF ValidConfig
<1>5. Cardinality(S) < Policy[n].max_entries /\ c.bytes[n] + charge <= Policy[n].max_bytes
  BY DEF NamespaceFits
<1>6. NamespaceFits(d, n, charge) <=>
         Cardinality(T) < Policy[n].max_entries /\ d.bytes[n] + charge <= Policy[n].max_bytes
  BY DEF NamespaceFits
<1> HIDE DEF S, T
<1>7. Cardinality(T) \in Nat /\ Cardinality(S) \in Nat /\ Cardinality(T) <= Cardinality(S)
  BY <1>1, PartFinite, FS_Subset, FS_CardinalityType
<1>8. Held(d.entries, T) = Held(c.entries, T)
  BY <1>1, <1>2, HeldSame, T \subseteq Slots
<1>9. Held(c.entries, S) \in Nat /\ Held(c.entries, T) \in Nat /\ Held(c.entries, T) <= Held(c.entries, S)
  <2>1. /\ Held(c.entries, S) \in Nat
        /\ Held(c.entries, T) \in Nat
        /\ Held(c.entries, S \ T) \in Nat
        /\ Held(c.entries, S \ T) = Held(c.entries, S) - Held(c.entries, T)
    BY <1>1, SoundSplit
  <2> QED
    BY <2>1
<1> QED
  BY <1>3, <1>4, <1>5, <1>6, <1>7, <1>8, <1>9

\* Taking out entries twice is taking them out.
LEMMA ShrinksTwice ==
  ASSUME NEW c, NEW d, NEW e, Shrinks(c, d), Shrinks(d, e)
  PROVE  Shrinks(c, e)
  BY DEF Shrinks, Among

-----------------------------------------------------------------------------
(* Making room and writing                                                 *)

\* A write of `charge` bytes to slot s breaks the budget of the namespace.
PressedIn(c, s, charge) ==
    LET others == Own(c, s[1]) \ {s}
    IN  \/ Cardinality(others) >= Policy[s[1]].max_entries
        \/ Held(c.entries, others) + charge > Policy[s[1]].max_bytes

\* A write that evicts for its namespace does so because the namespace was full
\* before it swept and before it released what it replaces (write).
LEMMA PressedBefore ==
  ASSUME NEW c, Sound(c), NEW d, Sound(d), Shrinks(c, d), NEW s \in Slots, s \notin DOMAIN d.entries,
         NEW charge \in Nat, ~NamespaceFits(d, s[1], charge)
  PROVE  PressedIn(c, s, charge)
<1> DEFINE n == s[1]
           S == Own(c, n) \ {s}
           T == Own(d, n)
<1>0. n \in Namespaces
  BY DEF Slots
<1>1. T \in SUBSET S /\ S \in SUBSET (DOMAIN c.entries) /\ S \subseteq Slots
  BY DEF Own, Shrinks, Sound
<1>2. \A t \in T : d.entries[t] = c.entries[t]
  BY DEF Own, Shrinks
<1>3. d.bytes[n] = Held(d.entries, T)
  BY <1>0 DEF Sound
<1>4. Policy[n].max_entries \in Nat /\ Policy[n].max_bytes \in Nat
  BY <1>0, CacheAssumption DEF ValidConfig
<1>5. ~(Cardinality(T) < Policy[n].max_entries /\ d.bytes[n] + charge <= Policy[n].max_bytes)
  BY DEF NamespaceFits
<1>6. PressedIn(c, s, charge) <=> \/ Cardinality(S) >= Policy[n].max_entries
                                  \/ Held(c.entries, S) + charge > Policy[n].max_bytes
  BY DEF PressedIn
<1> HIDE DEF S, T, n
<1>7. Cardinality(T) \in Nat /\ Cardinality(S) \in Nat /\ Cardinality(T) <= Cardinality(S)
  BY <1>1, PartFinite, FS_Subset, FS_CardinalityType
<1>8. Held(d.entries, T) = Held(c.entries, T)
  BY <1>1, <1>2, HeldSame, T \subseteq Slots
<1>9. Held(c.entries, S) \in Nat /\ Held(c.entries, T) \in Nat /\ Held(c.entries, T) <= Held(c.entries, S)
  <2>1. /\ Held(c.entries, S) \in Nat
        /\ Held(c.entries, T) \in Nat
        /\ Held(c.entries, S \ T) \in Nat
        /\ Held(c.entries, S \ T) = Held(c.entries, S) - Held(c.entries, T)
    BY <1>1, SoundSplit
  <2> QED
    BY <2>1
<1> QED
  BY <1>3, <1>4, <1>5, <1>6, <1>7, <1>8, <1>9

\* Entry t may go from c when d is what is left, to make room for s: it expired
\* by now, it is replaced, or all that was used less recently goes too, in the
\* namespace of s if that was full and in the whole cache otherwise.
MayGo(c, d, t, s, charge, now) ==
    \/ t = s
    \/ c.entries[t].expires <= now
    \/ \A u \in DOMAIN c.entries :
          <<u, t>> \in c.older =>
              \/ u = s
              \/ u \notin DOMAIN d.entries
              \/ u[1] # s[1] /\ t[1] = s[1] /\ PressedIn(c, s, charge)

\* What a write does before it inserts: the store stays sound, the entry fits
\* the namespace and the cache, its slot is free, and what went was allowed to
\* (write).
LEMMA RoomMade ==
  ASSUME NEW c, Sound(c), NEW s \in Slots, NEW charge \in Nat,
         charge <= Policy[s[1]].max_bytes, NEW now
  PROVE  LET room == MadeRoom(c, s, charge, now)
         IN  /\ Sound(room) /\ Shrinks(c, room)
             /\ NamespaceFits(room, s[1], charge)
             /\ GlobalFits(room, charge)
             /\ s \notin DOMAIN room.entries
             /\ \A t \in DOMAIN c.entries \ DOMAIN room.entries : MayGo(c, room, t, s, charge, now)
<1> DEFINE n == s[1]
           swept == Dropped(c, Swept(c, n, now))
           replaced == Dropped(swept, {s} \cap DOMAIN swept.entries)
           local == EvictedLocally(replaced, n, charge)
           room == EvictedGlobally(local, n, charge)
<1>1. n \in Namespaces
  BY DEF Slots
<1>2. charge <= MaxTotalBytes
  BY <1>1, CacheAssumption DEF ValidConfig
<1>3. Sound(swept) /\ Shrinks(c, swept)
      /\ \A t \in DOMAIN c.entries \ DOMAIN swept.entries : c.entries[t].expires <= now
  <2>1. Swept(c, n, now) \subseteq {t \in DOMAIN c.entries : c.entries[t].expires <= now}
    BY DEF Swept, Own
  <2>2. Sound(swept)
    BY <2>1, DroppedSound
  <2>3. DOMAIN swept.entries = DOMAIN c.entries \ Swept(c, n, now) /\ Shrinks(c, swept)
    BY DroppedShrinks
  <2> QED
    BY <2>1, <2>2, <2>3
<1> HIDE DEF swept
<1>4. Sound(replaced) /\ Shrinks(swept, replaced) /\ DOMAIN replaced.entries = DOMAIN swept.entries \ {s}
  <2>1. {s} \cap DOMAIN swept.entries \subseteq DOMAIN swept.entries
    OBVIOUS
  <2>2. Sound(replaced)
    BY <1>3, <2>1, DroppedSound
  <2>3. /\ DOMAIN replaced.entries = DOMAIN swept.entries \ ({s} \cap DOMAIN swept.entries)
        /\ Shrinks(swept, replaced)
    BY DroppedShrinks
  <2> QED
    BY <2>2, <2>3
<1> HIDE DEF replaced
<1>5. Sound(local) /\ NamespaceFits(local, n, charge) /\ EvictedIn(replaced, local, Own(replaced, n))
      /\ (NamespaceFits(replaced, n, charge) => local = replaced)
  BY <1>1, <1>4, LocalRoom
<1>6. MadeRoom(c, s, charge, now) = room
  BY <1>5 DEF MadeRoom, swept, replaced
<1> HIDE DEF local
<1>7. Sound(room) /\ GlobalFits(room, charge) /\ EvictedIn(local, room, DOMAIN local.entries)
  BY <1>2, <1>5, GlobalRoom
<1> HIDE DEF room
<1>8. Shrinks(replaced, local) /\ Shrinks(local, room)
  BY <1>5, <1>7 DEF EvictedIn
<1>9. Shrinks(c, replaced) /\ Shrinks(c, local) /\ Shrinks(c, room)
  BY <1>3, <1>4, <1>8, ShrinksTwice
<1>10. NamespaceFits(room, n, charge)
  BY <1>1, <1>5, <1>7, <1>8, ShrunkFits
<1>11. s \notin DOMAIN replaced.entries /\ s \notin DOMAIN room.entries
  BY <1>4, <1>8 DEF Shrinks
<1>12. DOMAIN local.entries # DOMAIN replaced.entries => PressedIn(c, s, charge)
  BY <1>4, <1>5, <1>9, <1>11, PressedBefore
<1>13. ASSUME NEW t \in DOMAIN c.entries \ DOMAIN room.entries
       PROVE  MayGo(c, room, t, s, charge, now)
  <2>1. CASE t \notin DOMAIN swept.entries
    BY <1>3, <2>1 DEF MayGo
  <2>2. CASE t \in DOMAIN swept.entries /\ t \notin DOMAIN replaced.entries
    BY <1>4, <2>2 DEF MayGo
  <2>3. CASE t \in DOMAIN replaced.entries /\ t \notin DOMAIN local.entries
    <3>1. t[1] = n /\ \A u \in Own(replaced, n) : <<u, t>> \in replaced.older => u \notin DOMAIN local.entries
      BY <1>5, <2>3 DEF EvictedIn, Own
    <3>2. PressedIn(c, s, charge)
      BY <1>12, <2>3
    <3> SUFFICES ASSUME NEW u \in DOMAIN c.entries, <<u, t>> \in c.older, u # s,
                        u \in DOMAIN room.entries, u[1] = n
                 PROVE  FALSE
      BY <3>1, <3>2 DEF MayGo
    <3>3. u \in DOMAIN replaced.entries /\ u \in DOMAIN local.entries
      BY <1>8 DEF Shrinks
    <3>4. <<u, t>> \in replaced.older
      BY <1>9, <2>3, <3>3 DEF Shrinks, Among
    <3> QED
      BY <3>1, <3>3, <3>4 DEF Own
  <2>4. CASE t \in DOMAIN local.entries
    <3>1. \A u \in DOMAIN local.entries : <<u, t>> \in local.older => u \notin DOMAIN room.entries
      BY <1>7, <2>4 DEF EvictedIn
    <3> SUFFICES ASSUME NEW u \in DOMAIN c.entries, <<u, t>> \in c.older, u \in DOMAIN room.entries
                 PROVE  FALSE
      BY DEF MayGo
    <3>2. u \in DOMAIN local.entries
      BY <1>8 DEF Shrinks
    <3>3. <<u, t>> \in local.older
      BY <1>9, <2>4, <3>2 DEF Shrinks, Among
    <3> QED
      BY <3>1, <3>2, <3>3
  <2> QED
    BY <2>1, <2>2, <2>3, <2>4
<1> QED
  BY <1>6, <1>7, <1>9, <1>10, <1>11, <1>13

\* The store c keeps its budgets.
Within(c) ==
    /\ c.count <= MaxTotalEntries /\ c.total <= MaxTotalBytes
    /\ \A n \in Namespaces :
          Cardinality(Own(c, n)) <= Policy[n].max_entries /\ c.bytes[n] <= Policy[n].max_bytes

\* A store with less in it keeps the budgets.
LEMMA ShrunkWithin ==
  ASSUME NEW c, Sound(c), Within(c), NEW d, Sound(d), Shrinks(c, d)
  PROVE  Within(d)
<1> DEFINE C == DOMAIN c.entries
           D == DOMAIN d.entries
<1>1. D \in SUBSET C /\ C \subseteq Slots /\ \A s \in D : d.entries[s] = c.entries[s]
  BY DEF Shrinks, Sound
<1>2. ASSUME NEW S \in SUBSET C, NEW T \in SUBSET S, T \subseteq D
      PROVE  /\ Cardinality(T) \in Nat /\ Cardinality(S) \in Nat /\ Cardinality(T) <= Cardinality(S)
             /\ Held(d.entries, T) \in Nat /\ Held(c.entries, S) \in Nat
             /\ Held(d.entries, T) <= Held(c.entries, S)
  <2>1. Cardinality(T) \in Nat /\ Cardinality(S) \in Nat /\ Cardinality(T) <= Cardinality(S)
    BY <1>1, PartFinite, FS_Subset, FS_CardinalityType
  <2>2. T \subseteq Slots /\ \A s \in T : d.entries[s] = c.entries[s]
    BY <1>1, <1>2
  <2>3. Held(d.entries, T) = Held(c.entries, T)
    BY <2>2, HeldSame
  <2>4. /\ Held(c.entries, S) \in Nat
        /\ Held(c.entries, T) \in Nat
        /\ Held(c.entries, S \ T) \in Nat
        /\ Held(c.entries, S \ T) = Held(c.entries, S) - Held(c.entries, T)
    BY SoundSplit
  <2> QED
    BY <2>1, <2>3, <2>4
<1>3. MaxTotalEntries \in Nat /\ MaxTotalBytes \in Nat
  BY CacheAssumption DEF ValidConfig
<1>4. d.count <= MaxTotalEntries /\ d.total <= MaxTotalBytes
  <2>1. /\ Cardinality(D) \in Nat /\ Cardinality(C) \in Nat /\ Cardinality(D) <= Cardinality(C)
        /\ Held(d.entries, D) \in Nat /\ Held(c.entries, C) \in Nat
        /\ Held(d.entries, D) <= Held(c.entries, C)
    BY <1>1, <1>2
  <2>2. /\ c.count = Cardinality(C) /\ c.total = Held(c.entries, C)
        /\ d.count = Cardinality(D) /\ d.total = Held(d.entries, D)
    BY DEF Sound
  <2>3. c.count <= MaxTotalEntries /\ c.total <= MaxTotalBytes
    BY DEF Within
  <2> QED
    BY <1>3, <2>1, <2>2, <2>3
<1>5. ASSUME NEW n \in Namespaces
      PROVE  Cardinality(Own(d, n)) <= Policy[n].max_entries /\ d.bytes[n] <= Policy[n].max_bytes
  <2> DEFINE S == Own(c, n)
             T == Own(d, n)
  <2>1. S \in SUBSET C /\ T \in SUBSET S /\ T \subseteq D
    BY <1>1 DEF Own
  <2>2. /\ Cardinality(T) \in Nat /\ Cardinality(S) \in Nat /\ Cardinality(T) <= Cardinality(S)
        /\ Held(d.entries, T) \in Nat /\ Held(c.entries, S) \in Nat
        /\ Held(d.entries, T) <= Held(c.entries, S)
    <3> HIDE DEF S, T
    <3> QED
      BY <1>2, <2>1
  <2>3. c.bytes[n] = Held(c.entries, S) /\ d.bytes[n] = Held(d.entries, T)
    BY DEF Sound
  <2>4. Cardinality(S) <= Policy[n].max_entries /\ c.bytes[n] <= Policy[n].max_bytes
    BY DEF Within
  <2>5. Policy[n].max_entries \in Nat /\ Policy[n].max_bytes \in Nat
    BY CacheAssumption DEF ValidConfig
  <2> QED
    BY <2>2, <2>3, <2>4, <2>5
<1> QED
  BY <1>4, <1>5 DEF Within

\* The insertion charges the entry where it is counted and exceeds no budget
\* that was checked before (write).
LEMMA InsertedSound ==
  ASSUME NEW c, Sound(c), Within(c), NEW s \in Slots, s \notin DOMAIN c.entries,
         NEW entry \in Entries, NEW charge, charge = Charge(s, entry.value),
         NamespaceFits(c, s[1], charge), GlobalFits(c, charge)
  PROVE  LET d == Inserted(c, s, entry, charge)
         IN  Sound(d) /\ Within(d)
<1> DEFINE d == Inserted(c, s, entry, charge)
           C == DOMAIN c.entries
<1>1. DOMAIN d.entries = C \cup {s} /\ d.entries[s] = entry /\ \A t \in C : d.entries[t] = c.entries[t]
  BY DEF Inserted
<1>2. C \subseteq Slots /\ \A t \in C : c.entries[t] \in Entries
  BY DEF Sound
<1>3. DOMAIN d.entries \subseteq Slots /\ \A t \in DOMAIN d.entries : d.entries[t] \in Entries
  BY <1>1, <1>2
<1>4. OrdersStrictly(d.older, DOMAIN d.entries)
  <2>1. d.older = UsedNow(c.older, C, s)
    BY DEF Inserted
  <2> QED
    BY <1>1, <2>1, UsedNowOrdered DEF Sound
<1>5. charge \in Nat
  BY ChargeNat DEF Entries
<1>6. d.count = c.count + 1 /\ d.total = c.total + charge
      /\ d.bytes = [c.bytes EXCEPT ![s[1]] = @ + charge]
  BY DEF Inserted
<1> HIDE DEF d
<1>7. ASSUME NEW S \in SUBSET C
      PROVE  /\ Held(d.entries, S) = Held(c.entries, S) /\ Held(c.entries, S) \in Nat
             /\ Held(d.entries, S \cup {s}) = Held(c.entries, S) + charge
             /\ Cardinality(S) \in Nat /\ Cardinality(S \cup {s}) = Cardinality(S) + 1
  <2> DEFINE E == d.entries
  <2>1. S \subseteq Slots /\ s \notin S /\ \A t \in S \cup {s} : E[t] \in Entries
    BY <1>1, <1>2
  <2>2. E[s].value = entry.value
    BY <1>1
  <2>3. Held(E, S) = Held(c.entries, S)
    BY <1>1, <1>2, HeldSame, S \subseteq Slots
  <2>4. Held(c.entries, S) \in Nat
    BY SoundSplit, S \in SUBSET S
  <2> HIDE DEF E
  <2>5. Held(E, S \cup {s}) = Held(E, S) + Charge(s, E[s].value)
    BY <2>1, HeldAdd
  <2>6. IsFiniteSet(S)
    BY <2>1, PartFinite
  <2>7. Cardinality(S) \in Nat /\ Cardinality(S \cup {s}) = Cardinality(S) + 1
    BY <2>1, <2>6, FS_AddElement, FS_CardinalityType
  <2> QED
    BY <2>2, <2>3, <2>4, <2>5, <2>7 DEF E
<1>8. d.count = Cardinality(DOMAIN d.entries) /\ d.total = Held(d.entries, DOMAIN d.entries)
  BY <1>1, <1>6, <1>7 DEF Sound
<1>9. MaxTotalEntries \in Nat /\ MaxTotalBytes \in Nat
  BY CacheAssumption DEF ValidConfig
<1>10. d.count <= MaxTotalEntries /\ d.total <= MaxTotalBytes
  <2>1. c.count \in Nat /\ c.total \in Nat
    BY <1>7 DEF Sound
  <2>2. c.count < MaxTotalEntries /\ c.total + charge <= MaxTotalBytes
    BY DEF GlobalFits
  <2> QED
    BY <1>5, <1>6, <1>9, <2>1, <2>2
<1>11. ASSUME NEW n \in Namespaces
       PROVE  /\ d.bytes[n] = Held(d.entries, Own(d, n))
              /\ Cardinality(Own(d, n)) <= Policy[n].max_entries /\ d.bytes[n] <= Policy[n].max_bytes
  <2>1. c.bytes[n] = Held(c.entries, Own(c, n)) /\ DOMAIN c.bytes = Namespaces
    BY DEF Sound
  <2>2. Own(c, n) \in SUBSET C
    BY DEF Own
  <2>3. Policy[n].max_entries \in Nat /\ Policy[n].max_bytes \in Nat
    BY CacheAssumption DEF ValidConfig
  <2>4. CASE n = s[1]
    <3>1. Own(d, n) = Own(c, n) \cup {s}
      BY <1>1, <2>4 DEF Own
    <3>2. d.bytes[n] = c.bytes[n] + charge
      BY <1>6, <2>1, <2>4
    <3>3. Cardinality(Own(c, n)) < Policy[n].max_entries /\ c.bytes[n] + charge <= Policy[n].max_bytes
      BY <2>4 DEF NamespaceFits
    <3>4. /\ Held(d.entries, Own(c, n) \cup {s}) = Held(c.entries, Own(c, n)) + charge
          /\ Cardinality(Own(c, n)) \in Nat
          /\ Cardinality(Own(c, n) \cup {s}) = Cardinality(Own(c, n)) + 1
      BY <1>7, <2>2
    <3> QED
      BY <2>1, <2>3, <3>1, <3>2, <3>3, <3>4
  <2>5. CASE n # s[1]
    <3>1. Own(d, n) = Own(c, n)
      BY <1>1, <2>5 DEF Own
    <3>2. d.bytes[n] = c.bytes[n]
      BY <1>6, <2>1, <2>5
    <3>3. Cardinality(Own(c, n)) <= Policy[n].max_entries /\ c.bytes[n] <= Policy[n].max_bytes
      BY DEF Within
    <3>4. Held(d.entries, Own(c, n)) = Held(c.entries, Own(c, n))
      BY <1>7, <2>2
    <3> QED
      BY <2>1, <3>1, <3>2, <3>3, <3>4
  <2> QED
    BY <2>4, <2>5
<1>12. DOMAIN d.bytes = Namespaces
  BY <1>6 DEF Sound
<1>13. Sound(d)
  BY <1>3, <1>4, <1>8, <1>11, <1>12 DEF Sound
<1>14. Within(d)
  BY <1>10, <1>11 DEF Within
<1> QED
  BY <1>13, <1>14 DEF d

-----------------------------------------------------------------------------
(* The invariant                                                           *)

\* Every entry is the last write of its slot, and expires no later than that
\* write asked for: a write reads the clock before it takes effect.
EntriesCurrent ==
    \A s \in DOMAIN entries :
        /\ latest[s] # Absent
        /\ entries[s].value = latest[s].value
        /\ entries[s].expires <= latest[s].deadline

HistoryOK ==
    /\ clock \in Nat
    /\ latest \in [Slots -> [value : Values, deadline : Nat] \cup {Absent}]
    /\ fault = "none"

IInv == Sound(Cache) /\ Within(Cache) /\ HistoryOK /\ EntriesCurrent

\* Soundness and budgets depend on the five parts of a store only.
LEMMA BecomesSound ==
  ASSUME NEW c, Sound(c), Within(c), Becomes(c)
  PROVE  (Sound(Cache) /\ Within(Cache))'
<1> DEFINE d == Cache'
<1>1. /\ d.entries = c.entries /\ d.older = c.older /\ d.bytes = c.bytes
      /\ d.count = c.count /\ d.total = c.total
  BY DEF Becomes, Cache
<1>2. \A n : Own(d, n) = Own(c, n)
  BY <1>1 DEF Own
<1> HIDE DEF d
<1>3. Sound(d)
  BY <1>1, <1>2 DEF Sound
<1>4. Within(d)
  BY <1>1, <1>2 DEF Within
<1>5. Sound(Cache')
  BY <1>3 DEF d
<1>6. Within(Cache')
  BY <1>4 DEF d
<1> QED
  BY <1>5, <1>6 DEF Sound, Within

\* Dropping entries of the cache keeps the invariant, if the writes that are
\* remembered of the others are the same (get, delete).
LEMMA DropKeeps ==
  ASSUME IInv, NEW S \in SUBSET (DOMAIN entries), Becomes(Dropped(Cache, S)), HistoryOK',
         \A s \in Slots \ S : latest'[s] = latest[s]
  PROVE  IInv'
<1>1. Cache.entries = entries
  BY DEF Cache
<1>2. Sound(Dropped(Cache, S))
  BY <1>1, DroppedSound DEF IInv
<1>3. Shrinks(Cache, Dropped(Cache, S)) /\ DOMAIN Dropped(Cache, S).entries = DOMAIN entries \ S
  BY <1>1, DroppedShrinks
<1>4. Within(Dropped(Cache, S))
  BY <1>2, <1>3, ShrunkWithin DEF IInv
<1>5. (Sound(Cache) /\ Within(Cache))'
  BY <1>2, <1>4, BecomesSound
<1>6. DOMAIN entries' = DOMAIN entries \ S /\ \A s \in DOMAIN entries' : entries'[s] = entries[s]
  BY <1>1, <1>3 DEF Becomes, Shrinks
<1>7. DOMAIN entries \subseteq Slots
  BY <1>1 DEF IInv, Sound
<1>8. EntriesCurrent'
  BY <1>6, <1>7 DEF IInv, EntriesCurrent
<1> QED
  BY <1>5, <1>8 DEF IInv

\* An entry that passes the checks of a write is charged no more than an empty
\* namespace admits (NamespacePolicy::validate).
LEMMA AllowedCharge ==
  ASSUME NEW s \in Slots, NEW v \in Values, NEW ttl, NEW writer, WriteAllowed(s, v, ttl, writer)
  PROVE  /\ Charge(s, v) \in Nat /\ Charge(s, v) <= Policy[s[1]].max_bytes
         /\ ttl \in Nat
<1>1. s[1] \in Namespaces /\ s[2] \in Keys
  BY DEF Slots
<1>2. /\ KeyBytes[s[2]] \in Nat /\ ValueBytes[v] \in Nat /\ EntryOverhead \in Nat
      /\ Policy[s[1]].max_key_bytes \in Nat /\ Policy[s[1]].max_value_bytes \in Nat
      /\ Policy[s[1]].max_bytes \in Nat /\ Policy[s[1]].max_ttl \in Nat
      /\ Policy[s[1]].max_key_bytes + Policy[s[1]].max_value_bytes + EntryOverhead
            <= Policy[s[1]].max_bytes
  BY <1>1, CacheAssumption DEF ValidConfig
<1>3. KeyBytes[s[2]] <= Policy[s[1]].max_key_bytes /\ ValueBytes[v] <= Policy[s[1]].max_value_bytes
      /\ ttl \in 1..Policy[s[1]].max_ttl
  BY DEF WriteAllowed
<1> QED
  BY <1>2, <1>3 DEF Charge

\* A write finds room, and inserts its entry into what is left (put, seed).
LEMMA WriteInserts ==
  ASSUME IInv, NEW s \in Slots, NEW v \in Values, NEW now \in Readings, Write(s, v, now)
  PROVE  LET room == MadeRoom(Cache, s, Charge(s, v), now)
         IN  /\ Charge(s, v) \in Nat /\ Charge(s, v) <= Policy[s[1]].max_bytes
             /\ \E ttl \in Nat :
                   LET entry == [value |-> v, expires |-> now + ttl]
                   IN  /\ Becomes(Inserted(room, s, entry, Charge(s, v)))
                       /\ Sound(Inserted(room, s, entry, Charge(s, v)))
                       /\ Within(Inserted(room, s, entry, Charge(s, v)))
                       /\ latest' = [latest EXCEPT ![s] = [value |-> v, deadline |-> clock + ttl]]
                       /\ UNCHANGED <<fault, clock>>
<1> DEFINE charge == Charge(s, v)
           room == MadeRoom(Cache, s, charge, now)
<1>1. PICK ttl \in Ttls :
         /\ {writer \in Writers : WriteAllowed(s, v, ttl, writer)} # {}
         /\ UNCHANGED clock
         /\ NamespaceFits(room, s[1], charge) /\ GlobalFits(room, charge) =>
               /\ Becomes(Inserted(room, s, [value |-> v, expires |-> now + ttl], charge))
               /\ latest' = [latest EXCEPT ![s] = [value |-> v, deadline |-> clock + ttl]]
               /\ UNCHANGED fault
  BY DEF Write
<1>2. PICK writer \in Writers : WriteAllowed(s, v, ttl, writer)
  BY <1>1
<1>3. charge \in Nat /\ charge <= Policy[s[1]].max_bytes /\ ttl \in Nat
  BY <1>2, AllowedCharge
<1> HIDE DEF charge
<1>4. /\ Sound(room) /\ Shrinks(Cache, room)
      /\ NamespaceFits(room, s[1], charge) /\ GlobalFits(room, charge)
      /\ s \notin DOMAIN room.entries
  BY <1>3, RoomMade DEF IInv
<1>5. Within(room)
  BY <1>4, ShrunkWithin DEF IInv
<1> DEFINE entry == [value |-> v, expires |-> now + ttl]
<1>6. entry \in Entries /\ charge = Charge(s, entry.value)
  BY <1>3 DEF Entries, Readings, charge, IInv, HistoryOK
<1> HIDE DEF room, entry
<1>7. Sound(Inserted(room, s, entry, charge)) /\ Within(Inserted(room, s, entry, charge))
  BY <1>4, <1>5, <1>6, InsertedSound
<1> QED
  BY <1>1, <1>3, <1>4, <1>7 DEF room, entry, charge

\* A write keeps the invariant.
LEMMA WriteKeeps ==
  ASSUME IInv, NEW s \in Slots, NEW v \in Values, NEW now \in Readings, Write(s, v, now)
  PROVE  IInv'
<1> DEFINE charge == Charge(s, v)
           room == MadeRoom(Cache, s, charge, now)
<1>1. PICK ttl \in Nat :
         /\ Becomes(Inserted(room, s, [value |-> v, expires |-> now + ttl], charge))
         /\ Sound(Inserted(room, s, [value |-> v, expires |-> now + ttl], charge))
         /\ Within(Inserted(room, s, [value |-> v, expires |-> now + ttl], charge))
         /\ latest' = [latest EXCEPT ![s] = [value |-> v, deadline |-> clock + ttl]]
         /\ UNCHANGED <<fault, clock>>
  BY WriteInserts
<1>2. Shrinks(Cache, room) /\ Cache.entries = entries
  <2>1. charge \in Nat /\ charge <= Policy[s[1]].max_bytes
    BY WriteInserts
  <2>2. Shrinks(Cache, room)
    BY <2>1, RoomMade DEF IInv
  <2> QED
    BY <2>2 DEF Cache
<1> DEFINE entry == [value |-> v, expires |-> now + ttl]
<1>3. entries' = [t \in DOMAIN room.entries \cup {s} |-> IF t = s THEN entry ELSE room.entries[t]]
  BY <1>1 DEF Becomes, Inserted
<1>4. (Sound(Cache) /\ Within(Cache))'
  <2> HIDE DEF entry, room, charge
  <2> QED
    BY <1>1, BecomesSound DEF entry
<1>5. HistoryOK'
  BY <1>1 DEF HistoryOK, IInv
<1>6. EntriesCurrent'
  <2>1. clock \in Nat /\ now \in Nat /\ now <= clock /\ latest \in [Slots -> [value : Values, deadline : Nat] \cup {Absent}]
    BY DEF IInv, HistoryOK, Readings
  <2>2. latest'[s] = [value |-> v, deadline |-> clock + ttl] /\ latest'[s] # Absent
        /\ \A t \in Slots \ {s} : latest'[t] = latest[t]
    BY <1>1, <2>1, CacheAssumption
  <2>3. \A t \in DOMAIN room.entries : t \in DOMAIN entries /\ t \in Slots /\ room.entries[t] = entries[t]
    BY <1>2 DEF Shrinks, IInv, Sound
  <2>4. entries'[s].value = v /\ entries'[s].expires = now + ttl
    BY <1>3
  <2>5. entries'[s].value = latest'[s].value /\ entries'[s].expires <= latest'[s].deadline
    BY <2>1, <2>2, <2>4
  <2>6. DOMAIN entries' = DOMAIN room.entries \cup {s}
        /\ \A t \in DOMAIN room.entries \ {s} : entries'[t] = room.entries[t]
    BY <1>3
  <2> HIDE DEF room
  <2>7. \A t \in DOMAIN entries' \ {s} :
           /\ latest'[t] # Absent
           /\ entries'[t].value = latest'[t].value
           /\ entries'[t].expires <= latest'[t].deadline
    BY <2>2, <2>3, <2>6 DEF IInv, EntriesCurrent
  <2> QED
    BY <2>2, <2>5, <2>7 DEF EntriesCurrent
<1> QED
  BY <1>4, <1>5, <1>6 DEF IInv

\* The empty cache of Cache::new.
LEMMA InitKeeps == Init => IInv
<1> SUFFICES ASSUME Init PROVE IInv
  OBVIOUS
<1>1. /\ DOMAIN Cache.entries = {} /\ Cache.older = {} /\ Cache.count = 0 /\ Cache.total = 0
      /\ Cache.bytes = [n \in Namespaces |-> 0] /\ \A n : Own(Cache, n) = {}
  BY DEF Init, Cache, Own
<1>2. Cardinality({}) = 0
  BY FS_EmptySet
<1>3. OrdersStrictly({}, {})
  BY DEF OrdersStrictly
<1> DEFINE c == Cache
<1>4. Sound(c)
  <2> HIDE DEF c
  <2> QED
    BY <1>1, <1>2, <1>3, HeldEmpty DEF Sound, c
<1>5. Within(c)
  <2>1. MaxTotalEntries \in Nat /\ MaxTotalBytes \in Nat
        /\ \A n \in Namespaces : Policy[n].max_entries \in Nat /\ Policy[n].max_bytes \in Nat
    BY CacheAssumption DEF ValidConfig
  <2> HIDE DEF c
  <2>2. c.count = 0 /\ c.total = 0 /\ \A n \in Namespaces : c.bytes[n] = 0 /\ Own(c, n) = {}
    BY <1>1 DEF c
  <2>3. c.count <= MaxTotalEntries /\ c.total <= MaxTotalBytes
    BY <2>1, <2>2
  <2>4. ASSUME NEW n \in Namespaces
        PROVE  Cardinality(Own(c, n)) <= Policy[n].max_entries /\ c.bytes[n] <= Policy[n].max_bytes
    <3>1. Cardinality(Own(c, n)) = 0 /\ c.bytes[n] = 0
      BY <1>2, <2>2
    <3> QED
      BY <2>1, <3>1
  <2> QED
    BY <2>3, <2>4 DEF Within
<1>6. HistoryOK
  BY DEF Init, HistoryOK
<1>7. EntriesCurrent
  BY DEF Init, EntriesCurrent
<1> QED
  BY <1>4, <1>5, <1>6, <1>7 DEF IInv

\* The first hit that is not fresh never happens (get).
LEMMA HitFresh ==
  ASSUME IInv, NEW s \in Slots, NEW now \in Readings, GetHit(s, now)
  PROVE  fault' = "none"
<1>1. clock \in Nat /\ now \in Nat /\ latest \in [Slots -> [value : Values, deadline : Nat] \cup {Absent}]
      /\ fault = "none"
  BY DEF IInv, HistoryOK, Readings
<1>2. s \in DOMAIN entries /\ ~(entries[s].expires <= now)
  BY DEF GetHit, Expired
<1>3. entries[s] \in Entries
  BY <1>2 DEF IInv, Sound, Cache
<1>4. latest[s] # Absent /\ entries[s].value = latest[s].value /\ entries[s].expires <= latest[s].deadline
  BY <1>2 DEF IInv, EntriesCurrent
<1>5. latest[s] \in [value : Values, deadline : Nat]
  BY <1>1, <1>4
<1>6. Fresh(s, entries[s].value, now)
  BY <1>1, <1>2, <1>3, <1>4, <1>5 DEF Fresh, Entries
<1> QED
  BY <1>1, <1>6 DEF GetHit

\* Every step of the cache keeps the invariant.
LEMMA StepKeeps == IInv /\ [Next]_vars => IInv'
<1> SUFFICES ASSUME IInv, [Next]_vars PROVE IInv'
  OBVIOUS
<1>0. HistoryOK /\ Cache.entries = entries
  BY DEF IInv, Cache
<1>1. ASSUME NEW s \in Slots, Delete(s) PROVE IInv'
  <2>1. HistoryOK'
    BY <1>0, <1>1 DEF Delete, HistoryOK
  <2>2. \A t \in Slots \ {s} : latest'[t] = latest[t]
    BY <1>0, <1>1 DEF Delete, HistoryOK
  <2>3. Becomes(Dropped(Cache, {s} \cap DOMAIN entries)) /\ {s} \cap DOMAIN entries \in SUBSET (DOMAIN entries)
    BY <1>1 DEF Delete
  <2>4. CASE s \in DOMAIN entries
    BY <2>1, <2>2, <2>3, <2>4, DropKeeps, {s} \cap DOMAIN entries = {s}
  <2>5. CASE s \notin DOMAIN entries
    <3> DEFINE d == Dropped(Cache, {})
    <3>1. {s} \cap DOMAIN entries = {} /\ Becomes(d)
      BY <2>3, <2>5
    <3>2. Sound(d)
      BY DroppedSound DEF IInv
    <3>3. Shrinks(Cache, d) /\ DOMAIN d.entries = DOMAIN entries
      <4>1. Shrinks(Cache, d) /\ DOMAIN d.entries = DOMAIN Cache.entries \ {}
        BY DroppedShrinks
      <4> QED
        BY <1>0, <4>1
    <3>4. Within(d)
      BY <3>2, <3>3, ShrunkWithin DEF IInv
    <3> HIDE DEF d
    <3>5. (Sound(Cache) /\ Within(Cache))'
      BY <3>1, <3>2, <3>4, BecomesSound
    <3>6. DOMAIN entries' = DOMAIN entries /\ \A t \in DOMAIN entries : entries'[t] = entries[t]
      BY <1>0, <3>1, <3>3 DEF Becomes, Shrinks
    <3>7. DOMAIN entries \subseteq Slots
      BY <1>0 DEF IInv, Sound
    <3>8. EntriesCurrent'
      BY <2>2, <2>5, <3>6, <3>7 DEF IInv, EntriesCurrent
    <3> QED
      BY <2>1, <3>5, <3>8 DEF IInv
  <2> QED
    BY <2>4, <2>5
<1>2. ASSUME NEW s \in Slots, NEW now \in Readings, GetExpired(s, now) PROVE IInv'
  <2>1. HistoryOK' /\ \A t \in Slots : latest'[t] = latest[t]
    BY <1>0, <1>2 DEF GetExpired, HistoryOK
  <2>2. Becomes(Dropped(Cache, {s})) /\ {s} \in SUBSET (DOMAIN entries)
    BY <1>2 DEF GetExpired
  <2> QED
    BY <2>1, <2>2, DropKeeps
<1>3. ASSUME NEW s \in Slots, NEW now \in Readings, GetHit(s, now) PROVE IInv'
  <2>1. fault' = "none"
    BY <1>3, HitFresh
  <2>2. HistoryOK' /\ EntriesCurrent'
    BY <1>0, <1>3, <2>1 DEF GetHit, HistoryOK, EntriesCurrent, IInv
  <2> DEFINE c == Cache
             d == [c EXCEPT !.older = UsedNow(older, DOMAIN entries, s)]
  <2>3. /\ d.entries = c.entries /\ d.bytes = c.bytes /\ d.count = c.count /\ d.total = c.total
        /\ d.older = UsedNow(c.older, DOMAIN c.entries, s)
    BY DEF Cache
  <2>4. \A n : Own(d, n) = Own(c, n)
    BY <2>3 DEF Own
  <2>5. Becomes(d)
    BY <1>3 DEF Becomes, GetHit, Cache
  <2>6. s \in DOMAIN c.entries
    BY <1>0, <1>3 DEF GetHit
  <2>7. Sound(c) /\ Within(c)
    BY DEF IInv
  <2> HIDE DEF c, d
  <2>8. OrdersStrictly(d.older, DOMAIN d.entries)
    <3>1. OrdersStrictly(c.older, DOMAIN c.entries) /\ DOMAIN c.entries \cup {s} = DOMAIN c.entries
      BY <2>6, <2>7 DEF Sound
    <3>2. OrdersStrictly(UsedNow(c.older, DOMAIN c.entries, s), DOMAIN c.entries \cup {s})
      BY <3>1, UsedNowOrdered
    <3> QED
      BY <2>3, <3>1, <3>2
  <2>9. Sound(d) /\ Within(d)
    BY <2>3, <2>4, <2>7, <2>8 DEF Sound, Within
  <2> QED
    BY <2>2, <2>5, <2>9, BecomesSound DEF IInv
<1>4. ASSUME NEW s \in Slots, NEW now \in Readings, NEW v \in Values, Write(s, v, now) PROVE IInv'
  BY <1>4, WriteKeeps
<1>5. ASSUME UNCHANGED <<cached, latest, fault>>, clock' \in Nat PROVE IInv'
  <2>1. Cache' = Cache
    BY <1>5 DEF Cache, cached
  <2>2. (Sound(Cache) /\ Within(Cache))'
    BY <2>1 DEF IInv
  <2>3. HistoryOK' /\ EntriesCurrent'
    BY <1>0, <1>5 DEF HistoryOK, EntriesCurrent, IInv, cached
  <2> QED
    BY <2>2, <2>3 DEF IInv
<1>6. CASE Tick
  BY <1>0, <1>5, <1>6 DEF Tick, HistoryOK
<1>7. CASE UNCHANGED vars
  BY <1>0, <1>5, <1>7 DEF vars, HistoryOK
<1> QED
  BY <1>1, <1>2, <1>3, <1>4, <1>6, <1>7 DEF Next

\* The invariant holds in every reachable state.
THEOREM Invariance == Spec => []IInv
<1>1. Init => IInv
  BY InitKeeps
<1>2. IInv /\ [Next]_vars => IInv'
  BY StepKeeps
<1> QED
  BY <1>1, <1>2, PTL DEF Spec

\* For every configuration that validates, and however operations with lagging
\* clocks follow one another, the counters of the cache are exact, neither a
\* namespace nor the cache exceeds its budgets, and a write that passes its
\* checks always finds room (write, remove, release, evict_one,
\* evict_globally).
THEOREM BudgetsStayExact == Spec => []BudgetsExact
<1>1. IInv => BudgetsExact
  <2> SUFFICES ASSUME IInv PROVE BudgetsExact
    OBVIOUS
  <2>1. /\ Cache.entries = entries /\ Cache.older = older /\ Cache.bytes = bytes
        /\ Cache.count = total_entries /\ Cache.total = total_bytes
    BY DEF Cache
  <2>2. Sound(Cache) /\ Within(Cache)
    BY DEF IInv
  <2>3. AccountingExact
    BY <2>1, <2>2 DEF Sound, AccountingExact
  <2>4. WithinBudgets
    BY <2>1, <2>2 DEF Sound, Within, WithinBudgets
  <2>5. ValidWriteFits
    BY DEF IInv, HistoryOK, ValidWriteFits
  <2> QED
    BY <2>3, <2>4, <2>5 DEF BudgetsExact
<1> QED
  BY <1>1, Invariance, PTL

\* A hit never returns a value that was overwritten or deleted, or that the
\* reader's clock had passed the time to live of (get).
THEOREM HitsStayFresh == Spec => []HitsAreFresh
<1>1. IInv => HitsAreFresh
  BY DEF IInv, HistoryOK, HitsAreFresh
<1> QED
  BY <1>1, Invariance, PTL

\* A write evicts an entry that is still live only together with all that were
\* used less recently: in its own namespace when that was full, and in the
\* whole cache otherwise (write, evict_one, evict_globally).
THEOREM EvictionFollowsUse == Spec => EvictsLeastRecent
<1> DEFINE evicted == {s \in DOMAIN entries \ DOMAIN entries' :
                          entries[s].expires > clock /\ latest'[s] # Absent}
           Answer(s, t) ==
               \E d \in DOMAIN entries' :
                   /\ (DOMAIN entries' \ {d}) \X {d} \subseteq older'
                   /\ \/ s = d
                      \/ s \notin DOMAIN entries'
                      \/ s[1] # d[1] /\ t[1] = d[1] /\ Presses(d, entries'[d])
           Follows == \A s \in DOMAIN entries, t \in evicted : <<s, t>> \in older => Answer(s, t)
<1>1. ASSUME IInv, [Next]_vars PROVE Follows \/ UNCHANGED vars
  <2>0. /\ clock \in Nat /\ latest \in [Slots -> [value : Values, deadline : Nat] \cup {Absent}]
        /\ DOMAIN entries \subseteq Slots /\ (\A t \in DOMAIN entries : entries[t] \in Entries)
        /\ Cache.entries = entries /\ Cache.older = older
    BY <1>1 DEF IInv, HistoryOK, Sound, Cache
  <2>1. ASSUME NEW d \in Slots, Delete(d) PROVE evicted = {}
    <3>1. DOMAIN entries' = DOMAIN entries \ ({d} \cap DOMAIN entries)
      BY <2>0, <2>1, DroppedShrinks DEF Delete, Becomes
    <3>2. latest'[d] = Absent
      BY <2>0, <2>1 DEF Delete
    <3> QED
      BY <3>1, <3>2
  <2>2. ASSUME NEW d \in Slots, NEW now \in Readings, GetExpired(d, now) PROVE evicted = {}
    <3>1. DOMAIN entries' = DOMAIN entries \ {d}
      BY <2>0, <2>2, DroppedShrinks DEF GetExpired, Becomes
    <3>2. d \in DOMAIN entries /\ entries[d].expires <= now /\ now \in Nat /\ now <= clock
      BY <2>0, <2>2 DEF GetExpired, Expired, Readings
    <3>3. entries[d].expires \in Nat
      BY <2>0, <3>2 DEF Entries
    <3> QED
      BY <2>0, <3>1, <3>2, <3>3
  <2>3. ASSUME NEW d \in Slots, NEW now \in Readings, NEW v \in Values, Write(d, v, now) PROVE Follows
    <3> DEFINE charge == Charge(d, v)
               room == MadeRoom(Cache, d, charge, now)
    <3>1. charge \in Nat /\ charge <= Policy[d[1]].max_bytes
      BY <1>1, <2>3, WriteInserts
    <3>2. PICK ttl \in Nat :
             Becomes(Inserted(room, d, [value |-> v, expires |-> now + ttl], charge))
      BY <1>1, <2>3, WriteInserts
    <3>3. /\ DOMAIN entries' = DOMAIN room.entries \cup {d}
          /\ entries'[d].value = v
          /\ older' = UsedNow(room.older, DOMAIN room.entries, d)
      BY <3>2 DEF Becomes, Inserted
    <3>4. /\ Sound(room) /\ Shrinks(Cache, room)
          /\ \A t \in DOMAIN entries \ DOMAIN room.entries : MayGo(Cache, room, t, d, charge, now)
      BY <1>1, <2>0, <3>1, RoomMade DEF IInv
    <3>5. (DOMAIN entries' \ {d}) \X {d} \subseteq older'
      BY <3>3, <3>4, UsedNowOrdered DEF Sound
    <3>6. PressedIn(Cache, d, charge) => Presses(d, entries'[d])
      BY <2>0, <3>3 DEF PressedIn, Presses
    <3>7. now \in Nat /\ now <= clock
      BY <2>0 DEF Readings
    <3> HIDE DEF room, charge
    <3>8. ASSUME NEW s \in DOMAIN entries, NEW t \in evicted, <<s, t>> \in older
          PROVE  Answer(s, t)
      <4>1. t \in DOMAIN entries /\ t \notin DOMAIN room.entries /\ t # d
            /\ entries[t].expires > clock
        BY <3>3
      <4>2. ~(entries[t].expires <= now)
        BY <2>0, <3>7, <4>1 DEF Entries
      <4>3. MayGo(Cache, room, t, d, charge, now)
        BY <3>4, <4>1
      <4>4. \/ s = d
            \/ s \notin DOMAIN room.entries
            \/ s[1] # d[1] /\ t[1] = d[1] /\ PressedIn(Cache, d, charge)
        BY <2>0, <3>8, <4>1, <4>2, <4>3 DEF MayGo
      <4>5. d \in DOMAIN entries'
        BY <3>3
      <4> QED
        BY <3>3, <3>5, <3>6, <4>4, <4>5
    <3> QED
      BY <3>8
  <2>4. ASSUME UNCHANGED entries PROVE evicted = {}
    BY <2>4
  <2>5. ASSUME NEW d \in Slots, NEW now \in Readings, GetHit(d, now) PROVE evicted = {}
    BY <2>4, <2>5 DEF GetHit
  <2>6. CASE Tick
    BY <2>4, <2>6 DEF Tick, cached
  <2>7. CASE UNCHANGED vars
    BY <2>7
  <2>8. evicted = {} => Follows
    OBVIOUS
  <2> HIDE DEF evicted, Follows
  <2> QED
    BY <1>1, <2>1, <2>2, <2>3, <2>5, <2>6, <2>7, <2>8 DEF Next
<1>2. IInv /\ [Next]_vars => [EvictsInOrder]_vars
  BY <1>1 DEF EvictsInOrder
<1> QED
  BY <1>2, Invariance, PTL DEF Spec, EvictsLeastRecent
=============================================================================
