--------------------------- MODULE RateCacheProofs ---------------------------
(***************************************************************************)
(* What the cache operations preserve, for any set of entries E: the       *)
(* proofs about the canister instantiate E with the entries that are       *)
(* sound at the time.                                                      *)
(***************************************************************************)
EXTENDS RateCache, SequenceTheorems, TLAPS

(* Position finds an entry whenever there is one of that key. *)
LEMMA PositionFinds ==
    ASSUME NEW cache, NEW symbol, NEW timestamp, Has(cache, symbol, timestamp)
    PROVE  /\ Position(cache, symbol, timestamp) \in 1..Len(cache)
           /\ Matches(cache[Position(cache, symbol, timestamp)], symbol, timestamp)
  BY DEF Has, Position

(* Taking an entry out leaves a sequence of the same entries, one shorter. *)
LEMMA RemoveAtShortens ==
    ASSUME NEW E, NEW s \in Seq(E), NEW p \in 1..Len(s)
    PROVE  /\ RemoveAt(s, p) \in Seq(E)
           /\ Len(RemoveAt(s, p)) = Len(s) - 1
           /\ \A i \in 1..Len(s) - 1 :
                 RemoveAt(s, p)[i] = IF i < p THEN s[i] ELSE s[i + 1]
<1>1. /\ SubSeq(s, 1, p - 1) \in Seq(E)
      /\ Len(SubSeq(s, 1, p - 1)) = p - 1
      /\ \A i \in 1..p - 1 : SubSeq(s, 1, p - 1)[i] = s[i]
  <2>1. \A i \in 1..p - 1 : s[i] \in E
    BY ElementOfSeq
  <2>2. QED
    BY <2>1, SubSeqProperties
<1>2. /\ SubSeq(s, p + 1, Len(s)) \in Seq(E)
      /\ Len(SubSeq(s, p + 1, Len(s))) = Len(s) - p
      /\ \A i \in 1..Len(s) - p : SubSeq(s, p + 1, Len(s))[i] = s[p + i]
  <2>1. \A i \in p + 1..Len(s) : s[i] \in E
    BY ElementOfSeq
  <2>2. QED
    BY <2>1, SubSeqProperties
<1> DEFINE a == SubSeq(s, 1, p - 1)
           b == SubSeq(s, p + 1, Len(s))
<1>3. /\ a \o b \in Seq(E)
      /\ Len(a \o b) = Len(a) + Len(b)
      /\ \A i \in 1..Len(a) + Len(b) : (a \o b)[i] = IF i <= Len(a) THEN a[i] ELSE b[i - Len(a)]
  <2> HIDE DEF a, b
  <2>1. a \in Seq(E) /\ b \in Seq(E)
    BY <1>1, <1>2 DEF a, b
  <2>2. QED
    BY <2>1, ConcatProperties
<1>4. RemoveAt(s, p) = a \o b
  BY DEF RemoveAt
<1>5. Len(s) \in Nat
  BY LenProperties
<1>6. Len(a) = p - 1 /\ Len(b) = Len(s) - p
  BY <1>1, <1>2
<1>7. ASSUME NEW i \in 1..Len(s) - 1
      PROVE  (a \o b)[i] = IF i < p THEN s[i] ELSE s[i + 1]
  <2> HIDE DEF a, b
  <2>1. (a \o b)[i] = IF i <= p - 1 THEN a[i] ELSE b[i - (p - 1)]
    BY <1>3, <1>5, <1>6
  <2>2. CASE i < p
    <3>1. a[i] = s[i]
      BY <1>1, <1>5, <2>2 DEF a
    <3>2. QED
      BY <1>5, <2>1, <2>2, <3>1
  <2>3. CASE ~(i < p)
    <3>1. i - (p - 1) \in 1..Len(s) - p /\ p + (i - (p - 1)) = i + 1
      BY <1>5, <2>3
    <3>2. b[i - (p - 1)] = s[i + 1]
      BY <1>2, <3>1 DEF b
    <3>3. QED
      BY <1>5, <2>1, <2>3, <3>2
  <2>4. QED
    BY <2>2, <2>3
<1>8. Len(a \o b) = Len(s) - 1
  <2> HIDE DEF a, b
  <2>1. QED
    BY <1>3, <1>5, <1>6
<1>9. QED
  <2> HIDE DEF a, b
  <2>1. QED
    BY <1>3, <1>4, <1>7, <1>8

(* A lookup changes the order of the entries only. *)
LEMMA TouchKeepsEntries ==
    ASSUME NEW E, NEW cache \in Seq(E), NEW symbol, NEW timestamp
    PROVE  /\ Touch(cache, symbol, timestamp) \in Seq(E)
           /\ Len(Touch(cache, symbol, timestamp)) = Len(cache)
<1>1. CASE Has(cache, symbol, timestamp)
  <2> DEFINE p == Position(cache, symbol, timestamp)
  <2>1. p \in 1..Len(cache)
    BY <1>1, PositionFinds
  <2>2. cache[p] \in E
    BY <2>1, ElementOfSeq
  <2>3. RemoveAt(cache, p) \in Seq(E) /\ Len(RemoveAt(cache, p)) = Len(cache) - 1
    BY <2>1, RemoveAtShortens
  <2>4. /\ Append(RemoveAt(cache, p), cache[p]) \in Seq(E)
        /\ Len(Append(RemoveAt(cache, p), cache[p])) = Len(cache)
    BY <2>2, <2>3, AppendProperties
  <2>5. QED
    BY <1>1, <2>4 DEF Touch
<1>2. CASE ~Has(cache, symbol, timestamp)
  BY <1>2 DEF Touch
<1>3. QED
  BY <1>1, <1>2

LEMMA AfterGetKeepsEntries ==
    ASSUME NEW E, NEW cache \in Seq(E), NEW symbol, NEW timestamp
    PROVE  /\ AfterGet(cache, symbol, timestamp) \in Seq(E)
           /\ Len(AfterGet(cache, symbol, timestamp)) = Len(cache)
  BY TouchKeepsEntries DEF AfterGet

(* Putting an entry keeps the cache within its capacity. *)
LEMMA PutBounded ==
    ASSUME NEW E, NEW cache \in Seq(E), Len(cache) <= Capacity, NEW entry \in E
    PROVE  /\ Put(cache, entry) \in Seq(E)
           /\ Len(Put(cache, entry)) <= Capacity
<1> DEFINE p == Position(cache, entry.symbol, entry.timestamp)
           room == IF Has(cache, entry.symbol, entry.timestamp)
                   THEN RemoveAt(cache, p)
                   ELSE IF Len(cache) = Capacity THEN Tail(cache) ELSE cache
<1>1. room \in Seq(E) /\ Len(room) < Capacity
  <2>1. CASE Has(cache, entry.symbol, entry.timestamp)
    <3>1. p \in 1..Len(cache)
      BY <2>1, PositionFinds
    <3>2. RemoveAt(cache, p) \in Seq(E) /\ Len(RemoveAt(cache, p)) = Len(cache) - 1
      BY <3>1, RemoveAtShortens
    <3>3. QED
      BY <2>1, <3>2, CapacityAssumption
  <2>2. CASE ~Has(cache, entry.symbol, entry.timestamp) /\ Len(cache) = Capacity
    <3>1. cache # <<>>
      BY <2>2, CapacityAssumption
    <3>2. QED
      BY <2>2, <3>1, HeadTailProperties, CapacityAssumption
  <2>3. CASE ~Has(cache, entry.symbol, entry.timestamp) /\ Len(cache) # Capacity
    BY <2>3, CapacityAssumption
  <2>4. QED
    BY <2>1, <2>2, <2>3
<1>2. Append(room, entry) \in Seq(E) /\ Len(Append(room, entry)) = Len(room) + 1
  BY <1>1, AppendProperties
<1>3. Put(cache, entry) = Append(room, entry)
  BY DEF Put
<1>4. QED
  BY <1>1, <1>2, <1>3, CapacityAssumption

(* Inserting adds at most the entry given, and only one worth keeping. *)
LEMMA InsertBounded ==
    ASSUME NEW E, NEW cache \in Seq(E), Len(cache) <= Capacity,
           NEW symbol, NEW timestamp, NEW rates,
           rates > 0 /\ symbol # USDT =>
               [symbol |-> symbol, timestamp |-> timestamp, rates |-> rates] \in E
    PROVE  /\ Insert(cache, symbol, timestamp, rates) \in Seq(E)
           /\ Len(Insert(cache, symbol, timestamp, rates)) <= Capacity
  BY PutBounded DEF Insert

(* What a lookup finds is the rate of an entry, or one source for USDT. *)
LEMMA GetFinds ==
    ASSUME NEW E, NEW cache \in Seq(E), \A e \in E : e.rates \in Nat,
           NEW symbol, NEW timestamp
    PROVE  Get(cache, symbol, timestamp) \in Nat
  BY PositionFinds, ElementOfSeq DEF Get, NoRate

-----------------------------------------------------------------------------
(* No operation makes two entries of one key. *)

Free(s, entry) == \A i \in 1..Len(s) : ~Matches(s[i], entry.symbol, entry.timestamp)

LEMMA RemoveAtKeepsKeys ==
    ASSUME NEW E, NEW s \in Seq(E), NEW p \in 1..Len(s), OneEntryPerKey(s)
    PROVE  OneEntryPerKey(RemoveAt(s, p)) /\ Free(RemoveAt(s, p), s[p])
<1> DEFINE r == RemoveAt(s, p)
           from(i) == IF i < p THEN i ELSE i + 1
<1>1. Len(s) \in Nat
  BY LenProperties
<1>2. Len(r) = Len(s) - 1 /\ \A i \in 1..Len(s) - 1 : r[i] = s[from(i)]
  <2>1. \A i \in 1..Len(s) - 1 : r[i] = IF i < p THEN s[i] ELSE s[i + 1]
    BY RemoveAtShortens
  <2>2. QED
    BY <2>1, RemoveAtShortens
<1>3. ASSUME NEW i \in 1..Len(s) - 1
      PROVE  /\ from(i) \in 1..Len(s) /\ from(i) # p
             /\ \A j \in 1..Len(s) - 1 : i # j => from(i) # from(j)
  BY <1>1
<1> HIDE DEF r, from
<1>4. QED
  BY <1>2, <1>3 DEF OneEntryPerKey, Free, r

LEMMA AppendKeepsKeys ==
    ASSUME NEW E, NEW s \in Seq(E), NEW entry \in E, OneEntryPerKey(s), Free(s, entry)
    PROVE  OneEntryPerKey(Append(s, entry))
<1> DEFINE a == Append(s, entry)
<1>1. /\ Len(s) \in Nat /\ Len(a) = Len(s) + 1
      /\ \A i \in 1..Len(s) : a[i] = s[i]
      /\ a[Len(s) + 1] = entry
  BY AppendProperties, LenProperties
<1> HIDE DEF a
<1>2. ASSUME NEW i \in 1..Len(a), NEW j \in 1..Len(a), i # j
      PROVE  ~Matches(a[i], a[j].symbol, a[j].timestamp)
  <2>1. CASE i \in 1..Len(s) /\ j \in 1..Len(s)
    BY <1>1, <1>2, <2>1 DEF OneEntryPerKey
  <2>2. CASE i = Len(s) + 1
    <3>1. j \in 1..Len(s)
      BY <1>1, <1>2, <2>2
    <3>2. QED
      BY <1>1, <2>2, <3>1 DEF Free, Matches
  <2>3. CASE j = Len(s) + 1
    <3>1. i \in 1..Len(s)
      BY <1>1, <1>2, <2>3
    <3>2. QED
      BY <1>1, <2>3, <3>1 DEF Free
  <2>4. QED
    BY <1>1, <2>1, <2>2, <2>3
<1>3. QED
  BY <1>2 DEF OneEntryPerKey, a

LEMMA TailKeepsKeys ==
    ASSUME NEW E, NEW s \in Seq(E), s # <<>>, OneEntryPerKey(s)
    PROVE  /\ OneEntryPerKey(Tail(s))
           /\ \A entry : Free(s, entry) => Free(Tail(s), entry)
<1>1. /\ Len(s) \in Nat /\ Len(Tail(s)) = Len(s) - 1
      /\ \A i \in 1..Len(Tail(s)) : Tail(s)[i] = s[i + 1]
  BY HeadTailProperties, LenProperties
<1>2. QED
  BY <1>1 DEF OneEntryPerKey, Free

LEMMA AfterGetKeepsKeys ==
    ASSUME NEW E, NEW cache \in Seq(E), NEW symbol, NEW timestamp, OneEntryPerKey(cache)
    PROVE  OneEntryPerKey(AfterGet(cache, symbol, timestamp))
<1>1. CASE Has(cache, symbol, timestamp)
  <2> DEFINE p == Position(cache, symbol, timestamp)
  <2>1. p \in 1..Len(cache) /\ cache[p] \in E
    BY <1>1, PositionFinds, ElementOfSeq
  <2> HIDE DEF p
  <2>2. OneEntryPerKey(Append(RemoveAt(cache, p), cache[p]))
    BY <2>1, RemoveAtShortens, RemoveAtKeepsKeys, AppendKeepsKeys
  <2>3. QED
    BY <1>1, <2>2 DEF AfterGet, Touch, p
<1>2. CASE ~Has(cache, symbol, timestamp)
  BY <1>2 DEF AfterGet, Touch
<1>3. QED
  BY <1>1, <1>2

LEMMA InsertKeepsKeys ==
    ASSUME NEW E, NEW cache \in Seq(E), OneEntryPerKey(cache), Len(cache) <= Capacity,
           NEW symbol, NEW timestamp, NEW rates,
           rates > 0 /\ symbol # USDT =>
               [symbol |-> symbol, timestamp |-> timestamp, rates |-> rates] \in E
    PROVE  OneEntryPerKey(Insert(cache, symbol, timestamp, rates))
<1> DEFINE entry == [symbol |-> symbol, timestamp |-> timestamp, rates |-> rates]
<1> SUFFICES ASSUME entry \in E PROVE OneEntryPerKey(Put(cache, entry))
  BY DEF Insert
<1>1. entry.symbol = symbol /\ entry.timestamp = timestamp
  OBVIOUS
<1> HIDE DEF entry
<1>2. CASE Has(cache, symbol, timestamp)
  <2> DEFINE p == Position(cache, symbol, timestamp)
  <2>1. p \in 1..Len(cache) /\ Matches(cache[p], symbol, timestamp)
    BY <1>2, PositionFinds
  <2> HIDE DEF p
  <2>2. Free(RemoveAt(cache, p), cache[p]) /\ OneEntryPerKey(RemoveAt(cache, p))
    BY <2>1, RemoveAtKeepsKeys
  <2>3. Free(RemoveAt(cache, p), entry)
    BY <1>1, <2>1, <2>2 DEF Free, Matches
  <2>4. OneEntryPerKey(Append(RemoveAt(cache, p), entry))
    BY <2>1, <2>2, <2>3, RemoveAtShortens, AppendKeepsKeys
  <2>5. QED
    BY <1>1, <1>2, <2>4 DEF Put, p
<1>3. CASE ~Has(cache, symbol, timestamp)
  <2>1. Free(cache, entry)
    BY <1>1, <1>3 DEF Has, Free
  <2>2. CASE Len(cache) = Capacity
    <3>1. cache # <<>>
      BY <2>2, CapacityAssumption
    <3>2. OneEntryPerKey(Append(Tail(cache), entry))
      BY <2>1, <3>1, TailKeepsKeys, HeadTailProperties, AppendKeepsKeys
    <3>3. QED
      BY <1>1, <1>3, <2>2, <3>2 DEF Put
  <2>3. CASE Len(cache) # Capacity
    <3>1. OneEntryPerKey(Append(cache, entry))
      BY <2>1, AppendKeepsKeys
    <3>2. QED
      BY <1>1, <1>3, <2>3, <3>1 DEF Put
  <2>4. QED
    BY <2>2, <2>3
<1>4. QED
  BY <1>2, <1>3

=============================================================================
