---------------------------- MODULE GeocodingProofs ----------------------------
(***************************************************************************)
(* Theorems about module Geocoding, for any requests, spellings and table  *)
(* of cities and any size of the cache: the cache stays sound, and every   *)
(* request is answered for the address it named.                           *)
(***************************************************************************)
EXTENDS Geocoding, TLAPS

(***************************************************************************)
(* The inductive invariant                                                 *)
(***************************************************************************)

Keys == {cacheKey(AddressOf[r]) : r \in Requests}
Values == UNION {DriverAnswers(AddressOf[r]) : r \in Requests}
Entries == [key : Keys, value : Values]

CacheTypeOK ==
    /\ cache \in Seq(Entries)
    /\ answer \in [Requests -> Values \cup {None}]

KeysOnce == \A i, j \in 1..Len(cache) : cache[i].key = cache[j].key => i = j

\* An entry is what the driver once answered to a request with that key.
TrueEntry(e) ==
    /\ e.value.kind = "found"
    /\ \E r \in Requests : /\ e.key = cacheKey(AddressOf[r])
                           /\ e.value \in DriverAnswers(AddressOf[r])

EntriesTrue == \A i \in 1..Len(cache) : TrueEntry(cache[i])

CacheInv ==
    /\ CacheTypeOK /\ KeysOnce /\ EntriesTrue
    /\ Len(cache) <= MaxEntries
    /\ AnswersTheAddress

(***************************************************************************)
(* Two spellings with one key are one address to the driver                *)
(***************************************************************************)

\* A canonical state is one of the two-letter codes.
LEMMA CanonicalCode ==
    ASSUME NEW raw, canonicalizeStateCode(raw) # None
    PROVE  canonicalizeStateCode(raw) \in StateCodes
BY TextsAssumption DEF canonicalizeStateCode

\* The static driver looks only at the city, the country and the state.
LEMMA SameAnswer ==
    ASSUME NEW a, NEW b, Matches(a) = Matches(b), Norm[a.country] = Norm[b.country],
           buildNormalisedAddress(a) = buildNormalisedAddress(b)
    PROVE  StaticGeocode(a) = StaticGeocode(b)
BY DEF StaticGeocode

LEMMA KeyFields ==
    ASSUME NEW a, NEW b, cacheKey(a) = cacheKey(b)
    PROVE  /\ Norm[a.line] = Norm[b.line] /\ Norm[a.city] = Norm[b.city]
           /\ StateField(a) = StateField(b) /\ Norm[a.country] = Norm[b.country]
BY DEF cacheKey, buildNormalisedAddress

\* What the static driver finds for one spelling it finds for every other one
\* with the same key, unless the state of that one is blank.
LEMMA KeyDeterminesLookup ==
    ASSUME NEW a, NEW b, cacheKey(a) = cacheKey(b), ~BlankState(a),
           StaticGeocode(b).kind = "found"
    PROVE  StaticGeocode(a) = StaticGeocode(b)
<1>0. /\ Norm[a.line] = Norm[b.line] /\ Norm[a.city] = Norm[b.city]
      /\ StateField(a) = StateField(b) /\ Norm[a.country] = Norm[b.country]
  BY KeyFields
<1>1. CASE b.state # None
  <2>1. \E c \in Cities : Matches(b) = {c}
    BY DEF StaticGeocode, Failed
  <2>2. canonicalizeStateCode(b.state) \in StateCodes
    BY <1>1, <2>1, TextsAssumption DEF Matches
  <2>3. StateField(b) = canonicalizeStateCode(b.state)
    BY <1>1, <2>2, TextsAssumption DEF StateField
  <2>4. a.state # None
    BY <1>0, <2>2, <2>3, TextsAssumption DEF StateField
  <2>5. canonicalizeStateCode(a.state) = canonicalizeStateCode(b.state)
    <3>1. CASE canonicalizeStateCode(a.state) = None
      <4>1. Norm[a.state] = StateField(a)
        BY <2>4, <3>1 DEF StateField
      <4>2. Norm[a.state] \in StateCodes
        BY <1>0, <2>2, <2>3, <4>1
      <4> QED
        BY <3>1, <4>2, TextsAssumption DEF canonicalizeStateCode
    <3>2. CASE canonicalizeStateCode(a.state) # None
      BY <1>0, <2>3, <2>4, <3>2 DEF StateField
    <3> QED
      BY <3>1, <3>2
  <2>6. Matches(a) = Matches(b)
    BY <1>0, <1>1, <2>4, <2>5 DEF Matches
  <2> QED
    BY <1>0, <2>6, SameAnswer DEF cacheKey
<1>2. CASE b.state = None
  <2>1. StateField(a) = ""
    BY <1>0, <1>2 DEF StateField
  <2>2. a.state = None
    <3> SUFFICES ASSUME a.state # None
                 PROVE  FALSE
      OBVIOUS
    <3>1. CASE canonicalizeStateCode(a.state) # None
      BY <2>1, <3>1, CanonicalCode, TextsAssumption DEF StateField
    <3>2. CASE canonicalizeStateCode(a.state) = None
      BY <2>1, <3>2 DEF StateField, BlankState
    <3> QED
      BY <3>1, <3>2
  <2>3. Matches(a) = Matches(b)
    BY <1>0, <1>2, <2>2 DEF Matches
  <2> QED
    BY <1>0, <2>3, SameAnswer DEF cacheKey
<1> QED
  BY <1>1, <1>2

\* What the driver finds for one spelling fits every other one with its key.
LEMMA KeyDeterminesAnswer ==
    ASSUME NEW a, NEW b, cacheKey(a) = cacheKey(b),
           NEW v \in DriverAnswers(b), v.kind = "found"
    PROVE  Fits(v, a)
<1>1. CASE driver = "static"
  <2>1. v = StaticGeocode(b)
    BY <1>1 DEF DriverAnswers
  <2>2. BlankState(a) \/ v = StaticGeocode(a)
    BY <2>1, KeyDeterminesLookup
  <2> QED
    BY <1>1, <2>2 DEF Fits
<1>2. CASE driver # "static"
  <2>1. v = Found(None, b)
    BY <1>2 DEF DriverAnswers, Failed
  <2>2. v.place = b
    BY <2>1 DEF Found
  <2>3. SameAddress(b, a)
    BY KeyFields DEF SameAddress
  <2> QED
    BY <1>2, <2>2, <2>3 DEF Fits
<1> QED
  BY <1>1, <1>2

\* What the driver answers to an address fits it.
LEMMA OwnAnswer ==
    ASSUME NEW a, NEW v \in DriverAnswers(a)
    PROVE  Fits(v, a)
<1>1. CASE driver = "static"
  BY <1>1 DEF DriverAnswers, Fits
<1>2. CASE driver # "static"
  <2>1. v.kind = "found" => v = Found(None, a)
    BY <1>2 DEF DriverAnswers, Failed
  <2>2. v.kind = "found" => v.place = a
    BY <2>1 DEF Found
  <2>3. SameAddress(a, a)
    BY DEF SameAddress
  <2> QED
    BY <1>2, <2>2, <2>3 DEF Fits
<1> QED
  BY <1>1, <1>2

(***************************************************************************)
(* What the operations of the cache leave in it                            *)
(***************************************************************************)

\* A sequence of entries that the cache may become.
Sound(c) ==
    /\ c \in Seq(Entries)
    /\ \A i, j \in 1..Len(c) : c[i].key = c[j].key => i = j
    /\ \A i \in 1..Len(c) : TrueEntry(c[i])

LEMMA CacheIsSound == CacheInv => Sound(cache)
BY DEF CacheInv, CacheTypeOK, KeysOnce, EntriesTrue, Sound

\* Where a cached key is.
LEMMA PlaceType ==
    ASSUME Sound(cache), NEW k \in Cached
    PROVE  PlaceOf(k) \in 1..Len(cache) /\ cache[PlaceOf(k)].key = k
<1>1. DOMAIN cache = 1..Len(cache)
  BY DEF Sound
<1>2. \E i \in DOMAIN cache : KeyAt(i) = k
  BY DEF Cached
<1>3. PlaceOf(k) \in DOMAIN cache /\ KeyAt(PlaceOf(k)) = k
  BY <1>2 DEF PlaceOf
<1> QED
  BY <1>1, <1>3 DEF KeyAt

\* delete and set move the entry to the end.
LEMMA TouchSound ==
    ASSUME Sound(cache), NEW k \in Cached
    PROVE  Sound(touch(k)) /\ Len(touch(k)) = Len(cache)
<1> DEFINE n == Len(cache)
           p == PlaceOf(k)
           t == touch(k)
           from(i) == IF i = n THEN p ELSE IF i < p THEN i ELSE i + 1
<1>1. p \in 1..n /\ cache[p].key = k /\ n \in Nat /\ cache \in Seq(Entries)
  BY PlaceType DEF Sound
<1>2. cache[p] \in Entries
  BY <1>1
<1>3. cache[p] = [key |-> k, value |-> ValueOf(k)]
  BY <1>1, <1>2 DEF Entries, ValueOf
<1>4. t = Append(SubSeq(cache, 1, p - 1) \o SubSeq(cache, p + 1, n), cache[p])
  BY <1>3 DEF touch, RemoveAt
<1> HIDE DEF p, t
<1> DEFINE before == SubSeq(cache, 1, p - 1)
           after == SubSeq(cache, p + 1, n)
<1>5. /\ before \in Seq(Entries) /\ Len(before) = p - 1
      /\ \A i \in 1..(p - 1) : before[i] = cache[i]
  BY <1>1
<1>6. /\ after \in Seq(Entries) /\ Len(after) = n - p
      /\ \A i \in 1..(n - p) : after[i] = cache[i + p]
  BY <1>1
<1> HIDE DEF before, after
<1> DEFINE rest == before \o after
<1>7. t = Append(rest, cache[p])
  BY <1>4 DEF before, after
<1>8. /\ rest \in Seq(Entries) /\ Len(rest) = n - 1
      /\ \A i \in 1..(n - 1) : rest[i] = IF i < p THEN before[i] ELSE after[i - (p - 1)]
  <2>1. rest \in Seq(Entries) /\ Len(rest) = (p - 1) + (n - p)
    BY <1>5, <1>6
  <2>2. \A i \in 1..((p - 1) + (n - p)) :
            rest[i] = IF i <= p - 1 THEN before[i] ELSE after[i - (p - 1)]
    BY <1>5, <1>6
  <2> QED
    BY <1>1, <2>1, <2>2
<1> HIDE DEF rest
<1>9. /\ t \in Seq(Entries) /\ Len(t) = n /\ t[n] = cache[p]
      /\ \A i \in 1..(n - 1) : t[i] = rest[i]
  BY <1>1, <1>2, <1>7, <1>8
<1>10. ASSUME NEW i \in 1..n
       PROVE  t[i] = cache[from(i)] /\ from(i) \in 1..n
  <2>1. CASE i = n
    BY <1>1, <1>9, <2>1
  <2>2. CASE i < n /\ i < p
    <3>1. i \in 1..(n - 1) /\ i \in 1..(p - 1)
      BY <1>1, <2>2
    <3>2. t[i] = before[i]
      BY <1>8, <1>9, <2>2, <3>1
    <3> QED
      BY <1>1, <1>5, <2>2, <3>1, <3>2
  <2>3. CASE i < n /\ ~(i < p)
    <3>1. t[i] = after[i - (p - 1)] /\ i - (p - 1) \in 1..(n - p)
      BY <1>1, <1>8, <1>9, <2>3
    <3>2. after[i - (p - 1)] = cache[(i - (p - 1)) + p]
      BY <1>6, <3>1
    <3>3. (i - (p - 1)) + p = i + 1
      BY <1>1
    <3> QED
      BY <1>1, <2>3, <3>1, <3>2, <3>3
  <2> QED
    BY <1>1, <2>1, <2>2, <2>3
<1>11. ASSUME NEW i \in 1..n, NEW j \in 1..n, from(i) = from(j)
       PROVE  i = j
  BY <1>1, <1>11
<1>12. \A i, j \in 1..n : t[i].key = t[j].key => i = j
  BY <1>10, <1>11 DEF Sound
<1>13. \A i \in 1..n : TrueEntry(t[i])
  BY <1>10 DEF Sound
<1> QED
  BY <1>9, <1>12, <1>13 DEF Sound, t

\* Map.set keeps the keys of the others, and adds at most one entry.
LEMMA MapSetSound ==
    ASSUME Sound(cache), NEW k \in Keys, NEW v \in Values,
           TrueEntry([key |-> k, value |-> v])
    PROVE  Sound(MapSet(k, v)) /\ Len(MapSet(k, v)) <= Len(cache) + 1
<1> DEFINE e == [key |-> k, value |-> v]
           n == Len(cache)
           t == MapSet(k, v)
<1>0. /\ e \in Entries /\ e.key = k /\ cache \in Seq(Entries) /\ n \in Nat
      /\ DOMAIN cache = 1..n
  BY DEF Entries, Sound
<1> HIDE DEF e
<1>1. CASE k \in Cached
  <2>1. t = [i \in 1..n |-> IF cache[i].key = k THEN e ELSE cache[i]]
    BY <1>0, <1>1 DEF MapSet, KeyAt, e
  <2>2. \A i \in 1..n : cache[i] \in Entries
    BY <1>0
  <2> HIDE DEF t
  <2>3. t \in [1..n -> Entries]
    BY <1>0, <2>1, <2>2
  <2>4. t \in Seq(Entries) /\ Len(t) = n
    BY <1>0, <2>3
  <2>5. \A i \in 1..n : t[i].key = cache[i].key
    BY <1>0, <2>1
  <2>6. \A i \in 1..n : TrueEntry(t[i])
    BY <2>1 DEF Sound, e
  <2>7. Sound(t)
    BY <2>4, <2>5, <2>6 DEF Sound
  <2> QED
    BY <1>0, <2>4, <2>7 DEF t
<1>2. CASE k \notin Cached
  <2>1. t = Append(cache, e)
    BY <1>2 DEF MapSet, e
  <2> HIDE DEF t
  <2>2. t \in Seq(Entries) /\ Len(t) = n + 1 /\ t[n + 1] = e
        /\ \A i \in 1..n : t[i] = cache[i]
    BY <1>0, <2>1
  <2>3. \A i \in 1..n : cache[i].key # k
    BY <1>0, <1>2 DEF Cached, KeyAt
  <2>4. \A i, j \in 1..(n + 1) : t[i].key = t[j].key => i = j
    <3> SUFFICES ASSUME NEW i \in 1..(n + 1), NEW j \in 1..(n + 1), t[i].key = t[j].key
                 PROVE  i = j
      OBVIOUS
    <3>1. CASE i \in 1..n /\ j \in 1..n
      BY <2>2, <3>1 DEF Sound
    <3>2. CASE i = n + 1 \/ j = n + 1
      BY <1>0, <2>2, <2>3, <3>2
    <3> QED
      BY <1>0, <3>1, <3>2
  <2>5. \A i \in 1..(n + 1) : TrueEntry(t[i])
    <3>1. \A i \in 1..n : TrueEntry(t[i])
      BY <2>2 DEF Sound
    <3>2. TrueEntry(t[n + 1])
      BY <2>2 DEF e
    <3> QED
      BY <1>0, <3>1, <3>2
  <2>6. Sound(t)
    BY <2>2, <2>4, <2>5 DEF Sound
  <2> QED
    BY <1>0, <2>2, <2>6 DEF t
<1> QED
  BY <1>1, <1>2

\* Leaving out the oldest entry.
LEMMA TailSound ==
    ASSUME NEW c, Sound(c), Len(c) > 0
    PROVE  Sound(Tail(c)) /\ Len(Tail(c)) = Len(c) - 1
<1>1. c \in Seq(Entries) /\ Len(c) \in Nat /\ c # <<>>
  BY DEF Sound
<1>2. /\ Tail(c) \in Seq(Entries) /\ Len(Tail(c)) = Len(c) - 1
      /\ \A i \in 1..Len(Tail(c)) : Tail(c)[i] = c[i + 1] /\ i + 1 \in 1..Len(c)
  BY <1>1
<1>3. ASSUME NEW i \in 1..Len(Tail(c)), NEW j \in 1..Len(Tail(c)),
             Tail(c)[i].key = Tail(c)[j].key
      PROVE  i = j
  <2>1. i + 1 = j + 1
    BY <1>2, <1>3 DEF Sound
  <2> QED
    BY <2>1
<1>4. \A i \in 1..Len(Tail(c)) : TrueEntry(Tail(c)[i])
  BY <1>2 DEF Sound
<1> QED
  BY <1>2, <1>3, <1>4 DEF Sound

\* Storing never exceeds the limit.
LEMMA StoreSound ==
    ASSUME Sound(cache), Len(cache) <= MaxEntries, NEW k \in Keys, NEW v \in Values,
           TrueEntry([key |-> k, value |-> v])
    PROVE  Sound(store(k, v)) /\ Len(store(k, v)) <= MaxEntries
<1> DEFINE t == MapSet(k, v)
<1>1. Sound(t) /\ Len(t) <= Len(cache) + 1
  BY MapSetSound
<1>2. Len(t) \in Nat /\ Len(cache) \in Nat
  BY <1>1 DEF Sound
<1> HIDE DEF t
<1>3. CASE Len(t) > MaxEntries
  <2>1. Sound(Tail(t)) /\ Len(Tail(t)) = Len(t) - 1
    BY <1>1, <1>2, <1>3, MaxEntriesAssumption, TailSound
  <2> QED
    BY <1>1, <1>2, <1>3, <2>1, MaxEntriesAssumption DEF store, t
<1>4. CASE ~(Len(t) > MaxEntries)
  BY <1>1, <1>2, <1>4, MaxEntriesAssumption DEF store, t
<1> QED
  BY <1>3, <1>4

(***************************************************************************)
(* The steps                                                               *)
(***************************************************************************)

LEMMA CacheInit == Init => CacheInv
<1> SUFFICES ASSUME Init
             PROVE  CacheInv
  OBVIOUS
<1>1. cache = <<>> /\ \A r \in Requests : answer[r] = None
  BY DEF Init
<1>2. CacheTypeOK
  BY DEF Init, CacheTypeOK
<1>3. KeysOnce /\ EntriesTrue /\ Len(cache) <= MaxEntries
  BY <1>1, MaxEntriesAssumption DEF KeysOnce, EntriesTrue
<1> QED
  BY <1>1, <1>2, <1>3 DEF CacheInv, AnswersTheAddress

\* The driver is chosen for good, and so is what it may answer.
LEMMA SameDriver ==
    ASSUME UNCHANGED driver
    PROVE  /\ \A a : DriverAnswers(a)' = DriverAnswers(a)
           /\ Values' = Values /\ Entries' = Entries
           /\ \A e : TrueEntry(e)' = TrueEntry(e)
<1>1. \A a : DriverAnswers(a)' = DriverAnswers(a)
  BY DEF DriverAnswers
<1>2. Values' = Values
  BY <1>1 DEF Values
<1>3. Entries' = Entries
  BY <1>2 DEF Entries
<1> QED
  BY <1>1, <1>2, <1>3 DEF TrueEntry

\* A step that answers a request by v and leaves the cache sound.
LEMMA AnswerKeeps ==
    ASSUME CacheInv, NEW r \in Requests, NEW v \in Values,
           Sound(cache'), Len(cache') <= MaxEntries,
           Fits(v, AddressOf[r]),
           answer' = [answer EXCEPT ![r] = v], UNCHANGED driver
    PROVE  CacheInv'
<1>1. answer \in [Requests -> Values \cup {None}] /\ AnswersTheAddress
  BY DEF CacheInv, CacheTypeOK
<1>2. /\ \A a : DriverAnswers(a)' = DriverAnswers(a)
      /\ Values' = Values /\ Entries' = Entries
      /\ \A e : TrueEntry(e)' = TrueEntry(e)
  BY SameDriver
<1>3. answer' \in [Requests -> Values \cup {None}]
  BY <1>1
<1>4. CacheTypeOK'
  BY <1>2, <1>3 DEF CacheTypeOK, Sound
<1>5. KeysOnce' /\ EntriesTrue'
  BY <1>2 DEF KeysOnce, EntriesTrue, Sound
<1>6. ASSUME NEW q \in Requests, answer'[q] # None
      PROVE  Fits(answer'[q], AddressOf[q])
  <2>1. CASE q = r
    BY <1>1, <2>1
  <2>2. CASE q # r
    BY <1>1, <1>6, <2>2 DEF AnswersTheAddress
  <2> QED
    BY <2>1, <2>2
<1>7. AnswersTheAddress'
  BY <1>6 DEF AnswersTheAddress, Fits
<1> QED
  BY <1>4, <1>5, <1>7 DEF CacheInv

LEMMA HitKeeps ==
    ASSUME CacheInv, NEW r \in Requests, Hit(r)
    PROVE  CacheInv'
<1> DEFINE k == cacheKey(AddressOf[r])
<1>0. /\ k \in Cached /\ answer' = [answer EXCEPT ![r] = ValueOf(k)]
      /\ cache' = touch(k) /\ UNCHANGED driver
  BY DEF Hit
<1>1. Sound(cache) /\ Len(cache) <= MaxEntries
  BY CacheIsSound DEF CacheInv
<1>2. Sound(cache') /\ Len(cache') <= MaxEntries
  BY <1>0, <1>1, TouchSound
<1> DEFINE e == cache[PlaceOf(k)]
<1>3. TrueEntry(e) /\ e.key = k /\ e \in Entries
  BY <1>0, <1>1, PlaceType DEF Sound
<1>4. ValueOf(k) = e.value /\ e.value \in Values
  BY <1>3 DEF ValueOf, Entries
<1> HIDE DEF e
<1>5. PICK q \in Requests : k = cacheKey(AddressOf[q]) /\ e.value \in DriverAnswers(AddressOf[q])
  BY <1>3 DEF TrueEntry
<1>6. Fits(e.value, AddressOf[r])
  BY <1>3, <1>5, KeyDeterminesAnswer DEF TrueEntry
<1> QED
  BY <1>0, <1>2, <1>4, <1>6, AnswerKeeps

LEMMA AnsweredKeeps ==
    ASSUME CacheInv, NEW r \in Requests, NEW v \in DriverAnswers(AddressOf[r]), Answered(r, v)
    PROVE  CacheInv'
<1> DEFINE k == cacheKey(AddressOf[r])
<1>0. Sound(cache) /\ Len(cache) <= MaxEntries
  BY CacheIsSound DEF CacheInv
<1>1. k \in Keys /\ v \in Values
  BY DEF Keys, Values
<1>2. answer' = [answer EXCEPT ![r] = v] /\ UNCHANGED driver
  BY DEF Answered
<1>3. Fits(v, AddressOf[r])
  BY OwnAnswer
<1>4. Sound(cache') /\ Len(cache') <= MaxEntries
  <2>1. CASE v.kind = "found" /\ cache' = store(k, v)
    <3>1. TrueEntry([key |-> k, value |-> v])
      BY <2>1 DEF TrueEntry
    <3> QED
      BY <1>0, <1>1, <2>1, <3>1, StoreSound
  <2>2. CASE UNCHANGED cache
    BY <1>0, <2>2
  <2> QED
    BY <2>1, <2>2 DEF Answered
<1> QED
  BY <1>1, <1>2, <1>3, <1>4, AnswerKeeps

LEMMA CacheNext == CacheInv /\ [Next]_vars => CacheInv'
<1>1. ASSUME CacheInv, UNCHANGED <<driver, cache, answer>>
      PROVE  CacheInv'
  <2>1. /\ \A a : DriverAnswers(a)' = DriverAnswers(a)
        /\ Values' = Values /\ Entries' = Entries
        /\ \A e : TrueEntry(e)' = TrueEntry(e)
    BY <1>1, SameDriver
  <2>2. CacheTypeOK' /\ KeysOnce' /\ EntriesTrue'
    BY <1>1, <2>1 DEF CacheInv, CacheTypeOK, KeysOnce, EntriesTrue
  <2>3. AnswersTheAddress'
    BY <1>1 DEF CacheInv, AnswersTheAddress, Fits
  <2> QED
    BY <1>1, <2>2, <2>3 DEF CacheInv
<1> QED
  BY <1>1, HitKeeps, AnsweredKeeps DEF Next, Miss, vars

LEMMA CacheInvariant == Spec => []CacheInv
BY CacheInit, CacheNext, PTL DEF Spec

\* Whatever the order in which concurrent misses come back, for a cache of
\* any size: it stays within its limit, holds an address once and remembers
\* no failure.
THEOREM CacheAlwaysSound == Spec => []CacheSound
<1>1. CacheInv => CacheSound
  BY DEF CacheInv, CacheTypeOK, KeysOnce, EntriesTrue, TrueEntry, CacheSound, KeyAt, ToSet
<1> QED
  BY <1>1, CacheInvariant, PTL

\* For any spellings, any table of cities and any cache: the static driver
\* says the answer of a request of this very spelling (unless its state is
\* blank), and Geoapify found it for a spelling of the same address.
THEOREM AnsweredForTheAddress == Spec => []AnswersTheAddress
<1>1. CacheInv => AnswersTheAddress
  BY DEF CacheInv
<1> QED
  BY <1>1, CacheInvariant, PTL
=============================================================================
