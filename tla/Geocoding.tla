------------------------------- MODULE Geocoding -------------------------------
(***************************************************************************)
(* CachingGeocodingProvider of src/infrastructure/geocoding around either  *)
(* driver.  The cache is a Map, whose insertion order is the order of      *)
(* eviction; between a miss and the driver's answer (an await) any other   *)
(* request may hit, miss or store, also for the same address.              *)
(*                                                                         *)
(* An address is what a caller wrote: its texts are raw spellings, and     *)
(* what normalizeText makes of each is the constant Norm.  Coordinates are *)
(* a city's centre with the jitter of the normalised address (static), or  *)
(* the place Geoapify finds for the spelling it is sent.                   *)
(***************************************************************************)
EXTENDS Integers, Sequences, SequencesExt

CONSTANTS
    Requests, AddressOf,    \* calls of geocode and the address of each
    Norm,                   \* normalizeText
    StateCodes, StateNames, \* two-letter codes; STATE_NAME_TO_CODE
    Cities,                 \* US_CITIES: the <<city, code>> in the table
    AcceptedCountries,
    MaxEntries,             \* GEOCODE_CACHE_MAX_ENTRIES
    None

ASSUME MaxEntriesAssumption == MaxEntries \in Nat \ {0}
\* STATE_NAME_TO_CODE and US_CITIES have two-letter codes only; None is no text.
ASSUME TextsAssumption ==
    /\ \A name \in DOMAIN StateNames : StateNames[name] \in StateCodes
    /\ \A c \in Cities : c[2] \in StateCodes
    /\ None \notin StateCodes /\ "" \notin StateCodes

VARIABLES
    driver,     \* GEOCODING_DRIVER: "static" or "geoapify", for good
    cache,      \* the Map: a sequence of [key, value], oldest insertion first
    phase,      \* each request: "idle", "asking" the driver, "done"
    answer      \* what each request was answered

vars == <<driver, cache, phase, answer>>

Init ==
    /\ driver \in {"static", "geoapify"}
    /\ cache = <<>>
    /\ phase = [r \in Requests |-> "idle"]
    /\ answer = [r \in Requests |-> None]

-----------------------------------------------------------------------------
(* normalisation.ts *)

canonicalizeStateCode(raw) ==
    IF Norm[raw] \in StateCodes THEN Norm[raw]
    ELSE IF Norm[raw] \in DOMAIN StateNames THEN StateNames[Norm[raw]] ELSE None

\* An address without a state has the empty text, and so has one whose state
\* is nothing but blanks.
StateField(a) ==
    IF a.state = None THEN ""
    ELSE IF canonicalizeStateCode(a.state) # None THEN canonicalizeStateCode(a.state)
    ELSE Norm[a.state]

\* Mutant: the state is left out of the key.
NormalisedWithoutState(a) == <<Norm[a.line], Norm[a.city], None, Norm[a.country]>>

\* Every field normalised, the recipient left out.
buildNormalisedAddress(a) ==
    <<Norm[a.line], Norm[a.city], StateField(a), Norm[a.country]>>

-----------------------------------------------------------------------------
(* The drivers *)

Found(centre, place) == [kind |-> "found", centre |-> centre, place |-> place]
Failed(reason) == [kind |-> "failed", reason |-> reason]

\* The table's entries that an address may mean: with a state the one of that
\* name there, without one all of that name.
Matches(a) ==
    {c \in Cities : /\ c[1] = Norm[a.city]
                    /\ a.state # None => c[2] = canonicalizeStateCode(a.state)}

\* StaticGeocodingProvider.geocode: never guesses between two cities.
StaticGeocode(a) ==
    IF Norm[a.country] \in AcceptedCountries /\ \E c \in Cities : Matches(a) = {c}
    THEN Found(CHOOSE c \in Cities : Matches(a) = {c}, buildNormalisedAddress(a))
    ELSE Failed("UNKNOWN_ADDRESS")

\* What the driver may answer: the static one what its table says, Geoapify
\* a place for the texts as they were written, or a failure.
DriverAnswers(a) ==
    IF driver = "static" THEN {StaticGeocode(a)}
    ELSE {Found(None, a), Failed("UNKNOWN_ADDRESS"), Failed("PROVIDER_UNAVAILABLE")}

-----------------------------------------------------------------------------
(* The cache *)

cacheKey(a) == buildNormalisedAddress(a)

KeyAt(i) == cache[i].key
Cached == {KeyAt(i) : i \in DOMAIN cache}
PlaceOf(k) == CHOOSE i \in DOMAIN cache : KeyAt(i) = k
ValueOf(k) == cache[PlaceOf(k)].value

\* delete and set: the entry becomes the youngest.
touch(k) == Append(RemoveAt(cache, PlaceOf(k)), [key |-> k, value |-> ValueOf(k)])

\* Map.set: a new key becomes the youngest, a known one keeps its place.
MapSet(k, v) ==
    IF k \in Cached
    THEN [i \in DOMAIN cache |-> IF KeyAt(i) = k THEN [key |-> k, value |-> v] ELSE cache[i]]
    ELSE Append(cache, [key |-> k, value |-> v])

\* Mutant: the limit is checked before the entry is set.
StoreThenFull(k, v) ==
    IF Len(cache) > MaxEntries THEN Tail(MapSet(k, v)) ELSE MapSet(k, v)

store(k, v) ==
    IF Len(MapSet(k, v)) > MaxEntries THEN Tail(MapSet(k, v)) ELSE MapSet(k, v)

Hit(r) ==
    LET k == cacheKey(AddressOf[r])
    IN  /\ phase[r] = "idle" /\ k \in Cached
        /\ answer' = [answer EXCEPT ![r] = ValueOf(k)]
        /\ cache' = touch(k)
        /\ phase' = [phase EXCEPT ![r] = "done"]
        /\ UNCHANGED driver

Miss(r) ==
    /\ phase[r] = "idle" /\ cacheKey(AddressOf[r]) \notin Cached
    /\ phase' = [phase EXCEPT ![r] = "asking"]
    /\ UNCHANGED <<driver, cache, answer>>

\* The driver answered; a failure is thrown past the store.
Answered(r, v) ==
    LET k == cacheKey(AddressOf[r])
    IN  /\ phase[r] = "asking"
        /\ \/ v.kind = "found" /\ cache' = store(k, v)
           \/ v.kind = "failed" /\ UNCHANGED cache
        /\ answer' = [answer EXCEPT ![r] = v]
        /\ phase' = [phase EXCEPT ![r] = "done"]
        /\ UNCHANGED driver

Next ==
    \E r \in Requests :
        Hit(r) \/ Miss(r) \/ \E v \in DriverAnswers(AddressOf[r]) : Answered(r, v)

Spec == Init /\ [][Next]_vars

-----------------------------------------------------------------------------
(* Properties *)

\* Whatever the order in which concurrent misses come back, the cache stays
\* within its limit, holds an address once and remembers no failure, which may
\* be gone at the next call.
CacheSound ==
    /\ Len(cache) <= MaxEntries
    /\ \A i, j \in DOMAIN cache : KeyAt(i) = KeyAt(j) => i = j
    /\ \A e \in ToSet(cache) : e.value.kind = "found"

\* Two spellings of one address: alike but for case, blanks and the way its
\* state is written.
SameAddress(a, b) ==
    /\ Norm[a.line] = Norm[b.line] /\ Norm[a.city] = Norm[b.city]
    /\ StateField(a) = StateField(b) /\ Norm[a.country] = Norm[b.country]

BlankState(a) == a.state # None /\ Norm[a.state] = ""

\* A request is answered for the address it named, whichever spelling the
\* answer was fetched for and whatever was cached or evicted meanwhile: under
\* the static driver by what that driver says of this very spelling, unless
\* its state is blank (CacheTransparent below), under Geoapify by a place that
\* was found for a spelling of the same address.
Fits(v, a) ==
    IF driver = "static" THEN BlankState(a) \/ v = StaticGeocode(a)
    ELSE v.kind = "found" => SameAddress(v.place, a)

AnswersTheAddress ==
    \A r \in Requests : answer[r] # None => Fits(answer[r], AddressOf[r])

\* knowledge/geocoding.md: normalisation is "Shared by the static lookup, the
\* static jitter and the cache key, so all three agree on what "the same
\* address" means".  Then a cache around the static driver, whose results never
\* change, would not show in any answer.  It does: the key of a blank state is
\* that of no state, the lookup rejects the one and resolves the other.
CacheTransparent ==
    driver = "static" =>
        \A r \in Requests : answer[r] # None => answer[r] = StaticGeocode(AddressOf[r])
=============================================================================
