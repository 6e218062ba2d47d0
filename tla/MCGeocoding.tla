------------------------------ MODULE MCGeocoding ------------------------------
(* Requests for a few places, one of them written in two ways: two Portlands *)
(* told apart by the state, one without a state, a city there is once,       *)
(* without a state and with a blank one, a foreign address.  The cache holds *)
(* two entries.                                                              *)
EXTENDS Geocoding

Addr(city, state, country) ==
    [line |-> "1 Main St", city |-> city, state |-> state, country |-> country]

MCAddresses == <<
    Addr("Portland", "OR", "US"), Addr(" PORTLAND", "Oregon", "US"),
    Addr("Portland", "ME", "US"), Addr("Portland", None, "US"),
    Addr("Newark", None, "US"), Addr("Newark", " ", "US"), Addr("Newark", "NJ", "CA")>>

MCRequests == 1..7
MCNorm == [x \in {"1 Main St"} |-> "1 main st"]
    @@ [x \in {"Portland", " PORTLAND"} |-> "portland"] @@ [x \in {"Newark"} |-> "newark"]
    @@ [x \in {"OR"} |-> "or"] @@ [x \in {"Oregon"} |-> "oregon"]
    @@ [x \in {"ME"} |-> "me"] @@ [x \in {"NJ"} |-> "nj"] @@ [x \in {" "} |-> ""]
    @@ [x \in {"US"} |-> "us"] @@ [x \in {"CA"} |-> "ca"]
MCStateNames == [x \in {"oregon"} |-> "or"]
MCCities == {<<"portland", "or">>, <<"portland", "me">>, <<"newark", "nj">>}
MCCountries == {"us"}
MCCodes == {"or", "me", "nj"}
=============================================================================
