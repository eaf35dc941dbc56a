--------------------------- MODULE FeedRegistration ---------------------------
(***************************************************************************)
(* Registering the feed with AdGuard Home (registerAGHFeed): look for the    *)
(* feed's URL among AGH's filters, add it, have AGH refresh its filters, and *)
(* look again.  Every request may fail before AGH has carried it out, or its *)
(* answer may be lost; the administrator then tries again.                   *)
(*                                                                         *)
(* AGH is external: a list of filters, in which a URL may be written with a  *)
(* slash at its end or without, and add_url adds one whatever is there.  The *)
(* model lets no request reach AGH after the client has given it up.         *)
(***************************************************************************)
EXTENDS Naturals, Sequences, FiniteSets

CONSTANT FilterMax  \* bound: filters in AGH

ASSUME FilterMaxAssumption == FilterMax \in Nat \ {0}

URLs == {"feed", "feed/"}

VARIABLES filters,   \* AGH's filters: URL, enabled, and whether AGH has fetched it
          regStep,   \* where registerAGHFeed is
          regAnswer  \* what the administrator was told last

registrationVars == <<filters, regStep, regAnswer>>

Filter == [url : URLs, enabled : BOOLEAN, fetched : BOOLEAN]
RegError == [ok |-> FALSE]

RegistrationTypeOK ==
  /\ filters \in Seq(Filter) /\ Len(filters) <= FilterMax
  /\ regStep \in {"idle", "check", "add", "refresh", "recheck"}
  /\ regAnswer \in {RegError} \cup [ok : {TRUE}, registered : BOOLEAN, enabled : BOOLEAN,
                                    already : BOOLEAN, refreshed : BOOLEAN]

RegistrationInit ==
  /\ filters \in {<<>>} \cup {<<f>> : f \in [url : URLs, enabled : BOOLEAN, fetched : {TRUE}]}
  /\ regStep = "idle" /\ regAnswer = RegError

-----------------------------------------------------------------------------
\* mutant: the URLs are compared as they are written
SameAsWritten(url) == url

\* normalizeAGHURL
NormalURL(url) == IF url = "feed/" THEN "feed" ELSE url

\* checkAGHFeedRegistration: the first filter with the feed's URL
FeedFilters == {k \in DOMAIN filters : NormalURL(filters[k].url) = NormalURL("feed")}
Registered == FeedFilters # {}
FeedEnabled == \E k \in FeedFilters : filters[k].enabled /\ \A j \in FeedFilters : k <= j

\* any request: its answer is an error or never comes, and the handler gives up
RequestFails == regAnswer' = RegError /\ regStep' = "idle"

RegisterStart ==
  /\ regStep = "idle" /\ regStep' = "check"
  /\ UNCHANGED <<filters, regAnswer>>

RegisterChecks ==
  /\ regStep = "check"
  /\ \/ RequestFails
     \/ ~Registered /\ regStep' = "add" /\ UNCHANGED regAnswer
     \/ /\ Registered /\ regStep' = "idle"
        /\ regAnswer' = [ok |-> TRUE, registered |-> TRUE, enabled |-> FeedEnabled,
                         already |-> TRUE, refreshed |-> FALSE]
  /\ UNCHANGED filters

\* AGH's add_url
AddsFilter == filters' = Append(filters, [url |-> "feed", enabled |-> TRUE, fetched |-> FALSE])

RegisterAdds ==
  /\ regStep = "add" /\ Len(filters) < FilterMax
  /\ \/ AddsFilter /\ regStep' = "refresh" /\ UNCHANGED regAnswer
     \/ AddsFilter /\ RequestFails
     \/ UNCHANGED filters /\ RequestFails

\* AGH's refresh fetches the enabled filters.
Fetches == filters' = [k \in DOMAIN filters |->
                        [filters[k] EXCEPT !.fetched = @ \/ filters[k].enabled]]

RegisterRefreshes ==
  /\ regStep = "refresh"
  /\ \/ Fetches /\ regStep' = "recheck" /\ UNCHANGED regAnswer
     \/ Fetches /\ RequestFails
     \/ UNCHANGED filters /\ RequestFails

RegisterRechecks ==
  /\ regStep = "recheck"
  /\ \/ RequestFails
     \/ /\ regStep' = "idle"
        /\ regAnswer' = [ok |-> TRUE, registered |-> Registered, enabled |-> Registered /\ FeedEnabled,
                         already |-> FALSE, refreshed |-> TRUE]
  /\ UNCHANGED filters

\* AGH's own administrator removes a filter or switches one on, which fetches it, or off.
FilterRemoved(k) ==
  /\ filters' = [j \in 1..Len(filters) - 1 |-> filters[IF j < k THEN j ELSE j + 1]]
  /\ UNCHANGED <<regStep, regAnswer>>

FilterSwitched(k) ==
  /\ filters' = [filters EXCEPT ![k].enabled = ~@, ![k].fetched = @ \/ ~filters[k].enabled]
  /\ UNCHANGED <<regStep, regAnswer>>

RegistrationNext ==
  \/ RegisterStart \/ RegisterChecks \/ RegisterAdds \/ RegisterRefreshes \/ RegisterRechecks
  \/ \E k \in DOMAIN filters : FilterRemoved(k) \/ FilterSwitched(k)

RegistrationSpec == RegistrationInit /\ [][RegistrationNext]_registrationVars

-----------------------------------------------------------------------------
\* However often an answer was lost and the registration tried again, AGH has the feed
\* once, however its URL is written there.
FeedOnce == Len(filters) <= 1

=============================================================================
