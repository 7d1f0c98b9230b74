-------------------------- MODULE NavigationServer --------------------------
(***************************************************************************)
(* Navigation by the HMI server: the admission of requests                      *)
(* (apps/hmi/lib/security-envelope.ts, and the capability route that signs for   *)
(* it) by modes, capabilities that count once and rate windows; behind it the     *)
(* backends of route requests (app/api/kingmast/live-navigation/alternatives),     *)
(* the daily number of paid calls, and what the page is told of it                  *)
(* (.../capabilities).  The store lives in the process and starts empty with it;     *)
(* the settings come from the environment and last as long.  Times are counted         *)
(* down to, and ages up, in ticks.                                                      *)
(***************************************************************************)
EXTENDS Naturals, FiniteSets, SequencesExt

CONSTANTS Principals,        \* identities of clients
          Loopback,          \* the principal of requests from the vehicle itself
          Capabilities, NoCapability,
          Settings,          \* the environments the process may start in
          PerMinute, PerHour, Minute, Hour, Ttl,   \* the last three in ticks
          MaxRateKeys, ReplayPrune, ReplayMax,
          RouteRequests,          \* the route requests that may be under way at once (a bound)
          DailyPaidLimit

Scopes == {"navigation:route", "navigation:search"}
Backends == {"google", "mapbox", "osrm"}

ASSUME NavigationAssumption ==
    /\ Loopback \notin Principals /\ NoCapability \notin Capabilities
    /\ {PerMinute, PerHour, Minute, Hour, Ttl} \subseteq Nat \ {0}
    /\ PerMinute <= PerHour /\ Minute <= Hour
    /\ {MaxRateKeys, ReplayPrune, ReplayMax} \subseteq Nat /\ DailyPaidLimit \in Nat \ {0}
    /\ Settings \subseteq
           [enabled : BOOLEAN, mode : {"normal", "degraded", "isolated", "lockdown"},
            emergency : BOOLEAN, killSwitch : BOOLEAN, authRequired : BOOLEAN,
            broker : BOOLEAN, paid : BOOLEAN, keys : SUBSET {"google", "mapbox"},
            provider : Backends \cup {"auto"}]

VARIABLES settings,
          buckets,       \* the rate windows: key -> [count, left]
          replay,        \* the capabilities that were used, oldest first
          issued,        \* what the broker has given out: capability -> [scope, left]
          admitted,      \* history: the ages of the requests admitted in the last hour
          used,          \* history of the process: how often a capability was taken (to two)
          evicted        \* history of the process: capabilities forgotten while valid

envelopeVars == <<settings, buckets, replay, issued, admitted, used, evicted>>

RuntimeMode == IF settings.emergency THEN "lockdown" ELSE settings.mode

Open == settings.enabled /\ RuntimeMode \in {"normal", "degraded"}

(***************************************************************************)
(* Rate windows.                                                           *)
(***************************************************************************)
Without(b, gone) == [k \in DOMAIN b \ gone |-> b[k]]

Pruned(b) ==
    IF 2 * Cardinality(DOMAIN b) < MaxRateKeys THEN b
    ELSE Without(b, {k \in DOMAIN b : b[k].left = 0})

\* rateLimit: what becomes of the windows, and whether the request may pass.
RateLimit(b, key, limit, window) ==
    LET p == Pruned(b)
        fresh == key \notin DOMAIN p
    IN  IF fresh \/ p[key].left = 0
        THEN IF fresh /\ Cardinality(DOMAIN p) >= MaxRateKeys
             THEN [ok |-> FALSE, buckets |-> p]
             ELSE [ok |-> TRUE,
                   buckets |-> [k \in DOMAIN p \cup {key} |->
                       IF k = key THEN [count |-> 1, left |-> window] ELSE p[k]]]
        ELSE IF p[key].count >= limit THEN [ok |-> FALSE, buckets |-> p]
        ELSE [ok |-> TRUE, buckets |-> [p EXCEPT ![key].count = @ + 1]]

\* The minute is counted even if the hour then refuses.
Passed(scope, principal) ==
    LET minute == RateLimit(buckets, <<scope, "minute", principal>>, PerMinute, Minute)
        hour == RateLimit(minute.buckets, <<scope, "hour", principal>>, PerHour, Hour)
    IN  IF minute.ok THEN hour ELSE minute

(***************************************************************************)
(* Capabilities: signed for one scope, method and path, and used once.         *)
(***************************************************************************)
IssueNavigationCapability(c, scope) ==
    /\ settings.broker /\ ~settings.emergency /\ ~settings.killSwitch
    /\ c \notin DOMAIN issued
    /\ issued' = [x \in DOMAIN issued \cup {c} |->
                      IF x = c THEN [scope |-> scope, left |-> Ttl] ELSE issued[x]]
    /\ UNCHANGED <<settings, buckets, replay, admitted, used, evicted>>

\* pruneReplay: from its limit the expired go, and then the oldest: the places that stay.
Staying(r) ==
    LET living == {i \in DOMAIN r : issued[r[i]].left > 0}
    IN  {i \in living : Cardinality({j \in living : j > i}) < ReplayMax}

\* The entries of r at some places, in their order.
EntriesAt(r, places) ==
    [n \in 1..Cardinality(places) |->
        r[CHOOSE i \in places : Cardinality({j \in places : j <= i}) = n]]

Kept(r) == IF Len(r) < ReplayPrune THEN r ELSE EntriesAt(r, Staying(r))

\* Signed for this request and not expired; the broker gives out no more than Ttl ahead.
Genuine(c, scope) ==
    c \in DOMAIN issued /\ issued[c].scope = scope /\ issued[c].left > 0

Unused(c) == ~Contains(Kept(replay), c)

(***************************************************************************)
(* admitNavigationRequest.                                                   *)
(***************************************************************************)
Admit(principal, scope, cap) ==
    LET local == principal = Loopback
        looked == Open /\ settings.authRequired /\ Genuine(cap, scope)
        verified == looked /\ Unused(cap)
        known == Open /\ (local \/ ~settings.authRequired \/ verified)
        rate == Passed(scope, principal)
    IN  /\ local => settings.broker
        /\ buckets' = IF known THEN rate.buckets ELSE buckets
        /\ replay' = IF verified THEN Append(Kept(replay), cap)
                     ELSE IF looked THEN Kept(replay) ELSE replay
        /\ used' = IF verified THEN [used EXCEPT ![cap] = IF @ = 2 THEN 2 ELSE @ + 1]
                   ELSE used
        /\ evicted' = IF looked
                      THEN evicted \cup {c \in ToSet(replay) \ ToSet(Kept(replay)) :
                                             issued[c].left > 0}
                      ELSE evicted
        /\ admitted' = IF known /\ rate.ok
                       THEN [admitted EXCEPT ![<<scope, principal>>] = Append(@, 0)] ELSE admitted
        /\ UNCHANGED <<settings, issued>>

\* The process is started again, in any environment; what clients hold stays valid.
NewProcess(s) ==
    /\ settings' = s
    /\ buckets' = << >> /\ replay' = << >>
    /\ used' = [c \in Capabilities |-> 0] /\ evicted' = {}
    /\ admitted' = [k \in DOMAIN admitted |-> << >>]
    /\ UNCHANGED issued

Down(n) == IF n = 0 THEN 0 ELSE n - 1

\* A tick later: the first of the ages are the oldest, and go as they reach the hour.
Older(ages) ==
    LET gone == CHOOSE n \in 0..Len(ages) :
                    \A i \in DOMAIN ages : i <= n <=> ages[i] + 1 >= Hour
    IN  [i \in 1..Len(ages) - gone |-> ages[gone + i] + 1]

EnvelopeTick ==
    /\ buckets' = [k \in DOMAIN buckets |-> [buckets[k] EXCEPT !.left = Down(@)]]
    /\ issued' = [c \in DOMAIN issued |-> [issued[c] EXCEPT !.left = Down(@)]]
    /\ admitted' = [k \in DOMAIN admitted |-> Older(admitted[k])]
    /\ UNCHANGED <<settings, replay, used, evicted>>

EnvelopeInit ==
    /\ settings \in Settings
    /\ buckets = << >> /\ replay = << >> /\ issued = << >>
    /\ admitted = [k \in Scopes \X (Principals \cup {Loopback}) |-> << >>]
    /\ used = [c \in Capabilities |-> 0] /\ evicted = {}

(***************************************************************************)
(* Route requests overlap; each waits for one backend at a time.               *)
(***************************************************************************)
VARIABLES routeRequests,          \* each with the backends still to be asked
          paidToday,         \* paidDay is the day of today
          paidCalls,
          spent              \* history of the process: paid calls made today

routesVars == <<routeRequests, paidToday, paidCalls, spent>>

PaidRoutingEnabled ==
    settings.enabled /\ ~settings.killSwitch /\ RuntimeMode = "normal" /\ settings.paid

CallsToday == IF paidToday THEN paidCalls ELSE 0

\* Mutant: the calls are compared after they have been counted.
OneTooMany == PaidRoutingEnabled /\ CallsToday <= DailyPaidLimit

QuotaLeft == PaidRoutingEnabled /\ CallsToday < DailyPaidLimit

Configured == IF PaidRoutingEnabled THEN settings.keys ELSE {}

BackendOrder ==
    LET first(b) == IF b \in Configured THEN <<b>> ELSE << >>
    IN  (IF settings.provider = "osrm" THEN << >>
         ELSE IF settings.provider = "auto" THEN first("google") \o first("mapbox")
         ELSE first(settings.provider)) \o <<"osrm">>

\* GET capabilities: the traffic source the page announces.
TrafficSource ==
    IF settings.provider \in Configured THEN settings.provider
    ELSE IF settings.provider = "osrm" \/ Configured = {} THEN "none"
    ELSE IF "google" \in Configured THEN "google" ELSE "mapbox"

NoRouteRequest == [state |-> "none", left |-> << >>, asked |-> << >>]

\* An admitted request with two points that are not too far apart.
PostRoute(r) ==
    /\ Open
    /\ routeRequests[r].state \notin {"asking", "waiting"}
    /\ routeRequests' = [routeRequests EXCEPT
           ![r] = [state |-> "asking", left |-> BackendOrder, asked |-> << >>]]
    /\ UNCHANGED <<paidToday, paidCalls, spent>>

\* The next backend is asked, unless it is paid and no paid call is left.
Ask(r) ==
    /\ routeRequests[r].state = "asking"
    /\ LET b == Head(routeRequests[r].left)
           paid == b # "osrm"
           calls == ~paid \/ QuotaLeft
       IN  /\ routeRequests' = [routeRequests EXCEPT
                ![r] = [state |-> IF calls THEN "waiting" ELSE "asking", left |-> Tail(@.left),
                        asked |-> IF calls THEN Append(@.asked, b) ELSE @.asked]]
           /\ paidToday' = (paidToday \/ paid)
           /\ paidCalls' = IF paid THEN (IF calls THEN CallsToday + 1 ELSE CallsToday)
                           ELSE paidCalls
           /\ spent' = IF paid /\ calls THEN spent + 1 ELSE spent

BackendAnswers(r, ok) ==
    /\ routeRequests[r].state = "waiting"
    /\ routeRequests' = [routeRequests EXCEPT
          ![r] = [state |-> IF ok THEN "routed"
                            ELSE IF @.left = << >> THEN "unavailable" ELSE "asking",
                  left |-> @.left, asked |-> @.asked]]
    /\ UNCHANGED <<paidToday, paidCalls, spent>>

NewDay ==
    /\ paidToday' = FALSE /\ spent' = 0
    /\ UNCHANGED <<routeRequests, paidCalls>>

RoutesLost ==
    /\ routeRequests' = [r \in RouteRequests |-> NoRouteRequest]
    /\ paidToday' = FALSE /\ paidCalls' = 0 /\ spent' = 0

RoutesInit ==
    /\ routeRequests = [r \in RouteRequests |-> NoRouteRequest]
    /\ paidToday = FALSE /\ paidCalls = 0 /\ spent = 0

RoutesNext ==
    \/ \E r \in RouteRequests : PostRoute(r)
    \/ \E r \in RouteRequests : Ask(r)
    \/ \E r \in RouteRequests, ok \in BOOLEAN : BackendAnswers(r, ok)
    \/ NewDay

(***************************************************************************)
(* Properties.                                                             *)
(***************************************************************************)
\* The variables have their types, and the stores stay within their bounds.
EnvelopeTypeOK ==
    /\ settings \in Settings
    /\ \A k \in DOMAIN buckets : buckets[k].count \in 1..PerHour /\ buckets[k].left \in 0..Hour
    /\ Cardinality(DOMAIN buckets) <= MaxRateKeys
    /\ ToSet(replay) \subseteq DOMAIN issued
    /\ Len(replay) <= ReplayMax + 1 \/ Len(replay) <= ReplayPrune
    /\ DOMAIN issued \subseteq Capabilities

\* One process takes a capability once, whatever is pruned, unless the store had to forget
\* it while it was valid; and it forgets none before more than it holds were taken.
CapabilitiesAreSpentOnce ==
    /\ \A c \in Capabilities : used[c] <= 1 \/ c \in evicted
    /\ evicted # {} => ReplayMax < Cardinality({c \in Capabilities : used[c] > 0})

\* Windows begin with a request and are forgotten when they have passed: in no minute and
\* in no hour of the clock is a client admitted more than twice as often as in a window.
RatesAreKept ==
    \A k \in DOMAIN admitted :
        /\ Len(admitted[k]) <= 2 * PerHour
        /\ Cardinality({i \in DOMAIN admitted[k] : admitted[k][i] < Minute}) <= 2 * PerMinute

\* However requests overlap over the turn of a day, no more paid calls are made on a day
\* than allowed, and none outside of the normal mode.
PaidCallsAreCapped == spent <= DailyPaidLimit /\ (spent > 0 => PaidRoutingEnabled)

\* No route is given up before the free backend has been asked, which is asked last, and
\* no backend is asked twice.
FallbackIsTried ==
    \A r \in RouteRequests :
        /\ routeRequests[r].state = "unavailable" => Contains(routeRequests[r].asked, "osrm")
        /\ routeRequests[r].state = "asking" => routeRequests[r].left # << >>
        /\ IsInjective(routeRequests[r].asked)

\* The traffic source the page announces is the backend asked first; but a provider that
\* is asked for by name and has no key is replaced in the announcement only.
AnnouncedIsAsked ==
    (settings.provider \in {"auto", "osrm"} \/ settings.provider \in Configured) =>
        TrafficSource = (IF Head(BackendOrder) = "osrm" THEN "none" ELSE Head(BackendOrder))
=============================================================================
