----------------------------- MODULE RoutePlanner -----------------------------
(***************************************************************************)
(* The route of the cockpit (useRoadContext in apps/hmi/lib/road-context.ts):  *)
(* alternatives, a fallback, the route kept in the browser's storage           *)
(* (persisted-navigation.ts), the intelligence about the route that is shown,     *)
(* and the privacy control that clears what is stored (use-privacy-controls.ts).   *)
(* Requests overlap; an effect runs with the change that causes it.                  *)
(***************************************************************************)
EXTENDS Naturals

CONSTANTS Destinations, NoDestination,
          OptionIds, NoOption,
          Requests,          \* the requests that may be under way at once (a bound)
          MaxAge             \* ROUTE_CACHE_MAX_AGE_MS, in ticks

ASSUME PlannerAssumption ==
    /\ NoDestination \notin Destinations /\ NoOption \notin OptionIds
    /\ MaxAge \in Nat

\* A route leads to its destination; option is NoOption for a route of the fallback.
Routes == [to : Destinations, option : OptionIds \cup {NoOption}]
NoRoute == [to |-> NoDestination, option |-> NoOption]

NothingStored == [route |-> NoRoute, destination |-> NoDestination, age |-> 0]
NoRequest == [to |-> NoDestination, stage |-> "none"]

VARIABLES route, routeFromCache, destinationPoint,
          routeOptions,      \* where the options shown lead, or NoDestination
          routeLoading,
          requests,
          stored,            \* in the browser: the route and its destination
          intelligence, intelligenceLoading, intelligenceError,
          loads,             \* the routes that answers under way are about
          lost               \* history: a route could not be stored

intelligenceVars == <<intelligence, intelligenceLoading, intelligenceError, loads>>
planVars == <<route, routeFromCache, destinationPoint, routeOptions, routeLoading, requests,
              stored, lost>>
plannerVars == <<planVars, intelligenceVars>>

(***************************************************************************)
(* Intelligence about the route: an effect of the route.                        *)
(***************************************************************************)
\* Mutant: the answers of the former effect still count.
StillWanted(ls) == ls

\* The former effect is cancelled: its answers change nothing any more.
Cancelled(ls) == {}

\* The effect of a new route; without one it takes the intelligence away.
RouteChanges(r) ==
    /\ route' = r
    /\ IF r = NoRoute
       THEN /\ intelligence' = NoRoute /\ intelligenceError' = FALSE
            /\ loads' = Cancelled(loads) /\ UNCHANGED intelligenceLoading
       ELSE /\ intelligenceLoading' = TRUE
            /\ loads' = Cancelled(loads) \cup {r}
            /\ UNCHANGED <<intelligence, intelligenceError>>

\* The interval of the effect asks again.
IntelligenceAsked ==
    /\ route # NoRoute
    /\ intelligenceLoading' = TRUE
    /\ loads' = loads \cup {route}
    /\ UNCHANGED <<planVars, intelligence, intelligenceError>>

\* More than one request about a route may be under way; the first answer ends the wait.
IntelligenceAnswered(r, ok, last) ==
    /\ r \in loads /\ loads' = IF last THEN loads \ {r} ELSE loads
    /\ intelligence' = IF ok THEN r ELSE intelligence
    /\ intelligenceError' = ~ok /\ intelligenceLoading' = FALSE
    /\ UNCHANGED planVars

(***************************************************************************)
(* What is kept in the browser's storage; a write may fail and is not repeated.  *)
(***************************************************************************)
\* persistRoute.
Persisted(r, d, writes) ==
    /\ stored' = IF writes THEN [route |-> r, destination |-> d, age |-> 0] ELSE stored
    /\ lost' = (lost \/ ~writes)

\* parseStoredNavigationRoute.
Restorable == stored # NothingStored /\ stored.age <= MaxAge

(***************************************************************************)
(* requestRoute.                                                             *)
(***************************************************************************)
\* navigate to a place, or reroute to the destination of now.
RequestRoute(q, to) ==
    /\ requests[q] = NoRequest
    /\ requests' = [requests EXCEPT ![q] = [to |-> to, stage |-> "alternatives"]]
    /\ routeLoading' = TRUE
    /\ UNCHANGED <<route, routeFromCache, destinationPoint, routeOptions, stored,
                   lost, intelligenceVars>>

\* Refused or empty: the second service is asked.
NoAlternatives(q) ==
    /\ requests[q].stage = "alternatives"
    /\ requests' = [requests EXCEPT ![q] = [to |-> requests[q].to, stage |-> "fallback"]]
    /\ UNCHANGED <<route, routeFromCache, destinationPoint, routeOptions, routeLoading, stored,
                   lost, intelligenceVars>>

\* Mutant: the options of the former route stay with a route of the fallback.
OptionsKept(q) ==
    IF requests[q].stage = "alternatives" THEN requests[q].to ELSE routeOptions

OptionsAfter(q) == IF requests[q].stage = "alternatives" THEN requests[q].to ELSE NoDestination

\* The recommended alternative (here: any) or the one route of the fallback.
Routed(q, option, writes) ==
    /\ requests[q] # NoRequest
    /\ (option = NoOption) <=> (requests[q].stage = "fallback")
    /\ LET r == [to |-> requests[q].to, option |-> option]
       IN  /\ RouteChanges(r)
           /\ Persisted(r, r.to, writes)
           /\ destinationPoint' = r.to
    /\ routeOptions' = OptionsAfter(q)
    /\ routeFromCache' = FALSE /\ routeLoading' = FALSE
    /\ requests' = [requests EXCEPT ![q] = NoRequest]

\* A broken connection, or a refusal of the fallback: the stored route is shown if it
\* leads there, and removed if it is too old.
NotRouted(q) ==
    /\ requests[q] # NoRequest
    /\ requests' = [requests EXCEPT ![q] = NoRequest] /\ routeLoading' = FALSE
    /\ IF Restorable /\ stored.destination = requests[q].to
       THEN /\ RouteChanges(stored.route)
            /\ destinationPoint' = stored.destination /\ routeFromCache' = TRUE
            /\ UNCHANGED stored
       ELSE /\ stored' = IF Restorable THEN stored ELSE NothingStored
            /\ UNCHANGED <<route, destinationPoint, routeFromCache, intelligenceVars>>
    /\ UNCHANGED <<routeOptions, lost>>

SelectRouteOption(option, writes) ==
    /\ routeOptions # NoDestination /\ destinationPoint # NoDestination
    /\ LET r == [to |-> routeOptions, option |-> option]
       IN  RouteChanges(r) /\ Persisted(r, destinationPoint, writes)
    /\ routeFromCache' = FALSE
    /\ UNCHANGED <<destinationPoint, routeOptions, routeLoading, requests>>

ClearRoute ==
    /\ RouteChanges(NoRoute)
    /\ destinationPoint' = NoDestination /\ routeFromCache' = FALSE
    /\ routeOptions' = NoDestination /\ stored' = NothingStored
    /\ UNCHANGED <<routeLoading, requests, lost>>

\* clearNavigationHistory: the storage only; the page goes on with what it has in hand.
ClearNavigationHistory ==
    /\ stored' = NothingStored
    /\ UNCHANGED <<route, routeFromCache, destinationPoint, routeOptions, routeLoading, requests,
                   lost, intelligenceVars>>

\* The page is loaded anew.
Reload ==
    /\ route' = IF Restorable THEN stored.route ELSE NoRoute
    /\ destinationPoint' = IF Restorable THEN stored.destination ELSE NoDestination
    /\ routeFromCache' = Restorable
    /\ stored' = IF Restorable THEN stored ELSE NothingStored
    /\ routeOptions' = NoDestination /\ routeLoading' = FALSE
    /\ requests' = [q \in Requests |-> NoRequest]
    /\ intelligence' = NoRoute /\ intelligenceError' = FALSE
    /\ intelligenceLoading' = Restorable
    /\ loads' = IF Restorable THEN {stored.route} ELSE {}
    /\ UNCHANGED lost

PlannerTick ==
    /\ stored # NothingStored /\ stored.age <= MaxAge
    /\ stored' = [route |-> stored.route, destination |-> stored.destination, age |-> stored.age + 1]
    /\ UNCHANGED <<route, routeFromCache, destinationPoint, routeOptions, routeLoading, requests,
                   lost, intelligenceVars>>

PlannerInit ==
    /\ route = NoRoute /\ destinationPoint = NoDestination /\ routeFromCache = FALSE
    /\ routeOptions = NoDestination /\ routeLoading = FALSE
    /\ requests = [q \in Requests |-> NoRequest]
    /\ stored = NothingStored
    /\ intelligence = NoRoute /\ intelligenceLoading = FALSE /\ intelligenceError = FALSE
    /\ loads = {} /\ lost = FALSE

PlannerNext ==
    \/ \E q \in Requests, to \in Destinations : RequestRoute(q, to)
    \/ \E q \in Requests : NoAlternatives(q)
    \/ \E q \in Requests, o \in OptionIds \cup {NoOption}, writes \in BOOLEAN : Routed(q, o, writes)
    \/ \E q \in Requests : NotRouted(q)
    \/ \E o \in OptionIds, writes \in BOOLEAN : SelectRouteOption(o, writes)
    \/ ClearRoute
    \/ ClearNavigationHistory
    \/ IntelligenceAsked
    \/ \E r \in loads, ok \in BOOLEAN, last \in BOOLEAN : IntelligenceAnswered(r, ok, last)
    \/ Reload
    \/ PlannerTick

(***************************************************************************)
(* Properties.                                                             *)
(***************************************************************************)
\* Over answers in any order, cached routes and reloads, the route shown leads to the
\* destination shown, and the options too, unless a route could once not be stored: then
\* the storage may bring back a former route beside the options of a later one.
RouteLeadsToDestination ==
    /\ ~lost => /\ route.to = destinationPoint
                /\ routeOptions \in {destinationPoint, NoDestination}
                /\ stored.route.to = stored.destination
    /\ routeFromCache => route # NoRoute
    /\ routeLoading => \E q \in Requests : requests[q] # NoRequest

\* What is shown about the road ahead is about the route that is shown, unless the page
\* shows that it waits for the answer, or that it did not get one.
IntelligenceIsOfRoute ==
    intelligence = NoRoute \/ intelligence = route \/ intelligenceLoading \/ intelligenceError
=============================================================================
