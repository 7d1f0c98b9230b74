---------------------------- MODULE LiveNavigation ----------------------------
(***************************************************************************)
(* The live navigation page (apps/hmi/components/KingmastLiveNavigation.tsx):  *)
(* the position of the device, the search for places, and the routes that are     *)
(* asked for, refreshed and selected while answers are under way.  The browser      *)
(* has geolocation and answers the question for its permission.  A refresh comes     *)
(* by the button or every minute; an answer takes as long as it likes.                *)
(***************************************************************************)
EXTENDS Naturals, FiniteSets, SequencesExt

CONSTANTS Places, NoPlace,
          Calls,             \* the route requests that may be under way at once (a bound)
          Answers            \* the routes an answer may bring: those of the first backend
                             \* of alternatives/route.ts that has some

ASSUME LiveAssumption ==
    /\ NoPlace \notin Places
    /\ Answers \subseteq Seq([provider : STRING, distanceM : Nat, recommended : BOOLEAN]) \ {<< >>}
    /\ \A a \in Answers : \A i, j \in DOMAIN a : a[i].provider = a[j].provider

Idle == [place |-> NoPlace, preserve |-> FALSE]

VARIABLES gps, permission, listening, watching, located,
          places, searching, destination, options, selected, routing, error,
          calls              \* what each request was made for, or Idle

gpsVars == <<gps, permission, listening, watching, located>>
routeVars == <<places, searching, destination, options, selected, routing, error, calls>>
liveVars == <<gpsVars, routeVars>>

(***************************************************************************)
(* useGps.                                                                 *)
(***************************************************************************)
\* The browser asks the driver if it has to; a former watch is dropped.
Start ==
    /\ watching' = TRUE /\ gps' = "requesting"
    /\ UNCHANGED <<permission, listening, located, routeVars>>

\* The driver answers the browser's question, put by the first watch.
PermissionAnswered(p) ==
    /\ watching /\ permission = "prompt" /\ p \in {"granted", "denied"}
    /\ permission' = p
    /\ IF ~listening THEN UNCHANGED <<gps, watching, located>>
       ELSE IF p = "granted" THEN watching' = TRUE /\ gps' = "requesting" /\ UNCHANGED located
       ELSE watching' = FALSE /\ located' = FALSE /\ gps' = "denied"
    /\ UNCHANGED <<listening, routeVars>>

\* The answer to permissions.query, made when the page was mounted.
PermissionKnown ==
    /\ ~listening /\ listening' = TRUE
    /\ IF permission = "granted" THEN watching' = TRUE /\ gps' = "requesting"
       ELSE gps' = permission /\ UNCHANGED watching
    /\ UNCHANGED <<permission, located, routeVars>>

\* Mutant: the watch goes, but the position stays on the map.
KeptPosition(p) == located

PositionAfter(p) == p = "granted" /\ located

\* permission.onchange: the driver changes the setting of the browser.
PermissionChanges(p) ==
    /\ listening /\ p # permission /\ permission' = p
    /\ watching' = (p = "granted")
    /\ located' = PositionAfter(p)
    /\ gps' = IF p = "granted" THEN "requesting" ELSE p
    /\ UNCHANGED <<listening, routeVars>>

Position ==
    /\ watching /\ permission = "granted"
    /\ located' = TRUE /\ gps' = "live"
    /\ UNCHANGED <<permission, listening, watching, routeVars>>

\* A refusal or a timeout; the watch goes on.
PositionFails ==
    /\ watching
    /\ located' = FALSE /\ gps' = "denied"
    /\ UNCHANGED <<permission, listening, watching, routeVars>>

(***************************************************************************)
(* Search and routes.                                                      *)
(***************************************************************************)
SearchPlaces ==
    /\ located /\ ~searching
    /\ searching' = TRUE /\ error' = "none"
    /\ UNCHANGED <<gpsVars, places, destination, options, selected, routing, calls>>

SearchAnswered(found) ==
    /\ searching /\ searching' = FALSE
    /\ places' = found
    /\ UNCHANGED <<gpsVars, destination, options, selected, routing, error, calls>>

SearchFails ==
    /\ searching /\ searching' = FALSE
    /\ places' = {} /\ error' = "search"
    /\ UNCHANGED <<gpsVars, destination, options, selected, routing, calls>>

\* loadRoutes up to its await.
LoadRoutes(c, place, preserve) ==
    IF ~located THEN error' = "gps" /\ UNCHANGED <<routing, calls>>
    ELSE /\ calls[c] = Idle
         /\ calls' = [calls EXCEPT ![c] = [place |-> place, preserve |-> preserve]]
         /\ routing' = TRUE /\ error' = "none"

Choose(c, place) ==
    /\ place \in places /\ places' = {}
    /\ LoadRoutes(c, place, FALSE)
    /\ UNCHANGED <<gpsVars, searching, destination, options, selected>>

Refresh(c) ==
    /\ destination # NoPlace
    /\ LoadRoutes(c, destination, TRUE)
    /\ UNCHANGED <<gpsVars, places, searching, destination, options, selected>>

Recommended(next) ==
    IF \E i \in DOMAIN next : next[i].recommended
    THEN CHOOSE i \in DOMAIN next :
             next[i].recommended /\ \A j \in 1..i - 1 : ~next[j].recommended
    ELSE 1

Gap(m, n) == IF m < n THEN n - m ELSE m - n

\* The score of a route: another provider counts for more than any length.
Score(route, previous) ==
    (IF route.provider = previous.provider THEN 0 ELSE 1000000)
      + Gap(route.distanceM, previous.distanceM)

\* Mutant: a refresh goes back to the recommended route.
Forgotten(next, previous) == Recommended(next)

Nearest(next, previous) ==
    CHOOSE i \in DOMAIN next :
        \A j \in DOMAIN next : Score(next[i], previous) < Score(next[j], previous)
                               \/ (Score(next[i], previous) = Score(next[j], previous) /\ i <= j)

\* What is shown when the answer comes decides, not what was shown when it was asked for.
RoutesAnswered(c, answer) ==
    /\ calls[c] # Idle
    /\ calls' = [calls EXCEPT ![c] = Idle] /\ routing' = FALSE
    /\ destination' = calls[c].place
    /\ options' = [i \in DOMAIN answer |->
           [to |-> calls[c].place, provider |-> answer[i].provider,
            distanceM |-> answer[i].distanceM, recommended |-> answer[i].recommended]]
    /\ selected' = IF calls[c].preserve /\ selected \in DOMAIN options
                   THEN Nearest(answer, options[selected]) ELSE Recommended(answer)
    /\ UNCHANGED <<gpsVars, places, searching, error>>

\* Refused, broken or empty: the routes go, the destination stays.
RoutesFail(c) ==
    /\ calls[c] # Idle
    /\ calls' = [calls EXCEPT ![c] = Idle] /\ routing' = FALSE
    /\ options' = << >> /\ error' = "route"
    /\ UNCHANGED <<gpsVars, places, searching, destination, selected>>

SelectRoute(i) ==
    /\ i \in DOMAIN options /\ selected' = i
    /\ UNCHANGED <<gpsVars, places, searching, destination, options, routing, error, calls>>

LiveInit ==
    /\ gps = "prompt" /\ permission \in {"prompt", "granted", "denied"}
    /\ listening = FALSE /\ watching = FALSE /\ located = FALSE
    /\ places = {} /\ searching = FALSE /\ destination = NoPlace
    /\ options = << >> /\ selected = 1 /\ routing = FALSE /\ error = "none"
    /\ calls = [c \in Calls |-> Idle]

Longest == CHOOSE n \in {Len(a) : a \in Answers} : \A a \in Answers : Len(a) <= n

LiveNext ==
    \/ Start
    \/ \E p \in {"granted", "denied"} : PermissionAnswered(p)
    \/ PermissionKnown
    \/ \E p \in {"prompt", "granted", "denied"} : PermissionChanges(p)
    \/ Position
    \/ PositionFails
    \/ SearchPlaces
    \/ \E found \in SUBSET Places : SearchAnswered(found)
    \/ SearchFails
    \/ \E c \in Calls, place \in Places : Choose(c, place)
    \/ \E c \in Calls : Refresh(c)
    \/ \E c \in Calls, answer \in Answers : RoutesAnswered(c, answer)
    \/ \E c \in Calls : RoutesFail(c)
    \/ \E i \in 1..Longest : SelectRoute(i)

(***************************************************************************)
(* Properties.                                                             *)
(***************************************************************************)
\* However answers overtake each other, the page shows the routes of one place, the
\* destination it names, and has one of them selected; the wait for routes is shown only
\* while there is one.
RoutesAreOfOnePlace ==
    /\ \A i \in DOMAIN options : options[i].to = destination
    /\ options # << >> => destination \in Places /\ selected \in DOMAIN options
    /\ routing => \E c \in Calls : calls[c] # Idle

\* "Live" is said of a position that is known, and no position is kept once the page has
\* heard that it may not have one.
PositionIsPermitted ==
    /\ gps = "live" => located /\ watching
    /\ located => permission = "granted"
    /\ gps = "denied" => ~located

\* After a refresh the page stays with the route that is shown when the answer comes, or the
\* one nearest to it in length, also if the driver has selected it, or chosen another place,
\* since the refresh was asked for.
SelectionIsKept ==
    [][\A c \in Calls : \A i \in DOMAIN options' :
          calls[c].preserve /\ calls'[c] = Idle /\ options # << >> =>
              LET shown == options[selected].distanceM
              IN  Gap(options'[selected'].distanceM, shown) <= Gap(options'[i].distanceM, shown)
      ]_liveVars
=============================================================================
