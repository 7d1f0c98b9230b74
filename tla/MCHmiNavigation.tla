---------------------------- MODULE MCHmiNavigation ----------------------------
(***************************************************************************)
(* The instance of the run HmiNavigation: what the HMI server admits and asks   *)
(* of navigation, the live navigation page and the cockpit's route planner.       *)
(* Only the settings of the server are read by two of them, so that it is enough    *)
(* to let one, the subject, move while the others stay where they started.            *)
(***************************************************************************)
EXTENDS NavigationServer, LiveNavigation, RoutePlanner

VARIABLE subject

Subjects == {"envelope", "routes", "live", "planner"}

navigationRunVars == <<subject, envelopeVars, routesVars, liveVars, plannerVars>>

\* A step of the part s; a process that starts anew has new settings, whichever part moves.
Of(s) ==
    /\ subject = s /\ UNCHANGED subject
    /\ s # "envelope" => UNCHANGED <<buckets, replay, issued, admitted, used, evicted>>
    /\ s \notin {"envelope", "routes"} => UNCHANGED settings
    /\ s # "routes" => UNCHANGED routesVars
    /\ s # "live" => UNCHANGED liveVars
    /\ s # "planner" => UNCHANGED plannerVars

NavigationInit ==
    /\ subject \in Subjects
    /\ EnvelopeInit /\ RoutesInit /\ LiveInit /\ PlannerInit
    /\ subject \notin {"envelope", "routes"} => settings = CHOOSE s \in Settings : TRUE
    /\ subject # "live" => permission = "prompt"

NavigationNext ==
    \/ \E c \in Capabilities, s \in Scopes : Of("envelope") /\ IssueNavigationCapability(c, s)
    \/ \E p \in Principals \cup {Loopback}, s \in Scopes, c \in Capabilities \cup {NoCapability} :
           Of("envelope") /\ Admit(p, s, c)
    \/ \E s \in Settings : Of("envelope") /\ NewProcess(s)
    \/ Of("envelope") /\ EnvelopeTick
    \/ \E r \in RouteRequests : Of("routes") /\ UNCHANGED settings /\ PostRoute(r)
    \/ \E r \in RouteRequests : Of("routes") /\ UNCHANGED settings /\ Ask(r)
    \/ \E r \in RouteRequests, ok \in BOOLEAN :
           Of("routes") /\ UNCHANGED settings /\ BackendAnswers(r, ok)
    \/ Of("routes") /\ UNCHANGED settings /\ NewDay
    \/ Of("routes") /\ RoutesLost /\ settings' \in Settings
    \/ Of("live") /\ Start
    \/ \E p \in {"granted", "denied"} : Of("live") /\ PermissionAnswered(p)
    \/ Of("live") /\ PermissionKnown
    \/ \E p \in {"prompt", "granted", "denied"} : Of("live") /\ PermissionChanges(p)
    \/ Of("live") /\ Position
    \/ Of("live") /\ PositionFails
    \/ Of("live") /\ SearchPlaces
    \/ \E found \in SUBSET Places : Of("live") /\ SearchAnswered(found)
    \/ Of("live") /\ SearchFails
    \/ \E c \in Calls, place \in Places : Of("live") /\ Choose(c, place)
    \/ \E c \in Calls : Of("live") /\ Refresh(c)
    \/ \E c \in Calls, answer \in Answers : Of("live") /\ RoutesAnswered(c, answer)
    \/ \E c \in Calls : Of("live") /\ RoutesFail(c)
    \/ \E i \in 1..Longest : Of("live") /\ SelectRoute(i)
    \/ \E q \in Requests, to \in Destinations : Of("planner") /\ RequestRoute(q, to)
    \/ \E q \in Requests : Of("planner") /\ NoAlternatives(q)
    \/ \E q \in Requests, o \in OptionIds \cup {NoOption}, writes \in BOOLEAN :
           Of("planner") /\ Routed(q, o, writes)
    \/ \E q \in Requests : Of("planner") /\ NotRouted(q)
    \/ \E o \in OptionIds, writes \in BOOLEAN : Of("planner") /\ SelectRouteOption(o, writes)
    \/ Of("planner") /\ ClearRoute
    \/ Of("planner") /\ ClearNavigationHistory
    \/ Of("planner") /\ IntelligenceAsked
    \/ \E r \in loads, ok \in BOOLEAN, last \in BOOLEAN :
           Of("planner") /\ IntelligenceAnswered(r, ok, last)
    \/ Of("planner") /\ Reload
    \/ Of("planner") /\ PlannerTick

NavigationRunSpec == NavigationInit /\ [][NavigationNext]_navigationRunVars

(***************************************************************************)
(* Properties of the run: those of the parts, joined by what they are about.    *)
(***************************************************************************)
\* What clients may ask of navigation is kept: capabilities, rates and paid calls; and no
\* request is given up before the free backend has been asked.
EnvelopeIsKept ==
    /\ EnvelopeTypeOK
    /\ CapabilitiesAreSpentOnce /\ RatesAreKept /\ PaidCallsAreCapped /\ FallbackIsTried
    /\ AnnouncedIsAsked

\* However answers overtake each other, routes shown lead where the page says, and what is
\* said of them is about them.
RoutesAreTrue ==
    RoutesAreOfOnePlace /\ PositionIsPermitted /\ RouteLeadsToDestination /\ IntelligenceIsOfRoute

(***************************************************************************)
(* The instance.                                                             *)
(***************************************************************************)
Option(p, d, r) == [provider |-> p, distanceM |-> d, recommended |-> r]

MCAnswers ==
    {<<Option("google", 1, TRUE), Option("google", 3, FALSE)>>,
     <<Option("osrm", 3, TRUE), Option("osrm", 1, FALSE)>>,
     <<Option("osrm", 2, TRUE)>>}

MCSettings ==
    LET usual == [enabled |-> TRUE, mode |-> "normal", emergency |-> FALSE, killSwitch |-> FALSE,
                  authRequired |-> TRUE, broker |-> TRUE, paid |-> TRUE,
                  keys |-> {"google", "mapbox"}, provider |-> "auto"]
    IN  {usual,
         [usual EXCEPT !.authRequired = FALSE, !.provider = "google", !.keys = {"mapbox"}],
         [usual EXCEPT !.mode = "degraded", !.broker = FALSE],
         [usual EXCEPT !.emergency = TRUE]}
=============================================================================
