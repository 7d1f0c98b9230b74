------------------------------- MODULE HmiProofs -------------------------------
(***************************************************************************)
(* The HMI for every number of clients, requests, places, routes, sockets, *)
(* frames, restarts and failures.                                          *)
(*                                                                         *)
(* Navigation: the live page and the route planner need to know what is    *)
(* under way: requests are for places, only the answers about the route    *)
(* that is shown still count, and what is stored leads where the page      *)
(* leads.  The server needs to know that no backend is left to be asked    *)
(* that was asked, that the free one is the last, and that what was paid   *)
(* today is among the calls that were counted today; of a rate window, how  *)
(* long ago came what it does not count; and of a capability that was        *)
(* taken, that it is remembered, expired, or was forgotten for lack of room.  *)
(*                                                                         *)
(* The link: its variables keep their types, and as long as no two sockets *)
(* were open at once the page never goes back to an earlier frame.  That   *)
(* needs to know of the frames under way: they go to one socket only, come *)
(* in the order of the device's starts, and none is of an earlier start    *)
(* than the frame shown.                                                   *)
(***************************************************************************)
EXTENDS MCHmiNavigation, HmiLink, WellFoundedInduction, SequenceTheorems,
        FiniteSetTheorems, TLAPS

-----------------------------------------------------------------------------
(* Navigation *)

\* A set of numbers that is not empty has a least member.
LEMMA LeastExists ==
    ASSUME NEW T \in SUBSET Nat, T # {}
    PROVE  \E x \in T : \A y \in T : x <= y
<1>1. IsWellFoundedOn(OpToRel(<, Nat), Nat)
  BY NatLessThanWellFounded
<1>2. PICK x \in T : \A y \in T : ~(<<y, x>> \in OpToRel(<, Nat))
  BY <1>1, WFMin
<1>3. ASSUME NEW y \in T, y < x PROVE FALSE
  <2>1. y \in Nat /\ x \in Nat
    OBVIOUS
  <2>2. <<y, x>> \in OpToRel(<, Nat)
    BY <2>1, <1>3, Zenon DEF OpToRel
  <2> QED
    BY <1>2, <2>2
<1> QED
  BY <1>3

-----------------------------------------------------------------------------
Loads == [place : Places \cup {NoPlace}, preserve : BOOLEAN]
Offered == [provider : STRING, distanceM : Nat, recommended : BOOLEAN]
Shown == [to : Places, provider : STRING, distanceM : Nat, recommended : BOOLEAN]

LiveTypes ==
    /\ permission \in {"prompt", "granted", "denied"}
    /\ places \subseteq Places /\ destination \in Places \cup {NoPlace}
    /\ options \in Seq(Shown)
    /\ calls \in [Calls -> Loads]
    /\ \A c \in Calls : calls[c] # Idle => calls[c].place \in Places

LiveInv == LiveTypes /\ RoutesAreOfOnePlace /\ PositionIsPermitted

\* A request is made for a place.
LEMMA LoadsAreForPlaces ==
    /\ Idle \in Loads
    /\ \A p \in Places, b \in BOOLEAN :
           LET load == [place |-> p, preserve |-> b]
           IN  load \in Loads /\ load # Idle /\ load.place = p
<1>1. Idle \in Loads
  BY DEF Idle, Loads
<1>2. ASSUME NEW p \in Places, NEW b \in BOOLEAN
      PROVE  [place |-> p, preserve |-> b] \in Loads /\ [place |-> p, preserve |-> b] # Idle
  BY LiveAssumption DEF Idle, Loads
<1> QED
  BY <1>1, <1>2

\* An answer brings at least one route, and all routes have one provider.
LEMMA AnswersAreRoutes ==
    ASSUME NEW answer \in Answers
    PROVE  /\ answer \in Seq(Offered) /\ Len(answer) \in Nat \ {0}
           /\ DOMAIN answer = 1..Len(answer)
           /\ \A i \in DOMAIN answer : answer[i] \in Offered
           /\ \A i, j \in DOMAIN answer : answer[i].provider = answer[j].provider
<1>1. answer \in Seq(Offered) /\ answer # << >>
  BY LiveAssumption DEF Offered
<1>2. \A i, j \in DOMAIN answer : answer[i].provider = answer[j].provider
  BY LiveAssumption
<1> QED
  BY <1>1, <1>2

\* What is shown of an answer is a list of routes to the place it was asked for.
LEMMA AnswersAreShown ==
    ASSUME NEW answer \in Answers, NEW place \in Places
    PROVE  [i \in DOMAIN answer |->
               [to |-> place, provider |-> answer[i].provider,
                distanceM |-> answer[i].distanceM, recommended |-> answer[i].recommended]]
               \in Seq(Shown)
<1> DEFINE n == Len(answer)
<1>1. n \in Nat /\ DOMAIN answer = 1..n /\ \A i \in 1..n : answer[i] \in Offered
  BY AnswersAreRoutes
<1> HIDE DEF n
<1>2. \A i \in 1..n : [to |-> place, provider |-> answer[i].provider,
                       distanceM |-> answer[i].distanceM,
                       recommended |-> answer[i].recommended] \in Shown
  BY <1>1 DEF Offered, Shown
<1> QED
  BY <1>1, <1>2

\* One of the routes is the recommended one.
LEMMA RecommendedIsOne ==
    ASSUME NEW answer \in Answers
    PROVE  Recommended(answer) \in DOMAIN answer
<1> DEFINE T == {i \in DOMAIN answer : answer[i].recommended}
<1>1. DOMAIN answer = 1..Len(answer) /\ Len(answer) \in Nat \ {0}
  BY AnswersAreRoutes
<1>2. CASE T = {}
  BY <1>1, <1>2 DEF Recommended
<1>3. CASE T # {}
  <2>1. T \in SUBSET Nat
    BY <1>1
  <2>2. PICK i \in T : \A j \in T : i <= j
    BY <2>1, <1>3, LeastExists
  <2>3. i \in DOMAIN answer /\ answer[i].recommended /\ \A j \in 1..i - 1 : ~answer[j].recommended
    BY <1>1, <2>2
  <2> QED
    BY <2>3 DEF Recommended
<1> QED
  BY <1>2, <1>3

\* One of the routes is the nearest to the one shown before, and none is nearer.
LEMMA NearestIsOne ==
    ASSUME NEW answer \in Answers, NEW previous \in Shown
    PROVE  /\ Nearest(answer, previous) \in DOMAIN answer
           /\ \A i \in DOMAIN answer :
                  Gap(answer[Nearest(answer, previous)].distanceM, previous.distanceM)
                      <= Gap(answer[i].distanceM, previous.distanceM)
<1> DEFINE S(i) == Score(answer[i], previous)
<1>1. DOMAIN answer = 1..Len(answer) /\ Len(answer) \in Nat \ {0}
  BY AnswersAreRoutes
<1>2. \A i \in DOMAIN answer : answer[i] \in Offered /\ Gap(answer[i].distanceM,
   previous.distanceM) \in Nat
  BY AnswersAreRoutes DEF Offered, Shown, Gap
<1>3. \A i \in DOMAIN answer : S(i) \in Nat
  BY <1>2 DEF Score
<1>4. PICK m \in {S(i) : i \in DOMAIN answer} : \A i \in DOMAIN answer : m <= S(i)
  <2> HIDE DEF S
  <2> DEFINE T == {S(i) : i \in DOMAIN answer}
  <2>1. T \in SUBSET Nat
    BY <1>3
  <2>2. S(1) \in T
    BY <1>1
  <2>3. \E m \in T : \A y \in T : m <= y
    BY <2>1, <2>2, LeastExists
  <2> QED
    BY <2>3
<1>5. PICK k \in {i \in DOMAIN answer : S(i) = m} :
          \A i \in {j \in DOMAIN answer : S(j) = m} : k <= i
  <2> DEFINE T == {i \in DOMAIN answer : S(i) = m}
  <2>1. T \in SUBSET Nat /\ T # {}
    BY <1>1, <1>4
  <2>2. \E k \in T : \A i \in T : k <= i
    BY <2>1, LeastExists
  <2> QED
    BY <2>2
<1>6. k \in DOMAIN answer /\ \A j \in DOMAIN answer : S(k) < S(j) \/ (S(k) = S(j) /\ k <= j)
  BY <1>3, <1>4, <1>5
<1> DEFINE n == Nearest(answer, previous)
<1>7. n \in DOMAIN answer /\ \A j \in DOMAIN answer : S(n) < S(j) \/ (S(n) = S(j) /\ n <= j)
  BY <1>6 DEF Nearest
<1> HIDE DEF n
<1>8. ASSUME NEW i \in DOMAIN answer
      PROVE  Gap(answer[n].distanceM, previous.distanceM) <= Gap(answer[i].distanceM,
         previous.distanceM)
  <2>1. answer[n].provider = answer[i].provider
    BY <1>7, AnswersAreRoutes
  <2>2. S(n) <= S(i)
    BY <1>3, <1>7
  <2> QED
    BY <1>2, <1>7, <2>1, <2>2 DEF Score
<1> QED
  BY <1>7, <1>8 DEF n

\* What the page asks for and shows of places and routes keeps its types.
LEMMA LiveTypesKept ==
    ASSUME LiveInv, [LiveNext]_liveVars
    PROVE  LiveTypes'
<1> USE LiveAssumption DEF LiveInv, LiveTypes, liveVars, gpsVars, routeVars
<1>1. CASE Start
  BY <1>1 DEF Start
<1>2. ASSUME NEW p \in {"granted", "denied"}, PermissionAnswered(p) PROVE LiveTypes'
  BY <1>2 DEF PermissionAnswered
<1>3. CASE PermissionKnown
  BY <1>3 DEF PermissionKnown
<1>4. ASSUME NEW p \in {"prompt", "granted", "denied"}, PermissionChanges(p) PROVE LiveTypes'
  BY <1>4 DEF PermissionChanges
<1>5. CASE Position
  BY <1>5 DEF Position
<1>6. CASE PositionFails
  BY <1>6 DEF PositionFails
<1>7. CASE SearchPlaces
  BY <1>7 DEF SearchPlaces
<1>8. ASSUME NEW found \in SUBSET Places, SearchAnswered(found) PROVE LiveTypes'
  BY <1>8 DEF SearchAnswered
<1>9. CASE SearchFails
  BY <1>9 DEF SearchFails
<1>10. ASSUME NEW c \in Calls, NEW place \in Places, Choose(c, place) PROVE LiveTypes'
  <2>1. \/ located /\ \E b \in BOOLEAN, p \in Places :
                        calls' = [calls EXCEPT ![c] = [place |-> p, preserve |-> b]]
        \/ UNCHANGED <<calls, routing>>
    BY <1>10 DEF Choose, LoadRoutes
  <2> QED
    BY <1>10, <2>1, LoadsAreForPlaces DEF Choose, LoadRoutes
<1>11. ASSUME NEW c \in Calls, Refresh(c) PROVE LiveTypes'
  <2>1. \/ located /\ \E b \in BOOLEAN, p \in Places :
                        calls' = [calls EXCEPT ![c] = [place |-> p, preserve |-> b]]
        \/ UNCHANGED <<calls, routing>>
    BY <1>11 DEF Refresh, LoadRoutes
  <2> QED
    BY <1>11, <2>1, LoadsAreForPlaces DEF Refresh, LoadRoutes
<1>12. ASSUME NEW c \in Calls, NEW answer \in Answers, RoutesAnswered(c,
   answer) PROVE LiveTypes'
  <2>1. calls[c].place \in Places /\ calls[c] \in Loads
    BY <1>12 DEF RoutesAnswered, Idle
  <2>2. options' \in Seq(Shown) /\ destination' \in Places /\ calls' \in [Calls -> Loads]
    BY <1>12, <2>1, AnswersAreShown DEF RoutesAnswered, Idle, Loads
  <2>3. \A d \in Calls : calls'[d] # Idle => calls'[d].place \in Places
    BY <1>12, <2>1 DEF RoutesAnswered, Idle
  <2> QED
    BY <1>12, <2>2, <2>3 DEF RoutesAnswered
<1>13. ASSUME NEW c \in Calls, RoutesFail(c) PROVE LiveTypes'
  BY <1>13, LoadsAreForPlaces DEF RoutesFail
<1>14. ASSUME NEW i \in 1..Longest, SelectRoute(i) PROVE LiveTypes'
  BY <1>14 DEF SelectRoute
<1>15. CASE UNCHANGED liveVars
  BY <1>15
<1> QED
  BY <1>1, <1>2, <1>3, <1>4, <1>5, <1>6, <1>7, <1>8, <1>9, <1>10, <1>11, <1>12, <1>13,
     <1>14, <1>15 DEF LiveNext

\* The routes shown lead to the destination, and one of them is selected.
LEMMA OnePlaceKept ==
    ASSUME LiveInv, [LiveNext]_liveVars
    PROVE  RoutesAreOfOnePlace'
<1> USE LiveAssumption DEF LiveInv, LiveTypes, RoutesAreOfOnePlace, liveVars, gpsVars,
   routeVars
<1>1. CASE Start
  BY <1>1 DEF Start
<1>2. ASSUME NEW p \in {"granted", "denied"}, PermissionAnswered(p) PROVE RoutesAreOfOnePlace'
  BY <1>2 DEF PermissionAnswered
<1>3. CASE PermissionKnown
  BY <1>3 DEF PermissionKnown
<1>4. ASSUME NEW p \in {"prompt", "granted", "denied"},
   PermissionChanges(p) PROVE RoutesAreOfOnePlace'
  BY <1>4 DEF PermissionChanges
<1>5. CASE Position
  BY <1>5 DEF Position
<1>6. CASE PositionFails
  BY <1>6 DEF PositionFails
<1>7. CASE SearchPlaces
  BY <1>7 DEF SearchPlaces
<1>8. ASSUME NEW found \in SUBSET Places, SearchAnswered(found) PROVE RoutesAreOfOnePlace'
  BY <1>8 DEF SearchAnswered
<1>9. CASE SearchFails
  BY <1>9 DEF SearchFails
<1>10. ASSUME NEW c \in Calls, NEW place \in Places, Choose(c,
   place) PROVE RoutesAreOfOnePlace'
  <2>1. \/ located /\ \E b \in BOOLEAN, p \in Places :
                        calls' = [calls EXCEPT ![c] = [place |-> p, preserve |-> b]]
        \/ UNCHANGED <<calls, routing>>
    BY <1>10 DEF Choose, LoadRoutes
  <2> QED
    BY <1>10, <2>1, LoadsAreForPlaces DEF Choose, LoadRoutes
<1>11. ASSUME NEW c \in Calls, Refresh(c) PROVE RoutesAreOfOnePlace'
  <2>1. \/ located /\ \E b \in BOOLEAN, p \in Places :
                        calls' = [calls EXCEPT ![c] = [place |-> p, preserve |-> b]]
        \/ UNCHANGED <<calls, routing>>
    BY <1>11 DEF Refresh, LoadRoutes
  <2> QED
    BY <1>11, <2>1, LoadsAreForPlaces DEF Refresh, LoadRoutes
<1>12. ASSUME NEW c \in Calls, NEW answer \in Answers, RoutesAnswered(c,
   answer) PROVE RoutesAreOfOnePlace'
  <2>1. calls[c].place \in Places
    BY <1>12 DEF RoutesAnswered
  <2>2. DOMAIN options' = DOMAIN answer /\ \A i \in DOMAIN answer : options'[i].to = calls[c].place
    BY <1>12 DEF RoutesAnswered
  <2>3. selected' \in DOMAIN answer
    BY <1>12, NearestIsOne, RecommendedIsOne, options \in Seq(Shown) DEF RoutesAnswered
  <2> QED
    BY <1>12, <2>1, <2>2, <2>3 DEF RoutesAnswered
<1>13. ASSUME NEW c \in Calls, RoutesFail(c) PROVE RoutesAreOfOnePlace'
  BY <1>13 DEF RoutesFail
<1>14. ASSUME NEW i \in 1..Longest, SelectRoute(i) PROVE RoutesAreOfOnePlace'
  BY <1>14 DEF SelectRoute
<1>15. CASE UNCHANGED liveVars
  BY <1>15
<1> QED
  BY <1>1, <1>2, <1>3, <1>4, <1>5, <1>6, <1>7, <1>8, <1>9, <1>10, <1>11, <1>12, <1>13,
     <1>14, <1>15 DEF LiveNext

\* A position is kept only with the permission of the driver.
LEMMA PermissionKept ==
    ASSUME LiveInv, [LiveNext]_liveVars
    PROVE  PositionIsPermitted'
<1> USE LiveAssumption DEF LiveInv, LiveTypes, PositionIsPermitted, liveVars, gpsVars,
   routeVars
<1>1. CASE Start
  BY <1>1 DEF Start
<1>2. ASSUME NEW p \in {"granted", "denied"}, PermissionAnswered(p) PROVE PositionIsPermitted'
  BY <1>2 DEF PermissionAnswered
<1>3. CASE PermissionKnown
  BY <1>3 DEF PermissionKnown
<1>4. ASSUME NEW p \in {"prompt", "granted", "denied"},
   PermissionChanges(p) PROVE PositionIsPermitted'
  BY <1>4 DEF PermissionChanges, PositionAfter
<1>5. CASE Position
  BY <1>5 DEF Position
<1>6. CASE PositionFails
  BY <1>6 DEF PositionFails
<1>7. CASE SearchPlaces
  BY <1>7 DEF SearchPlaces
<1>8. ASSUME NEW found \in SUBSET Places, SearchAnswered(found) PROVE PositionIsPermitted'
  BY <1>8 DEF SearchAnswered
<1>9. CASE SearchFails
  BY <1>9 DEF SearchFails
<1>10. ASSUME NEW c \in Calls, NEW place \in Places, Choose(c,
   place) PROVE PositionIsPermitted'
  BY <1>10 DEF Choose, LoadRoutes
<1>11. ASSUME NEW c \in Calls, Refresh(c) PROVE PositionIsPermitted'
  BY <1>11 DEF Refresh, LoadRoutes
<1>12. ASSUME NEW c \in Calls, NEW answer \in Answers, RoutesAnswered(c,
   answer) PROVE PositionIsPermitted'
  BY <1>12 DEF RoutesAnswered
<1>13. ASSUME NEW c \in Calls, RoutesFail(c) PROVE PositionIsPermitted'
  BY <1>13 DEF RoutesFail
<1>14. ASSUME NEW i \in 1..Longest, SelectRoute(i) PROVE PositionIsPermitted'
  BY <1>14 DEF SelectRoute
<1>15. CASE UNCHANGED liveVars
  BY <1>15
<1> QED
  BY <1>1, <1>2, <1>3, <1>4, <1>5, <1>6, <1>7, <1>8, <1>9, <1>10, <1>11, <1>12, <1>13,
     <1>14, <1>15 DEF LiveNext

-----------------------------------------------------------------------------
PlannerTypes ==
    /\ route \in Routes \cup {NoRoute}
    /\ destinationPoint \in Destinations \cup {NoDestination}
    /\ routeOptions \in Destinations \cup {NoDestination}
    /\ requests \in [Requests -> [to : Destinations \cup {NoDestination},
                                  stage : {"none", "alternatives", "fallback"}]]
    /\ \A q \in Requests : requests[q] # NoRequest => requests[q].to \in Destinations
    /\ stored \in [route : Routes \cup {NoRoute},
       destination : Destinations \cup {NoDestination},
                   age : Nat]
    /\ stored # NothingStored => stored.route \in Routes

\* Only the answers about the route that is shown still count.
LoadsAreOfRoute == \A r \in loads : r = route

\* What is stored leads where the page leads, unless a route could once not be stored.
StoredIsShown ==
    ~lost /\ stored # NothingStored => stored.destination = destinationPoint

PlannerInv ==
    /\ PlannerTypes /\ StoredIsShown
    /\ RouteLeadsToDestination /\ LoadsAreOfRoute /\ IntelligenceIsOfRoute

\* What the page plans and stores keeps its types.
LEMMA PlannerTypesKept ==
    ASSUME PlannerInv, [PlannerNext]_plannerVars
    PROVE  PlannerTypes'
<1> USE PlannerAssumption DEF PlannerInv, PlannerTypes, Routes, NoRoute, NoRequest,
   NothingStored, plannerVars, planVars, intelligenceVars
<1>1. ASSUME NEW q \in Requests, NEW to \in Destinations, RequestRoute(q,
   to) PROVE PlannerTypes'
  BY <1>1 DEF RequestRoute
<1>2. ASSUME NEW q \in Requests, NoAlternatives(q) PROVE PlannerTypes'
  BY <1>2 DEF NoAlternatives
<1>3. ASSUME NEW q \in Requests, NEW o \in OptionIds \cup {NoOption}, NEW w \in BOOLEAN,
   Routed(q, o, w) PROVE PlannerTypes'
  BY <1>3 DEF Routed, RouteChanges, Persisted, OptionsAfter, Cancelled
<1>4. ASSUME NEW q \in Requests, NotRouted(q) PROVE PlannerTypes'
  BY <1>4 DEF NotRouted, RouteChanges, Restorable, Cancelled
<1>5. ASSUME NEW o \in OptionIds, NEW w \in BOOLEAN, SelectRouteOption(o,
   w) PROVE PlannerTypes'
  BY <1>5 DEF SelectRouteOption, RouteChanges, Persisted, Cancelled
<1>6. CASE ClearRoute
  BY <1>6 DEF ClearRoute, RouteChanges, Cancelled
<1>7. CASE ClearNavigationHistory
  BY <1>7 DEF ClearNavigationHistory
<1>8. CASE IntelligenceAsked
  BY <1>8 DEF IntelligenceAsked
<1>9. ASSUME NEW r \in loads, NEW ok \in BOOLEAN, NEW last \in BOOLEAN,
   IntelligenceAnswered(r, ok, last) PROVE PlannerTypes'
  BY <1>9 DEF IntelligenceAnswered
<1>10. CASE Reload
  BY <1>10 DEF Reload, Restorable
<1>11. CASE PlannerTick
  BY <1>11 DEF PlannerTick
<1>12. CASE UNCHANGED plannerVars
  BY <1>12
<1> QED
  BY <1>1, <1>2, <1>3, <1>4, <1>5, <1>6, <1>7, <1>8, <1>9, <1>10, <1>11, <1>12 DEF
     PlannerNext

\* The route, its options and what is stored lead to the same destination.
LEMMA LeadsKept ==
    ASSUME PlannerInv, [PlannerNext]_plannerVars
    PROVE  RouteLeadsToDestination'
<1> USE PlannerAssumption DEF PlannerInv, PlannerTypes, StoredIsShown,
   RouteLeadsToDestination, Routes, NoRoute, NoRequest, NothingStored, plannerVars,
   planVars, intelligenceVars
<1>1. ASSUME NEW q \in Requests, NEW to \in Destinations, RequestRoute(q,
   to) PROVE RouteLeadsToDestination'
  BY <1>1 DEF RequestRoute
<1>2. ASSUME NEW q \in Requests, NoAlternatives(q) PROVE RouteLeadsToDestination'
  BY <1>2 DEF NoAlternatives
<1>3. ASSUME NEW q \in Requests, NEW o \in OptionIds \cup {NoOption}, NEW w \in BOOLEAN,
   Routed(q, o, w) PROVE RouteLeadsToDestination'
  BY <1>3 DEF Routed, RouteChanges, Persisted, OptionsAfter
<1>4. ASSUME NEW q \in Requests, NotRouted(q) PROVE RouteLeadsToDestination'
  <2>1. Restorable => stored.route # NoRoute /\ stored # NothingStored
    BY DEF Restorable
  <2> QED
    BY <1>4, <2>1 DEF NotRouted, RouteChanges
<1>5. ASSUME NEW o \in OptionIds, NEW w \in BOOLEAN, SelectRouteOption(o,
   w) PROVE RouteLeadsToDestination'
  BY <1>5 DEF SelectRouteOption, RouteChanges, Persisted
<1>6. CASE ClearRoute
  BY <1>6 DEF ClearRoute, RouteChanges
<1>7. CASE ClearNavigationHistory
  BY <1>7 DEF ClearNavigationHistory
<1>8. CASE IntelligenceAsked
  BY <1>8 DEF IntelligenceAsked
<1>9. ASSUME NEW r \in loads, NEW ok \in BOOLEAN, NEW last \in BOOLEAN,
   IntelligenceAnswered(r, ok, last) PROVE RouteLeadsToDestination'
  BY <1>9 DEF IntelligenceAnswered
<1>10. CASE Reload
  <2>1. Restorable => stored.route # NoRoute /\ stored # NothingStored
    BY DEF Restorable
  <2> QED
    BY <1>10, <2>1 DEF Reload, RouteChanges
<1>11. CASE PlannerTick
  BY <1>11 DEF PlannerTick
<1>12. CASE UNCHANGED plannerVars
  BY <1>12
<1> QED
  BY <1>1, <1>2, <1>3, <1>4, <1>5, <1>6, <1>7, <1>8, <1>9, <1>10, <1>11, <1>12 DEF
     PlannerNext

\* What is stored leads where the page leads.
LEMMA StoredIsShownKept ==
    ASSUME PlannerInv, [PlannerNext]_plannerVars
    PROVE  StoredIsShown'
<1> USE PlannerAssumption DEF PlannerInv, PlannerTypes, StoredIsShown, NothingStored,
   plannerVars, planVars, intelligenceVars
<1>1. ASSUME NEW q \in Requests, NEW to \in Destinations, RequestRoute(q,
   to) PROVE StoredIsShown'
  BY <1>1 DEF RequestRoute
<1>2. ASSUME NEW q \in Requests, NoAlternatives(q) PROVE StoredIsShown'
  BY <1>2 DEF NoAlternatives
<1>3. ASSUME NEW q \in Requests, NEW o \in OptionIds \cup {NoOption}, NEW w \in BOOLEAN,
   Routed(q, o, w) PROVE StoredIsShown'
  BY <1>3 DEF Routed, RouteChanges, Persisted
<1>4. ASSUME NEW q \in Requests, NotRouted(q) PROVE StoredIsShown'
  BY <1>4 DEF NotRouted, RouteChanges
<1>5. ASSUME NEW o \in OptionIds, NEW w \in BOOLEAN, SelectRouteOption(o,
   w) PROVE StoredIsShown'
  BY <1>5 DEF SelectRouteOption, RouteChanges, Persisted
<1>6. CASE ClearRoute
  BY <1>6 DEF ClearRoute
<1>7. CASE ClearNavigationHistory
  BY <1>7 DEF ClearNavigationHistory
<1>8. CASE IntelligenceAsked
  BY <1>8 DEF IntelligenceAsked
<1>9. ASSUME NEW r \in loads, NEW ok \in BOOLEAN, NEW last \in BOOLEAN,
   IntelligenceAnswered(r, ok, last) PROVE StoredIsShown'
  BY <1>9 DEF IntelligenceAnswered
<1>10. CASE Reload
  BY <1>10 DEF Reload
<1>11. CASE PlannerTick
  BY <1>11 DEF PlannerTick
<1>12. CASE UNCHANGED plannerVars
  BY <1>12
<1> QED
  BY <1>1, <1>2, <1>3, <1>4, <1>5, <1>6, <1>7, <1>8, <1>9, <1>10, <1>11, <1>12 DEF
     PlannerNext

\* Answers under way are about the route that is shown.
LEMMA LoadsAreOfRouteKept ==
    ASSUME PlannerInv, [PlannerNext]_plannerVars
    PROVE  LoadsAreOfRoute'
<1> USE PlannerAssumption DEF PlannerInv, LoadsAreOfRoute, NoRoute, plannerVars, planVars,
   intelligenceVars
<1>1. ASSUME NEW q \in Requests, NEW to \in Destinations, RequestRoute(q,
   to) PROVE LoadsAreOfRoute'
  BY <1>1 DEF RequestRoute
<1>2. ASSUME NEW q \in Requests, NoAlternatives(q) PROVE LoadsAreOfRoute'
  BY <1>2 DEF NoAlternatives
<1>3. ASSUME NEW q \in Requests, NEW o \in OptionIds \cup {NoOption}, NEW w \in BOOLEAN,
   Routed(q, o, w) PROVE LoadsAreOfRoute'
  BY <1>3 DEF Routed, RouteChanges, Cancelled
<1>4. ASSUME NEW q \in Requests, NotRouted(q) PROVE LoadsAreOfRoute'
  BY <1>4 DEF NotRouted, RouteChanges, Cancelled
<1>5. ASSUME NEW o \in OptionIds, NEW w \in BOOLEAN, SelectRouteOption(o,
   w) PROVE LoadsAreOfRoute'
  BY <1>5 DEF SelectRouteOption, RouteChanges, Cancelled
<1>6. CASE ClearRoute
  BY <1>6 DEF ClearRoute, RouteChanges, Cancelled
<1>7. CASE ClearNavigationHistory
  BY <1>7 DEF ClearNavigationHistory
<1>8. CASE IntelligenceAsked
  BY <1>8 DEF IntelligenceAsked
<1>9. ASSUME NEW r \in loads, NEW ok \in BOOLEAN, NEW last \in BOOLEAN,
   IntelligenceAnswered(r, ok, last) PROVE LoadsAreOfRoute'
  BY <1>9 DEF IntelligenceAnswered
<1>10. CASE Reload
  BY <1>10 DEF Reload, Restorable
<1>11. CASE PlannerTick
  BY <1>11 DEF PlannerTick
<1>12. CASE UNCHANGED plannerVars
  BY <1>12
<1> QED
  BY <1>1, <1>2, <1>3, <1>4, <1>5, <1>6, <1>7, <1>8, <1>9, <1>10, <1>11, <1>12 DEF
     PlannerNext

\* What is shown about the road ahead is about the route that is shown.
LEMMA IntelligenceKept ==
    ASSUME PlannerInv, [PlannerNext]_plannerVars
    PROVE  IntelligenceIsOfRoute'
<1> USE PlannerAssumption DEF PlannerInv, LoadsAreOfRoute, IntelligenceIsOfRoute,
   plannerVars, planVars, intelligenceVars
<1>1. ASSUME NEW q \in Requests, NEW to \in Destinations, RequestRoute(q,
   to) PROVE IntelligenceIsOfRoute'
  BY <1>1 DEF RequestRoute
<1>2. ASSUME NEW q \in Requests, NoAlternatives(q) PROVE IntelligenceIsOfRoute'
  BY <1>2 DEF NoAlternatives
<1>3. ASSUME NEW q \in Requests, NEW o \in OptionIds \cup {NoOption}, NEW w \in BOOLEAN,
   Routed(q, o, w) PROVE IntelligenceIsOfRoute'
  BY <1>3 DEF Routed, RouteChanges
<1>4. ASSUME NEW q \in Requests, NotRouted(q) PROVE IntelligenceIsOfRoute'
  BY <1>4 DEF NotRouted, RouteChanges
<1>5. ASSUME NEW o \in OptionIds, NEW w \in BOOLEAN, SelectRouteOption(o,
   w) PROVE IntelligenceIsOfRoute'
  BY <1>5 DEF SelectRouteOption, RouteChanges
<1>6. CASE ClearRoute
  BY <1>6 DEF ClearRoute, RouteChanges
<1>7. CASE ClearNavigationHistory
  BY <1>7 DEF ClearNavigationHistory
<1>8. CASE IntelligenceAsked
  BY <1>8 DEF IntelligenceAsked
<1>9. ASSUME NEW r \in loads, NEW ok \in BOOLEAN, NEW last \in BOOLEAN,
   IntelligenceAnswered(r, ok, last) PROVE IntelligenceIsOfRoute'
  BY <1>9 DEF IntelligenceAnswered
<1>10. CASE Reload
  BY <1>10 DEF Reload, Restorable
<1>11. CASE PlannerTick
  BY <1>11 DEF PlannerTick
<1>12. CASE UNCHANGED plannerVars
  BY <1>12
<1> QED
  BY <1>1, <1>2, <1>3, <1>4, <1>5, <1>6, <1>7, <1>8, <1>9, <1>10, <1>11, <1>12 DEF
     PlannerNext

-----------------------------------------------------------------------------
Orders == {<<"osrm">>, <<"google", "osrm">>, <<"mapbox", "osrm">>, <<"google", "mapbox",
   "osrm">>}

Planned ==
    [state : {"none", "asking", "waiting", "routed", "unavailable"},
     left : Seq(Backends), asked : Seq(Backends)]

RoutesTypes ==
    /\ settings \in Settings
    /\ routeRequests \in [RouteRequests -> Planned]
    /\ paidToday \in BOOLEAN /\ paidCalls \in Nat /\ spent \in Nat

\* No backend is asked again that was asked, and the free one is asked last.
AskedInOrder ==
    \A r \in RouteRequests :
        LET left == routeRequests[r].left
            asked == routeRequests[r].asked
        IN  /\ IsInjective(left) /\ IsInjective(asked)
            /\ \A i \in DOMAIN left, j \in DOMAIN asked : left[i] # asked[j]
            /\ left # << >> => left[Len(left)] = "osrm"
            /\ routeRequests[r].state \notin {"none", "asking"} /\ left = << >>
                   => \E j \in DOMAIN asked : asked[j] = "osrm"
            /\ routeRequests[r].state = "asking" => left # << >>
            /\ routeRequests[r].state = "unavailable" => left = << >>

\* What was paid today is among the calls that were counted today.
SpentIsCounted ==
    spent <= CallsToday /\ PaidCallsAreCapped /\ (subject # "routes" => spent = 0)

RoutesInv == RoutesTypes /\ AskedInOrder /\ SpentIsCounted

\* The order in which the backends are asked.
LEMMA OrdersEndFree ==
    ASSUME settings \in Settings
    PROVE  /\ BackendOrder \in Orders
           /\ AnnouncedIsAsked
<1> DEFINE first(b) == IF b \in Configured THEN <<b>> ELSE << >>
<1>1. settings.provider \in {"google", "mapbox", "osrm",
   "auto"} /\ Configured \subseteq {"google", "mapbox"}
  BY NavigationAssumption DEF Configured, Backends
<1>2. /\ \A b \in Backends : <<b>> \in Seq(Backends) /\ Len(<<b>>) = 1 /\ <<b>>[1] = b
      /\ \A b, c \in Backends : /\ <<b, c>> \in Seq(Backends) /\ Len(<<b, c>>) = 2
                                /\ <<b, c>>[1] = b /\ <<b, c>>[2] = c
      /\ \A b, c, d \in Backends : /\ <<b, c, d>> \in Seq(Backends) /\ Len(<<b, c, d>>) = 3
             /\ <<b, c, d>>[1] = b /\ <<b, c, d>>[2] = c /\ <<b, c, d>>[3] = d
      /\ << >> \in Seq(Backends)
  OBVIOUS
<1>3. /\ \A b, c \in Backends : <<b>> \o <<c>> = <<b, c>>
      /\ \A b, c, d \in Backends : <<b, c>> \o <<d>> = <<b, c, d>>
  <2>1. ASSUME NEW b \in Backends, NEW c \in Backends PROVE <<b>> \o <<c>> = <<b, c>>
    <3> DEFINE s == <<b>> \o <<c>>  t == <<b, c>>
    <3>1. /\ s \in Seq(Backends) /\ Len(s) = 2 /\ t \in Seq(Backends) /\ Len(t) = 2
          /\ \A i \in 1..2 : s[i] = t[i]
      BY <1>2, ConcatProperties
    <3> HIDE DEF s, t
    <3>2. s = t
      BY <3>1, SeqEqual
    <3> QED
      BY <3>2 DEF s, t
  <2>2. ASSUME NEW b \in Backends, NEW c \in Backends, NEW d \in Backends
        PROVE  <<b, c>> \o <<d>> = <<b, c, d>>
    <3> DEFINE s == <<b, c>> \o <<d>>  t == <<b, c, d>>
    <3>1. /\ s \in Seq(Backends) /\ Len(s) = 3 /\ t \in Seq(Backends) /\ Len(t) = 3
          /\ \A i \in 1..3 : s[i] = t[i]
      BY <1>2, ConcatProperties
    <3> HIDE DEF s, t
    <3>2. s = t
      BY <3>1, SeqEqual
    <3> QED
      BY <3>2 DEF s, t
  <2> QED
    BY <2>1, <2>2
<1>4. /\ \A b \in Backends : <<b>> \o << >> = <<b>> /\ << >> \o <<b>> = <<b>>
      /\ << >> \o << >> = << >>
      /\ "osrm" \in Backends /\ "google" \in Backends /\ "mapbox" \in Backends
  BY <1>2, ConcatEmptySeq DEF Backends
<1>5. \A a, b, c : Head(<<a>>) = a /\ Head(<<a, b>>) = a /\ Head(<<a, b, c>>) = a
  OBVIOUS
<1>6. CASE settings.provider = "osrm"
  <2>1. BackendOrder = <<"osrm">>
    BY <1>3, <1>4, <1>6 DEF BackendOrder
  <2> QED
    BY <1>1, <1>5, <1>6, <2>1 DEF Orders, AnnouncedIsAsked, TrafficSource
<1>7. CASE settings.provider = "auto"
  <2>1. BackendOrder = (first("google") \o first("mapbox")) \o <<"osrm">>
    BY <1>7 DEF BackendOrder
  <2>2. BackendOrder = IF "google" \in Configured
                       THEN IF "mapbox" \in Configured THEN <<"google", "mapbox", "osrm">>
                            ELSE <<"google", "osrm">>
                       ELSE IF "mapbox" \in Configured THEN <<"mapbox",
                          "osrm">> ELSE <<"osrm">>
    BY SMTT(30), <2>1, <1>3, <1>4
  <2> QED
    BY <1>1, <1>5, <1>7, <2>2 DEF Orders, AnnouncedIsAsked, TrafficSource
<1>8. CASE settings.provider \in {"google", "mapbox"}
  <2>1. BackendOrder = first(settings.provider) \o <<"osrm">>
    BY <1>8 DEF BackendOrder
  <2>2. BackendOrder = IF settings.provider \in Configured THEN <<settings.provider, "osrm">>
                       ELSE <<"osrm">>
    BY <2>1, <1>3, <1>4
  <2> QED
    BY <1>1, <1>5, <1>8, <2>2 DEF Orders, AnnouncedIsAsked, TrafficSource
<1> QED
  BY <1>1, <1>6, <1>7, <1>8

\* What the part of the route requests does, and what others do to its settings.
RoutesStep ==
    /\ UNCHANGED subject
    /\ \/ subject = "routes" /\ UNCHANGED settings /\ RoutesNext
       \/ subject = "routes" /\ RoutesLost /\ settings' \in Settings
       \/ UNCHANGED routesVars /\ UNCHANGED settings
       \/ UNCHANGED routesVars /\ subject # "routes" /\ settings' \in Settings

\* The route requests and what is counted of them keep their types.
LEMMA RoutesTypesKept ==
    ASSUME RoutesInv, RoutesStep
    PROVE  RoutesTypes'
<1> USE DEF RoutesInv, RoutesTypes
<1>0. << >> \in Seq(Backends) /\ Orders \subseteq Seq(Backends)
  BY DEF Orders, Backends
<1>1. ASSUME NEW r \in RouteRequests, PostRoute(r), UNCHANGED settings PROVE RoutesTypes'
  <2>1. BackendOrder \in Seq(Backends)
    BY <1>0, OrdersEndFree
  <2>2. [state |-> "asking", left |-> BackendOrder, asked |-> << >>] \in Planned
    BY <1>0, <2>1 DEF Planned
  <2> QED
    BY <1>1, <2>2 DEF PostRoute
<1>2. ASSUME NEW r \in RouteRequests, Ask(r), UNCHANGED settings PROVE RoutesTypes'
  <2> DEFINE b == Head(routeRequests[r].left)
             paid == b # "osrm"
             mayCall == ~paid \/ QuotaLeft
  <2>1. routeRequests[r].left \in Seq(Backends) /\ routeRequests[r].asked \in Seq(Backends)
    BY DEF Planned
  <2>2. routeRequests[r].left # << >>
    BY <1>2 DEF Ask, AskedInOrder
  <2>3. b \in Backends /\ Tail(routeRequests[r].left) \in Seq(Backends)
        /\ Append(routeRequests[r].asked, b) \in Seq(Backends)
    BY <2>1, <2>2
  <2>4. /\ routeRequests' = [routeRequests EXCEPT
                ![r] = [state |-> IF mayCall THEN "waiting" ELSE "asking", left |-> Tail(@.left),
                        asked |-> IF mayCall THEN Append(@.asked, b) ELSE @.asked]]
        /\ paidToday' = (paidToday \/ paid)
        /\ paidCalls' = IF paid THEN (IF mayCall THEN CallsToday + 1 ELSE CallsToday) ELSE paidCalls
        /\ spent' = IF paid /\ mayCall THEN spent + 1 ELSE spent
    BY <1>2 DEF Ask
  <2>5. [state |-> IF mayCall THEN "waiting" ELSE "asking", left |-> Tail(routeRequests[r].left),
         asked |-> IF mayCall THEN Append(routeRequests[r].asked,
            b) ELSE routeRequests[r].asked] \in Planned
    BY <2>1, <2>3 DEF Planned
  <2>6. paidCalls' \in Nat /\ spent' \in Nat
    BY <2>4 DEF CallsToday
  <2>7. paidToday' \in BOOLEAN
    BY <2>4, Zenon
  <2> QED
    BY <1>2, <2>4, <2>5, <2>6, <2>7
<1>3. ASSUME NEW r \in RouteRequests, NEW ok \in BOOLEAN, BackendAnswers(r, ok),
   UNCHANGED settings
      PROVE  RoutesTypes'
  BY <1>3 DEF BackendAnswers, Planned
<1>4. CASE NewDay /\ UNCHANGED settings
  BY <1>4 DEF NewDay
<1>5. CASE RoutesLost /\ settings' \in Settings
  BY <1>0, <1>5 DEF RoutesLost, NoRouteRequest, Planned
<1>6. CASE UNCHANGED routesVars /\ settings' \in Settings
  BY <1>6 DEF routesVars
<1> QED
  BY <1>1, <1>2, <1>3, <1>4, <1>5, <1>6 DEF RoutesStep, RoutesNext

\* What is paid is counted first.
LEMMA SpentIsCountedKept ==
    ASSUME RoutesInv, RoutesStep
    PROVE  SpentIsCounted'
<1> USE NavigationAssumption
    DEF RoutesInv, RoutesTypes, SpentIsCounted, PaidCallsAreCapped, CallsToday
<1>1. ASSUME NEW r \in RouteRequests, PostRoute(r), UNCHANGED <<subject, settings>>
      PROVE  SpentIsCounted'
  BY <1>1 DEF PostRoute, PaidRoutingEnabled, RuntimeMode
<1>2. ASSUME NEW r \in RouteRequests, Ask(r), UNCHANGED <<subject, settings>>,
   subject = "routes"
      PROVE  SpentIsCounted'
  <2>1. PaidRoutingEnabled' <=> PaidRoutingEnabled
    BY <1>2 DEF PaidRoutingEnabled, RuntimeMode
  <2> DEFINE paid == Head(routeRequests[r].left) # "osrm"
             mayCall == ~paid \/ QuotaLeft
  <2>2. /\ paidToday' = (paidToday \/ paid)
        /\ paidCalls' = IF paid THEN (IF mayCall THEN CallsToday + 1 ELSE CallsToday) ELSE paidCalls
        /\ spent' = IF paid /\ mayCall THEN spent + 1 ELSE spent
    BY <1>2 DEF Ask
  <2>3. paid /\ mayCall => PaidRoutingEnabled /\ CallsToday < DailyPaidLimit
    BY DEF QuotaLeft
  <2> HIDE DEF paid, mayCall
  <2>7. paid => paidToday'
    BY <2>2, Zenon
  <2>4. CASE paid /\ mayCall
    <3>1. CallsToday \in Nat /\ spent <= CallsToday /\ CallsToday < DailyPaidLimit /\ spent \in Nat
      BY <2>3, <2>4
    <3>2. paidCalls' = CallsToday + 1 /\ spent' = spent + 1
      BY <2>2, <2>4
    <3>3. CallsToday' = CallsToday + 1
      BY <2>4, <2>7, <3>2
    <3>4. spent' <= CallsToday' /\ spent' <= DailyPaidLimit
      BY ONLY <3>1, <3>2, <3>3, NavigationAssumption
    <3> QED
      BY <1>2, <2>1, <2>3, <2>4, <3>4
  <2>5. CASE paid /\ ~mayCall
    BY <1>2, <2>1, <2>2, <2>5
  <2>6. CASE ~paid
    BY <1>2, <2>1, <2>2, <2>6
  <2> QED
    BY <2>4, <2>5, <2>6
<1>3. ASSUME NEW r \in RouteRequests, NEW ok \in BOOLEAN, BackendAnswers(r, ok),
             UNCHANGED <<subject, settings>>
      PROVE  SpentIsCounted'
  BY <1>3 DEF BackendAnswers, PaidRoutingEnabled, RuntimeMode
<1>4. CASE NewDay /\ UNCHANGED <<subject, settings>>
  BY <1>4 DEF NewDay
<1>5. CASE RoutesLost /\ UNCHANGED subject
  BY <1>5 DEF RoutesLost
<1>6. CASE UNCHANGED routesVars /\ UNCHANGED <<subject, settings>>
  BY <1>6 DEF routesVars, PaidRoutingEnabled, RuntimeMode
<1>7. CASE UNCHANGED routesVars /\ UNCHANGED subject /\ subject # "routes"
  BY <1>7 DEF routesVars
<1> QED
  BY <1>1, <1>2, <1>3, <1>4, <1>5, <1>6, <1>7 DEF RoutesStep, RoutesNext

\* A request goes through its backends in order, and to the free one at the end.
LEMMA AskedInOrderKept ==
    ASSUME RoutesInv, RoutesStep
    PROVE  AskedInOrder'
<1> USE DEF RoutesInv, RoutesTypes, AskedInOrder, IsInjective
<1>1. ASSUME NEW r \in RouteRequests, PostRoute(r) PROVE AskedInOrder'
  <2>1. BackendOrder \in Orders
    BY OrdersEndFree
  <2>2. ASSUME NEW o \in Orders
        PROVE  /\ IsInjective(o) /\ o # << >> /\ o[Len(o)] = "osrm"
    <3>1. CASE o = <<"osrm">>
      BY <3>1
    <3>2. CASE o = <<"google", "osrm">>
      BY <3>2
    <3>3. CASE o = <<"mapbox", "osrm">>
      BY <3>3
    <3>4. CASE o = <<"google", "mapbox", "osrm">>
      BY <3>4
    <3> QED
      BY <3>1, <3>2, <3>3, <3>4 DEF Orders
  <2>3. DOMAIN << >> = {} /\ IsInjective(<< >>)
    OBVIOUS
  <2>4. routeRequests' = [routeRequests EXCEPT
           ![r] = [state |-> "asking", left |-> BackendOrder, asked |-> << >>]]
    BY <1>1 DEF PostRoute
  <2> QED
    BY <2>1, <2>2, <2>3, <2>4
<1>2. ASSUME NEW r \in RouteRequests, Ask(r) PROVE AskedInOrder'
  <2> DEFINE left == routeRequests[r].left
             asked == routeRequests[r].asked
             b == Head(left)
             mayCall == b = "osrm" \/ QuotaLeft
  <2>1. left \in Seq(Backends) /\ asked \in Seq(Backends) /\ left # << >>
    BY <1>2 DEF Ask, Planned
  <2>2. /\ Len(left) \in Nat \ {0} /\ DOMAIN left = 1..Len(left) /\ b = left[1]
        /\ DOMAIN Tail(left) = 1..Len(left) - 1 /\ Len(Tail(left)) = Len(left) - 1
        /\ \A i \in 1..Len(left) - 1 : Tail(left)[i] = left[i + 1]
    BY <2>1
  <2>12. Tail(left) = << >> <=> Len(left) = 1
    <3>1. Tail(left) \in Seq(Backends) /\ Len(Tail(left)) = Len(left) - 1
      BY <2>1, <2>2
    <3>2. Tail(left) = << >> <=> Len(Tail(left)) = 0
      BY <3>1, EmptySeq
    <3> QED
      BY <2>2, <3>1, <3>2
  <2>3. /\ Len(asked) \in Nat /\ DOMAIN asked = 1..Len(asked)
        /\ DOMAIN Append(asked, b) = 1..Len(asked) + 1
        /\ Append(asked, b)[Len(asked) + 1] = b
        /\ \A i \in 1..Len(asked) : Append(asked, b)[i] = asked[i]
    BY <2>1
  <2>4. /\ \A i, j \in 1..Len(left) : left[i] = left[j] => i = j
        /\ \A i, j \in 1..Len(asked) : asked[i] = asked[j] => i = j
        /\ \A i \in 1..Len(left), j \in 1..Len(asked) : left[i] # asked[j]
        /\ left[Len(left)] = "osrm"
    BY <2>1, <2>2, <2>3
  <2>5. /\ routeRequests' = [routeRequests EXCEPT
                ![r] = [state |-> IF mayCall THEN "waiting" ELSE "asking", left |-> Tail(left),
                        asked |-> IF mayCall THEN Append(asked, b) ELSE asked]]
    BY <1>2 DEF Ask
  <2> DEFINE now == routeRequests'[r]
  <2>6. /\ now.state = IF mayCall THEN "waiting" ELSE "asking"
        /\ now.left = Tail(left) /\ now.asked = IF mayCall THEN Append(asked, b) ELSE asked
        /\ \A q \in RouteRequests \ {r} : routeRequests'[q] = routeRequests[q]
    BY <2>5
  <2> HIDE DEF left, asked, b, mayCall, now
  <2>7. IsInjective(now.left)
    BY <2>2, <2>4, <2>6
  <2>8. IsInjective(now.asked) /\ \A i \in DOMAIN now.left,
     j \in DOMAIN now.asked : now.left[i] # now.asked[j]
    <3>1. CASE mayCall
      BY SMTT(30), <2>2, <2>3, <2>4, <2>6, <3>1
    <3>2. CASE ~mayCall
      BY <2>2, <2>3, <2>4, <2>6, <3>2
    <3> QED
      BY <3>1, <3>2
  <2>9. now.left # << >> => now.left[Len(now.left)] = "osrm"
    BY <2>2, <2>4, <2>6
  <2>10. now.left = << >> =>
            now.state = "waiting" /\ \E j \in DOMAIN now.asked : now.asked[j] = "osrm"
    BY <2>2, <2>3, <2>4, <2>6, <2>12 DEF mayCall
  <2>11. now.state \in {"waiting", "asking"}
    BY <2>6
  <2> SUFFICES ASSUME NEW q \in RouteRequests
               PROVE  LET l == routeRequests'[q].left
                          a == routeRequests'[q].asked
                      IN  /\ IsInjective(l) /\ IsInjective(a)
                          /\ \A i \in DOMAIN l, j \in DOMAIN a : l[i] # a[j]
                          /\ l # << >> => l[Len(l)] = "osrm"
                          /\ routeRequests'[q].state \notin {"none", "asking"} /\ l = << >>
                                 => \E j \in DOMAIN a : a[j] = "osrm"
                          /\ routeRequests'[q].state = "asking" => l # << >>
                          /\ routeRequests'[q].state = "unavailable" => l = << >>
    BY Zenon DEF AskedInOrder
  <2>13. CASE q = r
    BY <2>7, <2>8, <2>9, <2>10, <2>11, <2>13 DEF now
  <2>14. CASE q # r
    BY <2>6, <2>14
  <2> QED
    BY <2>13, <2>14
<1>3. ASSUME NEW r \in RouteRequests, NEW ok \in BOOLEAN, BackendAnswers(r,
   ok) PROVE AskedInOrder'
  BY <1>3 DEF BackendAnswers
<1>4. CASE NewDay
  BY <1>4 DEF NewDay
<1>5. CASE RoutesLost
  BY <1>5 DEF RoutesLost, NoRouteRequest
<1>6. CASE UNCHANGED routesVars
  BY <1>6 DEF routesVars
<1> QED
  BY <1>1, <1>2, <1>3, <1>4, <1>5, <1>6 DEF RoutesStep, RoutesNext

-----------------------------------------------------------------------------
(* Admission: capabilities and rate windows *)

\* How many of some places come no later than place i.
Rank(slots, i) == Cardinality({j \in slots : j <= i})

\* The places up to n have the ranks from 1 on, each place its own.
LEMMA RanksCount ==
    ASSUME NEW n \in Nat, NEW slots \in SUBSET (1..n)
    PROVE  /\ IsFiniteSet(slots) /\ Cardinality(slots) \in Nat
           /\ \A m \in 1..Cardinality(slots) : \E i \in slots : Rank(slots, i) = m
           /\ \A i \in slots : Rank(slots, i) \in 1..Cardinality(slots)
           /\ \A i, j \in slots : Rank(slots, i) = Rank(slots, j) => i = j
<1> DEFINE upTo(x) == {j \in slots : j <= x}
<1>0. \A j \in slots : j \in Nat /\ 1 <= j /\ j <= n
  OBVIOUS
<1>1. IsFiniteSet(slots) /\ Cardinality(slots) \in Nat
  <2>1. IsFiniteSet(1..n)
    BY FS_Interval
  <2> QED
    BY <2>1, FS_Subset, FS_CardinalityType
<1>2. \A x \in Nat : /\ IsFiniteSet(upTo(x)) /\ Cardinality(upTo(x)) \in Nat
                     /\ Cardinality(upTo(x)) <= Cardinality(slots)
  <2>1. \A x \in Nat : upTo(x) \in SUBSET slots
    OBVIOUS
  <2> QED
    BY <1>1, <2>1, FS_Subset, FS_CardinalityType
<1>3. \A x \in Nat \ {0} :
          /\ x \in slots => /\ x \notin upTo(x - 1) /\ upTo(x) = upTo(x - 1) \cup {x}
          /\ x \notin slots => upTo(x) = upTo(x - 1)
  <2>1. ASSUME NEW x \in Nat \ {0}, NEW j \in slots
        PROVE  j <= x <=> (j <= x - 1 \/ j = x)
    BY <1>0
  <2>2. ASSUME NEW x \in Nat \ {0} PROVE ~(x <= x - 1)
    OBVIOUS
  <2>3. ASSUME NEW x \in Nat \ {0}, x \in slots
        PROVE  x \notin upTo(x - 1) /\ upTo(x) = upTo(x - 1) \cup {x}
    <3>1. x \notin upTo(x - 1)
      BY <2>2, Zenon
    <3>2. \A j \in slots : j <= x <=> (j <= x - 1 \/ j = x)
      BY <2>1
    <3>3. upTo(x) = upTo(x - 1) \cup {x}
      BY <2>3, <3>2, Zenon
    <3> QED
      BY <3>1, <3>3
  <2>4. ASSUME NEW x \in Nat \ {0}, x \notin slots
        PROVE  upTo(x) = upTo(x - 1)
    <3>1. \A j \in slots : j <= x <=> j <= x - 1
      BY <2>1, <2>4
    <3> QED
      BY <3>1, Zenon
  <2> HIDE DEF upTo
  <2> QED
    BY <2>3, <2>4
<1>4. \A x \in Nat \ {0} :
          Cardinality(upTo(x)) = IF x \in slots THEN Cardinality(upTo(x - 1)) + 1
                                 ELSE Cardinality(upTo(x - 1))
  <2> SUFFICES ASSUME NEW x \in Nat \ {0}
               PROVE  Cardinality(upTo(x)) = IF x \in slots THEN Cardinality(upTo(x - 1)) + 1
                                             ELSE Cardinality(upTo(x - 1))
    OBVIOUS
  <2>1. x - 1 \in Nat
    OBVIOUS
  <2>2. IsFiniteSet(upTo(x - 1))
    BY <1>2, <2>1
  <2> HIDE DEF upTo
  <2>3. CASE x \in slots
    <3> DEFINE low == upTo(x - 1)
    <3>1. x \notin low /\ upTo(x) = low \cup {x} /\ IsFiniteSet(low)
      BY <1>3, <2>2, <2>3
    <3> HIDE DEF low
    <3>2. Cardinality(low \cup {x}) = Cardinality(low) + 1
      BY <3>1, FS_AddElement
    <3>3. Cardinality(upTo(x)) = Cardinality(low) + 1
      BY <3>1, <3>2
    <3> QED
      BY <2>3, <3>3 DEF low
  <2>4. CASE x \notin slots
    BY <1>3, <2>4
  <2> QED
    BY <2>3, <2>4
<1>5. ASSUME NEW m \in 1..Cardinality(slots)
      PROVE  \E i \in slots : Rank(slots, i) = m
  <2> DEFINE T == {x \in Nat : Cardinality(upTo(x)) >= m}
  <2>1. upTo(n) = slots
    <3>1. \A j \in slots : j <= n
      BY <1>0
    <3> QED
      BY <3>1, Zenon
  <2>2. n \in T
    BY <1>1, <2>1
  <2>3. PICK x \in T : \A y \in T : x <= y
    BY <2>2, LeastExists
  <2>4. upTo(0) = {}
    <3>1. \A j \in slots : ~(j <= 0)
      BY <1>0
    <3> QED
      BY <3>1, Zenon
  <2>5. x # 0
    BY <1>1, <2>4, FS_EmptySet
  <2>6. x - 1 \in Nat /\ x - 1 \notin T /\ x \in Nat \ {0}
    <3>1. x \in Nat \ {0}
      BY <2>3, <2>5
    <3> HIDE DEF T
    <3> QED
      BY <2>3, <3>1
  <2> HIDE DEF upTo
  <2>7. Cardinality(upTo(x - 1)) < m /\ Cardinality(upTo(x)) >= m
    BY <1>1, <1>2, <2>6
  <2>8. x \in slots /\ Cardinality(upTo(x)) = m
    BY <1>1, <1>2, <1>4, <2>6, <2>7
  <2> QED
    BY <2>8 DEF Rank, upTo
<1>6. ASSUME NEW i \in slots
      PROVE  Rank(slots, i) \in 1..Cardinality(slots)
  <2>1. i \in Nat \ {0} /\ i - 1 \in Nat
    BY <1>0
  <2> HIDE DEF upTo
  <2>2. Cardinality(upTo(i)) \in 1..Cardinality(slots)
    BY <1>1, <1>2, <1>4, <2>1
  <2> QED
    BY <2>2 DEF Rank, upTo
<1>7. ASSUME NEW i \in slots, NEW j \in slots, i < j
      PROVE  Rank(slots, i) # Rank(slots, j)
  <2>1. i \in Nat /\ j \in Nat \ {0} /\ j - 1 \in Nat
    BY <1>0
  <2>2. upTo(i) \in SUBSET upTo(j - 1)
    <3>1. \A k \in slots : k <= i => k <= j - 1
      BY <1>0, <1>7, <2>1
    <3> QED
      BY <3>1, Zenon
  <2>3. /\ Cardinality(upTo(i)) <= Cardinality(upTo(j - 1)) /\ Cardinality(upTo(i)) \in Nat
        /\ Cardinality(upTo(j - 1)) \in Nat
        /\ Cardinality(upTo(j)) = Cardinality(upTo(j - 1)) + 1
    <3> HIDE DEF upTo
    <3> QED
      BY <1>2, <1>4, <2>1, <2>2, FS_Subset
  <2> HIDE DEF upTo
  <2>4. Cardinality(upTo(i)) # Cardinality(upTo(j))
    BY <2>3
  <2> QED
    BY <2>4 DEF Rank, upTo
<1>8. ASSUME NEW i \in slots, NEW j \in slots, Rank(slots, i) = Rank(slots, j)
      PROVE  i = j
  <2>1. i \in Nat /\ j \in Nat
    BY <1>0
  <2> QED
    BY <1>7, <1>8, <2>1
<1> QED
  BY <1>1, <1>5, <1>6, <1>8

\* The entries at some places are those of the sequence there, and as many.
LEMMA EntriesStay ==
    ASSUME NEW S, NEW r \in Seq(S), NEW slots \in SUBSET DOMAIN r
    PROVE  /\ EntriesAt(r, slots) \in Seq(S)
           /\ IsFiniteSet(slots) /\ Cardinality(slots) \in Nat
           /\ Len(EntriesAt(r, slots)) = Cardinality(slots)
           /\ ToSet(EntriesAt(r, slots)) = {r[i] : i \in slots}
           /\ IsInjective(r) => IsInjective(EntriesAt(r, slots))
<1> DEFINE q == EntriesAt(r, slots)
           place(m) == CHOOSE i \in slots : Rank(slots, i) = m
<1>1. Len(r) \in Nat /\ DOMAIN r = 1..Len(r) /\ \A i \in DOMAIN r : r[i] \in S
  BY LenProperties, ElementOfSeq
<1>2. /\ IsFiniteSet(slots) /\ Cardinality(slots) \in Nat
      /\ \A m \in 1..Cardinality(slots) : \E i \in slots : Rank(slots, i) = m
      /\ \A i \in slots : Rank(slots, i) \in 1..Cardinality(slots)
      /\ \A i, j \in slots : Rank(slots, i) = Rank(slots, j) => i = j
  BY <1>1, RanksCount
<1>3. q = [m \in 1..Cardinality(slots) |-> r[place(m)]]
  BY DEF EntriesAt, Rank
<1>4. \A m \in 1..Cardinality(slots) : place(m) \in slots /\ Rank(slots, place(m)) = m
  BY <1>2
<1>5. \A i \in slots : place(Rank(slots, i)) = i
  BY <1>2, <1>4
<1> HIDE DEF q, place
<1>6. q \in Seq(S) /\ Len(q) = Cardinality(slots) /\ DOMAIN q = 1..Cardinality(slots)
  <2>1. q \in [1..Cardinality(slots) -> S]
    BY <1>1, <1>3, <1>4
  <2>2. q \in Seq(S)
    BY <1>2, <2>1
  <2> QED
    BY <1>2, <1>3, <2>2, LenProperties
<1>7. ToSet(q) = {r[i] : i \in slots}
  <2>1. ASSUME NEW m \in DOMAIN q PROVE q[m] \in {r[i] : i \in slots}
    BY <1>3, <1>4, <1>6
  <2>2. ASSUME NEW i \in slots PROVE \E m \in DOMAIN q : q[m] = r[i]
    BY <1>2, <1>3, <1>5, <1>6
  <2> QED
    BY <2>1, <2>2 DEF ToSet
<1>8. ASSUME IsInjective(r) PROVE IsInjective(q)
  <2>1. ASSUME NEW a \in DOMAIN q, NEW b \in DOMAIN q, q[a] = q[b] PROVE a = b
    BY <1>3, <1>4, <1>6, <1>8, <2>1 DEF IsInjective
  <2> QED
    BY <2>1 DEF IsInjective
<1> QED
  BY <1>2, <1>6, <1>7, <1>8 DEF q

-----------------------------------------------------------------------------
Clients == Principals \cup {Loopback}
Ages == 0..Hour - 1

\* A store of windows, of any clients, within its bound.
Windows(b) ==
    /\ IsFiniteSet(DOMAIN b) /\ Cardinality(DOMAIN b) <= MaxRateKeys
    /\ b = [k \in DOMAIN b |-> b[k]]
    /\ \A k \in DOMAIN b : b[k] \in [count : 1..PerHour, left : 0..Hour]

Running(b, k) == k \in DOMAIN b /\ b[k].left > 0

\* A window of b, if it runs, is still there in c, and if it does not, none runs there.
Unmoved(b, c, k) ==
    /\ Running(b, k) <=> Running(c, k)
    /\ Running(b, k) => c[k] = b[k]

\* The first n were admitted a ticks ago or earlier.
Before(ages, n, a) == \A i \in DOMAIN ages : i <= n => ages[i] >= a

\* What the window of k, if it runs, does not count was admitted before it started; and
\* before the last of that, as many as a window may count, a window length ago.
Covers(b, k, ages, limit, window) ==
    IF Running(b, k)
    THEN /\ b[k].count \in 1..limit /\ b[k].left \in 1..window
         /\ Before(ages, Len(ages) - b[k].count, window - b[k].left)
         /\ Before(ages, Len(ages) - b[k].count - limit, window)
    ELSE Before(ages, Len(ages) - limit, window)

\* Pruning forgets no window that runs.
LEMMA PrunedKeeps ==
    ASSUME NEW b, Windows(b)
    PROVE  /\ Windows(Pruned(b)) /\ DOMAIN Pruned(b) \subseteq DOMAIN b
           /\ \A k \in DOMAIN Pruned(b) : Pruned(b)[k] = b[k]
           /\ \A k : Unmoved(b, Pruned(b), k)
<1> DEFINE p == Pruned(b)
<1>1. /\ DOMAIN p \subseteq DOMAIN b /\ p = [k \in DOMAIN p |-> b[k]]
      /\ \A k \in DOMAIN b \ DOMAIN p : b[k].left = 0
  BY DEF Pruned, Without, Windows
<1>2. IsFiniteSet(DOMAIN p) /\ Cardinality(DOMAIN p) <= MaxRateKeys
  <2>1. /\ IsFiniteSet(DOMAIN p) /\ Cardinality(DOMAIN p) <= Cardinality(DOMAIN b)
        /\ Cardinality(DOMAIN p) \in Nat /\ Cardinality(DOMAIN b) \in Nat
    BY <1>1, FS_Subset, FS_CardinalityType DEF Windows
  <2> QED
    BY <2>1, NavigationAssumption DEF Windows
<1> HIDE DEF p
<1>3. Windows(p)
  BY <1>1, <1>2 DEF Windows
<1>4. \A k \in DOMAIN p : p[k] = b[k]
  BY <1>1
<1>5. ASSUME NEW k PROVE Unmoved(b, p, k)
  BY <1>1, <1>4 DEF Unmoved, Running
<1> QED
  BY <1>1, <1>3, <1>4, <1>5 DEF p

\* One request against one window: the window counts it, is started with it, or stays as
\* it is; no other window is touched.
LEMMA RateLimitCounts ==
    ASSUME NEW b, Windows(b), NEW key, NEW limit \in 1..PerHour, NEW window \in 1..Hour
    PROVE  LET r == RateLimit(b, key, limit, window)
           IN  /\ Windows(r.buckets) /\ r.ok \in BOOLEAN
               /\ \A k : k # key \/ ~r.ok => Unmoved(b, r.buckets, k)
               /\ r.ok => /\ key \in DOMAIN r.buckets
                          /\ IF Running(b, key)
                             THEN /\ b[key].count < limit
                                  /\ r.buckets[key] = [count |-> b[key].count + 1,
                                                       left |-> b[key].left]
                             ELSE r.buckets[key] = [count |-> 1, left |-> window]
<1> DEFINE p == Pruned(b)
           r == RateLimit(b, key, limit, window)
           new == [k \in DOMAIN p \cup {key} |->
                      IF k = key THEN [count |-> 1, left |-> window] ELSE p[k]]
           more == [p EXCEPT ![key].count = @ + 1]
           over == key \notin DOMAIN p \/ p[key].left = 0
           full == key \notin DOMAIN p /\ Cardinality(DOMAIN p) >= MaxRateKeys
<1>1. /\ Windows(p) /\ DOMAIN p \subseteq DOMAIN b
      /\ \A k \in DOMAIN p : p[k] = b[k]
      /\ \A k : Unmoved(b, p, k)
  BY PrunedKeeps
<1>2. r = IF over
          THEN IF full THEN [ok |-> FALSE, buckets |-> p] ELSE [ok |-> TRUE, buckets |-> new]
          ELSE IF p[key].count >= limit THEN [ok |-> FALSE, buckets |-> p]
          ELSE [ok |-> TRUE, buckets |-> more]
  BY DEF RateLimit
<1>3. /\ PerHour \in Nat \ {0} /\ Hour \in Nat \ {0} /\ MaxRateKeys \in Nat
      /\ limit \in Nat /\ window \in Nat
  BY NavigationAssumption
<1>4. over <=> ~Running(b, key)
  <2>1. over <=> ~Running(p, key)
    BY <1>1 DEF Running, Windows
  <2> QED
    BY <1>1, <2>1 DEF Unmoved
<1> HIDE DEF p, r, over
<1>5. CASE ~over /\ p[key].count >= limit
  <2>1. r = [ok |-> FALSE, buckets |-> p]
    BY <1>2, <1>5
  <2> QED
    BY <1>1, <2>1 DEF r
<1>6. CASE over /\ full
  <2>1. r = [ok |-> FALSE, buckets |-> p]
    BY <1>2, <1>6
  <2> QED
    BY <1>1, <2>1 DEF r
<1>7. CASE over /\ ~full
  <2>1. r = [ok |-> TRUE, buckets |-> new]
    BY <1>2, <1>7
  <2>2. /\ DOMAIN new = DOMAIN p \cup {key} /\ new[key] = [count |-> 1, left |-> window]
        /\ \A k \in DOMAIN p \ {key} : new[k] = p[k]
    OBVIOUS
  <2>3. IsFiniteSet(DOMAIN new) /\ Cardinality(DOMAIN new) <= MaxRateKeys
    <3>1. /\ IsFiniteSet(DOMAIN p \cup {key}) /\ Cardinality(DOMAIN p) \in Nat
          /\ Cardinality(DOMAIN p \cup {key}) =
                 IF key \in DOMAIN p THEN Cardinality(DOMAIN p) ELSE Cardinality(DOMAIN p) + 1
      BY <1>1, FS_AddElement, FS_CardinalityType DEF Windows
    <3> QED
      BY <1>1, <1>3, <1>7, <2>2, <3>1 DEF Windows
  <2>4. [count |-> 1, left |-> window] \in [count : 1..PerHour, left : 0..Hour]
    BY <1>3
  <2>5. new = [k \in DOMAIN new |-> new[k]]
    OBVIOUS
  <2> HIDE DEF new
  <2>6. Windows(new)
    BY <1>1, <2>2, <2>3, <2>4, <2>5 DEF Windows
  <2>7. ASSUME NEW k, k # key PROVE Unmoved(b, new, k)
    <3>1. Unmoved(p, new, k)
      BY <2>2, <2>7 DEF Unmoved, Running
    <3> QED
      BY <1>1, <3>1 DEF Unmoved
  <2> QED
    BY <1>4, <1>7, <2>1, <2>2, <2>6, <2>7 DEF r
<1>8. CASE ~over /\ ~(p[key].count >= limit)
  <2>1. r = [ok |-> TRUE, buckets |-> more]
    BY <1>2, <1>8
  <2>2. key \in DOMAIN p /\ p[key] = b[key] /\ p[key] \in [count : 1..PerHour, left : 0..Hour]
    BY <1>1, <1>8 DEF over, Windows
  <2>3. /\ DOMAIN more = DOMAIN p /\ \A k \in DOMAIN p \ {key} : more[k] = p[k]
        /\ more[key] = [count |-> b[key].count + 1, left |-> b[key].left]
        /\ more = [k \in DOMAIN more |-> more[k]]
    BY <2>2
  <2>4. b[key].count < limit /\ b[key].count + 1 \in 1..PerHour
    BY <1>3, <1>8, <2>2
  <2>5. more[key] \in [count : 1..PerHour, left : 0..Hour]
    BY <2>2, <2>3, <2>4
  <2> HIDE DEF more
  <2>6. Windows(more)
    BY <1>1, <2>3, <2>5 DEF Windows
  <2>7. ASSUME NEW k, k # key PROVE Unmoved(b, more, k)
    <3>1. Unmoved(p, more, k)
      BY <2>3, <2>7 DEF Unmoved, Running
    <3> QED
      BY <1>1, <3>1 DEF Unmoved
  <2> QED
    BY <1>4, <1>8, <2>1, <2>2, <2>3, <2>4, <2>6, <2>7 DEF r
<1> QED
  BY <1>5, <1>6, <1>7, <1>8

\* Nothing the covering says is about a window that does not run.
LEMMA CoversStay ==
    ASSUME NEW b, NEW c, NEW k, Unmoved(b, c, k), NEW ages, NEW limit, NEW window,
           Covers(b, k, ages, limit, window)
    PROVE  Covers(c, k, ages, limit, window)
  BY DEF Unmoved, Covers

\* What is known of the ages in a sequence.
LEMMA AgesAreNumbers ==
    ASSUME NEW ages \in Seq(Ages)
    PROVE  /\ Len(ages) \in Nat /\ DOMAIN ages = 1..Len(ages) /\ ages \in Seq(Nat)
           /\ \A i \in DOMAIN ages : ages[i] \in Nat /\ ages[i] < Hour
           /\ Hour \in Nat \ {0}
<1>1. Hour \in Nat \ {0}
  BY NavigationAssumption
<1>2. \A a \in Ages : a \in Nat /\ a < Hour
  BY <1>1 DEF Ages
<1>3. ages \in Seq(Nat)
  BY <1>2, SeqMonotonic
<1> QED
  BY <1>1, <1>2, <1>3, LenProperties, ElementOfSeq

\* A window that counts one request more covers the same admissions, and one more.
LEMMA CountedCovers ==
    ASSUME NEW b, NEW c, NEW k, NEW ages \in Seq(Ages), NEW limit \in Nat \ {0},
           NEW window \in Nat \ {0}, Covers(b, k, ages, limit, window), k \in DOMAIN c,
           IF Running(b, k)
           THEN b[k].count < limit /\ c[k] = [count |-> b[k].count + 1, left |-> b[k].left]
           ELSE c[k] = [count |-> 1, left |-> window]
    PROVE  /\ Covers(c, k, ages, limit, window)
           /\ Covers(c, k, Append(ages, 0), limit, window)
<1> DEFINE more == Append(ages, 0)
<1>1. /\ Len(ages) \in Nat /\ DOMAIN ages = 1..Len(ages) /\ ages \in Seq(Nat)
      /\ \A i \in DOMAIN ages : ages[i] \in Nat /\ ages[i] < Hour
      /\ Hour \in Nat \ {0}
  BY AgesAreNumbers
<1>2. /\ more \in Seq(Nat) /\ Len(more) = Len(ages) + 1 /\ DOMAIN more = 1..Len(ages) + 1
      /\ \A i \in DOMAIN ages : more[i] = ages[i]
  <2>1. more \in Seq(Nat) /\ Len(more) = Len(ages) + 1
        /\ \A i \in 1..Len(ages) : more[i] = ages[i]
    BY <1>1, AppendProperties
  <2> QED
    BY <1>1, <2>1, LenProperties
<1> HIDE DEF more
<1>3. ASSUME NEW n \in Int, NEW a \in Int, Before(ages, n, a), n <= Len(ages)
      PROVE  Before(more, n, a)
  <2>1. ASSUME NEW i \in DOMAIN more, i <= n PROVE more[i] >= a
    <3>1. i \in DOMAIN ages /\ more[i] = ages[i]
      BY SMTT(30), <1>1, <1>2, <1>3, <2>1
    <3> QED
      BY <1>3, <2>1, <3>1 DEF Before
  <2> QED
    BY <2>1 DEF Before
<1>4. CASE Running(b, k)
  <2>1. /\ b[k].count \in 1..limit /\ b[k].left \in 1..window
        /\ Before(ages, Len(ages) - b[k].count, window - b[k].left)
        /\ Before(ages, Len(ages) - b[k].count - limit, window)
    BY <1>4 DEF Covers
  <2>2. /\ c[k].count = b[k].count + 1 /\ c[k].left = b[k].left /\ Running(c, k)
        /\ c[k].count \in 1..limit /\ c[k].left \in 1..window
    BY <1>4, <2>1 DEF Running
  <2>3. /\ Before(ages, Len(ages) - c[k].count, window - c[k].left)
        /\ Before(ages, Len(ages) - c[k].count - limit, window)
    <3>1. \A i \in DOMAIN ages :
              /\ i <= Len(ages) - c[k].count => i <= Len(ages) - b[k].count
              /\ i <= Len(ages) - c[k].count - limit => i <= Len(ages) - b[k].count - limit
      <4>1. b[k].count \in Nat /\ c[k].count = b[k].count + 1 /\ limit \in Nat
        BY <2>1, <2>2
      <4>2. Len(ages) \in Nat /\ \A i \in DOMAIN ages : i \in Nat
        BY <1>1
      <4> QED
        BY ONLY <4>1, <4>2
    <3> QED
      BY <2>1, <2>2, <3>1 DEF Before
  <2>4. /\ Len(more) - c[k].count = Len(ages) - b[k].count
        /\ Len(more) - c[k].count - limit = Len(ages) - b[k].count - limit
        /\ Len(ages) - b[k].count \in Int /\ Len(ages) - b[k].count <= Len(ages)
        /\ Len(ages) - b[k].count - limit \in Int /\ Len(ages) - b[k].count - limit <= Len(ages)
        /\ window - b[k].left \in Int /\ window \in Int
    <3>1. b[k].count \in Nat /\ b[k].left \in Nat /\ c[k].count = b[k].count + 1
      BY <2>1, <2>2
    <3>2. Len(ages) \in Nat /\ Len(more) = Len(ages) + 1
      BY <1>1, <1>2
    <3> QED
      <4>1. limit \in Nat /\ window \in Nat
        OBVIOUS
      <4>2. /\ Len(more) - c[k].count = Len(ages) - b[k].count
            /\ Len(ages) - b[k].count \in Int /\ Len(ages) - b[k].count <= Len(ages)
            /\ window - b[k].left \in Int /\ window \in Int
        BY ONLY SMTT(30), <3>1, <3>2, <4>1
      <4>3. /\ Len(more) - c[k].count - limit = Len(ages) - b[k].count - limit
            /\ Len(ages) - b[k].count - limit \in Int
            /\ Len(ages) - b[k].count - limit <= Len(ages)
        BY ONLY SMTT(30), <3>1, <3>2, <4>1, <4>2
      <4> QED
        BY <4>2, <4>3
  <2>5. /\ Before(more, Len(more) - c[k].count, window - c[k].left)
        /\ Before(more, Len(more) - c[k].count - limit, window)
    BY <1>3, <2>1, <2>2, <2>4
  <2> QED
    BY <2>2, <2>3, <2>5 DEF Covers, more
<1>5. CASE ~Running(b, k)
  <2>1. Before(ages, Len(ages) - limit, window)
    BY <1>5 DEF Covers
  <2>2. /\ c[k].count = 1 /\ c[k].left = window /\ Running(c, k)
        /\ 1 \in 1..limit /\ window \in 1..window
    BY <1>5 DEF Running
  <2>3. /\ Before(ages, Len(ages) - 1, 0) /\ Before(ages, Len(ages), 0)
        /\ Before(ages, Len(ages) - 1 - limit, window)
    BY <1>1, <2>1 DEF Before
  <2>4. /\ Len(more) - 1 = Len(ages) /\ Len(more) - 1 - limit = Len(ages) - limit
        /\ Len(ages) - limit \in Int /\ Len(ages) - limit <= Len(ages) /\ Len(ages) \in Int
        /\ 0 \in Int /\ window \in Int /\ window - window = 0
    BY <1>1, <1>2
  <2>5. Before(more, Len(more) - 1, 0) /\ Before(more, Len(more) - 1 - limit, window)
    BY SMTT(30), <1>3, <2>1, <2>3, <2>4
  <2> QED
    BY <2>2, <2>3, <2>4, <2>5 DEF Covers, more
<1> QED
  BY <1>4, <1>5

\* The ages of a client's admissions, the oldest first.
OldestFirst(ages) == \A i, j \in DOMAIN ages : i <= j => ages[i] >= ages[j]

\* A tick later those that are left are the last ones, each a tick older.
LEMMA OlderAreLast ==
    ASSUME NEW ages \in Seq(Ages), OldestFirst(ages)
    PROVE  /\ Older(ages) \in Seq(Ages) /\ OldestFirst(Older(ages))
           /\ \A d \in Nat, a \in Int :
                 Before(ages, Len(ages) - d, a) => Before(Older(ages), Len(Older(ages)) - d, a + 1)
<1> DEFINE parts(n) == \A i \in DOMAIN ages : i <= n <=> ages[i] + 1 >= Hour
           gone == CHOOSE n \in 0..Len(ages) : parts(n)
           left == Older(ages)
<1>1. /\ Len(ages) \in Nat /\ DOMAIN ages = 1..Len(ages) /\ ages \in Seq(Nat)
      /\ \A i \in DOMAIN ages : ages[i] \in Nat /\ ages[i] < Hour
      /\ Hour \in Nat \ {0}
  BY AgesAreNumbers
<1>2. \E n \in 0..Len(ages) : parts(n)
  <2> DEFINE T == {i \in 1..Len(ages) + 1 : i = Len(ages) + 1 \/ ages[i] + 1 < Hour}
  <2>1. T \in SUBSET Nat /\ Len(ages) + 1 \in T
    BY <1>1
  <2>2. PICK x \in T : \A y \in T : x <= y
    BY <2>1, LeastExists
  <2>3. x - 1 \in 0..Len(ages)
    BY <1>1, <2>2
  <2>4. ASSUME NEW i \in DOMAIN ages, i <= x - 1 PROVE ages[i] + 1 >= Hour
    <3>1. i \notin T
      BY <1>1, <2>1, <2>2, <2>4
    <3> QED
      BY <1>1, <3>1
  <2>5. ASSUME NEW i \in DOMAIN ages, ~(i <= x - 1) PROVE ~(ages[i] + 1 >= Hour)
    <3>1. x <= i /\ x \in DOMAIN ages /\ ages[x] + 1 < Hour
      BY <1>1, <2>2, <2>5
    <3>2. ages[x] >= ages[i]
      BY <3>1 DEF OldestFirst
    <3> QED
      BY <1>1, <3>1, <3>2
  <2> QED
    BY <2>3, <2>4, <2>5
<1>3. gone \in 0..Len(ages) /\ parts(gone)
  BY <1>2
<1>4. left = [i \in 1..Len(ages) - gone |-> ages[gone + i] + 1]
  BY DEF Older
<1> HIDE DEF gone, left
<1>5. \A i \in 1..Len(ages) - gone : gone + i \in DOMAIN ages /\ ~(gone + i <= gone)
  BY <1>1, <1>3
<1>6. \A i \in 1..Len(ages) - gone : ages[gone + i] + 1 \in Ages
  <2>1. ASSUME NEW i \in 1..Len(ages) - gone PROVE ages[gone + i] + 1 \in Ages
    <3>1. ages[gone + i] \in Nat /\ ~(ages[gone + i] + 1 >= Hour)
      BY <1>1, <1>3, <1>5
    <3> QED
      BY <1>1, <3>1 DEF Ages
  <2> QED
    BY <2>1
<1>7. left \in Seq(Ages) /\ Len(left) = Len(ages) - gone /\ DOMAIN left = 1..Len(ages) - gone
  <2>1. Len(ages) - gone \in Nat
    BY <1>1, <1>3
  <2>2. left \in [1..Len(ages) - gone -> Ages]
    BY <1>4, <1>6
  <2>3. left \in Seq(Ages)
    BY <2>1, <2>2
  <2> QED
    BY <1>4, <2>1, <2>3, LenProperties
<1>8. OldestFirst(left)
  <2>1. ASSUME NEW i \in DOMAIN left, NEW j \in DOMAIN left, i <= j PROVE left[i] >= left[j]
    <3>1. /\ gone + i \in DOMAIN ages /\ gone + j \in DOMAIN ages /\ gone + i <= gone + j
      BY <1>3, <1>5, <1>7, <2>1
    <3>2. ages[gone + i] >= ages[gone + j] /\ ages[gone + i] \in Nat /\ ages[gone + j] \in Nat
      BY <1>1, <3>1 DEF OldestFirst
    <3> QED
      BY <1>4, <1>7, <3>2
  <2> QED
    BY <2>1 DEF OldestFirst
<1>9. ASSUME NEW d \in Nat, NEW a \in Int, Before(ages, Len(ages) - d, a)
      PROVE  Before(left, Len(left) - d, a + 1)
  <2>1. ASSUME NEW i \in DOMAIN left, i <= Len(left) - d PROVE left[i] >= a + 1
    <3>1. gone + i \in DOMAIN ages /\ gone + i <= Len(ages) - d
      BY SMTT(30), <1>1, <1>3, <1>5, <1>7, <2>1
    <3>2. ages[gone + i] >= a /\ ages[gone + i] \in Nat
      BY <1>1, <1>9, <3>1 DEF Before
    <3> QED
      BY <1>4, <1>7, <3>2
  <2> QED
    BY <2>1 DEF Before
<1> QED
  BY <1>7, <1>8, <1>9 DEF left

\* The same a tick later.
LEMMA TickCovers ==
    ASSUME NEW b, NEW c, NEW k, NEW ages \in Seq(Ages), OldestFirst(ages),
           NEW limit \in Nat \ {0}, NEW window \in Nat \ {0},
           k \in DOMAIN b => b[k].left \in Nat, DOMAIN c = DOMAIN b,
           k \in DOMAIN b => c[k].count = b[k].count /\ c[k].left = Down(b[k].left),
           Covers(b, k, ages, limit, window)
    PROVE  Covers(c, k, Older(ages), limit, window)
<1> DEFINE left == Older(ages)
<1>1. /\ Len(ages) \in Nat /\ left \in Seq(Ages)
      /\ \A d \in Nat, a \in Int :
            Before(ages, Len(ages) - d, a) => Before(left, Len(left) - d, a + 1)
  BY OlderAreLast, LenProperties
<1>2. Len(left) \in Nat /\ DOMAIN left = 1..Len(left) /\ \A i \in DOMAIN left : left[i] \in Nat
  <2>1. Ages \subseteq Nat
    BY NavigationAssumption DEF Ages
  <2> QED
    BY <1>1, <2>1, LenProperties, ElementOfSeq
<1> HIDE DEF left
<1>3. CASE ~Running(b, k)
  <2>1. ~Running(c, k)
    BY <1>3 DEF Running, Down
  <2>2. Before(ages, Len(ages) - limit, window)
    BY <1>3 DEF Covers
  <2>3. Before(left, Len(left) - limit, window + 1)
    BY <1>1, <2>2
  <2>4. Before(left, Len(left) - limit, window)
    BY <1>2, <2>3 DEF Before
  <2> QED
    BY <2>1, <2>4 DEF Covers, left
<1>4. CASE Running(b, k)
  <2>1. /\ b[k].count \in 1..limit /\ b[k].left \in 1..window
        /\ Before(ages, Len(ages) - b[k].count, window - b[k].left)
        /\ Before(ages, Len(ages) - b[k].count - limit, window)
    BY <1>4 DEF Covers
  <2>2. c[k].count = b[k].count /\ c[k].left = b[k].left - 1 /\ k \in DOMAIN c
    BY <1>4, <2>1 DEF Running, Down
  <2>3. /\ b[k].count \in Nat /\ b[k].count + limit \in Nat /\ window - b[k].left \in Int
        /\ window \in Int
        /\ Len(ages) - b[k].count - limit = Len(ages) - (b[k].count + limit)
        /\ Len(left) - b[k].count - limit = Len(left) - (b[k].count + limit)
    <3>1. /\ b[k].count \in Nat /\ b[k].left \in Nat /\ limit \in Nat /\ window \in Nat
          /\ Len(ages) \in Nat /\ Len(left) \in Nat
      BY <1>1, <1>2, <2>1
    <3> QED
      BY ONLY SMTT(30), <3>1
  <2>4. /\ Before(left, Len(left) - b[k].count, window - b[k].left + 1)
        /\ Before(left, Len(left) - b[k].count - limit, window + 1)
    BY <1>1, <2>1, <2>3
  <2>5. CASE b[k].left = 1
    <3>1. ~Running(c, k)
      BY <2>2, <2>5 DEF Running
    <3>2. Before(left, Len(left) - limit, window)
      BY <1>2, <2>1, <2>4, <2>5 DEF Before
    <3> QED
      BY <3>1, <3>2 DEF Covers, left
  <2>6. CASE b[k].left # 1
    <3>1. Running(c, k) /\ c[k].left \in 1..window /\ c[k].count \in 1..limit
      BY <2>1, <2>2, <2>6 DEF Running
    <3>2. /\ Before(left, Len(left) - c[k].count, window - c[k].left)
          /\ Before(left, Len(left) - c[k].count - limit, window)
      BY SMTT(30), <1>2, <2>1, <2>2, <2>4 DEF Before
    <3> QED
      BY <3>1, <3>2 DEF Covers, left
  <2> QED
    BY <2>5, <2>6
<1> QED
  BY <1>3, <1>4

\* At most twice as many as a window counts are younger than a window.
LEMMA CoversBounds ==
    ASSUME NEW b, NEW k, NEW ages \in Seq(Ages), NEW limit \in Nat \ {0},
           NEW window \in Nat \ {0}, Covers(b, k, ages, limit, window)
    PROVE  /\ Cardinality({i \in DOMAIN ages : ages[i] < window}) <= 2 * limit
           /\ window >= Hour => Len(ages) <= 2 * limit
<1> DEFINE young == {i \in DOMAIN ages : ages[i] < window}
           last == Len(ages) - 2 * limit + 1
<1>1. /\ Len(ages) \in Nat /\ DOMAIN ages = 1..Len(ages) /\ ages \in Seq(Nat)
      /\ \A i \in DOMAIN ages : ages[i] \in Nat /\ ages[i] < Hour
      /\ Hour \in Nat \ {0}
  BY AgesAreNumbers
<1>2. \A i \in DOMAIN ages : i <= Len(ages) - 2 * limit => ages[i] >= window
  <2>1. CASE Running(b, k)
    <3>1. b[k].count \in 1..limit /\ Before(ages, Len(ages) - b[k].count - limit, window)
      BY <2>1 DEF Covers
    <3>2. \A i \in DOMAIN ages :
              i <= Len(ages) - 2 * limit => i <= Len(ages) - b[k].count - limit
      BY SMTT(30), <1>1, <3>1
    <3> QED
      BY <3>1, <3>2 DEF Before
  <2>2. CASE ~Running(b, k)
    BY <1>1, <2>2 DEF Covers, Before
  <2> QED
    BY <2>1, <2>2
<1>3. young \in SUBSET (last..Len(ages))
  BY <1>1, <1>2
<1>4. /\ IsFiniteSet(last..Len(ages))
      /\ Cardinality(last..Len(ages)) = IF last > Len(ages) THEN 0 ELSE Len(ages) - last + 1
  <2>1. last \in Int /\ Len(ages) \in Int
    BY <1>1
  <2> HIDE DEF last
  <2> QED
    BY <2>1, FS_Interval
<1>5. Cardinality(young) <= Cardinality(last..Len(ages)) /\ Cardinality(young) \in Nat
  BY <1>3, <1>4, FS_Subset, FS_CardinalityType
<1>6. Cardinality(young) <= 2 * limit
  BY <1>1, <1>4, <1>5
<1>7. ASSUME window >= Hour, Len(ages) > 2 * limit PROVE FALSE
  <2>1. 1 \in DOMAIN ages /\ 1 <= Len(ages) - 2 * limit
    BY <1>1, <1>7
  <2>2. ages[1] >= window /\ ages[1] \in 0..Hour - 1
    BY SMTT(30), <1>1, <1>2, <2>1 DEF Ages
  <2> QED
    BY <1>1, <1>7, <2>2
<1> QED
  BY <1>1, <1>6, <1>7

\* The windows of a client cover its admissions.
ClientCovered(b, s, p, ages) ==
    /\ Covers(b, <<s, "minute", p>>, ages, PerMinute, Minute)
    /\ Covers(b, <<s, "hour", p>>, ages, PerHour, Hour)

RatesCovered ==
    /\ admitted \in [Scopes \X Clients -> Seq(Ages)]
    /\ \A s \in Scopes, p \in Clients :
           /\ OldestFirst(admitted[<<s, p>>])
           /\ ClientCovered(buckets, s, p, admitted[<<s, p>>])

\* The limits and lengths of the windows.
LEMMA LimitsAreNumbers ==
    /\ PerMinute \in Nat \ {0} /\ PerHour \in Nat \ {0}
    /\ Minute \in Nat \ {0} /\ Hour \in Nat \ {0}
    /\ PerMinute \in 1..PerHour /\ PerHour \in 1..PerHour
    /\ Minute \in 1..Hour /\ Hour \in 1..Hour
    /\ Ttl \in Nat /\ ReplayMax \in Nat /\ ReplayPrune \in Nat /\ MaxRateKeys \in Nat
  BY NavigationAssumption

\* A request that passes is covered by both windows; one that does not may still have been
\* counted by one of them; the windows of other clients cover what they did.
LEMMA PassedCovers ==
    ASSUME Windows(buckets), RatesCovered, NEW scope \in Scopes, NEW principal \in Clients
    PROVE  LET r == Passed(scope, principal)
               ages == admitted[<<scope, principal>>]
           IN  /\ Windows(r.buckets) /\ r.ok \in BOOLEAN
               /\ ClientCovered(r.buckets, scope, principal, ages)
               /\ r.ok => ClientCovered(r.buckets, scope, principal, Append(ages, 0))
               /\ \A s \in Scopes, p \in Clients : <<s, p>> # <<scope, principal>> =>
                      ClientCovered(r.buckets, s, p, admitted[<<s, p>>])
<1> DEFINE r == Passed(scope, principal)
           ages == admitted[<<scope, principal>>]
           km == <<scope, "minute", principal>>
           kh == <<scope, "hour", principal>>
           minute == RateLimit(buckets, km, PerMinute, Minute)
           hour == RateLimit(minute.buckets, kh, PerHour, Hour)
<1>1. /\ ages \in Seq(Ages) /\ OldestFirst(ages)
      /\ Covers(buckets, km, ages, PerMinute, Minute)
      /\ Covers(buckets, kh, ages, PerHour, Hour)
  BY DEF RatesCovered, ClientCovered
<1>2. r = IF minute.ok THEN hour ELSE minute
  BY DEF Passed
<1>3. /\ Windows(minute.buckets) /\ minute.ok \in BOOLEAN
      /\ \A k : k # km \/ ~minute.ok => Unmoved(buckets, minute.buckets, k)
      /\ minute.ok => /\ km \in DOMAIN minute.buckets
                      /\ IF Running(buckets, km)
                         THEN /\ buckets[km].count < PerMinute
                              /\ minute.buckets[km] = [count |-> buckets[km].count + 1,
                                                       left |-> buckets[km].left]
                         ELSE minute.buckets[km] = [count |-> 1, left |-> Minute]
  <2> HIDE DEF km
  <2> QED
    BY LimitsAreNumbers, RateLimitCounts
<1> DEFINE mid == minute.buckets
<1>4. /\ Windows(hour.buckets) /\ hour.ok \in BOOLEAN
      /\ \A k : k # kh \/ ~hour.ok => Unmoved(mid, hour.buckets, k)
      /\ hour.ok => /\ kh \in DOMAIN hour.buckets
                    /\ IF Running(mid, kh)
                       THEN /\ mid[kh].count < PerHour
                            /\ hour.buckets[kh] = [count |-> mid[kh].count + 1,
                                                   left |-> mid[kh].left]
                       ELSE hour.buckets[kh] = [count |-> 1, left |-> Hour]
  <2>1. Windows(mid)
    BY <1>3
  <2>2. hour = RateLimit(mid, kh, PerHour, Hour)
    OBVIOUS
  <2> HIDE DEF mid, kh, minute, hour
  <2> QED
    BY <2>1, <2>2, LimitsAreNumbers, RateLimitCounts
<1>5. km # kh
  OBVIOUS
<1>6. ASSUME NEW s \in Scopes, NEW p \in Clients, <<s, p>> # <<scope, principal>>
      PROVE  /\ <<s, "minute", p>> # km /\ <<s, "minute", p>> # kh
             /\ <<s, "hour", p>> # km /\ <<s, "hour", p>> # kh
  BY <1>6
<1> HIDE DEF r, km, kh, hour, minute, mid, ages
<1>7. CASE ~minute.ok
  <2>1. r = minute
    BY <1>2, <1>7
  <2>2. \A k : Unmoved(buckets, r.buckets, k)
    BY <1>3, <1>7, <2>1
  <2>3. ASSUME NEW s \in Scopes, NEW p \in Clients
        PROVE  ClientCovered(r.buckets, s, p, admitted[<<s, p>>])
    BY <2>2, CoversStay DEF RatesCovered, ClientCovered
  <2> QED
    BY <1>3, <1>7, <2>1, <2>3 DEF r, ages
<1>8. CASE minute.ok
  <2>1. r = hour
    BY <1>2, <1>8
  <2>2. /\ Covers(mid, km, ages, PerMinute, Minute)
        /\ Covers(mid, km, Append(ages, 0), PerMinute, Minute)
    BY <1>1, <1>3, <1>8, LimitsAreNumbers, CountedCovers DEF mid
  <2>3. Covers(mid, kh, ages, PerHour, Hour)
    BY <1>1, <1>3, <1>5, CoversStay DEF mid
  <2>4. /\ Covers(hour.buckets, km, ages, PerMinute, Minute)
        /\ Covers(hour.buckets, km, Append(ages, 0), PerMinute, Minute)
    BY <1>4, <1>5, <2>2, CoversStay
  <2>5. hour.ok => /\ Covers(hour.buckets, kh, ages, PerHour, Hour)
                   /\ Covers(hour.buckets, kh, Append(ages, 0), PerHour, Hour)
    BY <1>1, <1>4, <2>3, LimitsAreNumbers, CountedCovers
  <2>6. ~hour.ok => Covers(hour.buckets, kh, ages, PerHour, Hour)
    BY <1>4, <2>3, CoversStay
  <2>7. ASSUME NEW s \in Scopes, NEW p \in Clients, <<s, p>> # <<scope, principal>>
        PROVE  ClientCovered(r.buckets, s, p, admitted[<<s, p>>])
    <3>1. /\ Unmoved(buckets, mid, <<s, "minute", p>>) /\ Unmoved(buckets, mid, <<s, "hour", p>>)
          /\ Unmoved(mid, r.buckets, <<s, "minute", p>>)
          /\ Unmoved(mid, r.buckets, <<s, "hour", p>>)
      BY <1>3, <1>4, <1>6, <2>1, <2>7 DEF mid
    <3>2. ClientCovered(mid, s, p, admitted[<<s, p>>])
      BY <3>1, CoversStay DEF RatesCovered, ClientCovered
    <3> QED
      BY <3>1, <3>2, CoversStay DEF ClientCovered
  <2>8. /\ ClientCovered(r.buckets, scope, principal, ages)
        /\ r.ok => ClientCovered(r.buckets, scope, principal, Append(ages, 0))
    BY <2>1, <2>4, <2>5, <2>6, <1>4 DEF ClientCovered, km, kh
  <2> QED
    BY <1>4, <2>1, <2>7, <2>8 DEF r, ages
<1> QED
  BY <1>3, <1>7, <1>8

\* Another admission is the youngest.
LEMMA AdmittedLast ==
    ASSUME NEW ages \in Seq(Ages), OldestFirst(ages)
    PROVE  Append(ages, 0) \in Seq(Ages) /\ OldestFirst(Append(ages, 0))
<1> DEFINE more == Append(ages, 0)
<1>1. /\ Len(ages) \in Nat /\ DOMAIN ages = 1..Len(ages) /\ ages \in Seq(Nat)
      /\ \A i \in DOMAIN ages : ages[i] \in Nat /\ ages[i] < Hour
      /\ Hour \in Nat \ {0}
  BY AgesAreNumbers
<1>2. 0 \in Ages
  BY <1>1 DEF Ages
<1>3. /\ more \in Seq(Ages) /\ Len(more) = Len(ages) + 1 /\ more[Len(ages) + 1] = 0
      /\ \A i \in 1..Len(ages) : more[i] = ages[i]
  BY <1>2, AppendProperties
<1>4. DOMAIN more = 1..Len(ages) + 1
  BY <1>3, LenProperties
<1> HIDE DEF more
<1>5. ASSUME NEW i \in DOMAIN more, NEW j \in DOMAIN more, i <= j PROVE more[i] >= more[j]
  <2>1. CASE j = Len(ages) + 1
    BY <1>1, <1>3, <1>4, <2>1
  <2>2. CASE j # Len(ages) + 1
    <3>1. i \in DOMAIN ages /\ j \in DOMAIN ages
      BY <1>1, <1>4, <1>5, <2>2
    <3> QED
      BY <1>1, <1>3, <1>5, <3>1 DEF OldestFirst
  <2> QED
    BY <2>1, <2>2
<1> QED
  BY <1>3, <1>5 DEF OldestFirst, more

EnvelopeTypes ==
    /\ settings \in Settings
    /\ Windows(buckets)
    /\ DOMAIN issued \subseteq Capabilities
    /\ issued \in [DOMAIN issued -> [scope : Scopes, left : Nat]]

\* What the admission does, and what others do to its settings.
EnvelopeStep ==
    \/ \E c \in Capabilities, s \in Scopes : IssueNavigationCapability(c, s)
    \/ \E p \in Clients, s \in Scopes, c \in Capabilities \cup {NoCapability} : Admit(p, s, c)
    \/ \E s \in Settings : NewProcess(s)
    \/ EnvelopeTick
    \/ UNCHANGED <<buckets, replay, issued, admitted, used, evicted>> /\ settings' \in Settings

\* A process starts with no windows.
LEMMA NoWindows ==
    /\ Windows(<< >>) /\ << >> \in Seq(Ages) /\ OldestFirst(<< >>)
    /\ \A s, p : ClientCovered(<< >>, s, p, << >>)
<1>1. DOMAIN << >> = {} /\ << >> = [k \in {} |-> << >>[k]] /\ << >> \in Seq(Ages)
  OBVIOUS
<1>2. \A k, limit, window : Covers(<< >>, k, << >>, limit, window)
  BY <1>1 DEF Covers, Running, Before
<1>3. Windows(<< >>)
  BY <1>1, FS_EmptySet, LimitsAreNumbers DEF Windows
<1> QED
  BY <1>1, <1>2, <1>3 DEF OldestFirst, ClientCovered

\* The windows after a tick.
LEMMA TickedWindows ==
    ASSUME Windows(buckets), EnvelopeTick
    PROVE  /\ Windows(buckets') /\ DOMAIN buckets' = DOMAIN buckets
           /\ \A k \in DOMAIN buckets :
                  /\ buckets[k].left \in Nat /\ buckets'[k].count = buckets[k].count
                  /\ buckets'[k].left = Down(buckets[k].left)
<1>1. /\ DOMAIN buckets' = DOMAIN buckets /\ buckets' = [k \in DOMAIN buckets' |-> buckets'[k]]
      /\ \A k \in DOMAIN buckets : buckets'[k] = [buckets[k] EXCEPT !.left = Down(@)]
  BY DEF EnvelopeTick
<1>2. ASSUME NEW k \in DOMAIN buckets
      PROVE  /\ buckets'[k] \in [count : 1..PerHour, left : 0..Hour]
             /\ buckets[k].left \in Nat /\ buckets'[k].count = buckets[k].count
             /\ buckets'[k].left = Down(buckets[k].left)
  <2>1. buckets[k] \in [count : 1..PerHour, left : 0..Hour]
    BY DEF Windows
  <2>2. buckets'[k] = [count |-> buckets[k].count, left |-> Down(buckets[k].left)]
    BY <1>1, <2>1
  <2>3. Down(buckets[k].left) \in 0..Hour
    BY <2>1, LimitsAreNumbers DEF Down
  <2> QED
    BY <2>1, <2>2, <2>3
<1> QED
  BY <1>1, <1>2 DEF Windows

\* The types are kept.
LEMMA EnvelopeTypesKept ==
    ASSUME EnvelopeTypes, RatesCovered, EnvelopeStep
    PROVE  EnvelopeTypes'
<1> USE DEF EnvelopeTypes
<1>1. ASSUME NEW c \in Capabilities, NEW s \in Scopes, IssueNavigationCapability(c, s)
      PROVE  EnvelopeTypes'
  <2>1. /\ DOMAIN issued' = DOMAIN issued \cup {c}
        /\ issued' = [x \in DOMAIN issued \cup {c} |->
                         IF x = c THEN [scope |-> s, left |-> Ttl] ELSE issued[x]]
        /\ UNCHANGED <<settings, buckets>>
    BY <1>1 DEF IssueNavigationCapability
  <2>2. [scope |-> s, left |-> Ttl] \in [scope : Scopes, left : Nat]
    BY LimitsAreNumbers
  <2>3. issued' \in [DOMAIN issued' -> [scope : Scopes, left : Nat]]
    BY <2>1, <2>2
  <2> QED
    BY <2>1, <2>3
<1>2. ASSUME NEW p \in Clients, NEW s \in Scopes, NEW c \in Capabilities \cup {NoCapability},
             Admit(p, s, c)
      PROVE  EnvelopeTypes'
  <2>1. Windows(Passed(s, p).buckets)
    BY PassedCovers
  <2>2. /\ UNCHANGED <<settings, issued>>
        /\ buckets' = Passed(s, p).buckets \/ buckets' = buckets
    BY <1>2 DEF Admit
  <2> QED
    BY <2>1, <2>2
<1>3. ASSUME NEW s \in Settings, NewProcess(s) PROVE EnvelopeTypes'
  BY <1>3, NoWindows DEF NewProcess
<1>4. ASSUME EnvelopeTick PROVE EnvelopeTypes'
  <2>1. Windows(buckets')
    BY <1>4, TickedWindows
  <2>2. /\ DOMAIN issued' = DOMAIN issued /\ UNCHANGED settings
        /\ issued' = [c \in DOMAIN issued |-> [issued[c] EXCEPT !.left = Down(@)]]
    BY <1>4 DEF EnvelopeTick
  <2>3. \A n \in Nat : Down(n) \in Nat
    BY DEF Down
  <2>4. \A c \in DOMAIN issued :
            [issued[c] EXCEPT !.left = Down(@)] \in [scope : Scopes, left : Nat]
    BY <2>3
  <2>5. issued' \in [DOMAIN issued' -> [scope : Scopes, left : Nat]]
    BY <2>2, <2>4
  <2> QED
    BY <2>1, <2>2, <2>5
<1>5. ASSUME UNCHANGED <<buckets, replay, issued, admitted, used, evicted>>, settings' \in Settings
      PROVE  EnvelopeTypes'
  BY <1>5
<1> QED
  BY <1>1, <1>2, <1>3, <1>4, <1>5 DEF EnvelopeStep

\* The windows cover what was admitted, after every step.
LEMMA RatesCoveredKept ==
    ASSUME EnvelopeTypes, RatesCovered, EnvelopeStep
    PROVE  RatesCovered'
<1>0. /\ admitted \in [Scopes \X Clients -> Seq(Ages)]
      /\ \A s \in Scopes, p \in Clients :
             /\ admitted[<<s, p>>] \in Seq(Ages) /\ OldestFirst(admitted[<<s, p>>])
             /\ ClientCovered(buckets, s, p, admitted[<<s, p>>])
  BY DEF RatesCovered
<1>1. ASSUME UNCHANGED <<buckets, admitted>> PROVE RatesCovered'
  BY <1>1 DEF RatesCovered
<1>2. ASSUME NEW principal \in Clients, NEW scope \in Scopes,
             NEW c \in Capabilities \cup {NoCapability}, Admit(principal, scope, c)
      PROVE  RatesCovered'
  <2> DEFINE rate == Passed(scope, principal)
             ages == admitted[<<scope, principal>>]
  <2>1. /\ rate.ok \in BOOLEAN
        /\ ClientCovered(rate.buckets, scope, principal, ages)
        /\ rate.ok => ClientCovered(rate.buckets, scope, principal, Append(ages, 0))
        /\ \A s \in Scopes, p \in Clients : <<s, p>> # <<scope, principal>> =>
               ClientCovered(rate.buckets, s, p, admitted[<<s, p>>])
    BY PassedCovers DEF EnvelopeTypes
  <2>2. PICK known \in BOOLEAN :
            /\ buckets' = IF known THEN rate.buckets ELSE buckets
            /\ admitted' = IF known /\ rate.ok
                           THEN [admitted EXCEPT ![<<scope, principal>>] = Append(@, 0)]
                           ELSE admitted
    BY <1>2 DEF Admit, Open, Genuine
  <2>3. Append(ages, 0) \in Seq(Ages) /\ OldestFirst(Append(ages, 0))
    BY <1>0, AdmittedLast
  <2> HIDE DEF rate
  <2>4. CASE ~known
    BY <1>1, <2>2, <2>4
  <2>5. CASE known /\ ~rate.ok
    <3>1. buckets' = rate.buckets /\ admitted' = admitted
      BY <2>2, <2>5
    <3>2. ASSUME NEW s \in Scopes, NEW p \in Clients
          PROVE  ClientCovered(rate.buckets, s, p, admitted[<<s, p>>])
      BY <2>1
    <3> QED
      BY <1>0, <3>1, <3>2 DEF RatesCovered
  <2>6. CASE known /\ rate.ok
    <3>1. /\ buckets' = rate.buckets
          /\ admitted' = [admitted EXCEPT ![<<scope, principal>>] = Append(@, 0)]
      BY <2>2, <2>6
    <3>2. admitted' \in [Scopes \X Clients -> Seq(Ages)]
      BY <1>0, <2>3, <3>1
    <3>3. ASSUME NEW s \in Scopes, NEW p \in Clients
          PROVE  /\ OldestFirst(admitted'[<<s, p>>])
                 /\ ClientCovered(rate.buckets, s, p, admitted'[<<s, p>>])
      <4>1. CASE <<s, p>> = <<scope, principal>>
        <5>1. admitted'[<<s, p>>] = Append(ages, 0) /\ s = scope /\ p = principal
          BY <1>0, <3>1, <4>1
        <5> QED
          BY <2>1, <2>3, <2>6, <5>1
      <4>2. CASE <<s, p>> # <<scope, principal>>
        <5>1. admitted'[<<s, p>>] = admitted[<<s, p>>]
          BY <1>0, <3>1, <4>2
        <5> QED
          BY <1>0, <2>1, <4>2, <5>1
      <4> QED
        BY <4>1, <4>2
    <3> QED
      BY <3>1, <3>2, <3>3 DEF RatesCovered
  <2> QED
    BY <2>2, <2>4, <2>5, <2>6
<1>3. ASSUME NEW e \in Settings, NewProcess(e) PROVE RatesCovered'
  <2>1. buckets' = << >> /\ admitted' = [k \in Scopes \X Clients |-> << >>]
    BY <1>0, <1>3 DEF NewProcess
  <2> QED
    BY <2>1, NoWindows DEF RatesCovered
<1>4. ASSUME EnvelopeTick PROVE RatesCovered'
  <2>1. admitted' = [k \in Scopes \X Clients |-> Older(admitted[k])]
    BY <1>0, <1>4 DEF EnvelopeTick
  <2>2. ASSUME NEW s \in Scopes, NEW p \in Clients
        PROVE  /\ Older(admitted[<<s, p>>]) \in Seq(Ages) /\ OldestFirst(Older(admitted[<<s, p>>]))
               /\ ClientCovered(buckets', s, p, Older(admitted[<<s, p>>]))
    <3> DEFINE ages == admitted[<<s, p>>]
    <3>1. ages \in Seq(Ages) /\ OldestFirst(ages) /\ ClientCovered(buckets, s, p, ages)
      BY <1>0
    <3>2. Older(ages) \in Seq(Ages) /\ OldestFirst(Older(ages))
      BY <3>1, OlderAreLast
    <3>3. /\ DOMAIN buckets' = DOMAIN buckets
          /\ \A k \in DOMAIN buckets :
                 /\ buckets[k].left \in Nat /\ buckets'[k].count = buckets[k].count
                 /\ buckets'[k].left = Down(buckets[k].left)
      BY <1>4, TickedWindows DEF EnvelopeTypes
    <3> HIDE DEF ages
    <3>4. ASSUME NEW k, NEW limit \in Nat \ {0}, NEW window \in Nat \ {0},
                 Covers(buckets, k, ages, limit, window)
          PROVE  Covers(buckets', k, Older(ages), limit, window)
      BY <3>1, <3>3, <3>4, TickCovers
    <3> QED
      BY <3>1, <3>2, <3>4, LimitsAreNumbers DEF ClientCovered, ages
  <2>3. admitted' \in [Scopes \X Clients -> Seq(Ages)]
    <3>1. ASSUME NEW k \in Scopes \X Clients PROVE Older(admitted[k]) \in Seq(Ages)
      <4>1. k = <<k[1], k[2]>> /\ k[1] \in Scopes /\ k[2] \in Clients
        OBVIOUS
      <4> QED
        BY <2>2, <4>1
    <3> QED
      BY <2>1, <3>1
  <2> HIDE DEF EnvelopeStep
  <2>4. \A s \in Scopes, p \in Clients : admitted'[<<s, p>>] = Older(admitted[<<s, p>>])
    BY <2>1
  <2> QED
    BY <2>2, <2>3, <2>4 DEF RatesCovered
<1> QED
  BY <1>1, <1>2, <1>3, <1>4 DEF EnvelopeStep, IssueNavigationCapability

-----------------------------------------------------------------------------
Taken == {c \in Capabilities : used[c] > 0}

\* What was taken is remembered, was forgotten while valid, or has expired; and what is
\* remembered was taken.
ReplayIsSound ==
    /\ replay \in Seq(DOMAIN issued) /\ IsInjective(replay)
    /\ Len(replay) <= ReplayMax + 1 \/ Len(replay) <= ReplayPrune
    /\ used \in [Capabilities -> 0..2]
    /\ ToSet(replay) \subseteq Taken /\ IsFiniteSet(Taken)
    /\ \A c \in Taken : \/ c \in ToSet(replay) \cup evicted
                        \/ c \in DOMAIN issued /\ issued[c].left = 0
    /\ CapabilitiesAreSpentOnce

\* Pruning keeps within the bound, and forgets what is valid only if more were taken than
\* the store holds.
LEMMA KeptIsPart ==
    ASSUME ReplayIsSound
    PROVE  /\ Kept(replay) \in Seq(DOMAIN issued) /\ IsInjective(Kept(replay))
           /\ ToSet(Kept(replay)) \subseteq ToSet(replay)
           /\ Len(Kept(replay)) <= ReplayMax \/ Len(Kept(replay)) < ReplayPrune
           /\ \A c \in ToSet(replay) \ ToSet(Kept(replay)) :
                  issued[c].left > 0 => ReplayMax < Cardinality(Taken)
<1> DEFINE living == {i \in DOMAIN replay : issued[replay[i]].left > 0}
           later(i) == {j \in living : j > i}
           stay == Staying(replay)
<1>0. ReplayMax \in Nat /\ ReplayPrune \in Nat
  BY LimitsAreNumbers
<1>1. /\ replay \in Seq(DOMAIN issued) /\ IsInjective(replay) /\ IsFiniteSet(Taken)
      /\ ToSet(replay) = {replay[i] : i \in DOMAIN replay} /\ ToSet(replay) \subseteq Taken
      /\ Len(replay) \in Nat /\ DOMAIN replay = 1..Len(replay)
  BY LenProperties DEF ReplayIsSound, ToSet
<1>2. stay = {i \in living : Cardinality(later(i)) < ReplayMax}
  BY DEF Staying
<1>3. IsFiniteSet(DOMAIN replay) /\ IsFiniteSet(living) /\ \A i \in Nat : IsFiniteSet(later(i))
  <2>1. IsFiniteSet(1..Len(replay))
    <3>1. Len(replay) \in Int /\ 1 \in Int
      BY <1>1
    <3> HIDE DEF living, later
    <3> QED
      BY <3>1, FS_Interval
  <2>2. living \in SUBSET (1..Len(replay)) /\ \A i \in Nat : later(i) \in SUBSET (1..Len(replay))
    BY <1>1
  <2> HIDE DEF living, later
  <2> QED
    BY <1>1, <2>1, <2>2, FS_Subset
<1>4. CASE Len(replay) < ReplayPrune
  <2>1. Kept(replay) = replay
    BY <1>4 DEF Kept
  <2> QED
    BY <1>1, <1>4, <2>1
<1>5. CASE ~(Len(replay) < ReplayPrune)
  <2>1. Kept(replay) = EntriesAt(replay, stay)
    BY <1>5 DEF Kept
  <2>2. stay \in SUBSET DOMAIN replay
    BY <1>2
  <2>3. /\ EntriesAt(replay, stay) \in Seq(DOMAIN issued)
        /\ IsFiniteSet(stay) /\ Cardinality(stay) \in Nat
        /\ Len(EntriesAt(replay, stay)) = Cardinality(stay)
        /\ ToSet(EntriesAt(replay, stay)) = {replay[i] : i \in stay}
        /\ IsInjective(EntriesAt(replay, stay))
    <3> HIDE DEF stay
    <3> QED
      BY <1>1, <2>2, EntriesStay
  <2>4. Cardinality(stay) <= ReplayMax
    <3>1. CASE stay = {}
      BY <1>0, <3>1, FS_EmptySet
    <3>2. CASE stay # {}
      <4>1. stay \in SUBSET Nat
        BY <1>1, <2>2
      <4>2. PICK i \in stay : \A j \in stay : i <= j
        <5> HIDE DEF stay
        <5> QED
          BY <3>2, <4>1, LeastExists
      <4>3. stay \ {i} \in SUBSET later(i) /\ i \in Nat
        BY <1>2, <4>1, <4>2
      <4>4. /\ IsFiniteSet(later(i)) /\ Cardinality(later(i)) \in Nat
            /\ Cardinality(later(i)) < ReplayMax
        BY <1>2, <1>3, <4>3, FS_CardinalityType
      <4> HIDE DEF later, stay
      <4>5. Cardinality(stay \ {i}) <= Cardinality(later(i))
        BY <4>3, <4>4, FS_Subset
      <4>6. Cardinality(stay \ {i}) = Cardinality(stay) - 1
        BY <2>3, <4>2, FS_RemoveElement
      <4> QED
        BY <1>0, <2>3, <4>4, <4>5, <4>6
    <3> QED
      BY <3>1, <3>2
  <2>5. ASSUME NEW c \in ToSet(replay) \ ToSet(Kept(replay)), issued[c].left > 0
        PROVE  ReplayMax < Cardinality(Taken)
    <3>1. PICK i \in DOMAIN replay : replay[i] = c
      BY <1>1
    <3>2. i \in living /\ i \notin stay
      BY <2>1, <2>3, <2>5, <3>1
    <3>3. ~(Cardinality(later(i)) < ReplayMax) /\ i \in Nat /\ i \notin later(i)
      BY <1>1, <1>2, <3>2
    <3> DEFINE U == later(i) \cup {i}
               f == [j \in U |-> replay[j]]
    <3>4. U \subseteq DOMAIN replay
      BY <3>1
    <3>5. f \in Injection(U, Taken)
      <4>1. \A j \in U : replay[j] \in Taken
        BY <1>1, <3>4
      <4>2. \A j, k \in U : replay[j] = replay[k] => j = k
        BY <1>1, <3>4 DEF IsInjective
      <4> HIDE DEF U
      <4> QED
        BY <4>1, <4>2 DEF Injection, IsInjective
    <3> HIDE DEF later, f, U
    <3>6. Cardinality(U) <= Cardinality(Taken)
      BY <1>1, <3>5, FS_Injection
    <3>7. /\ Cardinality(later(i)) \in Nat /\ Cardinality(U) = Cardinality(later(i)) + 1
      BY <1>3, <3>3, FS_AddElement, FS_CardinalityType DEF U
    <3>8. Cardinality(Taken) \in Nat
      BY <1>1, FS_CardinalityType
    <3> QED
      BY <1>0, <3>3, <3>6, <3>7, <3>8
  <2>6. ToSet(Kept(replay)) \subseteq ToSet(replay)
    BY <1>1, <2>1, <2>2, <2>3
  <2> QED
    BY <2>1, <2>3, <2>4, <2>5, <2>6
<1> QED
  BY <1>4, <1>5

\* A capability is taken by the process once more.
LEMMA TakingKeepsSound ==
    ASSUME ReplayIsSound, EnvelopeTypes, NEW cap \in DOMAIN issued, issued[cap].left > 0,
           ~Contains(Kept(replay), cap),
           replay' = Append(Kept(replay), cap),
           used' = [used EXCEPT ![cap] = IF @ = 2 THEN 2 ELSE @ + 1],
           evicted' = evicted \cup {c \in ToSet(replay) \ ToSet(Kept(replay)) :
                                       issued[c].left > 0},
           issued' = issued
    PROVE  ReplayIsSound'
<1> DEFINE kept == Kept(replay)
<1>0. ReplayMax \in Nat /\ ReplayPrune \in Nat
  BY LimitsAreNumbers
<1>1. /\ kept \in Seq(DOMAIN issued) /\ IsInjective(kept)
      /\ ToSet(kept) \subseteq ToSet(replay)
      /\ Len(kept) <= ReplayMax \/ Len(kept) < ReplayPrune
      /\ \A c \in ToSet(replay) \ ToSet(kept) :
             issued[c].left > 0 => ReplayMax < Cardinality(Taken)
  BY KeptIsPart
<1>2. /\ used \in [Capabilities -> 0..2] /\ IsFiniteSet(Taken)
      /\ ToSet(replay) \subseteq Taken
      /\ \A c \in Taken : \/ c \in ToSet(replay) \cup evicted
                          \/ c \in DOMAIN issued /\ issued[c].left = 0
      /\ \A c \in Capabilities : used[c] <= 1 \/ c \in evicted
      /\ evicted # {} => ReplayMax < Cardinality(Taken)
  BY DEF ReplayIsSound, CapabilitiesAreSpentOnce, Taken
<1>3. cap \in Capabilities
  BY DEF EnvelopeTypes
<1> HIDE DEF kept
<1>4. /\ replay' \in Seq(DOMAIN issued) /\ Len(kept) \in Nat /\ Len(replay') = Len(kept) + 1
      /\ DOMAIN kept = 1..Len(kept) /\ DOMAIN replay' = 1..Len(kept) + 1
      /\ \A i \in DOMAIN kept : replay'[i] = kept[i] /\ kept[i] # cap
      /\ replay'[Len(kept) + 1] = cap
  <2>1. \A i \in 1..Len(kept) : kept[i] # cap
    BY DEF Contains, kept
  <2>2. /\ replay' \in Seq(DOMAIN issued) /\ Len(replay') = Len(kept) + 1
        /\ \A i \in 1..Len(kept) : replay'[i] = kept[i]
        /\ replay'[Len(kept) + 1] = cap
    BY <1>1, AppendProperties DEF kept
  <2> QED
    BY <1>1, <2>1, <2>2, LenProperties
<1>5. ToSet(replay') = ToSet(kept) \cup {cap}
  <2>1. \A i \in DOMAIN replay' : i \in DOMAIN kept \/ i = Len(kept) + 1
    BY <1>4
  <2>2. DOMAIN kept \subseteq DOMAIN replay' /\ Len(kept) + 1 \in DOMAIN replay'
    BY <1>4
  <2> QED
    BY <1>4, <2>1, <2>2 DEF ToSet
<1>6. IsInjective(replay')
  <2>1. ASSUME NEW i \in DOMAIN replay', NEW j \in DOMAIN replay', replay'[i] = replay'[j]
        PROVE  i = j
    <3>1. (i \in DOMAIN kept \/ i = Len(kept) + 1) /\ (j \in DOMAIN kept \/ j = Len(kept) + 1)
      BY <1>4
    <3> QED
      BY <1>1, <1>4, <2>1, <3>1 DEF IsInjective
  <2> QED
    BY <2>1 DEF IsInjective
<1>7. /\ used' \in [Capabilities -> 0..2] /\ used'[cap] > 0
      /\ \A c \in Capabilities \ {cap} : used'[c] = used[c]
      /\ used[cap] = 0 => used'[cap] = 1
  BY <1>2, <1>3
<1>8. Taken' = Taken \cup {cap}
  BY <1>2, <1>3, <1>7 DEF Taken
<1>9. /\ IsFiniteSet(Taken') /\ Cardinality(Taken) <= Cardinality(Taken')
      /\ Cardinality(Taken) \in Nat /\ Cardinality(Taken') \in Nat
  <2>1. /\ IsFiniteSet(Taken \cup {cap}) /\ Cardinality(Taken) \in Nat
        /\ Cardinality(Taken \cup {cap}) =
               IF cap \in Taken THEN Cardinality(Taken) ELSE Cardinality(Taken) + 1
    BY <1>2, FS_AddElement, FS_CardinalityType
  <2> QED
    BY <1>8, <2>1
<1>10. evicted \subseteq evicted'
       /\ \A c \in ToSet(replay) \ ToSet(kept) : issued[c].left > 0 => c \in evicted'
  BY DEF kept
<1>11. cap \in Taken => cap \in evicted'
  <2>1. cap \notin ToSet(kept)
    BY <1>4 DEF ToSet
  <2> QED
    BY <1>2, <1>10, <2>1
<1>12. ASSUME NEW c \in Taken'
       PROVE  \/ c \in ToSet(replay') \cup evicted'
              \/ c \in DOMAIN issued /\ issued[c].left = 0
  <2>1. CASE c = cap
    BY <1>5, <2>1
  <2>2. CASE c # cap
    <3>1. c \in Taken
      BY <1>8, <2>2
    <3>2. CASE c \in ToSet(replay) \ ToSet(kept)
      <4>1. c \in DOMAIN issued
        <5>1. PICK i \in DOMAIN replay : c = replay[i]
          BY <3>2 DEF ToSet
        <5>2. replay \in Seq(DOMAIN issued)
          BY DEF ReplayIsSound
        <5> QED
          BY <5>1, <5>2, ElementOfSeq, LenProperties
      <4>2. issued[c].left \in Nat
        BY <4>1 DEF EnvelopeTypes
      <4> QED
        BY <1>10, <3>2, <4>1, <4>2
    <3>3. CASE c \notin ToSet(replay) \ ToSet(kept)
      BY <1>2, <1>5, <1>10, <3>1, <3>3
    <3> QED
      BY <3>2, <3>3
  <2> QED
    BY <2>1, <2>2
<1>13. \A c \in Capabilities : used'[c] <= 1 \/ c \in evicted'
  <2>1. ASSUME NEW c \in Capabilities, c # cap PROVE used'[c] <= 1 \/ c \in evicted'
    BY <1>2, <1>7, <1>10, <2>1
  <2>2. used'[cap] <= 1 \/ cap \in evicted'
    BY <1>2, <1>3, <1>7, <1>11 DEF Taken
  <2> QED
    BY <2>1, <2>2
<1>14. evicted' # {} => ReplayMax < Cardinality(Taken')
  <2>1. evicted' # {} => ReplayMax < Cardinality(Taken)
    BY <1>1, <1>2 DEF kept
  <2> QED
    BY <1>0, <1>9, <2>1
<1>15. Len(replay') <= ReplayMax + 1 \/ Len(replay') <= ReplayPrune
  BY <1>0, <1>1, <1>4
<1>16. ToSet(replay') \subseteq Taken'
  BY <1>1, <1>2, <1>5, <1>8
<1>17. CapabilitiesAreSpentOnce'
  BY <1>13, <1>14 DEF CapabilitiesAreSpentOnce, Taken
<1> QED
  BY <1>4, <1>6, <1>7, <1>9, <1>12, <1>15, <1>16, <1>17 DEF ReplayIsSound

\* What is remembered of the capabilities stays sound, after every step.
LEMMA ReplayIsSoundKept ==
    ASSUME ReplayIsSound, EnvelopeTypes, EnvelopeStep
    PROVE  ReplayIsSound'
<1>0. /\ replay \in Seq(DOMAIN issued) /\ IsInjective(replay)
      /\ Len(replay) <= ReplayMax + 1 \/ Len(replay) <= ReplayPrune
      /\ used \in [Capabilities -> 0..2]
      /\ ToSet(replay) \subseteq Taken /\ IsFiniteSet(Taken)
      /\ \A c \in Taken : \/ c \in ToSet(replay) \cup evicted
                          \/ c \in DOMAIN issued /\ issued[c].left = 0
      /\ CapabilitiesAreSpentOnce
  BY DEF ReplayIsSound
<1>1. ASSUME UNCHANGED <<replay, used, evicted>>, DOMAIN issued \subseteq DOMAIN issued',
             \A c \in DOMAIN issued : issued[c].left = 0 => issued'[c].left = 0
      PROVE  ReplayIsSound'
  <2>1. replay \in Seq(DOMAIN issued')
    BY <1>0, <1>1, SeqMonotonic
  <2>2. Taken' = Taken /\ (CapabilitiesAreSpentOnce' <=> CapabilitiesAreSpentOnce)
    BY <1>1 DEF Taken, CapabilitiesAreSpentOnce
  <2> QED
    BY <1>0, <1>1, <2>1, <2>2 DEF ReplayIsSound
<1>2. ASSUME NEW c \in Capabilities, NEW s \in Scopes, IssueNavigationCapability(c, s)
      PROVE  ReplayIsSound'
  <2>1. /\ UNCHANGED <<replay, used, evicted>> /\ c \notin DOMAIN issued
        /\ issued' = [x \in DOMAIN issued \cup {c} |->
                         IF x = c THEN [scope |-> s, left |-> Ttl] ELSE issued[x]]
    BY <1>2 DEF IssueNavigationCapability
  <2> QED
    BY <1>1, <2>1
<1>3. ASSUME NEW p \in Clients, NEW s \in Scopes, NEW cap \in Capabilities \cup {NoCapability},
             Admit(p, s, cap)
      PROVE  ReplayIsSound'
  <2> DEFINE looked == Open /\ settings.authRequired /\ Genuine(cap, s)
             verified == looked /\ Unused(cap)
  <2>1. /\ replay' = IF verified THEN Append(Kept(replay), cap)
                     ELSE IF looked THEN Kept(replay) ELSE replay
        /\ used' = IF verified THEN [used EXCEPT ![cap] = IF @ = 2 THEN 2 ELSE @ + 1]
                   ELSE used
        /\ evicted' = IF looked
                      THEN evicted \cup {c \in ToSet(replay) \ ToSet(Kept(replay)) :
                                             issued[c].left > 0}
                      ELSE evicted
        /\ issued' = issued
    BY <1>3 DEF Admit
  <2>2. looked => cap \in DOMAIN issued /\ issued[cap].left > 0
    BY DEF Genuine
  <2>3. verified => ~Contains(Kept(replay), cap)
    BY DEF Unused
  <2>4. verified => looked
    OBVIOUS
  <2> HIDE DEF looked, verified
  <2>5. CASE verified
    BY <2>1, <2>2, <2>3, <2>4, <2>5, TakingKeepsSound
  <2>6. CASE looked /\ ~verified
    <3>1. /\ replay' = Kept(replay) /\ UNCHANGED <<used, issued>>
          /\ evicted' = evicted \cup {c \in ToSet(replay) \ ToSet(Kept(replay)) :
                                         issued[c].left > 0}
      BY <2>1, <2>6
    <3>2. /\ Kept(replay) \in Seq(DOMAIN issued) /\ IsInjective(Kept(replay))
          /\ ToSet(Kept(replay)) \subseteq ToSet(replay)
          /\ Len(Kept(replay)) <= ReplayMax \/ Len(Kept(replay)) < ReplayPrune
          /\ \A c \in ToSet(replay) \ ToSet(Kept(replay)) :
                 issued[c].left > 0 => ReplayMax < Cardinality(Taken)
      BY KeptIsPart
    <3>3. Taken' = Taken
      BY <3>1 DEF Taken
    <3>4. \A c \in ToSet(replay) : c \in DOMAIN issued /\ issued[c].left \in Nat
      <4>1. \A c \in ToSet(replay) : c \in DOMAIN issued
        BY <1>0, ElementOfSeq, LenProperties DEF ToSet
      <4> QED
        BY <4>1 DEF EnvelopeTypes
    <3>5. ASSUME NEW c \in Taken'
          PROVE  \/ c \in ToSet(replay') \cup evicted'
                 \/ c \in DOMAIN issued' /\ issued'[c].left = 0
      BY <1>0, <3>1, <3>3, <3>4
    <3>6. CapabilitiesAreSpentOnce'
      <4>1. /\ \A c \in Capabilities : used[c] <= 1 \/ c \in evicted
            /\ evicted # {} => ReplayMax < Cardinality(Taken)
        BY <1>0 DEF CapabilitiesAreSpentOnce, Taken
      <4>2. /\ \A c \in Capabilities : used'[c] <= 1 \/ c \in evicted'
            /\ evicted' # {} => ReplayMax < Cardinality(Taken')
        BY <3>1, <3>2, <3>3, <4>1
      <4> QED
        BY <4>2 DEF CapabilitiesAreSpentOnce, Taken
    <3>7. Len(Kept(replay)) <= ReplayMax + 1 \/ Len(Kept(replay)) <= ReplayPrune
      BY <3>2, LimitsAreNumbers, LenProperties
    <3> QED
      BY <1>0, <3>1, <3>2, <3>3, <3>5, <3>6, <3>7 DEF ReplayIsSound
  <2>7. CASE ~looked /\ ~verified
    BY <1>1, <2>1, <2>7
  <2> QED
    BY <2>4, <2>5, <2>6, <2>7
<1>4. ASSUME NEW e \in Settings, NewProcess(e) PROVE ReplayIsSound'
  <2>1. /\ replay' = << >> /\ used' = [c \in Capabilities |-> 0] /\ evicted' = {}
        /\ issued' = issued
    BY <1>4 DEF NewProcess
  <2>2. << >> \in Seq(DOMAIN issued') /\ Len(<< >>) = 0 /\ DOMAIN << >> = {}
    OBVIOUS
  <2>3. Taken' = {} /\ ToSet(replay') = {} /\ IsInjective(replay')
    BY <2>1, <2>2 DEF Taken, ToSet, IsInjective
  <2>4. CapabilitiesAreSpentOnce'
    BY <2>1 DEF CapabilitiesAreSpentOnce
  <2> QED
    BY <2>1, <2>2, <2>3, <2>4, FS_EmptySet, LimitsAreNumbers DEF ReplayIsSound
<1>5. ASSUME EnvelopeTick PROVE ReplayIsSound'
  <2>1. /\ UNCHANGED <<replay, used, evicted>> /\ DOMAIN issued' = DOMAIN issued
        /\ issued' = [c \in DOMAIN issued |-> [issued[c] EXCEPT !.left = Down(@)]]
    BY <1>5 DEF EnvelopeTick
  <2>2. ASSUME NEW c \in DOMAIN issued, issued[c].left = 0 PROVE issued'[c].left = 0
    <3>1. issued[c] \in [scope : Scopes, left : Nat]
      BY DEF EnvelopeTypes
    <3> QED
      BY <2>1, <2>2, <3>1 DEF Down
  <2> QED
    BY <1>1, <2>1, <2>2
<1>6. ASSUME UNCHANGED <<buckets, replay, issued, admitted, used, evicted>> PROVE ReplayIsSound'
  BY <1>1, <1>6
<1> QED
  BY <1>2, <1>3, <1>4, <1>5, <1>6 DEF EnvelopeStep

EnvelopeInv == EnvelopeTypes /\ RatesCovered /\ ReplayIsSound

\* A process starts with no windows and with nothing taken.
LEMMA EnvelopeStarts == NavigationInit => EnvelopeInv
<1> SUFFICES ASSUME NavigationInit PROVE EnvelopeInv
  OBVIOUS
<1>1. EnvelopeInit
  BY DEF NavigationInit
<1>2. EnvelopeTypes
  BY <1>1, NoWindows DEF EnvelopeInit, EnvelopeTypes
<1>3. RatesCovered
  BY <1>1, NoWindows DEF EnvelopeInit, RatesCovered, Clients
<1>4. ReplayIsSound
  <2>1. /\ replay = << >> /\ used = [c \in Capabilities |-> 0] /\ evicted = {}
    BY <1>1 DEF EnvelopeInit
  <2>2. << >> \in Seq(DOMAIN issued) /\ Len(<< >>) = 0 /\ DOMAIN << >> = {}
    OBVIOUS
  <2>3. Taken = {} /\ ToSet(replay) = {} /\ IsInjective(replay)
    BY <2>1, <2>2 DEF Taken, ToSet, IsInjective
  <2>4. CapabilitiesAreSpentOnce
    BY <2>1 DEF CapabilitiesAreSpentOnce
  <2> QED
    BY <2>1, <2>2, <2>3, <2>4, FS_EmptySet, LimitsAreNumbers DEF ReplayIsSound
<1> QED
  BY <1>2, <1>3, <1>4 DEF EnvelopeInv

\* The invariant implies what the run checks.
LEMMA EnvelopeInvBounds ==
    EnvelopeInv => EnvelopeTypeOK /\ CapabilitiesAreSpentOnce /\ RatesAreKept
<1> SUFFICES ASSUME EnvelopeInv PROVE EnvelopeTypeOK /\ CapabilitiesAreSpentOnce /\ RatesAreKept
  OBVIOUS
<1> USE DEF EnvelopeInv
<1>1. EnvelopeTypeOK
  <2>1. \A k \in DOMAIN buckets : buckets[k].count \in 1..PerHour /\ buckets[k].left \in 0..Hour
    BY DEF EnvelopeTypes, Windows
  <2>2. ToSet(replay) \subseteq DOMAIN issued
    BY ElementOfSeq, LenProperties DEF ReplayIsSound, ToSet
  <2> QED
    BY <2>1, <2>2 DEF EnvelopeTypeOK, EnvelopeTypes, Windows, ReplayIsSound
<1>2. RatesAreKept
  <2>1. ASSUME NEW s \in Scopes, NEW p \in Clients
        PROVE  /\ Len(admitted[<<s, p>>]) <= 2 * PerHour
               /\ Cardinality({i \in DOMAIN admitted[<<s, p>>] : admitted[<<s, p>>][i] < Minute})
                      <= 2 * PerMinute
    <3> DEFINE ages == admitted[<<s, p>>]
    <3>1. ages \in Seq(Ages) /\ ClientCovered(buckets, s, p, ages)
      BY DEF RatesCovered
    <3>2. Hour >= Hour
      BY LimitsAreNumbers
    <3> HIDE DEF ages
    <3>3. Len(ages) <= 2 * PerHour
      BY <3>1, <3>2, LimitsAreNumbers, CoversBounds DEF ClientCovered
    <3>4. Cardinality({i \in DOMAIN ages : ages[i] < Minute}) <= 2 * PerMinute
      BY <3>1, LimitsAreNumbers, CoversBounds DEF ClientCovered
    <3> QED
      BY <3>3, <3>4 DEF ages
  <2>2. DOMAIN admitted = Scopes \X Clients
    BY DEF RatesCovered
  <2>3. ASSUME NEW k \in DOMAIN admitted
        PROVE  \E s \in Scopes, p \in Clients : k = <<s, p>>
    BY <2>2
  <2> QED
    BY <2>1, <2>3 DEF RatesAreKept
<1>3. CapabilitiesAreSpentOnce
  BY DEF ReplayIsSound
<1> QED
  BY <1>1, <1>2, <1>3

-----------------------------------------------------------------------------
\* A step of the run is a step of one part; the others stand still.
LEMMA StepsAreOfOne ==
    ASSUME [NavigationNext]_navigationRunVars, settings \in Settings
    PROVE  [LiveNext]_liveVars /\ [PlannerNext]_plannerVars /\ RoutesStep /\ EnvelopeStep
<1> USE DEF Of, navigationRunVars
<1>1. [LiveNext]_liveVars
  BY DEF NavigationNext, LiveNext
<1>2. [PlannerNext]_plannerVars
  BY DEF NavigationNext, PlannerNext
<1>3. RoutesStep
  <2>1. CASE subject = "envelope"
    <3>1. UNCHANGED <<subject, routesVars>>
      BY <2>1 DEF NavigationNext
    <3>2. \/ \E c \in Capabilities, s \in Scopes : IssueNavigationCapability(c, s)
          \/ \E p \in Principals \cup {Loopback}, s \in Scopes,
                c \in Capabilities \cup {NoCapability} : Admit(p, s, c)
          \/ \E s \in Settings : NewProcess(s)
          \/ EnvelopeTick
          \/ UNCHANGED navigationRunVars
      BY <2>1 DEF NavigationNext
    <3>3. UNCHANGED settings \/ settings' \in Settings
      BY <3>2 DEF envelopeVars, NewProcess, Admit, EnvelopeTick, IssueNavigationCapability
    <3> QED
      BY <2>1, <3>1, <3>3 DEF RoutesStep
  <2>2. CASE subject = "routes"
    BY <2>2 DEF NavigationNext, RoutesStep, RoutesNext, envelopeVars
  <2>3. CASE subject \notin {"envelope", "routes"}
    BY <2>3 DEF NavigationNext, RoutesStep, envelopeVars
  <2> QED
    BY <2>1, <2>2, <2>3
<1>4. EnvelopeStep
  <2>1. CASE subject = "envelope"
    BY <2>1 DEF NavigationNext, EnvelopeStep, Clients, envelopeVars
  <2>2. CASE subject = "routes"
    BY <2>2 DEF NavigationNext, EnvelopeStep, envelopeVars
  <2>3. CASE subject \notin {"envelope", "routes"}
    BY <2>3 DEF NavigationNext, EnvelopeStep, envelopeVars
  <2> QED
    BY <2>1, <2>2, <2>3
<1> QED
  BY <1>1, <1>2, <1>3, <1>4

NavigationInv == LiveInv /\ PlannerInv /\ RoutesInv /\ EnvelopeInv

\* Before the first request nothing is shown, stored or counted.
LEMMA InitiallyNothing == NavigationInit => NavigationInv
<1> SUFFICES ASSUME NavigationInit PROVE NavigationInv
  OBVIOUS
<1>1. LiveInv
  BY LiveAssumption, LoadsAreForPlaces
     DEF NavigationInit, LiveInit, LiveInv, LiveTypes, RoutesAreOfOnePlace, PositionIsPermitted
<1>2. PlannerInv
  BY PlannerAssumption
     DEF NavigationInit, PlannerInit, PlannerInv, PlannerTypes, StoredIsShown, LoadsAreOfRoute,
     RouteLeadsToDestination, IntelligenceIsOfRoute, NoRoute, NoRequest, NothingStored, Routes
<1>3. RoutesTypes /\ AskedInOrder
  <2>1. << >> \in Seq(Backends) /\ DOMAIN << >> = {}
    OBVIOUS
  <2>2. NoRouteRequest \in Planned
    BY <2>1 DEF NoRouteRequest, Planned
  <2>3. \A r \in RouteRequests : routeRequests[r] = NoRouteRequest
    BY DEF NavigationInit, RoutesInit
  <2>4. AskedInOrder
    BY <2>1, <2>3 DEF AskedInOrder, NoRouteRequest, IsInjective
  <2> QED
    BY <2>2, <2>4 DEF NavigationInit, EnvelopeInit, RoutesInit, RoutesTypes
<1>4. SpentIsCounted
  BY NavigationAssumption
     DEF NavigationInit, RoutesInit, SpentIsCounted, PaidCallsAreCapped, CallsToday
<1> QED
  BY <1>1, <1>2, <1>3, <1>4, EnvelopeStarts DEF NavigationInv, RoutesInv

\* The invariant holds in every state of the run.
LEMMA NavigationInvariant == NavigationRunSpec => []NavigationInv
<1>1. NavigationInv /\ [NavigationNext]_navigationRunVars => NavigationInv'
  <2> SUFFICES ASSUME NavigationInv, [NavigationNext]_navigationRunVars PROVE NavigationInv'
    OBVIOUS
  <2>1. [LiveNext]_liveVars /\ [PlannerNext]_plannerVars /\ RoutesStep /\ EnvelopeStep
    BY StepsAreOfOne DEF NavigationInv, RoutesInv, RoutesTypes
  <2>2. LiveInv'
    BY <2>1, LiveTypesKept, OnePlaceKept, PermissionKept DEF NavigationInv, LiveInv
  <2>3. PlannerInv'
    BY <2>1, PlannerTypesKept, LeadsKept, StoredIsShownKept, LoadsAreOfRouteKept,
       IntelligenceKept DEF NavigationInv, PlannerInv
  <2>4. RoutesInv'
    BY <2>1, RoutesTypesKept, AskedInOrderKept, SpentIsCountedKept DEF NavigationInv, RoutesInv
  <2>5. EnvelopeInv'
    BY <2>1, EnvelopeTypesKept, RatesCoveredKept, ReplayIsSoundKept
       DEF NavigationInv, EnvelopeInv
  <2> QED
    BY <2>2, <2>3, <2>4, <2>5 DEF NavigationInv
<1> QED
  BY InitiallyNothing, <1>1, PTL DEF NavigationRunSpec

\* Over any number of overlapping searches, choices, refreshes and selections, cached
\* routes and reloads, the routes shown lead where the page says, a position is shown only
\* with permission, and what is said of a route is about the route that is shown.
THEOREM RoutesStayTrue == NavigationRunSpec => []RoutesAreTrue
<1>1. NavigationInv => RoutesAreTrue
  BY DEF NavigationInv, LiveInv, PlannerInv, RoutesAreTrue
<1> QED
  BY NavigationInvariant, <1>1, PTL

\* A refresh stays with the route that is shown when its answer comes, or with the nearest
\* to it in length, whatever was selected or chosen since it was asked for.
THEOREM SelectionStays == NavigationRunSpec => SelectionIsKept
<1> DEFINE StaysNear(c, i) ==
      calls[c].preserve /\ calls'[c] = Idle /\ options # << >> =>
          LET asked == options[selected].distanceM
          IN  Gap(options'[selected'].distanceM, asked) <= Gap(options'[i].distanceM, asked)
<1>1. NavigationInv /\ [NavigationNext]_navigationRunVars =>
          [\A c \in Calls : \A i \in DOMAIN options' : StaysNear(c, i)]_liveVars
  <2> SUFFICES ASSUME NavigationInv, [NavigationNext]_navigationRunVars, liveVars' # liveVars,
                      NEW c \in Calls, NEW i \in DOMAIN options',
                      calls[c].preserve, calls'[c] = Idle, options # << >>
               PROVE  LET asked == options[selected].distanceM
                      IN  Gap(options'[selected'].distanceM, asked)
                              <= Gap(options'[i].distanceM, asked)
    OBVIOUS
  <2>1. LiveNext
    BY StepsAreOfOne DEF NavigationInv, RoutesInv, RoutesTypes
  <2>2. calls[c] # Idle
    BY DEF Idle
  <2>3. CASE RoutesFail(c)
    BY <2>3 DEF RoutesFail
  <2>4. ASSUME NEW answer \in Answers, RoutesAnswered(c, answer)
        PROVE  LET asked == options[selected].distanceM
               IN  Gap(options'[selected'].distanceM, asked) <= Gap(options'[i].distanceM,
                  asked)
    <3>1. selected \in DOMAIN options /\ options[selected] \in Shown
      BY DEF NavigationInv, LiveInv, LiveTypes, RoutesAreOfOnePlace
    <3>2. selected' = Nearest(answer, options[selected])
      BY <2>4, <3>1 DEF RoutesAnswered
    <3>3. DOMAIN options' = DOMAIN answer
          /\ \A j \in DOMAIN answer : options'[j].distanceM = answer[j].distanceM
      BY <2>4 DEF RoutesAnswered
    <3> QED
      BY <3>1, <3>2, <3>3, NearestIsOne
  <2>5. RoutesFail(c) \/ \E answer \in Answers : RoutesAnswered(c, answer)
    <3>1. destination \in Places \cup {NoPlace} /\ calls \in [Calls -> Loads]
          /\ places \subseteq Places
      BY DEF NavigationInv, LiveInv, LiveTypes
    <3>2. calls' # calls
      BY <2>2
    <3>3. ASSUME NEW d \in Calls, NEW place \in Places, Choose(d, place) PROVE FALSE
      BY <2>2, <3>1, <3>2, <3>3, LoadsAreForPlaces DEF Choose, LoadRoutes
    <3>4. ASSUME NEW d \in Calls, Refresh(d) PROVE FALSE
      BY <2>2, <3>1, <3>2, <3>4, LoadsAreForPlaces DEF Refresh, LoadRoutes
    <3>5. ASSUME NEW d \in Calls, NEW answer \in Answers, RoutesAnswered(d, answer) PROVE d = c
      BY <2>2, <3>1, <3>5 DEF RoutesAnswered
    <3>6. ASSUME NEW d \in Calls, RoutesFail(d) PROVE d = c
      BY <2>2, <3>1, <3>6 DEF RoutesFail
    <3> QED
      BY <2>1, <3>2, <3>3, <3>4, <3>5, <3>6
         DEF LiveNext, Start, PermissionAnswered, PermissionKnown, PermissionChanges, Position,
         PositionFails, SearchPlaces, SearchAnswered, SearchFails, SelectRoute, routeVars
  <2> QED
    BY <2>3, <2>4, <2>5
<1> QED
  BY NavigationInvariant, <1>1, PTL DEF NavigationRunSpec, SelectionIsKept

\* For any number of clients, capabilities and requests, any limits and any turns of the
\* day, new processes and modes: a process takes a capability once, unless the store had to
\* forget it after more were taken than it holds; no client is admitted more than twice as
\* often in a minute or an hour as in a window; no more paid calls are made on a day than
\* allowed and none outside of the normal mode; no request is given up before the free
\* backend was asked; and the traffic source announced is the backend asked first.
THEOREM EnvelopeStaysKept == NavigationRunSpec => []EnvelopeIsKept
<1>1. NavigationInv => EnvelopeIsKept
  <2> SUFFICES ASSUME NavigationInv PROVE EnvelopeIsKept
    OBVIOUS
  <2>1. PaidCallsAreCapped /\ AnnouncedIsAsked
    BY OrdersEndFree DEF NavigationInv, RoutesInv, RoutesTypes, SpentIsCounted
  <2>2. FallbackIsTried
    BY DEF NavigationInv, RoutesInv, RoutesTypes, AskedInOrder, FallbackIsTried, Contains,
       Planned
  <2>3. EnvelopeTypeOK /\ CapabilitiesAreSpentOnce /\ RatesAreKept
    BY EnvelopeInvBounds DEF NavigationInv
  <2> QED
    BY <2>1, <2>2, <2>3 DEF EnvelopeIsKept
<1> QED
  BY NavigationInvariant, <1>1, PTL

-----------------------------------------------------------------------------
(* The link of the page to the device *)

LinkTypes ==
    /\ state \in {"disabled", "connecting", "live", "stale", "offline"}
    /\ {connecting, retryTimer, sessionUnavailable, online, up, doubled} \subseteq BOOLEAN
    /\ telemetryAge \in 0..TelemetryLimit + 1 /\ heartbeatAge \in 0..HeartbeatLimit + 1

SocketTypes ==
    /\ socket \in Ids \cup {NoSocket}
    /\ ready \in [Ids -> {"none", "connecting", "open", "closing"}]
    /\ socket # NoSocket => ready[socket] # "none"
    /\ mute \subseteq {s \in Ids : ready[s] \in {"open", "closing"}}

FrameTypes ==
    /\ shown \in Frames \cup {NoFrame} /\ latest \in Frames
    /\ queue \in [Ids -> Seq(Frames)]
    /\ \A s \in Ids : queue[s] # << >> => ready[s] \in {"open", "closing"}

LinkTypeInv == LinkTypes /\ SocketTypes /\ FrameTypes

\* The sockets that frames of the server still reach.
Reached == Opened(ready) \ mute

\* Nothing is under way to a socket the server has lost.
MuteAreSilent == \A s \in mute : queue[s] = << >>

\* While never two sockets were open: frames under way are of one socket, in the order
\* of the device's starts, after the frame shown, up to the latest.
FramesInOrder ==
    ~doubled =>
        /\ \A s, t \in Reached : s = t
        /\ shown[1] <= latest[1]
        /\ \A s \in Reached : \A i \in 1..Len(queue[s]) :
               /\ shown[1] <= queue[s][i][1] /\ queue[s][i][1] <= latest[1]
               /\ \A j \in 1..i : queue[s][j][1] <= queue[s][i][1]

LinkInv == LinkTypeInv /\ MuteAreSilent /\ FramesInOrder

\* What the page remembers of its link keeps its types.
LEMMA LinkTypesKept ==
    ASSUME LinkTypeInv, [LinkNext]_linkVars
    PROVE  LinkTypes'
<1> USE LinkAssumption DEF LinkTypeInv, LinkTypes, SocketTypes, linkVars, pageVars, netVars,
   Trouble
<1>1. CASE RetryFires
  BY <1>1 DEF RetryFires, Connect
<1>2. ASSUME NEW a \in SessionAnswers, SessionAnswered(a) PROVE LinkTypes'
  BY <1>2 DEF SessionAnswered, Scheduled
<1>3. ASSUME NEW s \in Ids, SocketOpens(s) PROVE LinkTypes'
  BY <1>3 DEF SocketOpens
<1>4. ASSUME NEW s \in Ids, FrameArrives(s) PROVE LinkTypes'
  BY <1>4 DEF FrameArrives
<1>5. ASSUME NEW s \in Ids, HeartbeatArrives(s) PROVE LinkTypes'
  BY <1>5 DEF HeartbeatArrives
<1>6. ASSUME NEW s \in Ids, SocketCloses(s) PROVE LinkTypes'
  BY <1>6 DEF SocketCloses, Scheduled
<1>7. CASE GoesOffline
  BY <1>7 DEF GoesOffline
<1>8. CASE ComesOnline
  BY <1>8 DEF ComesOnline
<1>9. CASE FreshnessTimer
  BY <1>9 DEF FreshnessTimer, ShownByAge
<1>10. CASE Tick
  BY <1>10 DEF Tick
<1>11. ASSUME NEW f \in Frames, Publish(f) PROVE LinkTypes'
  BY <1>11 DEF Publish
<1>12. ASSUME NEW S \in SUBSET Ids, ServerStops(S) PROVE LinkTypes'
  BY <1>12 DEF ServerStops
<1>13. CASE ServerStarts
  BY <1>13 DEF ServerStarts
<1>14. ASSUME NEW s \in Ids, ServerCloses(s) PROVE LinkTypes'
  BY <1>14 DEF ServerCloses
<1>15. CASE UNCHANGED linkVars
  BY <1>15
<1> QED
  BY <1>1, <1>2, <1>3, <1>4, <1>5, <1>6, <1>7, <1>8, <1>9, <1>10, <1>11, <1>12, <1>13,
     <1>14, <1>15 DEF LinkNext

\* Every socket the page knows exists, and only such are half-open.
LEMMA SocketTypesKept ==
    ASSUME LinkTypeInv, [LinkNext]_linkVars
    PROVE  SocketTypes'
<1> USE LinkAssumption DEF LinkTypeInv, LinkTypes, SocketTypes, linkVars, pageVars, netVars,
   Trouble, NoSocket
<1>1. CASE RetryFires
  BY <1>1 DEF RetryFires, Connect
<1>2. ASSUME NEW a \in SessionAnswers, SessionAnswered(a) PROVE SocketTypes'
  BY <1>2 DEF SessionAnswered
<1>3. ASSUME NEW s \in Ids, SocketOpens(s) PROVE SocketTypes'
  BY <1>3 DEF SocketOpens
<1>4. ASSUME NEW s \in Ids, FrameArrives(s) PROVE SocketTypes'
  BY <1>4 DEF FrameArrives
<1>5. ASSUME NEW s \in Ids, HeartbeatArrives(s) PROVE SocketTypes'
  BY <1>5 DEF HeartbeatArrives
<1>6. ASSUME NEW s \in Ids, SocketCloses(s) PROVE SocketTypes'
  BY <1>6 DEF SocketCloses, AfterClose
<1>7. CASE GoesOffline
  BY <1>7 DEF GoesOffline, Closing
<1>8. CASE ComesOnline
  BY <1>8 DEF ComesOnline
<1>9. CASE FreshnessTimer
  BY <1>9 DEF FreshnessTimer
<1>10. CASE Tick
  BY <1>10 DEF Tick
<1>11. ASSUME NEW f \in Frames, Publish(f) PROVE SocketTypes'
  BY <1>11 DEF Publish
<1>12. ASSUME NEW S \in SUBSET Ids, ServerStops(S) PROVE SocketTypes'
  BY <1>12 DEF ServerStops, Closing, Opened
<1>13. CASE ServerStarts
  BY <1>13 DEF ServerStarts
<1>14. ASSUME NEW s \in Ids, ServerCloses(s) PROVE SocketTypes'
  BY <1>14 DEF ServerCloses, Closing
<1>15. CASE UNCHANGED linkVars
  BY <1>15
<1> QED
  BY <1>1, <1>2, <1>3, <1>4, <1>5, <1>6, <1>7, <1>8, <1>9, <1>10, <1>11, <1>12, <1>13,
     <1>14, <1>15 DEF LinkNext

\* Frames are under way only to sockets that exist.
LEMMA FrameTypesKept ==
    ASSUME LinkTypeInv, [LinkNext]_linkVars
    PROVE  FrameTypes'
<1> USE LinkAssumption DEF LinkTypeInv, SocketTypes, FrameTypes, linkVars, pageVars,
   netVars, Trouble
<1>1. CASE RetryFires
  BY <1>1 DEF RetryFires
<1>2. ASSUME NEW a \in SessionAnswers, SessionAnswered(a) PROVE FrameTypes'
  BY <1>2 DEF SessionAnswered
<1>3. ASSUME NEW s \in Ids, SocketOpens(s) PROVE FrameTypes'
  BY <1>3 DEF SocketOpens
<1>4. ASSUME NEW s \in Ids, FrameArrives(s) PROVE FrameTypes'
  BY <1>4 DEF FrameArrives
<1>5. ASSUME NEW s \in Ids, HeartbeatArrives(s) PROVE FrameTypes'
  BY <1>5 DEF HeartbeatArrives
<1>6. ASSUME NEW s \in Ids, SocketCloses(s) PROVE FrameTypes'
  BY <1>6 DEF SocketCloses
<1>7. CASE GoesOffline
  BY <1>7 DEF GoesOffline, Closing
<1>8. CASE ComesOnline
  BY <1>8 DEF ComesOnline
<1>9. CASE FreshnessTimer
  BY <1>9 DEF FreshnessTimer
<1>10. CASE Tick
  BY <1>10 DEF Tick
<1>11. ASSUME NEW f \in Frames, Publish(f) PROVE FrameTypes'
  BY <1>11 DEF Publish, Opened
<1>12. ASSUME NEW S \in SUBSET Ids, ServerStops(S) PROVE FrameTypes'
  BY <1>12 DEF ServerStops, Closing, Opened
<1>13. CASE ServerStarts
  BY <1>13 DEF ServerStarts
<1>14. ASSUME NEW s \in Ids, ServerCloses(s) PROVE FrameTypes'
  BY <1>14 DEF ServerCloses, Closing
<1>15. CASE UNCHANGED linkVars
  BY <1>15
<1> QED
  BY <1>1, <1>2, <1>3, <1>4, <1>5, <1>6, <1>7, <1>8, <1>9, <1>10, <1>11, <1>12, <1>13,
     <1>14, <1>15 DEF LinkNext

\* A socket the server has lost gets no more frames.
LEMMA MuteAreSilentKept ==
    ASSUME LinkTypeInv, MuteAreSilent, [LinkNext]_linkVars
    PROVE  MuteAreSilent'
<1> USE LinkAssumption DEF LinkTypeInv, SocketTypes, FrameTypes, MuteAreSilent, linkVars,
   pageVars, netVars, Trouble
<1>1. CASE RetryFires
  BY <1>1 DEF RetryFires
<1>2. ASSUME NEW a \in SessionAnswers, SessionAnswered(a) PROVE MuteAreSilent'
  BY <1>2 DEF SessionAnswered
<1>3. ASSUME NEW s \in Ids, SocketOpens(s) PROVE MuteAreSilent'
  BY <1>3 DEF SocketOpens
<1>4. ASSUME NEW s \in Ids, FrameArrives(s) PROVE MuteAreSilent'
  BY <1>4 DEF FrameArrives
<1>5. ASSUME NEW s \in Ids, HeartbeatArrives(s) PROVE MuteAreSilent'
  BY <1>5 DEF HeartbeatArrives
<1>6. ASSUME NEW s \in Ids, SocketCloses(s) PROVE MuteAreSilent'
  BY <1>6 DEF SocketCloses
<1>7. CASE GoesOffline
  BY <1>7 DEF GoesOffline, Closing
<1>8. CASE ComesOnline
  BY <1>8 DEF ComesOnline
<1>9. CASE FreshnessTimer
  BY <1>9 DEF FreshnessTimer
<1>10. CASE Tick
  BY <1>10 DEF Tick
<1>11. ASSUME NEW f \in Frames, Publish(f) PROVE MuteAreSilent'
  BY <1>11 DEF Publish, Opened
<1>12. ASSUME NEW S \in SUBSET Ids, ServerStops(S) PROVE MuteAreSilent'
  BY <1>12 DEF ServerStops, Closing, Opened
<1>13. CASE ServerStarts
  BY <1>13 DEF ServerStarts
<1>14. ASSUME NEW s \in Ids, ServerCloses(s) PROVE MuteAreSilent'
  BY <1>14 DEF ServerCloses, Closing
<1>15. CASE UNCHANGED linkVars
  BY <1>15
<1> QED
  BY <1>1, <1>2, <1>3, <1>4, <1>5, <1>6, <1>7, <1>8, <1>9, <1>10, <1>11, <1>12, <1>13,
     <1>14, <1>15 DEF LinkNext

\* A step that only takes sockets away, and sends nothing, leaves the frames in order.
LEMMA FewerAreInOrder ==
    ASSUME LinkInv, Reached' \subseteq Reached, UNCHANGED <<shown, latest, doubled>>,
           \A s \in Reached' : queue'[s] = queue[s]
    PROVE  FramesInOrder'
  BY DEF LinkInv, FramesInOrder

\* A socket that opens is sent the latest frame first: nothing is under way to another,
\* or two were open.
LEMMA OpeningIsInOrder ==
    ASSUME LinkInv, NEW s \in Ids, SocketOpens(s)
    PROVE  FramesInOrder'
<1> USE DEF LinkInv, LinkTypeInv, SocketTypes, FrameTypes
<1> SUFFICES ASSUME ~doubled' PROVE FramesInOrder'
  BY DEF FramesInOrder
<1>1. Reached' = {s} /\ ~doubled
  BY DEF SocketOpens, LinkTypes, Reached, Opened
<1>2. queue'[s] = <<latest>> /\ shown' = shown /\ latest' = latest /\ latest[1] \in Nat
  BY LinkAssumption DEF SocketOpens, Frames
<1>3. shown[1] <= latest[1]
  BY <1>1 DEF FramesInOrder
<1> QED
  BY <1>1, <1>2, <1>3 DEF FramesInOrder

\* The frame that arrives is the first under way, and the page takes it or not.
LEMMA ArrivalIsInOrder ==
    ASSUME LinkInv, NEW s \in Ids, FrameArrives(s)
    PROVE  FramesInOrder'
<1> USE DEF LinkInv, LinkTypeInv, SocketTypes, FrameTypes
<1> SUFFICES ASSUME ~doubled' PROVE FramesInOrder'
  BY DEF FramesInOrder
<1> DEFINE q == queue[s]
<1>1. /\ q \in Seq(Frames) /\ q # << >> /\ s \in Reached
      /\ queue' = [queue EXCEPT ![s] = Tail(q)]
      /\ Reached' = Reached /\ latest' = latest /\ ~doubled
  BY DEF FrameArrives, MuteAreSilent, Reached, Opened
<1>2. /\ Len(Tail(q)) = Len(q) - 1 /\ Len(q) \in Nat
      /\ \A i \in 1..Len(q) - 1 : Tail(q)[i] = q[i + 1]
      /\ Head(q) = q[1] /\ 1 \in 1..Len(q)
  BY <1>1
<1>3. \A t \in Reached : t = s
  BY <1>1 DEF FramesInOrder
<1>4. \A i \in 1..Len(q) : q[i][1] \in Nat
  BY <1>1 DEF Frames
<1>5. \A i \in 1..Len(q) : /\ shown[1] <= q[i][1] /\ q[i][1] <= latest[1]
                          /\ \A j \in 1..i : q[j][1] <= q[i][1]
  BY <1>1 DEF FramesInOrder
<1>6. shown' = shown \/ shown' = q[1]
  BY <1>1, <1>2 DEF FrameArrives
<1>7. \A i \in 1..Len(q) - 1 :
         /\ shown'[1] <= q[i + 1][1] /\ q[i + 1][1] <= latest[1]
         /\ \A j \in 1..i : q[j + 1][1] <= q[i + 1][1]
  <2> TAKE i \in 1..Len(q) - 1
  <2>1. i + 1 \in 1..Len(q) /\ 1 \in 1..i + 1 /\ \A j \in 1..i : j + 1 \in 1..i + 1
    BY <1>2
  <2> QED
    BY <2>1, <1>5, <1>6
<1>8. shown'[1] <= latest'[1]
  BY <1>1, <1>2, <1>5, <1>6 DEF FramesInOrder
<1>9. queue'[s] = Tail(q)
  BY <1>1
<1> QED
  BY <1>1, <1>2, <1>3, <1>7, <1>8, <1>9 DEF FramesInOrder

\* The server sends a new frame to every socket it knows, after what it sent before.
LEMMA PublishedIsInOrder ==
    ASSUME LinkInv, NEW f \in Frames, Publish(f)
    PROVE  FramesInOrder'
<1> USE DEF LinkInv, LinkTypeInv, SocketTypes, FrameTypes
<1> SUFFICES ASSUME ~doubled' PROVE FramesInOrder'
  BY DEF FramesInOrder
<1>1. /\ Reached' = Reached /\ latest' = f /\ ~doubled /\ shown' = shown
      /\ \A s \in Reached : queue'[s] = Append(queue[s], f)
      /\ Reached \subseteq Ids
  BY DEF Publish, Reached, Opened, pageVars
<1>2. f[1] \in Nat /\ latest[1] \in Nat /\ shown[1] \in Nat /\ latest[1] <= f[1]
  BY LinkAssumption DEF Publish, Frames, NoFrame
<1>3. shown[1] <= f[1]
  BY <1>1, <1>2 DEF FramesInOrder
<1>5. \A g \in Frames : g[1] \in Nat
  BY DEF Frames
<1>4. ASSUME NEW s \in Reached, NEW i \in 1..Len(queue'[s])
      PROVE  /\ shown[1] <= queue'[s][i][1] /\ queue'[s][i][1] <= f[1]
             /\ \A j \in 1..i : queue'[s][j][1] <= queue'[s][i][1]
  <2> DEFINE q == queue[s]  r == queue'[s]
  <2>1. q \in Seq(Frames) /\ Len(q) \in Nat /\ r = Append(q, f)
    BY <1>1
  <2>2. /\ Len(r) = Len(q) + 1 /\ r[Len(q) + 1] = f
        /\ \A j \in 1..Len(q) : r[j] = q[j] /\ q[j] \in Frames
    BY <2>1
  <2>6. \A j \in 1..Len(q) : q[j][1] \in Nat
    BY <2>2, <1>5
  <2>3. \A k \in 1..Len(q) : /\ shown[1] <= q[k][1] /\ q[k][1] <= latest[1]
                             /\ \A j \in 1..k : q[j][1] <= q[k][1]
    BY <1>1 DEF FramesInOrder
  <2> SUFFICES /\ shown[1] <= r[i][1] /\ r[i][1] <= f[1]
               /\ \A j \in 1..i : r[j][1] <= r[i][1]
    OBVIOUS
  <2> HIDE DEF q, r
  <2>4. CASE i \in 1..Len(q)
    <3>1. \A j \in 1..i : j \in 1..Len(q)
      BY <2>4, <2>1
    <3>2. r[i] = q[i] /\ q[i][1] \in Nat
      BY <2>2, <2>4, <2>6
    <3>3. shown[1] <= q[i][1] /\ q[i][1] <= latest[1]
      BY <2>3, <2>4
    <3>4. ASSUME NEW j \in 1..i PROVE r[j][1] <= r[i][1]
      <4>1. r[j] = q[j]
        BY <2>2, <3>1
      <4>2. q[j][1] <= q[i][1]
        BY <2>3, <2>4
      <4> QED
        BY <3>2, <4>1, <4>2
    <3> QED
      BY <3>2, <3>3, <3>4, <1>2
  <2>5. CASE i = Len(q) + 1
    <3>1. \A j \in 1..i : j \in 1..Len(q) \/ j = i
      BY <2>5, <2>1
    <3>2. r[i] = f
      BY <2>2, <2>5
    <3>3. ASSUME NEW j \in 1..Len(q) PROVE r[j][1] <= f[1]
      BY <2>2, <2>3, <2>6, <1>2
    <3> QED
      BY <3>1, <3>2, <3>3, <1>2, <1>3
  <2> QED
    BY <2>1, <2>2, <2>4, <2>5 DEF r
<1> QED
  BY <1>1, <1>2, <1>3, <1>4 DEF FramesInOrder

\* The order of the frames under way is kept by every step.
LEMMA FramesInOrderKept ==
    ASSUME LinkInv, [LinkNext]_linkVars
    PROVE  FramesInOrder'
<1> USE FewerAreInOrder DEF LinkInv, LinkTypeInv, SocketTypes, FrameTypes, MuteAreSilent,
   Reached, Opened, linkVars, pageVars, netVars, Trouble
<1>1. CASE RetryFires
  BY <1>1 DEF RetryFires
<1>2. ASSUME NEW a \in SessionAnswers, SessionAnswered(a) PROVE FramesInOrder'
  BY <1>2 DEF SessionAnswered
<1>3. ASSUME NEW s \in Ids, SocketOpens(s) PROVE FramesInOrder'
  BY <1>3, OpeningIsInOrder
<1>4. ASSUME NEW s \in Ids, FrameArrives(s) PROVE FramesInOrder'
  BY <1>4, ArrivalIsInOrder
<1>5. ASSUME NEW s \in Ids, HeartbeatArrives(s) PROVE FramesInOrder'
  BY <1>5 DEF HeartbeatArrives
<1>6. ASSUME NEW s \in Ids, SocketCloses(s) PROVE FramesInOrder'
  BY <1>6 DEF SocketCloses
<1>7. CASE GoesOffline
  BY <1>7 DEF GoesOffline, Closing
<1>8. CASE ComesOnline
  BY <1>8 DEF ComesOnline
<1>9. CASE FreshnessTimer
  BY <1>9 DEF FreshnessTimer
<1>10. CASE Tick
  BY <1>10 DEF Tick
<1>11. ASSUME NEW f \in Frames, Publish(f) PROVE FramesInOrder'
  BY <1>11, PublishedIsInOrder
<1>12. ASSUME NEW S \in SUBSET Ids, ServerStops(S) PROVE FramesInOrder'
  BY <1>12 DEF ServerStops, Closing
<1>13. CASE ServerStarts
  BY <1>13 DEF ServerStarts
<1>14. ASSUME NEW s \in Ids, ServerCloses(s) PROVE FramesInOrder'
  BY <1>14 DEF ServerCloses, Closing
<1>15. CASE UNCHANGED linkVars
  BY <1>15
<1> QED
  BY <1>1, <1>2, <1>3, <1>4, <1>5, <1>6, <1>7, <1>8, <1>9, <1>10, <1>11, <1>12, <1>13,
     <1>14, <1>15 DEF LinkNext

-----------------------------------------------------------------------------
\* Before the page asks for its first session nothing is under way.
LEMMA InitiallyInOrder == LinkInit => LinkInv
<1> SUFFICES ASSUME LinkInit PROVE LinkInv
  OBVIOUS
<1>1. LinkTypes
  <2>1. telemetryAge \in 0..TelemetryLimit + 1 /\ heartbeatAge \in 0..HeartbeatLimit + 1
    BY LinkAssumption DEF LinkInit
  <2>2. state \in {"disabled", "connecting", "live", "stale", "offline"}
    BY DEF LinkInit
  <2>3. {connecting, retryTimer, sessionUnavailable, online, up, doubled} \subseteq BOOLEAN
    BY Zenon DEF LinkInit
  <2> QED
    BY <2>1, <2>2, <2>3 DEF LinkTypes
<1>2. SocketTypes /\ Reached = {}
  BY LinkAssumption DEF LinkInit, SocketTypes, NoSocket, Reached, Opened
<1>3. FrameTypes /\ MuteAreSilent
  BY LinkAssumption DEF LinkInit, FrameTypes, MuteAreSilent, Frames, NoFrame
<1>4. shown[1] <= latest[1]
  BY DEF LinkInit, NoFrame
<1> QED
  BY <1>1, <1>2, <1>3, <1>4 DEF LinkInv, LinkTypeInv, FramesInOrder

\* The invariant holds in every state of the link.
LEMMA LinkInvariant == LinkSpec => []LinkInv
<1>1. LinkInv /\ [LinkNext]_linkVars => LinkInv'
  BY LinkTypesKept, SocketTypesKept, FrameTypesKept, MuteAreSilentKept, FramesInOrderKept
     DEF LinkInv, LinkTypeInv
<1> QED
  BY InitiallyInOrder, <1>1, PTL DEF LinkSpec

\* Every variable of the link keeps its type, and no frame is on its way to, nothing is
\* kept of, a socket that is gone.
THEOREM LinkTypeCorrect == LinkSpec => []LinkTypeOK
<1>1. LinkInv => LinkTypeOK
  BY DEF LinkInv, LinkTypeInv, LinkTypes, SocketTypes, FrameTypes, LinkTypeOK
<1> QED
  BY LinkInvariant, <1>1, PTL

\* The page never goes back to an earlier frame (observeTelemetry of realtime-health.ts,
\* over reconnections and restarts of server and device), as long as no two sockets were
\* open at once.
THEOREM FramesFollowOneAnother == LinkSpec => FramesFollow
<1>1. LinkInv /\ [LinkNext]_linkVars => [After(shown', shown) \/ doubled]_linkVars
  <2> SUFFICES ASSUME LinkInv, [LinkNext]_linkVars, ~doubled
               PROVE  After(shown', shown) \/ UNCHANGED linkVars
    OBVIOUS
  <2>1. shown[1] \in Nat /\ shown[2] \in Nat
    BY LinkAssumption DEF LinkInv, LinkTypeInv, FrameTypes, Frames, NoFrame
  <2>2. CASE shown' = shown
    BY <2>1, <2>2 DEF After
  <2>3. ASSUME NEW s \in Ids, FrameArrives(s), shown' # shown PROVE After(shown', shown)
    <3>1. /\ shown' = Head(queue[s]) /\ Accepts(Head(queue[s]))
          /\ queue[s] \in Seq(Frames) /\ queue[s] # << >> /\ s \in Reached
      BY <2>3 DEF FrameArrives, LinkInv, LinkTypeInv, FrameTypes, MuteAreSilent, Reached,
         Opened
    <3>2. shown' = queue[s][1] /\ 1 \in 1..Len(queue[s]) /\ queue[s][1] \in Frames
      BY <3>1
    <3>3. shown[1] <= queue[s][1][1]
      BY <3>1, <3>2 DEF LinkInv, FramesInOrder
    <3>4. queue[s][1][1] \in Nat /\ queue[s][1][2] \in Nat
      BY <3>2 DEF Frames
    <3> QED
      BY <2>1, <3>1, <3>2, <3>3, <3>4 DEF After, Accepts
  <2>4. shown' = shown \/ \E s \in Ids : FrameArrives(s)
    BY DEF LinkNext, linkVars, pageVars, RetryFires, SessionAnswered, SocketOpens,
       HeartbeatArrives, SocketCloses, GoesOffline, ComesOnline, FreshnessTimer, Tick,
       Publish, ServerStops, ServerStarts, ServerCloses
  <2> QED
    BY <2>2, <2>3, <2>4
<1> QED
  BY LinkInvariant, <1>1, PTL DEF LinkSpec, FramesFollow
=============================================================================
