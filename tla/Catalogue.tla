------------------------------ MODULE Catalogue ------------------------------
(***************************************************************************)
(* The catalogue of stations, trains, routes and journeys: written by the  *)
(* schedule service and, for trains, by the admin service; searched by the *)
(* schedule service and by the search service.                             *)
(*                                                                         *)
(* Every write looks first and writes later.  Where a unique column has    *)
(* the last word (Station.code, Train.trainNumber) the two are one action: *)
(* the look only chooses the error.                                        *)
(***************************************************************************)
EXTENDS Integers, Sequences, FiniteSets

CONSTANTS
  Stations,
  TrainIds,    \* rows of trains
  Numbers,     \* train numbers
  RouteIds,    \* rows of routes
  RouteNames,
  JourneyIds,  \* rows of journeys
  Statuses,    \* those that journeys are created with
  Dates,       \* journeyDates, as numbers of days
  Departures,  \* departureTimes
  DayLength,
  Visits,      \* what is sent as the stops of a route: the stations one after another
  Editors,     \* requests that write, at a time
  MayOverlap,  \* may requests that write overlap: subset of BOOLEAN
  NoRow

VARIABLES
  station,      \* the rows of stations
  trainNumber,  \* Train.trainNumber, or NoRow
  route,        \* name and legs (stops in stopOrder), or NoRow
  journey,      \* its columns, or NoRow
  editor,       \* locals of each request
  overlap

catalogueVars == <<station, trainNumber, route, journey, editor, overlap>>

\* The stops that are sent as visits: one for each leg.
LegsOf(visits) == [i \in 1..Len(visits) - 1 |-> <<visits[i], visits[i + 1]>>]

JourneyStatus == {"SCHEDULED", "DELAYED", "CANCELLED", "COMPLETED"}
RouteRec == [name : RouteNames, legs : {LegsOf(v) : v \in Visits}]
\* Nothing ties the time of departure to the date.
JourneyRec ==
  [train : TrainIds, route : RouteIds, status : Statuses, date : Dates, departs : Departures]

\* Visits: the legs that are sent follow one another and visit a station once, though
\* RoutesService.create looks only at their stopOrder.
ASSUME CatalogueAssumption ==
  /\ Visits \subseteq {v \in Seq(Stations) :
                        Len(v) >= 2 /\ \A i, j \in DOMAIN v : i # j => v[i] # v[j]}
  /\ Statuses \subseteq JourneyStatus
  /\ Dates \subseteq Nat /\ Departures \subseteq Nat /\ DayLength \in Nat \ {0}
  /\ MayOverlap \subseteq BOOLEAN
  /\ NoRow \notin Numbers \cup RouteRec \cup JourneyRec

Resting == [does |-> "nothing"]
EditorRec ==
  [does : {"route"}, name : RouteNames, legs : {LegsOf(v) : v \in Visits}]
  \cup [does : {"journey"}, row : JourneyRec]
  \cup [does : {"remove"}, train : TrainIds]

CatalogueTypeOK ==
  /\ station \subseteq Stations
  /\ trainNumber \in [TrainIds -> Numbers \cup {NoRow}]
  /\ route \in [RouteIds -> RouteRec \cup {NoRow}]
  /\ journey \in [JourneyIds -> JourneyRec \cup {NoRow}]
  /\ editor \in [Editors -> EditorRec \cup {Resting}]
  /\ overlap \in MayOverlap

CatalogueInit ==
  /\ station = {}
  /\ trainNumber = [t \in TrainIds |-> NoRow]
  /\ route = [x \in RouteIds |-> NoRow]
  /\ journey = [j \in JourneyIds |-> NoRow]
  /\ editor = [e \in Editors |-> Resting]
  /\ overlap \in MayOverlap

-----------------------------------------------------------------------------
Routes == {x \in RouteIds : route[x] # NoRow}
Journeys == {j \in JourneyIds : journey[j] # NoRow}

CreateStation(s) ==
  /\ station' = station \cup {s}
  /\ UNCHANGED <<trainNumber, route, journey, editor, overlap>>

NumberIsFree(t, n) == \A u \in TrainIds \ {t} : trainNumber[u] # n

\* TrainsService.create of either service; admin's update of a train's number.
CreateTrain(t, n) ==
  /\ trainNumber[t] = NoRow /\ NumberIsFree(t, n)
  /\ trainNumber' = [trainNumber EXCEPT ![t] = n]
  /\ UNCHANGED <<station, route, journey, editor, overlap>>

UpdateTrain(t, n) ==
  /\ trainNumber[t] # NoRow /\ NumberIsFree(t, n)
  /\ trainNumber' = [trainNumber EXCEPT ![t] = n]
  /\ UNCHANGED <<station, route, journey, editor, overlap>>

Turn(e) == editor[e] = Resting /\ (overlap \/ \A d \in Editors : editor[d] = Resting)
Edit(e, locals) == editor' = [editor EXCEPT ![e] = locals]

\* RoutesService.create: no route of this name, and all the stations exist.
CheckRoute(e, name, visits) ==
  /\ Turn(e)
  /\ \A x \in Routes : route[x].name # name
  /\ \A i \in DOMAIN visits : visits[i] \in station
  /\ Edit(e, [does |-> "route", name |-> name, legs |-> LegsOf(visits)])
  /\ UNCHANGED <<station, trainNumber, route, journey, overlap>>

WriteRoute(e, x) ==
  /\ editor[e].does = "route" /\ route[x] = NoRow
  /\ route' = [route EXCEPT ![x] = [name |-> editor[e].name, legs |-> editor[e].legs]]
  /\ Edit(e, Resting)
  /\ UNCHANGED <<station, trainNumber, journey, overlap>>

\* Mutant: the duplicate is looked for among the scheduled journeys only.
CheckJourneyScheduled(e, row) ==
  /\ Turn(e)
  /\ trainNumber[row.train] # NoRow /\ route[row.route] # NoRow
  /\ \A j \in Journeys : journey[j].status = "SCHEDULED" =>
       <<journey[j].train, journey[j].route, journey[j].date>> # <<row.train, row.route, row.date>>
  /\ Edit(e, [does |-> "journey", row |-> row])
  /\ UNCHANGED <<station, trainNumber, route, journey, overlap>>

\* JourneysService.create: the train and the route exist, and no journey of
\* both on this date.
CheckJourney(e, row) ==
  /\ Turn(e)
  /\ trainNumber[row.train] # NoRow /\ route[row.route] # NoRow
  /\ \A j \in Journeys :
       <<journey[j].train, journey[j].route, journey[j].date>> # <<row.train, row.route, row.date>>
  /\ Edit(e, [does |-> "journey", row |-> row])
  /\ UNCHANGED <<station, trainNumber, route, journey, overlap>>

\* The foreign key refuses the journey of a train that was deleted meanwhile.
WriteJourney(e, j) ==
  /\ editor[e].does = "journey" /\ journey[j] = NoRow
  /\ journey' = IF trainNumber[editor[e].row.train] = NoRow THEN journey
                ELSE [journey EXCEPT ![j] = editor[e].row]
  /\ Edit(e, Resting)
  /\ UNCHANGED <<station, trainNumber, route, overlap>>

\* Admin's remove counts the scheduled journeys of the train.
CheckRemove(e, t) ==
  /\ Turn(e)
  /\ trainNumber[t] # NoRow
  /\ \A j \in Journeys : ~(journey[j].train = t /\ journey[j].status = "SCHEDULED")
  /\ Edit(e, [does |-> "remove", train |-> t])
  /\ UNCHANGED <<station, trainNumber, route, journey, overlap>>

\* Mutant: the count of before will do.
RemoveTrainCounted(e) ==
  /\ editor[e].does = "remove"
  /\ trainNumber' = [trainNumber EXCEPT ![editor[e].train] = NoRow]
  /\ Edit(e, Resting)
  /\ UNCHANGED <<station, route, journey, overlap>>

\* The foreign key counts all of them, and those that came meanwhile.
RemoveTrain(e) ==
  LET t == editor[e].train IN
  /\ editor[e].does = "remove"
  /\ trainNumber' = IF \E j \in Journeys : journey[j].train = t THEN trainNumber
                    ELSE [trainNumber EXCEPT ![t] = NoRow]
  /\ Edit(e, Resting)
  /\ UNCHANGED <<station, route, journey, overlap>>

CatalogueNext ==
  \/ \E s \in Stations : CreateStation(s)
  \/ \E t \in TrainIds, n \in Numbers : CreateTrain(t, n) \/ UpdateTrain(t, n)
  \/ \E e \in Editors :
       \/ \E name \in RouteNames, visits \in Visits : CheckRoute(e, name, visits)
       \/ \E x \in RouteIds : WriteRoute(e, x)
       \/ \E row \in JourneyRec : CheckJourney(e, row)
       \/ \E j \in JourneyIds : WriteJourney(e, j)
       \/ \E t \in TrainIds : CheckRemove(e, t)
       \/ RemoveTrain(e)

CatalogueSpec == CatalogueInit /\ [][CatalogueNext]_catalogueVars

-----------------------------------------------------------------------------
(* The two searches.                                                       *)

Touches(leg, s) == s \in {leg[1], leg[2]}

\* findIndex: the first leg that touches s, 0 if there is none.
FindIndex(legs, s) ==
  IF \E i \in DOMAIN legs : Touches(legs[i], s)
  THEN CHOOSE i \in DOMAIN legs :
         Touches(legs[i], s) /\ \A j \in 1..i - 1 : ~Touches(legs[j], s)
  ELSE 0

\* Mutant: the first legs may be the same.
InOrderOrSame(legs, from, to) ==
  FindIndex(legs, from) # 0 /\ FindIndex(legs, from) <= FindIndex(legs, to)

\* JourneysService.searchJourneys, "both stations in correct order".
InOrder(legs, from, to) ==
  FindIndex(legs, from) # 0 /\ FindIndex(legs, from) < FindIndex(legs, to)

ScheduleSearch(from, to, day) ==
  IF {from, to} \subseteq station
  THEN {j \in Journeys : /\ journey[j].status \in {"SCHEDULED", "DELAYED"}
                         /\ journey[j].date = day
                         /\ InOrder(route[journey[j].route].legs, from, to)}
  ELSE {}

\* SearchService.searchJourneys: the same comment, another filter; any status, and
\* the departures of the 24 hours from the date on in place of its journeys.
HasBoth(legs, from, to) == \A s \in {from, to} : \E i \in DOMAIN legs : Touches(legs[i], s)

InWindow(time, day) == day * DayLength <= time /\ time < (day + 1) * DayLength

\* The list that its pages are cut from.
SearchJourneys(from, to, day) ==
  {j \in Journeys : /\ HasBoth(route[journey[j].route].legs, from, to)
                    /\ InWindow(journey[j].departs, day)}

\* The definition of a journey from one station to another.
Connects(legs, from, to) ==
  \E i, j \in DOMAIN legs : i <= j /\ legs[i][1] = from /\ legs[j][2] = to

-----------------------------------------------------------------------------
\* Requests that do not overlap never make a second journey of a train on a route
\* and a date, nor a second route of a name, for which no column is unique.
NoDuplicates ==
  ~overlap =>
    /\ \A j, k \in Journeys : j # k =>
         <<journey[j].train, journey[j].route, journey[j].date>>
           # <<journey[k].train, journey[k].route, journey[k].date>>
    /\ \A x, y \in Routes : x # y => route[x].name # route[y].name

\* Whoever deletes a train while a journey of it is being created, no journey is
\* left without its train or its route.
JourneysAreWhole ==
  \A j \in Journeys : trainNumber[journey[j].train] # NoRow /\ route[journey[j].route] # NoRow

\* The schedule service never offers a journey of another date, or one that does not
\* go from the one station to the other; the search service misses none of the day's
\* departures that do.  Each of them breaks the other half: the schedule service
\* misses the first leg of every route, the search service offers the way back, and
\* what is of the day for the one departs on another for the other.
SearchesBracketTheTruth ==
  \A from, to \in Stations, day \in Dates :
    LET truth == {j \in Journeys : Connects(route[journey[j].route].legs, from, to)} IN
    from # to =>
      /\ ScheduleSearch(from, to, day) \subseteq {j \in truth : journey[j].date = day}
      /\ {j \in truth : InWindow(journey[j].departs, day)} \subseteq SearchJourneys(from, to, day)
=============================================================================
