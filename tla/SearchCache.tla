----------------------------- MODULE SearchCache -----------------------------
(***************************************************************************)
(* The search service: answers from Redis, or from the catalogue and then  *)
(* into Redis for a time.  Nothing tells it of a change of the catalogue.  *)
(*                                                                         *)
(* A handler yields at every query, so an answer may be stored after the   *)
(* catalogue, or the cache, has moved on.                                  *)
(***************************************************************************)
EXTENDS Catalogue

CONSTANTS
  CacheKeys,   \* <<"journey", from, to, date, page, limit>>, <<"stations">>, <<"popular">>
  CacheTtl,    \* cacheTTL
  Readers,     \* requests of the search service at a time
  Missing

ASSUME SearchAssumption ==
  /\ CacheTtl \in Nat \ {0} /\ IsFiniteSet(JourneyIds)
  /\ CacheKeys \subseteq ({"journey"} \X Stations \X Stations \X Dates \X (Nat \ {0}) \X (Nat \ {0}))
                         \cup {<<"stations">>, <<"popular">>}

VARIABLES
  cache,     \* search:*, but the ranking
  searched,  \* search:analytics:routes: the pairs that were searched, their counts aside
  reader     \* locals of each request

searchVars == <<cache, searched, reader>>

Ranking == <<"analytics">>
NoReader == [step |-> "none"]
IsJourney(k) == k[1] = "journey"

\* What the database finds for a key now; a page of journeys is a part of it.
Found(k) ==
  CASE IsJourney(k)        -> SearchJourneys(k[2], k[3], k[4])
    [] k = <<"stations">>  -> station
    [] k = <<"popular">>   -> searched

\* Journeys in the order of their departures; those of one time come in any order,
\* and in another one for the next page.
Orders(found) ==
  {q \in [1..Cardinality(found) -> found] :
     \A i, j \in DOMAIN q : i < j => q[i] # q[j] /\ journey[q[i]].departs <= journey[q[j]].departs}

\* Mutant: take without skip.
PagesUnskipped(found, page, limit) ==
  {{q[n] : n \in DOMAIN q \cap (1..limit)} : q \in Orders(found)}

\* skip and take.
Pages(found, page, limit) ==
  {{q[n] : n \in DOMAIN q \cap ((page - 1) * limit + 1..page * limit)} : q \in Orders(found)}

\* What the database may answer for a key now.
Current(k) == IF IsJourney(k) THEN Pages(Found(k), k[5], k[6]) ELSE {Found(k)}

SearchInit ==
  /\ cache = [k \in CacheKeys |-> Missing]
  /\ searched = {}
  /\ reader = [r \in Readers |-> NoReader]

-----------------------------------------------------------------------------
At(r, step) == reader[r] # NoReader /\ reader[r].step = step
Goes(r, locals) == reader' = [reader EXCEPT ![r] = locals]
On(r, step, data) == Goes(r, [step |-> step, key |-> reader[r].key, data |-> data])

\* getCachedData: a hit, unless it is bypassed or Redis fails, needs no query.
Search(r, k) ==
  /\ reader[r] = NoReader
  /\ \/ /\ cache[k] # Missing
        /\ Goes(r, IF IsJourney(k) THEN [step |-> "count", key |-> k, data |-> {}] ELSE NoReader)
     \/ /\ IsJourney(k) => {k[2], k[3]} \subseteq station
        /\ Goes(r, [step |-> IF IsJourney(k) THEN "routes" ELSE "read", key |-> k, data |-> {}])
  /\ UNCHANGED <<catalogueVars, cache, searched>>

\* The routes are read and filtered before the journeys are (and these counted before
\* their page is read: the total is left out here).
ReadRoutes(r) ==
  /\ At(r, "routes")
  /\ On(r, "read", {x \in Routes : HasBoth(route[x].legs, reader[r].key[2], reader[r].key[3])})
  /\ UNCHANGED <<catalogueVars, cache, searched>>

ReadData(r) ==
  LET k == reader[r].key
      found == {j \in Journeys : /\ journey[j].route \in reader[r].data
                                 /\ InWindow(journey[j].departs, k[4])} IN
  /\ At(r, "read")
  /\ \E answer \in IF IsJourney(k) THEN Pages(found, k[5], k[6]) ELSE Current(k) :
       On(r, "store", answer)
  /\ UNCHANGED <<catalogueVars, cache, searched>>

\* setCachedData: SETEX over whatever is there by now; an error is swallowed.
StoreResult(r) ==
  LET k == reader[r].key IN
  /\ At(r, "store")
  /\ \/ cache' = [cache EXCEPT ![k] = [data |-> reader[r].data, ttl |-> CacheTtl]]
     \/ cache' = cache
  /\ IF IsJourney(k) THEN On(r, "count", {}) ELSE Goes(r, NoReader)
  /\ UNCHANGED <<catalogueVars, searched>>

\* incrementSearchCount swallows an error.
CountSearch(r) ==
  /\ At(r, "count")
  /\ searched' \in {searched, searched \cup {<<reader[r].key[2], reader[r].key[3]>>}}
  /\ Goes(r, NoReader)
  /\ UNCHANGED <<catalogueVars, cache>>

\* invalidateCache with keys: one DEL after another.
Invalidate(k) ==
  /\ cache' = [cache EXCEPT ![k] = Missing]
  /\ UNCHANGED <<catalogueVars, searched, reader>>

\* invalidateCache with the pattern of one kind of key: KEYS, then DEL of what
\* was there.
ListKeys(r, kind) ==
  /\ reader[r] = NoReader
  /\ Goes(r, [step |-> "clear", key |-> <<>>,
              data |-> {k \in CacheKeys : k[1] = kind /\ cache[k] # Missing}])
  /\ UNCHANGED <<catalogueVars, cache, searched>>

\* clearAllCache: search:* matches the name of the ranking, too.
ListAllKeys(r) ==
  /\ reader[r] = NoReader
  /\ Goes(r, [step |-> "clear", key |-> <<>>,
              data |-> {k \in CacheKeys : cache[k] # Missing}
                       \cup {k \in {Ranking} : searched # {}}])
  /\ UNCHANGED <<catalogueVars, cache, searched>>

DeleteKeys(r) ==
  /\ At(r, "clear")
  /\ cache' = [k \in CacheKeys |-> IF k \in reader[r].data THEN Missing ELSE cache[k]]
  /\ searched' = IF Ranking \in reader[r].data THEN {} ELSE searched
  /\ Goes(r, NoReader)
  /\ UNCHANGED catalogueVars

\* Mutant: SET in place of SETEX, no time to live.
CacheTickStuck ==
  /\ \E k \in CacheKeys : cache[k] # Missing
  /\ UNCHANGED <<catalogueVars, cache, searched, reader>>

\* A tick of Redis.
CacheTick ==
  /\ \E k \in CacheKeys : cache[k] # Missing
  /\ cache' = [k \in CacheKeys |->
       IF cache[k] = Missing \/ cache[k].ttl = 1 THEN Missing ELSE [cache[k] EXCEPT !.ttl = @ - 1]]
  /\ UNCHANGED <<catalogueVars, searched, reader>>

ReaderStep(r) == ReadRoutes(r) \/ ReadData(r) \/ StoreResult(r) \/ CountSearch(r) \/ DeleteKeys(r)

SearchNext ==
  \/ CatalogueNext /\ UNCHANGED searchVars
  \/ \E r \in Readers : ReaderStep(r) \/ ListAllKeys(r)
                        \/ \E k \in CacheKeys : Search(r, k) \/ ListKeys(r, k[1])
  \/ \E k \in CacheKeys : Invalidate(k)
  \/ CacheTick

\* Handlers go on, and time does.
SearchFairness ==
  /\ \A r \in Readers : WF_<<catalogueVars, searchVars>>(ReaderStep(r))
  /\ WF_<<catalogueVars, searchVars>>(CacheTick)

SearchSpec ==
  CatalogueInit /\ SearchInit /\ [][SearchNext]_<<catalogueVars, searchVars>> /\ SearchFairness

-----------------------------------------------------------------------------
\* All of data is found now, and what is in it of a page of journeys has the pages
\* before it full of departures that are no later.
StillThere(k, data) ==
  /\ data \subseteq Found(k)
  /\ IsJourney(k) => \A j \in data :
       (k[5] - 1) * k[6]
         <= Cardinality({i \in Found(k) \ {j} : journey[i].departs <= journey[j].departs})

\* An answer from the cache, however old it is, and whatever was written while it
\* was read in two queries and stored after them, names no journey and no station
\* that the database would not find now.  It can only miss some, and show a journey
\* on an earlier page than the one it has moved to: never on a later one.
CacheNamesWhatIsThere ==
  \A k \in CacheKeys \ {<<"popular">>} : cache[k] # Missing => StillThere(k, cache[k].data)

\* Once the catalogue has stopped changing the cache tells the truth about it in
\* the end: an answer that was read before a change and stored after it, even after
\* an invalidation, is gone with its time to live.  Nobody has to invalidate.
CacheSettles ==
  <>[] \A k \in CacheKeys \ {<<"popular">>} : cache[k] # Missing => cache[k].data \in Current(k)
=============================================================================
