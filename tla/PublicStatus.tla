---------------------------- MODULE PublicStatus -----------------------------
(***************************************************************************)
(* The public status endpoints (internal/server/status.go) on the live     *)
(* store, with their response cache, where they are enabled.               *)
(*                                                                         *)
(* A request looks into the cache, copies the live store and writes the    *)
(* cache in three separate steps, and nothing makes two requests for the   *)
(* same key wait for each other.                                           *)
(***************************************************************************)
EXTENDS Storage

CONSTANTS
    Unencodable,  \* bodies with a NaN or an infinity among what is exported
    URLIds,    \* instance ids that GET /status/{instance_id} is asked for
    AllKey,    \* the cache key of GET /status: the string "all"
    Readers,   \* requests that can be served together
    CacheTTL,  \* public.cache_ttl, in ticks
    MaxWork,   \* bound: ticks a request takes at most
    ShownCap   \* bound: ages of answers are not told apart beyond it

VARIABLES
    publicCache,  \* Handler.publicCache
    requests,     \* the requests in progress
    answer        \* the answer given last

statusVars == <<vars, publicCache, requests, answer>>

Keys == URLIds \cup {AllKey}

ASSUME StatusAssumption ==
    /\ CacheTTL \in Nat
    /\ MaxWork \in Nat
    /\ ShownCap \in Nat
    /\ ShownCap > CacheTTL + MaxWork

\* What an answer shows of one instance: the body its values and labels come
\* from, beside what was polled.
PublicData == [ingested : Chunks \cup {None},
               polled   : BOOLEAN \cup {None},
               rcon     : BOOLEAN \cup {None}]

\* The JSON of one instance or of the map of all, or the plain text of a 404
\* ("missing") or of a 500 ("error").
Response == [form : {"one", "map", "missing", "error"},
             data : [Instances -> PublicData \cup {None}]]

\* age: ticks since the live store was copied.
CacheItem == [response : Response, expiresIn : 0 .. CacheTTL, age : 0 .. ShownCap]
Request == [key      : Keys,
            isAll    : BOOLEAN,
            response : Response \cup {None},
            age      : 0 .. ShownCap,
            running  : 0 .. MaxWork]
Answer == [key : Keys, isAll : BOOLEAN, response : Response, age : 0 .. ShownCap]

ASSUME StatusNoneAssumption == None \notin PublicData \cup Response \cup CacheItem \cup Request \cup Answer

-----------------------------------------------------------------------------
\* Nothing published, nothing polled: an empty object.  The status cached for
\* an instance with no ingested families cannot be there, as both come from
\* the same body.
PublicDataOf(state) ==
    [ingested |-> IF state.Ingested # None THEN state.Ingested ELSE state.Status,
     polled   |-> state.Polled,
     rcon     |-> state.RCon]

Shown(i) == IF liveStore[i] = None THEN None ELSE PublicDataOf(liveStore[i])

\* json.Marshal refuses numbers that JSON does not have.
Encodes(i) == liveStore[i] = None \/ PublicDataOf(liveStore[i]).ingested \notin Unencodable

NoData(form) == [form |-> form, data |-> [i \in Instances |-> None]]

\* GetInstanceStates and collectPublicData.  One instance spoils the map.
FullResponse ==
    IF \A i \in Instances : Encodes(i)
    THEN [form |-> "map", data |-> [i \in Instances |-> Shown(i)]]
    ELSE NoData("error")

SingleResponse(key) ==
    IF key \in Instances /\ liveStore[key] # None
    THEN IF Encodes(key)
         THEN [form |-> "one", data |-> [i \in Instances |-> IF i = key THEN Shown(i) ELSE None]]
         ELSE NoData("error")
    ELSE NoData("missing")

ResponseTo(key, isAll) == IF isAll THEN FullResponse ELSE SingleResponse(key)

StatusInit ==
    /\ Init
    /\ publicCache = [k \in Keys |-> None]
    /\ requests = [q \in Readers |-> None]
    /\ answer = None

\* BUG: an item is good for as long as it is there.
CachedForever(key) == publicCache[key] # None

\* time.Now().Before(expiresAt).
Cached(key) == publicCache[key] # None /\ publicCache[key].expiresIn > 0

\* The routes: GET /status, and GET /status/{instance_id}.
Route(key, isAll) == IF isAll THEN key = AllKey ELSE key \in URLIds

AnswerOf(key, isAll, response, age) ==
    [key |-> key, isAll |-> isAll, response |-> response, age |-> age]

Hit(q, key, isAll) ==
    /\ Route(key, isAll)
    /\ requests[q] = None
    /\ Cached(key)
    /\ answer' = AnswerOf(key, isAll, publicCache[key].response, publicCache[key].age)
    /\ UNCHANGED <<vars, publicCache, requests>>

Miss(q, key, isAll) ==
    /\ Route(key, isAll)
    /\ requests[q] = None
    /\ ~Cached(key)
    /\ requests' = [requests EXCEPT ![q] = [key |-> key, isAll |-> isAll,
                                            response |-> None, age |-> 0, running |-> 0]]
    /\ UNCHANGED <<vars, publicCache, answer>>

Snapshot(q) ==
    /\ requests[q] # None
    /\ requests[q].response = None
    /\ LET response == ResponseTo(requests[q].key, requests[q].isAll)
       IN  requests' = [requests EXCEPT ![q].response = response, ![q].age = 0]
    /\ UNCHANGED <<vars, publicCache, answer>>

\* BUG: the time the old item had left is added.
ItemExtended(req) ==
    LET old == publicCache[req.key]
    IN  [response  |-> req.response,
         expiresIn |-> CacheTTL + (IF old = None THEN 0 ELSE old.expiresIn),
         age       |-> req.age]

ItemOf(req) == [response |-> req.response, expiresIn |-> CacheTTL, age |-> req.age]

Cacheable(response) == response.form \in {"one", "map"}

\* BUG: every answer goes to the item of the full status.
ReplyUnderAll(q) ==
    /\ requests[q] # None
    /\ requests[q].response # None
    /\ LET req == requests[q]
       IN  /\ publicCache' =
                IF Cacheable(req.response)
                THEN [publicCache EXCEPT ![AllKey] = ItemOf(req)]
                ELSE publicCache
           /\ answer' = AnswerOf(req.key, req.isAll, req.response, req.age)
    /\ requests' = [requests EXCEPT ![q] = None]
    /\ UNCHANGED vars

\* BUG: a 404 or a 500 is cached like any other answer.
ReplyCachingErrors(q) ==
    /\ requests[q] # None
    /\ requests[q].response # None
    /\ LET req == requests[q]
       IN  /\ publicCache' = [publicCache EXCEPT ![req.key] = ItemOf(req)]
           /\ answer' = AnswerOf(req.key, req.isAll, req.response, req.age)
    /\ requests' = [requests EXCEPT ![q] = None]
    /\ UNCHANGED vars

\* Neither a 404 nor a 500 is cached.
Reply(q) ==
    /\ requests[q] # None
    /\ requests[q].response # None
    /\ LET req == requests[q]
       IN  /\ publicCache' =
                IF Cacheable(req.response)
                THEN [publicCache EXCEPT ![req.key] = ItemOf(req)]
                ELSE publicCache
           /\ answer' = AnswerOf(req.key, req.isAll, req.response, req.age)
    /\ requests' = [requests EXCEPT ![q] = None]
    /\ UNCHANGED vars

Older(age) == IF age = ShownCap THEN age ELSE age + 1

StatusTick ==
    /\ Tick
    /\ \A q \in Readers : requests[q] # None => requests[q].running < MaxWork
    /\ publicCache' =
         [k \in Keys |->
            IF publicCache[k] = None THEN None
            ELSE [publicCache[k] EXCEPT
                    !.expiresIn = IF @ = 0 THEN 0 ELSE @ - 1,
                    !.age = Older(@)]]
    /\ requests' =
         [q \in Readers |->
            IF requests[q] = None THEN None
            ELSE [requests[q] EXCEPT !.running = @ + 1,
                                     !.age = IF requests[q].response = None THEN 0
                                             ELSE Older(@)]]
    /\ UNCHANGED answer

Update == Operations /\ UNCHANGED <<publicCache, requests, answer>>

StatusNext ==
    \/ \E q \in Readers :
          \/ \E key \in Keys, isAll \in BOOLEAN : Hit(q, key, isAll) \/ Miss(q, key, isAll)
          \/ Snapshot(q)
          \/ Reply(q)
    \/ StatusTick
    \/ Update

StatusSpec == StatusInit /\ [][StatusNext]_statusVars

\* Readers keep asking, and a handler that has begun a request ends it.
StatusFairSpec ==
    /\ StatusSpec
    /\ WF_statusVars(StatusTick)
    /\ \A q \in Readers :
          /\ WF_statusVars(\E key \in Keys, isAll \in BOOLEAN : Hit(q, key, isAll)
                                                                \/ Miss(q, key, isAll))
          /\ WF_statusVars(Snapshot(q))
          /\ WF_statusVars(Reply(q))

-----------------------------------------------------------------------------
StatusTypeOK ==
    /\ TypeOK
    /\ publicCache \in [Keys -> CacheItem \cup {None}]
    /\ requests \in [Readers -> Request \cup {None}]
    /\ answer \in Answer \cup {None}

\* An answer shows the live store as it was at most cache_ttl and one request
\* ago, even when a request that copied the store long ago overwrites the
\* item of one that copied it later; and a 404 or a 500 is what the request
\* itself has found: neither outlives its cause in the cache.
AnswersRecent ==
    answer # None =>
        /\ answer.age <= CacheTTL + MaxWork
        /\ answer.response.form \in {"missing", "error"} => answer.age <= MaxWork

\* GET /status is answered with the map of all instances, and
\* GET /status/{instance_id} with that instance, or a 404, and no other one.
\* A 500 is for requests that would have had to show a body which cannot be
\* encoded: no answer does.
AnswersMatch ==
    answer # None =>
        /\ IF answer.isAll
           THEN answer.response.form \in {"map", "error"}
           ELSE /\ answer.response.form \in {"one", "missing", "error"}
                /\ \A i \in Instances \ {answer.key} : answer.response.data[i] = None
        /\ \A i \in Instances : answer.response.data[i] # None =>
              answer.response.data[i].ingested \notin Unencodable

\* What the comment of HandleStatusSingle says: "returns public status for a
\* single instance", whatever the id in the URL.
SingleAnswersSingle ==
    answer # None /\ ~answer.isAll => answer.response.form # "map"

\* Once the store stops changing, the answers end up showing it as it is, or
\* a 500 for as long as what is to be shown cannot be encoded: nothing
\* outdated stays in the cache.
AnswersConverge ==
    <>[](answer # None => answer.response = ResponseTo(answer.key, answer.isAll))
=============================================================================
