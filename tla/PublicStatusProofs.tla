------------------------- MODULE PublicStatusProofs -------------------------
(***************************************************************************)
(* Proofs about PublicStatus, for any number of instances and of requests  *)
(* served together: how old an answer can be, and whose it is.             *)
(***************************************************************************)
EXTENDS PublicStatus, StorageProofs

-----------------------------------------------------------------------------
(* The answers.                                                            *)

LEMMA ShownType ==
    ASSUME TypeOK, NEW i \in Instances
    PROVE  Shown(i) \in PublicData \cup {None}
<1>1. CASE liveStore[i] = None
  BY <1>1 DEF Shown
<1>2. CASE liveStore[i] # None
  <2>1. liveStore[i] \in InstanceState
    BY <1>2 DEF TypeOK
  <2>2. QED
    BY <1>2, <2>1 DEF Shown, PublicDataOf, PublicData, InstanceState
<1>3. QED
  BY <1>1, <1>2

LEMMA ResponseType ==
    ASSUME TypeOK, NEW key \in Keys, NEW isAll \in BOOLEAN
    PROVE  /\ ResponseTo(key, isAll) \in Response
           /\ ResponseTo(key, isAll) # None
           /\ isAll => ResponseTo(key, isAll).form \in {"map", "error"}
           /\ ~isAll => /\ ResponseTo(key, isAll).form \in {"one", "missing", "error"}
                        /\ \A i \in Instances \ {key} : ResponseTo(key, isAll).data[i] = None
           /\ \A i \in Instances : ResponseTo(key, isAll).data[i] # None =>
                 ResponseTo(key, isAll).data[i].ingested \notin Unencodable
<1>1. \A form \in {"missing", "error"} :
         /\ NoData(form) \in Response
         /\ NoData(form).form = form
         /\ \A i \in Instances : NoData(form).data[i] = None
  BY DEF NoData, Response
<1>2. \A i \in Instances : Encodes(i) /\ Shown(i) # None => Shown(i).ingested \notin Unencodable
  BY DEF Encodes, Shown
<1>3. /\ FullResponse \in Response
      /\ FullResponse.form \in {"map", "error"}
      /\ \A i \in Instances : FullResponse.data[i] # None =>
            FullResponse.data[i].ingested \notin Unencodable
  <2> DEFINE map == [form |-> "map", data |-> [i \in Instances |-> Shown(i)]]
  <2>1. map \in Response /\ map.form = "map" /\ \A i \in Instances : map.data[i] = Shown(i)
    BY ShownType DEF Response
  <2>2. FullResponse = IF \A i \in Instances : Encodes(i) THEN map ELSE NoData("error")
    BY DEF FullResponse
  <2> HIDE DEF map
  <2>3. QED
    BY <1>1, <1>2, <2>1, <2>2
<1>4. /\ SingleResponse(key) \in Response
      /\ SingleResponse(key).form \in {"one", "missing", "error"}
      /\ \A i \in Instances \ {key} : SingleResponse(key).data[i] = None
      /\ \A i \in Instances : SingleResponse(key).data[i] # None =>
            SingleResponse(key).data[i].ingested \notin Unencodable
  <2> DEFINE one == [form |-> "one",
                     data |-> [i \in Instances |-> IF i = key THEN Shown(i) ELSE None]]
  <2>1. /\ one \in Response /\ one.form = "one"
        /\ \A i \in Instances : one.data[i] = IF i = key THEN Shown(i) ELSE None
    BY ShownType DEF Response
  <2>2. SingleResponse(key) = IF key \in Instances /\ liveStore[key] # None
                              THEN IF Encodes(key) THEN one ELSE NoData("error")
                              ELSE NoData("missing")
    BY DEF SingleResponse
  <2> HIDE DEF one
  <2>3. QED
    BY <1>1, <1>2, <2>1, <2>2
<1>5. QED
  BY <1>3, <1>4, StatusNoneAssumption DEF ResponseTo

-----------------------------------------------------------------------------
(* Types and ages.  The item of a key is as old as the copy it was made    *)
(* from, and what it may still live on and that age make at most the time  *)
(* of a request and of the cache.                                          *)

AgesInv ==
    /\ \A q \in Readers : requests[q] # None => requests[q].age <= requests[q].running
    /\ \A k \in Keys : publicCache[k] # None =>
          /\ Cacheable(publicCache[k].response)
          /\ publicCache[k].expiresIn > 0 =>
                publicCache[k].age + publicCache[k].expiresIn <= CacheTTL + MaxWork
    /\ AnswersRecent

LEMMA StatusInitInv == ASSUME StatusInit PROVE StatusTypeOK /\ AgesInv
BY InitType, StatusAssumption DEF StatusInit, StatusTypeOK, AgesInv, AnswersRecent

\* An answer from the cache is neither a 404 nor a 500.
LEMMA RecentAnswer ==
    ASSUME answer'.age <= CacheTTL + MaxWork, Cacheable(answer'.response)
    PROVE  AnswersRecent'
<1>1. answer'.response.form \in {"one", "map"}
  BY DEF Cacheable
<1>2. QED
  BY <1>1 DEF AnswersRecent

LEMMA HitKeeps ==
    ASSUME StatusTypeOK, AgesInv,
           NEW q \in Readers, NEW key \in Keys, NEW isAll \in BOOLEAN, Hit(q, key, isAll)
    PROVE  StatusTypeOK' /\ AgesInv'
<1>1. publicCache[key] \in CacheItem /\ publicCache[key].expiresIn > 0
  BY DEF Hit, Cached, StatusTypeOK
<1>2. /\ answer' \in Answer
      /\ answer'.age = publicCache[key].age
      /\ answer'.response = publicCache[key].response
  BY <1>1 DEF Hit, AnswerOf, Answer, CacheItem
<1>3. answer'.age <= CacheTTL + MaxWork /\ Cacheable(answer'.response)
  <2>1. /\ publicCache[key].age \in Nat
        /\ publicCache[key].expiresIn \in Nat
    BY <1>1, StatusAssumption DEF CacheItem
  <2>2. publicCache[key].age + publicCache[key].expiresIn <= CacheTTL + MaxWork
    BY <1>1, StatusNoneAssumption DEF AgesInv
  <2>3. QED
    BY <1>1, <1>2, <2>1, <2>2, StatusAssumption, StatusNoneAssumption DEF AgesInv
<1>4. UNCHANGED <<vars, publicCache, requests>>
  BY DEF Hit
<1>5. TypeOK'
  BY <1>4, NextType DEF StatusTypeOK
<1>6. AnswersRecent'
  BY <1>3, RecentAnswer
<1>7. QED
  BY <1>2, <1>4, <1>5, <1>6 DEF StatusTypeOK, AgesInv

LEMMA MissKeeps ==
    ASSUME StatusTypeOK, AgesInv,
           NEW q \in Readers, NEW key \in Keys, NEW isAll \in BOOLEAN, Miss(q, key, isAll)
    PROVE  StatusTypeOK' /\ AgesInv'
<1> DEFINE req == [key |-> key, isAll |-> isAll, response |-> None, age |-> 0, running |-> 0]
<1>1. req \in Request /\ req.age <= req.running
  BY StatusAssumption DEF Request
<1>2. requests' = [requests EXCEPT ![q] = req] /\ UNCHANGED <<vars, publicCache, answer>>
  BY DEF Miss
<1>3. TypeOK'
  BY <1>2, NextType DEF StatusTypeOK
<1> HIDE DEF req
<1>4. QED
  BY <1>1, <1>2, <1>3 DEF StatusTypeOK, AgesInv, AnswersRecent

LEMMA SnapshotKeeps ==
    ASSUME StatusTypeOK, AgesInv, NEW q \in Readers, Snapshot(q)
    PROVE  StatusTypeOK' /\ AgesInv'
<1> DEFINE response == ResponseTo(requests[q].key, requests[q].isAll)
           req == [requests[q] EXCEPT !.response = response, !.age = 0]
<1>1. requests[q] \in Request
  BY DEF Snapshot, StatusTypeOK
<1>2. response \in Response
  BY <1>1, ResponseType DEF Request, StatusTypeOK
<1>3. requests' = [requests EXCEPT ![q] = req] /\ UNCHANGED <<vars, publicCache, answer>>
  BY DEF Snapshot
<1>4. TypeOK'
  BY <1>3, NextType DEF StatusTypeOK
<1> HIDE DEF response
<1>5. req \in Request /\ req.age <= req.running
  <2>1. requests[q].running \in Nat /\ 0 \in 0 .. ShownCap
    BY <1>1, StatusAssumption DEF Request
  <2>2. req.age = 0 /\ req.running = requests[q].running
    BY <1>1 DEF Request
  <2>3. req \in Request
    BY <1>1, <1>2, <2>1 DEF Request
  <2>4. QED
    BY <2>1, <2>2, <2>3
<1> HIDE DEF req
<1>6. QED
  BY <1>3, <1>4, <1>5 DEF StatusTypeOK, AgesInv, AnswersRecent

LEMMA ReplyKeeps ==
    ASSUME StatusTypeOK, AgesInv, NEW q \in Readers, Reply(q)
    PROVE  StatusTypeOK' /\ AgesInv'
<1> DEFINE req == requests[q]
<1>1. /\ req \in Request
      /\ req.response \in Response
      /\ req.age \in Nat /\ req.running \in Nat
      /\ req.age <= req.running /\ req.running <= MaxWork
  <2>1. req \in Request /\ req.response \in Response
    BY DEF Reply, StatusTypeOK, Request
  <2>2. QED
    BY <2>1, StatusAssumption, StatusNoneAssumption DEF AgesInv, Request
<1>2. /\ UNCHANGED vars
      /\ requests' = [requests EXCEPT ![q] = None]
      /\ publicCache' = IF Cacheable(req.response)
                        THEN [publicCache EXCEPT ![req.key] = ItemOf(req)]
                        ELSE publicCache
      /\ answer' = AnswerOf(req.key, req.isAll, req.response, req.age)
  BY DEF Reply
<1>3. TypeOK'
  BY <1>2, NextType DEF StatusTypeOK
<1> HIDE DEF req
<1>4. /\ ItemOf(req) \in CacheItem
      /\ ItemOf(req).response = req.response
      /\ ItemOf(req).age + ItemOf(req).expiresIn <= CacheTTL + MaxWork
  BY <1>1, StatusAssumption DEF ItemOf, CacheItem, Request
<1>5. /\ answer' \in Answer
      /\ answer'.age <= MaxWork
  <2>1. answer'.age = req.age
    BY <1>2 DEF AnswerOf
  <2>2. answer' \in Answer
    BY <1>1, <1>2 DEF AnswerOf, Answer, Request
  <2>3. QED
    BY <1>1, <2>1, <2>2, StatusAssumption
<1>6. AnswersRecent'
  <2>1. answer'.age \in Nat
    BY <1>5, StatusAssumption DEF Answer
  <2>2. QED
    BY <1>5, <2>1, StatusAssumption DEF AnswersRecent
<1>7. requests' \in [Readers -> Request \cup {None}]
  BY <1>2 DEF StatusTypeOK
<1>8. publicCache' \in [Keys -> CacheItem \cup {None}]
  BY <1>1, <1>2, <1>4 DEF StatusTypeOK, Request
<1>9. \A k \in Keys : publicCache'[k] # None =>
          /\ Cacheable(publicCache'[k].response)
          /\ publicCache'[k].expiresIn > 0 =>
                publicCache'[k].age + publicCache'[k].expiresIn <= CacheTTL + MaxWork
  <2>1. CASE ~Cacheable(req.response)
    BY <1>2, <2>1 DEF AgesInv
  <2>2. CASE Cacheable(req.response)
    <3>1. publicCache' = [publicCache EXCEPT ![req.key] = ItemOf(req)]
      BY <1>2, <2>2
    <3>2. QED
      BY <1>4, <2>2, <3>1 DEF AgesInv, StatusTypeOK
  <2>3. QED
    BY <2>1, <2>2
<1>10. \A p \in Readers : requests'[p] # None => requests'[p].age <= requests'[p].running
  BY <1>2 DEF StatusTypeOK, AgesInv
<1>11. QED
  BY <1>3, <1>5, <1>6, <1>7, <1>8, <1>9, <1>10 DEF StatusTypeOK, AgesInv

LEMMA OlderType ==
    ASSUME NEW age \in 0 .. ShownCap
    PROVE  /\ Older(age) \in 0 .. ShownCap
           /\ Older(age) <= age + 1
BY StatusAssumption DEF Older

LEMMA TickKeeps ==
    ASSUME StatusTypeOK, AgesInv, StatusTick
    PROVE  StatusTypeOK' /\ AgesInv'
<1>1. TypeOK'
  BY NextType DEF StatusTick, StatusTypeOK, Next
<1>2. ASSUME NEW k \in Keys, publicCache[k] # None
      PROVE  /\ publicCache'[k] \in CacheItem
             /\ publicCache'[k].response = publicCache[k].response
             /\ publicCache'[k].expiresIn > 0 =>
                   publicCache'[k].age + publicCache'[k].expiresIn <= CacheTTL + MaxWork
  <2> DEFINE item == publicCache[k]
             left == IF item.expiresIn = 0 THEN 0 ELSE item.expiresIn - 1
  <2>1. /\ item \in CacheItem
        /\ item.age \in 0 .. ShownCap
        /\ item.expiresIn \in 0 .. CacheTTL
    BY <1>2 DEF StatusTypeOK, CacheItem
  <2>2. publicCache'[k] = [item EXCEPT !.expiresIn = left, !.age = Older(item.age)]
    BY <1>2 DEF StatusTick
  <2>3. item.expiresIn > 0 => item.age + item.expiresIn <= CacheTTL + MaxWork
    BY <1>2 DEF AgesInv
  <2>4. left \in 0 .. CacheTTL
    BY <2>1, StatusAssumption
  <2>5. Older(item.age) \in 0 .. ShownCap /\ Older(item.age) <= item.age + 1
    BY <2>1, OlderType
  <2>6. left > 0 => Older(item.age) + left <= CacheTTL + MaxWork
    BY <2>1, <2>3, <2>5, StatusAssumption
  <2> HIDE DEF item, left
  <2>7. /\ publicCache'[k] \in CacheItem
        /\ publicCache'[k].response = item.response
        /\ publicCache'[k].expiresIn = left
        /\ publicCache'[k].age = Older(item.age)
    BY <2>1, <2>2, <2>4, <2>5 DEF CacheItem
  <2>8. QED
    BY <2>6, <2>7 DEF item
<1>3. ASSUME NEW q \in Readers, requests[q] # None
      PROVE  /\ requests'[q] \in Request
             /\ requests'[q].age <= requests'[q].running
  <2> DEFINE req == requests[q]
             age == IF req.response = None THEN 0 ELSE Older(req.age)
  <2>1. /\ req \in Request
        /\ req.age \in 0 .. ShownCap
        /\ req.running \in 0 .. MaxWork
        /\ req.age <= req.running
        /\ req.running < MaxWork
    BY <1>3 DEF StatusTypeOK, Request, AgesInv, StatusTick
  <2>2. requests'[q] = [req EXCEPT !.running = req.running + 1, !.age = age]
    BY <1>3 DEF StatusTick
  <2>3. age \in 0 .. ShownCap /\ age <= req.running + 1
    BY <2>1, OlderType, StatusAssumption
  <2>4. req.running + 1 \in 0 .. MaxWork
    BY <2>1, StatusAssumption
  <2> HIDE DEF req, age
  <2>5. QED
    BY <2>1, <2>2, <2>3, <2>4 DEF Request
<1>4. /\ \A k \in Keys : publicCache[k] = None => publicCache'[k] = None
      /\ \A q \in Readers : requests[q] = None => requests'[q] = None
      /\ answer' = answer
  BY DEF StatusTick
<1>5. publicCache' \in [Keys -> CacheItem \cup {None}]
  <2>1. DOMAIN publicCache' = Keys /\ publicCache' = [k \in Keys |-> publicCache'[k]]
    BY DEF StatusTick
  <2>2. \A k \in Keys : publicCache'[k] \in CacheItem \cup {None}
    BY <1>2, <1>4
  <2>3. QED
    BY <2>1, <2>2
<1>6. requests' \in [Readers -> Request \cup {None}]
  <2>1. DOMAIN requests' = Readers /\ requests' = [q \in Readers |-> requests'[q]]
    BY DEF StatusTick
  <2>2. \A q \in Readers : requests'[q] \in Request \cup {None}
    BY <1>3, <1>4
  <2>3. QED
    BY <2>1, <2>2
<1>7. StatusTypeOK'
  BY <1>1, <1>4, <1>5, <1>6 DEF StatusTypeOK
<1>8. AgesInv'
  BY <1>2, <1>3, <1>4 DEF AgesInv, AnswersRecent
<1>9. QED
  BY <1>7, <1>8

LEMMA UpdateKeeps ==
    ASSUME StatusTypeOK, AgesInv, Update
    PROVE  StatusTypeOK' /\ AgesInv'
<1>1. TypeOK'
  BY NextType DEF Update, StatusTypeOK, Next
<1>2. QED
  BY <1>1 DEF Update, StatusTypeOK, AgesInv, AnswersRecent

LEMMA StatusNextKeeps ==
    ASSUME StatusTypeOK, AgesInv, [StatusNext]_statusVars
    PROVE  StatusTypeOK' /\ AgesInv'
<1>1. CASE UNCHANGED statusVars
  <2>1. TypeOK'
    BY <1>1, NextType DEF statusVars, StatusTypeOK
  <2>2. QED
    BY <1>1, <2>1 DEF statusVars, StatusTypeOK, AgesInv, AnswersRecent
<1>2. QED
  BY <1>1, HitKeeps, MissKeeps, SnapshotKeeps, ReplyKeeps, TickKeeps, UpdateKeeps
     DEF StatusNext

LEMMA StatusCorrect == StatusSpec => [](StatusTypeOK /\ AgesInv)
<1>1. StatusTypeOK /\ AgesInv /\ [StatusNext]_statusVars => (StatusTypeOK /\ AgesInv)'
  BY StatusNextKeeps
<1>2. QED
  BY <1>1, StatusInitInv, PTL DEF StatusSpec

\* The cache, the requests in progress and the answers keep their types.
THEOREM StatusTypeCorrect == StatusSpec => []StatusTypeOK
BY StatusCorrect, PTL

\* HandleStatus and HandleStatusSingle: no answer is older than the time of
\* the cache and of one request, however requests for a key overtake each
\* other.
THEOREM AnswersRecentCorrect == StatusSpec => []AnswersRecent
<1>1. AgesInv => AnswersRecent
  BY DEF AgesInv
<1>2. QED
  BY <1>1, StatusCorrect, PTL

-----------------------------------------------------------------------------
(* Whose answer it is, unless an instance is asked for by the key of all.  *)

Fits(key, isAll, response) ==
    /\ isAll <=> key = AllKey
    /\ isAll => response.form \in {"map", "error"}
    /\ ~isAll => /\ response.form \in {"one", "missing", "error"}
                 /\ \A i \in Instances \ {key} : response.data[i] = None
    /\ \A i \in Instances : response.data[i] # None =>
          response.data[i].ingested \notin Unencodable

MatchInv ==
    /\ \A k \in Keys : publicCache[k] # None =>
          Fits(k, k = AllKey, publicCache[k].response)
    /\ \A q \in Readers : requests[q] # None =>
          /\ requests[q].isAll <=> requests[q].key = AllKey
          /\ requests[q].response # None =>
                Fits(requests[q].key, requests[q].isAll, requests[q].response)
    /\ answer # None => Fits(answer.key, answer.isAll, answer.response)

LEMMA MatchStep ==
    ASSUME AllKey \notin URLIds, StatusTypeOK, MatchInv, [StatusNext]_statusVars
    PROVE  MatchInv'
<1>1. ASSUME NEW q \in Readers, NEW key \in Keys, NEW isAll \in BOOLEAN, Hit(q, key, isAll)
      PROVE  MatchInv'
  <2>1. isAll <=> key = AllKey
    BY <1>1 DEF Hit, Route
  <2>2. Fits(key, isAll, publicCache[key].response)
    BY <1>1, <2>1 DEF Hit, Cached, MatchInv
  <2>3. QED
    BY <1>1, <2>2 DEF Hit, AnswerOf, MatchInv
<1>2. ASSUME NEW q \in Readers, NEW key \in Keys, NEW isAll \in BOOLEAN, Miss(q, key, isAll)
      PROVE  MatchInv'
  <2>1. isAll <=> key = AllKey
    BY <1>2 DEF Miss, Route
  <2>2. QED
    BY <1>2, <2>1 DEF Miss, MatchInv, StatusTypeOK
<1>3. ASSUME NEW q \in Readers, Snapshot(q)
      PROVE  MatchInv'
  <2> DEFINE response == ResponseTo(requests[q].key, requests[q].isAll)
  <2>1. requests[q] \in Request /\ (requests[q].isAll <=> requests[q].key = AllKey)
    BY <1>3 DEF Snapshot, StatusTypeOK, MatchInv
  <2>2. Fits(requests[q].key, requests[q].isAll, response)
    BY <2>1, ResponseType DEF StatusTypeOK, Request, Fits
  <2> HIDE DEF response
  <2>3. requests' = [requests EXCEPT ![q] = [requests[q] EXCEPT !.response = response, !.age = 0]]
    BY <1>3 DEF Snapshot, response
  <2>4. /\ requests'[q].key = requests[q].key
        /\ requests'[q].isAll = requests[q].isAll
        /\ requests'[q].response = response
        /\ \A p \in Readers \ {q} : requests'[p] = requests[p]
    BY <2>1, <2>3 DEF StatusTypeOK, Request
  <2>5. QED
    BY <1>3, <2>1, <2>2, <2>4 DEF Snapshot, MatchInv
<1>4. ASSUME NEW q \in Readers, Reply(q)
      PROVE  MatchInv'
  <2> DEFINE req == requests[q]
  <2>1. req \in Request /\ Fits(req.key, req.isAll, req.response)
    BY <1>4 DEF Reply, StatusTypeOK, MatchInv
  <2>2. req.isAll <=> req.key = AllKey
    BY <2>1 DEF Fits
  <2>3. \A k \in Keys : publicCache'[k] # None =>
           Fits(k, k = AllKey, publicCache'[k].response)
    <3>1. CASE ~Cacheable(req.response)
      BY <1>4, <3>1 DEF Reply, MatchInv
    <3>2. CASE Cacheable(req.response)
      <4>1. publicCache' = [publicCache EXCEPT ![req.key] = ItemOf(req)]
        BY <1>4, <3>2 DEF Reply
      <4>2. ItemOf(req).response = req.response
        BY DEF ItemOf
      <4>3. Fits(req.key, req.key = AllKey, req.response)
        BY <2>1, <2>2 DEF Request
      <4>4. QED
        BY <4>1, <4>2, <4>3 DEF MatchInv, StatusTypeOK
    <3>3. QED
      BY <3>1, <3>2
  <2>4. Fits(answer'.key, answer'.isAll, answer'.response)
    BY <1>4, <2>1 DEF Reply, AnswerOf
  <2>5. \A p \in Readers : requests'[p] # None => requests'[p] = requests[p]
    BY <1>4 DEF Reply, StatusTypeOK
  <2>6. QED
    BY <2>3, <2>4, <2>5 DEF MatchInv
<1>5. CASE StatusTick
  <2>1. ASSUME NEW k \in Keys, publicCache'[k] # None
        PROVE  publicCache[k] # None /\ publicCache'[k].response = publicCache[k].response
    BY <1>5, <2>1 DEF StatusTick, StatusTypeOK, CacheItem
  <2>2. ASSUME NEW q \in Readers, requests'[q] # None
        PROVE  /\ requests[q] # None
               /\ requests'[q].key = requests[q].key
               /\ requests'[q].isAll = requests[q].isAll
               /\ requests'[q].response = requests[q].response
    BY <1>5, <2>2 DEF StatusTick, StatusTypeOK, Request
  <2>3. answer' = answer
    BY <1>5 DEF StatusTick
  <2>4. QED
    BY <2>1, <2>2, <2>3 DEF MatchInv
<1>6. CASE Update
  BY <1>6 DEF Update, MatchInv
<1>7. CASE UNCHANGED statusVars
  BY <1>7 DEF statusVars, MatchInv
<1>8. QED
  BY <1>1, <1>2, <1>3, <1>4, <1>5, <1>6, <1>7 DEF StatusNext

\* GET /status is answered with the map of all instances and
\* GET /status/{instance_id} with that instance, as long as nobody asks for
\* an instance by the cache key of the map; and where what would have to be
\* shown cannot be encoded, with a 500.
THEOREM AnswersMatchCorrect ==
    ASSUME AllKey \notin URLIds
    PROVE  StatusSpec => []AnswersMatch
<1>1. StatusInit => MatchInv
  BY DEF StatusInit, MatchInv
<1>2. StatusTypeOK /\ MatchInv /\ [StatusNext]_statusVars => MatchInv'
  BY MatchStep
<1>3. MatchInv /\ StatusTypeOK => AnswersMatch
  BY DEF MatchInv, Fits, AnswersMatch
<1>4. QED
  BY <1>1, <1>2, <1>3, StatusTypeCorrect, PTL DEF StatusSpec
=============================================================================
