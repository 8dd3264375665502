------------------------- MODULE SessionCache_proofs -------------------------
(***************************************************************************)
(* The session cache for any tokens, requests, lifetimes and limits: its    *)
(* shape, its bound, and how long a revoked session may live.               *)
(***************************************************************************)
EXTENDS SessionCache, FiniteSetTheorems, TLAPS

-----------------------------------------------------------------------------
(* The inductive invariant.                                                  *)

\* Requests that have no token.
Bare == {"idle", "revokeAll", "forgetAll"}

\* What a lookup may hold, or return, of a session that has gone.
RequestOK(r) ==
    LET q == request[r] IN
    /\ q.stage \in Bare => q.token = NoToken
    /\ q.stage \notin Bare => q.token \in seen
    /\ q.readAt <= sessionClock
    /\ q.stage = "store" /\ q.answer = "row"
         => /\ q.token \notin settled
            /\ goneAt[q.token] # Never => q.readAt <= goneAt[q.token]
    /\ q.stage = "resolved" /\ goneAt[q.token] # Never
         => q.readAt < goneAt[q.token] + PositiveTTL

RequestsOK == /\ request \in [Requests -> Request]
              /\ \A r \in Requests : RequestOK(r)

\* A valid entry outlives its row by the cache's lifetime at most.
EntryTimes ==
    \A e \in entries : e.valid =>
        /\ e.token \notin settled
        /\ e.until <= (IF goneAt[e.token] = Never THEN sessionClock ELSE goneAt[e.token])
                      + PositiveTTL

MapOK == /\ entries \subseteq Entries
         /\ \A e, f \in entries : e.token = f.token => e = f
         /\ IsFiniteSet(entries)
         /\ CacheBounded

\* A row has not gone, and comes back under another token only.
TablesOK ==
    /\ sessionClock \in Nat /\ rows \subseteq seen /\ seen \subseteq SessionTokens
    /\ expires \in [SessionTokens -> Nat]
    /\ userRevision \in Nat /\ cacheRevision \in 0..userRevision /\ allocated \in BOOLEAN
    /\ goneAt \in [SessionTokens -> Nat \cup {Never}]
    /\ \A t \in SessionTokens : goneAt[t] <= sessionClock
    /\ \A t \in rows : goneAt[t] = Never
    /\ \A t \in SessionTokens \ seen : goneAt[t] = Never
    /\ settled \subseteq seen \ rows
    /\ queryErrors \in Nat

Inv == TablesOK /\ MapOK /\ EntryTimes /\ RequestsOK

-----------------------------------------------------------------------------
(* Lemmas. *)

\* The three resting records of a request are requests.
LEMMA RequestRecords ==
    /\ NoRequest \in Request /\ ForgettingAll \in Request
    /\ \A t \in SessionTokens : Forgetting(t) \in Request
    /\ \A q \in Request : /\ \A s \in Stages : [q EXCEPT !.stage = s] \in Request
                          /\ \A a \in Answers : [q EXCEPT !.stage = "store", !.answer = a]
                                                  \in Request
    /\ \A t \in SessionTokens, n \in Nat :
         [NoRequest EXCEPT !.stage = "check", !.token = t, !.readAt = n] \in Request
<1>1. NoRequest \in Request
  BY DEF NoRequest, Request, Stages, Answers
<1>2. \A s \in Stages, q \in Request : [q EXCEPT !.stage = s] \in Request
  BY Zenon DEF Request
<1>3. \A q \in Request, a \in Answers : [q EXCEPT !.stage = "store", !.answer = a] \in Request
  <2>1. "store" \in Stages
    BY DEF Stages
  <2> QED
    BY <2>1, Zenon DEF Request
<1>4. \A t \in SessionTokens : Forgetting(t) \in Request
  BY <1>1 DEF Forgetting, NoRequest, Request, Stages, Answers
<1>5. \A t \in SessionTokens, n \in Nat :
        [NoRequest EXCEPT !.stage = "check", !.token = t, !.readAt = n] \in Request
  BY <1>1 DEF NoRequest, Request, Stages, Answers
<1>6. ForgettingAll \in Request
  BY <1>1, <1>2 DEF ForgettingAll, Stages
<1> QED
  BY <1>1, <1>2, <1>3, <1>4, <1>5, <1>6

\* Time passes, rows go, and revocations that nobody straddles settle.
Later ==
    /\ sessionClock' \in Nat /\ sessionClock <= sessionClock'
    /\ seen \subseteq seen' /\ seen' \subseteq SessionTokens
    /\ goneAt' \in [SessionTokens -> Nat \cup {Never}]
    /\ \A t \in SessionTokens : \/ goneAt'[t] = goneAt[t]
                                \/ goneAt[t] = Never /\ goneAt'[t] = sessionClock
    /\ settled' \cap HeldRows \subseteq settled

\* A step that deletes no row and moves no clock is a later state.
LEMMA SameIsLater ==
    ASSUME TablesOK, sessionClock' = sessionClock,
           seen \subseteq seen', seen' \subseteq SessionTokens,
           goneAt' = goneAt, settled' = settled
    PROVE  Later
<1>1. sessionClock' \in Nat /\ sessionClock <= sessionClock'
  BY DEF TablesOK
<1>2. /\ goneAt' \in [SessionTokens -> Nat \cup {Never}]
      /\ \A t \in SessionTokens : goneAt'[t] = goneAt[t]
  BY DEF TablesOK
<1>3. settled' \cap HeldRows \subseteq settled
  OBVIOUS
<1> QED
  BY <1>1, <1>2, <1>3, Zenon DEF Later

\* The requests that do not move keep what they are allowed to hold.
LEMMA OthersKeep ==
    ASSUME TablesOK, RequestsOK, Later, NEW r \in Requests,
           request' \in [Requests -> Request],
           \A s \in Requests \ {r} : request'[s] = request[s],
           RequestOK(r)'
    PROVE  RequestsOK'
<1> SUFFICES ASSUME NEW s \in Requests \ {r} PROVE RequestOK(s)'
  BY DEF RequestsOK
<1> DEFINE q == request[s]
<1>1. RequestOK(s) /\ q \in Request /\ request'[s] = q
  BY DEF RequestsOK
<1>2. q.stage = "store" /\ q.answer = "row" => q.token \in HeldRows
  BY DEF HeldRows
<1>3. q.readAt \in Nat /\ (q.stage \notin Bare => q.token \in SessionTokens)
  BY <1>1 DEF RequestOK, Request, TablesOK
<1>4. ("store" \notin Bare) /\ ("resolved" \notin Bare)
  BY DEF Bare
<1>5. q.stage = "store" /\ q.answer = "row"
        => q.token \notin settled' /\ (goneAt'[q.token] # Never => q.readAt <= goneAt'[q.token])
  BY <1>1, <1>2, <1>3, <1>4 DEF RequestOK, Later, TablesOK
<1>6. q.stage = "resolved" /\ goneAt'[q.token] # Never
        => q.readAt < goneAt'[q.token] + PositiveTTL
  BY <1>1, <1>3, <1>4, SessionTimes DEF RequestOK, Later, TablesOK, Never
<1>7. q.readAt <= sessionClock'
  BY <1>1, <1>3 DEF RequestOK, Later, TablesOK
<1> QED
  BY <1>1, <1>5, <1>6, <1>7 DEF RequestOK, Later

\* The entries that stay keep their times.
LEMMA EntriesKeep ==
    ASSUME TablesOK, MapOK, EntryTimes, Later, NEW e \in entries, e.token \notin settled' \ settled
    PROVE  e.valid => /\ e.token \notin settled'
                      /\ e.until <= (IF goneAt'[e.token] = Never THEN sessionClock'
                                     ELSE goneAt'[e.token]) + PositiveTTL
<1>1. e.token \in SessionTokens /\ e.until \in Nat
  BY DEF MapOK, Entries
<1> QED
  BY <1>1, SessionTimes DEF EntryTimes, TablesOK, Later, Never

\* Forgetting or dropping entries keeps the map's part of the invariant.
LEMMA MapKeeps ==
    ASSUME TablesOK, MapOK, EntryTimes, Later, settled' = settled,
           entries' \subseteq entries, allocated' \/ entries' = {}
    PROVE  MapOK' /\ EntryTimes'
<1>1. IsFiniteSet(entries') /\ Cardinality(entries') <= Cardinality(entries)
  BY FS_Subset DEF MapOK
<1>2. Cardinality(entries') <= MaxEntries
  BY <1>1, FS_CardinalityType, SessionLimits DEF MapOK, CacheBounded
<1>3. MapOK'
  BY <1>1, <1>2 DEF MapOK, CacheBounded
<1>4. EntryTimes'
  BY EntriesKeep DEF EntryTimes
<1> QED
  BY <1>3, <1>4

\* Pruning leaves room for one more.
LEMMA RoomIsMade ==
    ASSUME NEW kept, IsFiniteSet(kept), NEW at, NEW room \in RoomMade(kept, at)
    PROVE  room \subseteq kept /\ IsFiniteSet(room) /\ Cardinality(room) < MaxEntries
<1>1. \/ room = kept /\ Cardinality(kept) < MaxEntries
      \/ room \subseteq kept /\ Cardinality(room) <= MaxEntries - 1
      \/ room \subseteq kept /\ Cardinality(room) = MaxEntries - 1
  BY Zenon DEF RoomMade
<1>2. room \subseteq kept
  BY <1>1
<1>3. IsFiniteSet(room) /\ Cardinality(room) \in Nat
  BY <1>2, FS_Subset, FS_CardinalityType
<1> QED
  BY <1>1, <1>2, <1>3, SessionLimits

\* What a change of one request's record is.
LEMMA OneMoves ==
    ASSUME request \in [Requests -> Request], NEW r \in Requests, NEW q \in Request,
           request' = [request EXCEPT ![r] = q]
    PROVE  /\ request' \in [Requests -> Request] /\ request'[r] = q
           /\ \A s \in Requests \ {r} : request'[s] = request[s]
  OBVIOUS

\* A step of one request that reads, and writes nothing but its own record.
LEMMA ReadingKeeps ==
    ASSUME Inv, NEW r \in Requests, queryErrors' \in Nat,
           UNCHANGED <<sessionClock, tableVars, cacheVars, sessionHistory>>,
           request' \in [Requests -> Request],
           \A s \in Requests \ {r} : request'[s] = request[s],
           RequestOK(r)'
    PROVE  Inv'
<1>1. Later
  BY SameIsLater DEF Inv, TablesOK, tableVars, sessionHistory
<1>2. TablesOK'
  BY DEF Inv, TablesOK, tableVars, cacheVars, sessionHistory
<1>3. MapOK' /\ EntryTimes'
  BY DEF Inv, MapOK, CacheBounded, EntryTimes, tableVars, cacheVars, sessionHistory
<1>4. RequestsOK'
  BY <1>1, OthersKeep DEF Inv
<1> QED
  BY <1>2, <1>3, <1>4 DEF Inv

\* A request that rests holds nothing.
LEMMA RestedOK ==
    ASSUME NEW r \in Requests, request'[r] = NoRequest, sessionClock' \in Nat PROVE RequestOK(r)'
  BY DEF RequestOK, NoRequest, Bare

\* The stages a request can be in.
LEMMA StageNames == {"check", "query", "store", "resolved", "expired", "panicked", "revokeAll"}
                      \subseteq Stages
  BY DEF Stages

-----------------------------------------------------------------------------
(* Every action keeps the invariant. *)

\* The empty cache.
LEMMA InitInv == SessionInit => Inv
<1> SUFFICES ASSUME SessionInit PROVE Inv
  OBVIOUS
<1>1. TablesOK
  <2>1. goneAt \in [SessionTokens -> Nat \cup {Never}] /\ \A t \in SessionTokens : goneAt[t] = Never
    BY DEF SessionInit
  <2>2. /\ \A t \in SessionTokens : goneAt[t] <= sessionClock
        /\ expires \in [SessionTokens -> Nat] /\ sessionClock \in Nat
    BY <2>1 DEF SessionInit, Never
  <2>3. /\ rows \subseteq seen /\ seen \subseteq SessionTokens /\ settled \subseteq seen \ rows
        /\ \A t \in rows : goneAt[t] = Never
    BY DEF SessionInit
  <2>4. userRevision \in Nat /\ cacheRevision \in 0..userRevision /\ queryErrors \in Nat
    BY DEF SessionInit
  <2>5. allocated \in BOOLEAN
    BY Zenon DEF SessionInit
  <2> QED
    BY <2>1, <2>2, <2>3, <2>4, <2>5, Zenon DEF TablesOK
<1>2. MapOK /\ EntryTimes
  BY FS_EmptySet, SessionLimits DEF SessionInit, MapOK, EntryTimes, CacheBounded
<1>3. RequestsOK
  <2>1. request \in [Requests -> Request]
    BY RequestRecords DEF SessionInit
  <2>2. ASSUME NEW r \in Requests PROVE RequestOK(r)
    <3>1. request[r] = NoRequest
      BY DEF SessionInit
    <3> QED
      BY <3>1 DEF SessionInit, RequestOK, NoRequest, Bare
  <2> QED
    BY <2>1, <2>2 DEF RequestsOK
<1> QED
  BY <1>1, <1>2, <1>3 DEF Inv

\* A request presents a token.
LEMMA LookupStartsKeeps ==
    ASSUME Inv, NEW r \in Requests, NEW t \in SessionTokens, LookupStarts(r, t) PROVE Inv'
<1> DEFINE q == [NoRequest EXCEPT !.stage = "check", !.token = t, !.readAt = sessionClock]
<1>1. Later
  BY SameIsLater DEF Inv, TablesOK, LookupStarts, sessionHistory
<1>2. TablesOK'
  BY DEF Inv, TablesOK, LookupStarts, cacheVars, sessionHistory
<1>3. MapOK' /\ EntryTimes'
  BY DEF Inv, MapOK, CacheBounded, EntryTimes, LookupStarts, cacheVars, sessionHistory
<1>4. q \in Request
  BY RequestRecords DEF Inv, TablesOK
<1>5. /\ request' \in [Requests -> Request] /\ request'[r] = q
      /\ \A s \in Requests \ {r} : request'[s] = request[s]
  BY <1>4, OneMoves DEF Inv, RequestsOK, LookupStarts, Becomes
<1>6. RequestOK(r)'
  BY <1>5 DEF RequestOK, LookupStarts, NoRequest, Bare, Inv, TablesOK
<1>7. RequestsOK'
  BY <1>1, <1>5, <1>6, OthersKeep DEF Inv
<1> QED
  BY <1>2, <1>3, <1>7 DEF Inv

\* The first critical section answers, misses or drops the map.
LEMMA LookupChecksKeeps ==
    ASSUME Inv, NEW r \in Requests, LookupChecks(r) PROVE Inv'
<1> DEFINE q == request[r]
           hits == {e \in Current : e.token = q.token /\ q.readAt < e.until}
<1>0. q \in Request /\ RequestOK(r) /\ q.stage = "check"
  BY DEF Inv, RequestsOK, LookupChecks, At
<1>1. q.token \in seen /\ q.token \in SessionTokens
  BY <1>0 DEF RequestOK, Bare, Inv, TablesOK
<1>2. Later
  BY SameIsLater DEF Inv, TablesOK, LookupChecks, tableVars, sessionHistory
<1>3. TablesOK'
  BY DEF Inv, TablesOK, LookupChecks, tableVars, sessionHistory
<1>4. entries' \subseteq entries /\ allocated'
  BY DEF LookupChecks, Current
<1>5. MapOK' /\ EntryTimes'
  BY <1>2, <1>4, MapKeeps DEF Inv, LookupChecks, sessionHistory
<1>6. \/ request' = [request EXCEPT ![r] = [q EXCEPT !.stage = "query"]]
      \/ /\ \E e \in hits : e.valid
         /\ request' = [request EXCEPT ![r] = [q EXCEPT !.stage = "resolved"]]
      \/ request' = [request EXCEPT ![r] = NoRequest]
  BY DEF LookupChecks, Goes, Rests, Becomes
<1>7. request' \in [Requests -> Request] /\ \A s \in Requests \ {r} : request'[s] = request[s]
  BY <1>0, <1>6, RequestRecords, StageNames, OneMoves DEF Inv, RequestsOK
<1>8. RequestOK(r)'
  <2>1. CASE request' = [request EXCEPT ![r] = [q EXCEPT !.stage = "query"]]
    <3>1. request'[r] = [q EXCEPT !.stage = "query"]
      BY <2>1 DEF Inv, RequestsOK
    <3> QED
      BY <1>0, <1>1, <3>1 DEF RequestOK, Bare, LookupChecks, tableVars, sessionHistory, Request
  <2>2. CASE /\ \E e \in hits : e.valid
             /\ request' = [request EXCEPT ![r] = [q EXCEPT !.stage = "resolved"]]
    <3>1. PICK e \in entries : e.valid /\ e.token = q.token /\ q.readAt < e.until
      BY <2>2 DEF Current
    <3>2. goneAt[q.token] # Never => e.until <= goneAt[q.token] + PositiveTTL
      BY <3>1 DEF Inv, EntryTimes
    <3>3. goneAt[q.token] # Never => q.readAt < goneAt[q.token] + PositiveTTL
      <4>1. e.until \in Nat /\ q.readAt \in Nat /\ goneAt[q.token] \in Nat \cup {Never}
        BY <1>0, <1>1 DEF Inv, MapOK, Entries, Request, TablesOK
      <4> QED
        BY <3>1, <3>2, <4>1, SessionTimes DEF Never
    <3>4. request'[r] = [q EXCEPT !.stage = "resolved"]
      BY <2>2 DEF Inv, RequestsOK
    <3> QED
      BY <1>0, <1>1, <3>3, <3>4
      DEF RequestOK, Bare, LookupChecks, tableVars, sessionHistory, Request
  <2>3. CASE request' = [request EXCEPT ![r] = NoRequest]
    BY <2>3, RestedOK, RequestRecords DEF Inv, RequestsOK, TablesOK, LookupChecks
  <2> QED
    BY <1>6, <2>1, <2>2, <2>3
<1>9. RequestsOK'
  BY <1>2, <1>7, <1>8, OthersKeep DEF Inv
<1> QED
  BY <1>3, <1>5, <1>9 DEF Inv

\* The query reads the row as it is now, without the mutex.
LEMMA LookupQueriesKeeps ==
    ASSUME Inv, NEW r \in Requests, LookupQueries(r) PROVE Inv'
<1> DEFINE q == request[r]
           answered(a) == [q EXCEPT !.stage = "store", !.answer = a]
<1>0. q \in Request /\ RequestOK(r) /\ q.stage = "query"
  BY DEF Inv, RequestsOK, LookupQueries, At
<1>1. q.token \in seen /\ q.token \in SessionTokens
  BY <1>0 DEF RequestOK, Bare, Inv, TablesOK
<1>2. PICK a \in Answers : /\ request' = [request EXCEPT ![r] = answered(a)]
                           /\ a = "row" => q.token \in rows
  BY DEF LookupQueries, Becomes, Answers
<1>3. answered(a) \in Request
  BY <1>0, RequestRecords
<1>4. /\ request' \in [Requests -> Request] /\ request'[r] = answered(a)
      /\ \A s \in Requests \ {r} : request'[s] = request[s]
  BY <1>2, <1>3, OneMoves DEF Inv, RequestsOK
<1>5. a = "row" => q.token \notin settled /\ goneAt[q.token] = Never
  BY <1>2 DEF Inv, TablesOK
<1>6. RequestOK(r)'
  BY <1>0, <1>1, <1>4, <1>5
  DEF RequestOK, Bare, LookupQueries, tableVars, sessionHistory, Request
<1>7. queryErrors' \in Nat
  BY DEF LookupQueries, StatementFails, Inv, TablesOK
<1> QED
  BY <1>4, <1>6, <1>7, ReadingKeeps DEF LookupQueries

\* The caller gets its answer; an expired session is deleted.
LEMMA LookupReturnsKeeps ==
    ASSUME Inv, NEW r \in Requests, LookupReturns(r) \/ PanicRecovered(r) PROVE Inv'
<1> DEFINE q == request[r]
<1>0. q \in Request /\ RequestOK(r) /\ q.stage \in {"resolved", "panicked"}
  BY DEF Inv, RequestsOK, LookupReturns, PanicRecovered, At
<1>1. q.token \in seen
  BY <1>0 DEF RequestOK, Bare
<1>2. \/ request' = [request EXCEPT ![r] = [q EXCEPT !.stage = "expired"]]
      \/ request' = [request EXCEPT ![r] = NoRequest]
  BY DEF LookupReturns, PanicRecovered, Goes, Rests, Becomes
<1>3. UNCHANGED <<sessionClock, tableVars, cacheVars, sessionHistory, queryErrors>>
  BY DEF LookupReturns, PanicRecovered
<1>4. request' \in [Requests -> Request] /\ \A s \in Requests \ {r} : request'[s] = request[s]
  BY <1>0, <1>2, RequestRecords, StageNames, OneMoves DEF Inv, RequestsOK
<1>5. RequestOK(r)'
  <2>1. CASE request' = [request EXCEPT ![r] = [q EXCEPT !.stage = "expired"]]
    <3>1. request'[r] = [q EXCEPT !.stage = "expired"]
      BY <2>1 DEF Inv, RequestsOK
    <3> QED
      BY <1>0, <1>1, <1>3, <3>1 DEF RequestOK, Bare, tableVars, sessionHistory, Request
  <2>2. CASE request' = [request EXCEPT ![r] = NoRequest]
    BY <1>3, <2>2, RestedOK, RequestRecords DEF Inv, RequestsOK, TablesOK
  <2> QED
    BY <1>2, <2>1, <2>2
<1> QED
  BY <1>3, <1>4, <1>5, ReadingKeeps DEF Inv, TablesOK

\* An assignment to the map after pruning: the limit holds, and the new entry is
\* counted from before the query.
LEMMA PutKeeps ==
    ASSUME Inv, NEW r \in Requests, request[r].stage = "store",
           UNCHANGED <<sessionClock, tableVars, sessionHistory>>, allocated',
           NEW room \in SUBSET entries, Cardinality(room) < MaxEntries,
           entries' = room \/ entries' = Put(room, request[r])
    PROVE  MapOK' /\ EntryTimes'
<1> DEFINE q == request[r]
           new == Stored(q)
           others == {e \in room : e.token # q.token}
<1>0. Later /\ settled' = settled
  BY SameIsLater DEF Inv, TablesOK, tableVars, sessionHistory
<1>1. CASE entries' = room
  BY <1>0, <1>1, MapKeeps DEF Inv
<1>2. CASE entries' = others \cup {new}
  <2>1. q \in Request /\ RequestOK(r) /\ q.token \in SessionTokens /\ q.readAt \in Nat
    BY DEF Inv, RequestsOK, RequestOK, Bare, TablesOK, Request
  <2>2. /\ new.token = q.token /\ new.valid = (q.answer = "row")
        /\ new.until = q.readAt + TTL(q.answer)
    BY DEF Stored
  <2>3. new \in Entries
    BY <2>1, SessionTimes DEF Stored, TTL, Entries
  <2>4. IsFiniteSet(others) /\ Cardinality(others) <= Cardinality(room) /\ IsFiniteSet(room)
    BY FS_Subset DEF Inv, MapOK
  <2>5. IsFiniteSet(entries') /\ Cardinality(entries') <= MaxEntries
    <3>1. /\ IsFiniteSet(others \cup {new})
          /\ \/ Cardinality(others \cup {new}) = Cardinality(others)
             \/ Cardinality(others \cup {new}) = Cardinality(others) + 1
      BY <2>4, FS_AddElement, Zenon
    <3>2. Cardinality(others) \in Nat /\ Cardinality(room) \in Nat
      BY <2>4, FS_CardinalityType, Zenon
    <3> QED
      BY <1>2, <2>4, <3>1, <3>2, SessionLimits
  <2>6. entries' \subseteq Entries /\ \A e, f \in entries' : e.token = f.token => e = f
    BY <1>2, <2>2, <2>3 DEF Inv, MapOK
  <2>7. MapOK'
    BY <2>5, <2>6 DEF MapOK, CacheBounded
  <2>8. new.valid => /\ new.token \notin settled'
                     /\ new.until <= (IF goneAt'[new.token] = Never THEN sessionClock'
                                      ELSE goneAt'[new.token]) + PositiveTTL
    <3> SUFFICES ASSUME q.answer = "row"
                 PROVE  /\ q.token \notin settled'
                        /\ q.readAt + PositiveTTL
                             <= (IF goneAt'[q.token] = Never THEN sessionClock'
                                 ELSE goneAt'[q.token]) + PositiveTTL
      BY <2>2 DEF TTL
    <3>1. /\ q.token \notin settled /\ q.readAt <= sessionClock
          /\ goneAt[q.token] # Never => q.readAt <= goneAt[q.token]
      BY <2>1 DEF RequestOK
    <3>2. goneAt' = goneAt /\ settled' = settled /\ sessionClock' = sessionClock
      BY DEF sessionHistory
    <3>3. goneAt[q.token] \in Nat \cup {Never} /\ sessionClock \in Nat
      BY <2>1 DEF Inv, TablesOK
    <3> QED
      BY <2>1, <3>1, <3>2, <3>3, SessionTimes DEF Never
  <2>9. EntryTimes'
    <3> SUFFICES ASSUME NEW e \in entries', e.valid
                 PROVE  /\ e.token \notin settled'
                        /\ e.until <= (IF goneAt'[e.token] = Never THEN sessionClock'
                                       ELSE goneAt'[e.token]) + PositiveTTL
      BY DEF EntryTimes
    <3>1. CASE e = new
      BY <2>8, <3>1
    <3>2. CASE e \in entries
      BY <1>0, <3>2, EntriesKeep DEF Inv
    <3> QED
      BY <1>2, <3>1, <3>2
  <2> QED
    BY <2>7, <2>9
<1> QED
  BY <1>1, <1>2 DEF Put

\* The second critical section stores what the query read.
LEMMA LookupStoresKeeps ==
    ASSUME Inv, NEW r \in Requests, LookupStores(r) PROVE Inv'
<1> DEFINE q == request[r]
           isMap == allocated \/ cacheRevision # userRevision
<1>0. q \in Request /\ RequestOK(r) /\ q.stage = "store"
  BY DEF Inv, RequestsOK, LookupStores, At
<1>1. q.token \in seen /\ q.token \in SessionTokens /\ q.readAt \in Nat
  BY <1>0 DEF RequestOK, Bare, Inv, TablesOK, Request
<1>2. /\ UNCHANGED <<sessionClock, tableVars, sessionHistory, queryErrors>>
      /\ cacheRevision' = userRevision /\ allocated' = isMap
  BY DEF LookupStores
<1>3. Later
  BY <1>2, SameIsLater DEF Inv, TablesOK, tableVars, sessionHistory
<1>4. TablesOK'
  BY <1>2 DEF Inv, TablesOK, tableVars, sessionHistory
<1>5. MapOK' /\ EntryTimes'
  <2>1. CASE isMap
    <3>1. PICK room \in RoomMade(Current, q.readAt) : entries' = room \/ entries' = Put(room, q)
      BY <2>1 DEF LookupStores
    <3>2. Current \subseteq entries /\ IsFiniteSet(Current)
      BY FS_Subset DEF Current, Inv, MapOK
    <3>3. room \subseteq entries /\ Cardinality(room) < MaxEntries
      BY <3>1, <3>2, RoomIsMade
    <3> QED
      BY <1>0, <1>2, <2>1, <3>1, <3>3, PutKeeps
  <2>2. CASE ~isMap
    <3>1. entries' = entries /\ entries = {}
      BY <2>2 DEF LookupStores, Inv, MapOK, CacheBounded
    <3> QED
      BY <1>2, <1>3, <3>1, MapKeeps DEF Inv, sessionHistory
  <2> QED
    BY <2>1, <2>2
<1>6. \/ request' = [request EXCEPT ![r] = NoRequest]
      \/ request' = [request EXCEPT ![r] = [q EXCEPT !.stage = "panicked"]]
      \/ /\ q.answer = "row"
         /\ request' = [request EXCEPT ![r] = [q EXCEPT !.stage = "resolved"]]
  BY DEF LookupStores, Goes, Rests, Becomes
<1>7. request' \in [Requests -> Request] /\ \A s \in Requests \ {r} : request'[s] = request[s]
  BY <1>0, <1>6, RequestRecords, StageNames, OneMoves DEF Inv, RequestsOK
<1>8. RequestOK(r)'
  <2>1. CASE request' = [request EXCEPT ![r] = NoRequest]
    BY <1>2, <2>1, RestedOK, RequestRecords DEF Inv, RequestsOK, TablesOK
  <2>2. CASE request' = [request EXCEPT ![r] = [q EXCEPT !.stage = "panicked"]]
    <3>1. request'[r] = [q EXCEPT !.stage = "panicked"]
      BY <2>2 DEF Inv, RequestsOK
    <3> QED
      BY <1>0, <1>1, <1>2, <3>1 DEF RequestOK, Bare, tableVars, sessionHistory, Request
  <2>3. CASE /\ q.answer = "row"
             /\ request' = [request EXCEPT ![r] = [q EXCEPT !.stage = "resolved"]]
    <3>1. request'[r] = [q EXCEPT !.stage = "resolved"]
      BY <2>3 DEF Inv, RequestsOK
    <3>2. goneAt[q.token] # Never => q.readAt < goneAt[q.token] + PositiveTTL
      <4>1. goneAt[q.token] # Never => q.readAt <= goneAt[q.token]
        BY <1>0, <2>3 DEF RequestOK
      <4>2. goneAt[q.token] \in Nat \cup {Never}
        BY <1>1 DEF Inv, TablesOK
      <4> QED
        BY <1>1, <4>1, <4>2, SessionTimes
    <3> QED
      BY <1>0, <1>1, <1>2, <3>1, <3>2 DEF RequestOK, Bare, tableVars, sessionHistory, Request
  <2> QED
    BY <1>6, <2>1, <2>2, <2>3
<1>9. RequestsOK'
  BY <1>3, <1>7, <1>8, OthersKeep DEF Inv
<1> QED
  BY <1>4, <1>5, <1>9 DEF Inv

\* A login creates a row under a fresh token.
LEMMA CreateSessionKeeps ==
    ASSUME Inv, NEW t \in SessionTokens, CreateSession(t) PROVE Inv'
<1>1. Later
  BY SameIsLater DEF Inv, TablesOK, CreateSession, sessionHistory
<1>2. goneAt' = goneAt /\ settled' = settled /\ t \notin settled /\ goneAt[t] = Never
  BY DEF Inv, TablesOK, CreateSession, sessionHistory
<1>3. TablesOK'
  <2>1. expires' \in [SessionTokens -> Nat]
    BY SessionTimes DEF Inv, TablesOK, CreateSession
  <2> QED
    BY <1>2, <2>1 DEF Inv, TablesOK, CreateSession, cacheVars
<1>4. MapOK' /\ EntryTimes'
  BY <1>2 DEF Inv, MapOK, CacheBounded, EntryTimes, CreateSession, cacheVars
<1>5. RequestsOK'
  <2>1. request' = request /\ sessionClock' = sessionClock /\ seen \subseteq seen'
    BY DEF CreateSession
  <2> QED
    BY <1>2, <2>1 DEF Inv, RequestsOK, RequestOK
<1> QED
  BY <1>3, <1>4, <1>5 DEF Inv

\* The statement of a revocation: the rows go now, so that what any lookup holds
\* was read before.
LEMMA DeleteRowsKeeps ==
    ASSUME Inv, NEW r \in Requests, NEW gone \in SUBSET SessionTokens, NEW next \in Request,
           \/ next = ForgettingAll
           \/ next.stage = "forget" /\ next.token \in seen /\ next.readAt = 0,
           DeleteRows(r, gone, next)
    PROVE  Inv'
<1>1. /\ UNCHANGED <<sessionClock, expires, seen, userRevision, cacheVars, settled>>
      /\ queryErrors' \in Nat
  BY DEF DeleteRows, StatementFails, Inv, TablesOK
<1>2. CASE /\ rows' = rows \ gone
           /\ goneAt' = [t \in SessionTokens |-> IF t \in gone \cap rows THEN sessionClock
                                          ELSE goneAt[t]]
           /\ request' = [request EXCEPT ![r] = next]
  <2>1. /\ goneAt' \in [SessionTokens -> Nat \cup {Never}]
        /\ \A t \in SessionTokens : goneAt'[t] = IF t \in gone \cap rows THEN sessionClock
                                          ELSE goneAt[t]
    BY <1>2 DEF Inv, TablesOK
  <2>2. \A t \in SessionTokens : \/ goneAt'[t] = goneAt[t]
                                 \/ goneAt[t] = Never /\ goneAt'[t] = sessionClock
    BY <2>1 DEF Inv, TablesOK
  <2>3. sessionClock' = sessionClock /\ sessionClock \in Nat /\ settled' = settled /\ seen' = seen
    BY <1>1 DEF Inv, TablesOK
  <2>4. Later
    <3>1. sessionClock <= sessionClock' /\ sessionClock' \in Nat
      BY <2>3
    <3>2. /\ seen \subseteq seen' /\ seen' \subseteq SessionTokens
          /\ settled' \cap HeldRows \subseteq settled
      BY <2>3 DEF Inv, TablesOK
    <3> QED
      BY <2>1, <2>2, <3>1, <3>2, Zenon DEF Later
  <2>5. TablesOK'
    <3>1. \A t \in SessionTokens : goneAt'[t] <= sessionClock'
      BY <2>1, <2>2, <2>3 DEF Inv, TablesOK
    <3>2. rows' \subseteq rows /\ \A t \in rows' : goneAt'[t] = Never
      BY <1>2, <2>1 DEF Inv, TablesOK
    <3>3. \A t \in SessionTokens \ seen' : goneAt'[t] = Never
      BY <2>1, <2>3 DEF Inv, TablesOK
    <3>4. rows' \subseteq seen' /\ seen' \subseteq SessionTokens /\ settled' \subseteq seen' \ rows'
      BY <2>3, <3>2 DEF Inv, TablesOK
    <3>5. /\ sessionClock' \in Nat /\ expires' \in [SessionTokens -> Nat] /\ userRevision' \in Nat
          /\ cacheRevision' \in 0..userRevision' /\ allocated' \in BOOLEAN
      BY <1>1 DEF Inv, TablesOK, cacheVars
    <3> QED
      BY <1>1, <2>1, <3>1, <3>2, <3>3, <3>4, <3>5, Zenon DEF TablesOK
  <2>6. MapOK' /\ EntryTimes'
    BY <1>1, <2>3, <2>4, MapKeeps DEF Inv, MapOK, CacheBounded, cacheVars
  <2>7. /\ request' \in [Requests -> Request] /\ request'[r] = next
        /\ \A s \in Requests \ {r} : request'[s] = request[s]
    BY <1>2, OneMoves DEF Inv, RequestsOK
  <2>8. RequestOK(r)'
    BY <2>3, <2>7 DEF RequestOK, Bare, ForgettingAll, NoRequest
  <2>9. RequestsOK'
    BY <2>4, <2>7, <2>8, OthersKeep DEF Inv
  <2> QED
    BY <2>5, <2>6, <2>9 DEF Inv
<1>3. CASE UNCHANGED <<rows, goneAt>> /\ request' = [request EXCEPT ![r] = NoRequest]
  <2>1. request' \in [Requests -> Request] /\ \A s \in Requests \ {r} : request'[s] = request[s]
    BY <1>3, RequestRecords, OneMoves DEF Inv, RequestsOK
  <2>2. RequestOK(r)'
    BY <1>1, <1>3, RestedOK, RequestRecords DEF Inv, RequestsOK, TablesOK
  <2> QED
    BY <1>1, <1>3, <2>1, <2>2, ReadingKeeps DEF tableVars, sessionHistory
<1> QED
  BY <1>2, <1>3 DEF DeleteRows, Becomes, Rests

\* Every revocation: its statement, and the forget that follows it.
LEMMA RevocationKeeps ==
    ASSUME Inv, NEW r \in Requests,
           \/ \E t \in SessionTokens : DeleteSession(r, t) \/ DeleteOtherSessions(r, t)
           \/ DeleteExpired(r) \/ DeleteAllSessions(r) \/ RemoveExpiredSessions(r)
    PROVE  Inv'
<1>1. ForgettingAll \in Request
  BY RequestRecords
<1>2. ASSUME NEW t \in seen
      PROVE  /\ {t} \in SUBSET SessionTokens /\ Forgetting(t) \in Request
             /\ Forgetting(t).stage = "forget" /\ Forgetting(t).token \in seen
             /\ Forgetting(t).readAt = 0
  BY RequestRecords DEF Forgetting, NoRequest, Inv, TablesOK
<1>3. ASSUME NEW t \in SessionTokens, DeleteSession(r, t) PROVE Inv'
  BY <1>2, <1>3, DeleteRowsKeeps DEF DeleteSession
<1>4. CASE DeleteExpired(r)
  <2>1. request[r].token \in seen
    BY <1>4 DEF DeleteExpired, At, Inv, RequestsOK, RequestOK, Bare
  <2> QED
    BY <1>2, <1>4, <2>1, DeleteRowsKeeps DEF DeleteExpired
<1>5. ASSUME NEW t \in SessionTokens, DeleteOtherSessions(r, t) PROVE Inv'
  <2>1. SessionTokens \ {t} \in SUBSET SessionTokens
    OBVIOUS
  <2> QED
    BY <1>1, <1>5, <2>1, DeleteRowsKeeps DEF DeleteOtherSessions
<1>6. CASE DeleteAllSessions(r)
  BY <1>1, <1>6, DeleteRowsKeeps DEF DeleteAllSessions
<1>7. CASE RemoveExpiredSessions(r)
  <2>1. {t \in SessionTokens : expires[t] < sessionClock} \in SUBSET SessionTokens
    OBVIOUS
  <2> QED
    BY <1>1, <1>7, <2>1, DeleteRowsKeeps DEF RemoveExpiredSessions
<1> QED
  BY <1>3, <1>4, <1>5, <1>6, <1>7

\* What settles is in no lookup's hands, and its entry goes.
LEMMA ForgetKeeps ==
    ASSUME Inv, NEW r \in Requests, ForgetSession(r) \/ ForgetAllSessions(r) PROVE Inv'
<1> PICK revoked \in SUBSET seen :
        /\ Settle(revoked)
        /\ entries' \subseteq entries
        /\ \A e \in entries' : e.token \notin revoked
        /\ allocated' \/ entries' = {}
        /\ allocated' \in BOOLEAN
  <2>1. CASE ForgetSession(r)
    <3>1. request[r].token \in seen
      BY <2>1 DEF ForgetSession, At, Inv, RequestsOK, RequestOK, Bare
    <3>2. allocated' = allocated /\ entries' = {e \in entries : e.token # request[r].token}
          /\ Settle({request[r].token})
      BY <2>1 DEF ForgetSession
    <3>3. allocated' \/ entries' = {}
      BY <3>2 DEF Inv, MapOK, CacheBounded
    <3>4. allocated' \in BOOLEAN
      BY <3>2, Zenon DEF Inv, TablesOK
    <3> QED
      BY <3>1, <3>2, <3>3, <3>4, Zenon
  <2>2. CASE ForgetAllSessions(r)
    <3>1. allocated' = FALSE /\ entries' = {} /\ Settle(seen)
      BY <2>2 DEF ForgetAllSessions
    <3> QED
      BY <3>1, Zenon
  <2> QED
    BY <2>1, <2>2
<1>1. /\ UNCHANGED <<sessionClock, tableVars, cacheRevision, goneAt, queryErrors>>
      /\ request' = [request EXCEPT ![r] = NoRequest]
  BY DEF ForgetSession, ForgetAllSessions, Rests, Becomes
<1>2. settled' = settled \cup (revoked \ (rows \cup HeldRows))
  BY DEF Settle
<1>3. Later
  <2>1. sessionClock' \in Nat /\ sessionClock <= sessionClock' /\ goneAt' = goneAt
        /\ goneAt \in [SessionTokens -> Nat \cup {Never}]
        /\ seen' = seen /\ seen \subseteq SessionTokens
    BY <1>1 DEF Inv, TablesOK, tableVars
  <2>2. settled' \cap HeldRows \subseteq settled
    BY <1>2
  <2> QED
    BY <2>1, <2>2, Zenon DEF Later
<1>4. TablesOK'
  <2>1. settled' \subseteq seen \ rows
    BY <1>2 DEF Inv, TablesOK
  <2> QED
    BY <1>1, <2>1 DEF Inv, TablesOK, tableVars
<1>5. MapOK'
  <2>1. IsFiniteSet(entries') /\ Cardinality(entries') <= Cardinality(entries)
    BY FS_Subset DEF Inv, MapOK
  <2>2. Cardinality(entries') <= MaxEntries
    BY <2>1, FS_CardinalityType, SessionLimits DEF Inv, MapOK, CacheBounded
  <2> QED
    BY <2>1, <2>2 DEF Inv, MapOK, CacheBounded
<1>6. EntryTimes'
  <2> SUFFICES ASSUME NEW e \in entries', e.valid
               PROVE  /\ e.token \notin settled'
                      /\ e.until <= (IF goneAt'[e.token] = Never THEN sessionClock'
                                     ELSE goneAt'[e.token]) + PositiveTTL
    BY DEF EntryTimes
  <2>1. e \in entries /\ e.token \notin settled' \ settled
    BY <1>2
  <2> QED
    BY <1>3, <2>1, EntriesKeep DEF Inv
<1>7. request' \in [Requests -> Request] /\ \A s \in Requests \ {r} : request'[s] = request[s]
  BY <1>1, RequestRecords, OneMoves DEF Inv, RequestsOK
<1>8. RequestOK(r)'
  BY <1>1, RestedOK, RequestRecords DEF Inv, RequestsOK, TablesOK
<1>9. RequestsOK'
  BY <1>3, <1>7, <1>8, OthersKeep DEF Inv
<1> QED
  BY <1>4, <1>5, <1>6, <1>9 DEF Inv

\* A write of the users table drops the map at the next check.
LEMMA UpdateUserKeeps ==
    ASSUME Inv, NEW r \in Requests, NEW password \in BOOLEAN, UpdateUser(r, password)
    PROVE  Inv'
<1> DEFINE q == request[r]
<1>0. q \in Request /\ RequestOK(r) /\ q.stage = "idle"
  BY DEF Inv, RequestsOK, UpdateUser, At
<1>1. /\ UNCHANGED <<sessionClock, rows, expires, seen, cacheVars, sessionHistory, queryErrors>>
      /\ userRevision' = userRevision + 1
  BY DEF UpdateUser
<1>2. Later
  BY <1>1, SameIsLater DEF Inv, TablesOK, sessionHistory
<1>3. TablesOK'
  BY <1>1 DEF Inv, TablesOK, cacheVars, sessionHistory
<1>4. MapOK' /\ EntryTimes'
  BY <1>1 DEF Inv, MapOK, CacheBounded, EntryTimes, cacheVars, sessionHistory
<1>5. \/ request' = [request EXCEPT ![r] = [q EXCEPT !.stage = "revokeAll"]]
      \/ request' = [request EXCEPT ![r] = NoRequest]
  BY DEF UpdateUser, Goes, Rests, Becomes
<1>6. request' \in [Requests -> Request] /\ \A s \in Requests \ {r} : request'[s] = request[s]
  BY <1>0, <1>5, RequestRecords, StageNames, OneMoves DEF Inv, RequestsOK
<1>7. RequestOK(r)'
  <2>1. CASE request' = [request EXCEPT ![r] = [q EXCEPT !.stage = "revokeAll"]]
    <3>1. request'[r] = [q EXCEPT !.stage = "revokeAll"]
      BY <2>1 DEF Inv, RequestsOK
    <3> QED
      BY <1>0, <1>1, <3>1 DEF RequestOK, Bare, Request
  <2>2. CASE request' = [request EXCEPT ![r] = NoRequest]
    BY <1>1, <2>2, RestedOK, RequestRecords DEF Inv, RequestsOK, TablesOK
  <2> QED
    BY <1>5, <2>1, <2>2
<1>8. RequestsOK'
  BY <1>2, <1>6, <1>7, OthersKeep DEF Inv
<1> QED
  BY <1>3, <1>4, <1>8 DEF Inv

\* Time passes.
LEMMA TickKeeps == ASSUME Inv, SessionTick PROVE Inv'
<1>1. /\ UNCHANGED <<tableVars, cacheVars, request, sessionHistory, queryErrors>>
      /\ sessionClock' = sessionClock + 1 /\ sessionClock \in Nat
  BY DEF SessionTick, Inv, TablesOK
<1>2. TablesOK'
  <2>1. \A t \in SessionTokens : goneAt'[t] <= sessionClock'
    BY <1>1 DEF Inv, TablesOK, sessionHistory, Never
  <2> QED
    BY <1>1, <2>1 DEF Inv, TablesOK, tableVars, cacheVars, sessionHistory
<1>3. Later
  BY <1>1 DEF Later, Inv, TablesOK, tableVars, sessionHistory
<1>4. MapOK' /\ EntryTimes'
  BY <1>1, <1>3, MapKeeps DEF Inv, MapOK, CacheBounded, cacheVars, sessionHistory
<1>5. RequestsOK'
  <2> SUFFICES ASSUME NEW r \in Requests PROVE RequestOK(r)'
    BY <1>1 DEF Inv, RequestsOK
  <2>1. RequestOK(r) /\ request[r] \in Request
    BY DEF Inv, RequestsOK
  <2>2. request[r].readAt <= sessionClock'
    BY <1>1, <2>1 DEF RequestOK, Request
  <2> QED
    BY <1>1, <2>1, <2>2 DEF RequestOK, tableVars, sessionHistory
<1> QED
  BY <1>2, <1>4, <1>5 DEF Inv

-----------------------------------------------------------------------------
(* The theorems. *)

\* The invariant is inductive.
LEMMA NextKeeps == Inv /\ [SessionNext]_sessionVars => Inv'
<1> SUFFICES ASSUME Inv, [SessionNext]_sessionVars PROVE Inv'
  OBVIOUS
<1>1. CASE SessionTick
  BY <1>1, TickKeeps
<1>2. ASSUME NEW t \in SessionTokens, CreateSession(t) PROVE Inv'
  BY <1>2, CreateSessionKeeps
<1>3. ASSUME NEW r \in Requests, NEW t \in SessionTokens,
             LookupStarts(r, t) \/ DeleteSession(r, t) \/ DeleteOtherSessions(r, t)
      PROVE  Inv'
  BY <1>3, LookupStartsKeeps, RevocationKeeps
<1>4. ASSUME NEW r \in Requests,
             LookupChecks(r) \/ LookupQueries(r) \/ LookupStores(r) \/ LookupReturns(r)
             \/ PanicRecovered(r)
      PROVE  Inv'
  BY <1>4, LookupChecksKeeps, LookupQueriesKeeps, LookupStoresKeeps, LookupReturnsKeeps
<1>5. ASSUME NEW r \in Requests,
             DeleteExpired(r) \/ DeleteAllSessions(r) \/ RemoveExpiredSessions(r)
             \/ ForgetSession(r) \/ ForgetAllSessions(r)
      PROVE  Inv'
  BY <1>5, RevocationKeeps, ForgetKeeps
<1>6. ASSUME NEW r \in Requests, NEW password \in BOOLEAN, UpdateUser(r, password) PROVE Inv'
  BY <1>6, UpdateUserKeeps
<1>7. CASE UNCHANGED sessionVars
  <2>1. UNCHANGED <<sessionClock, tableVars, cacheVars, request, sessionHistory, queryErrors>>
    BY <1>7 DEF sessionVars
  <2> QED
    BY <2>1 DEF Inv, TablesOK, MapOK, CacheBounded, EntryTimes, RequestsOK, RequestOK,
                tableVars, cacheVars, sessionHistory
<1> QED
  BY <1>1, <1>2, <1>3, <1>4, <1>5, <1>6, <1>7 DEF SessionNext

\* The inductive invariant holds in every reachable state.
THEOREM Invariant == SessionSpec => []Inv
  BY InitInv, NextKeeps, PTL DEF SessionSpec

\* The map never outgrows its limit, and a nil map is empty, for any number of
\* requests between their critical sections (pruneSessionCacheLocked).
THEOREM SessionCacheBounded == SessionSpec => []CacheBounded
<1>1. Inv => CacheBounded
  BY DEF Inv, MapOK
<1> QED
  BY <1>1, Invariant, PTL

\* The state keeps its shape, whatever lookups and revocations overlap.
THEOREM SessionTypes == SessionSpec => []SessionTypeOK
<1>1. Inv => SessionTypeOK
  <2> SUFFICES ASSUME Inv PROVE SessionTypeOK
    OBVIOUS
  <2>1. \A r \in Requests : At(r, {"idle", "revokeAll", "forgetAll"})
                            => request[r].token = NoToken
    BY DEF Inv, RequestsOK, RequestOK, At, Bare
  <2> QED
    BY <2>1 DEF Inv, TablesOK, MapOK, RequestsOK, SessionTypeOK
<1> QED
  BY <1>1, Invariant, PTL

\* A request that came PositiveTTL or more after a session's row was deleted is
\* not given its user, however many lookups were between their query and their
\* second critical section then.
THEOREM RevokedIsRefused == SessionSpec => []RevokedSoonRefused
<1>1. Inv => RevokedSoonRefused
  BY DEF Inv, RequestsOK, RequestOK, RevokedSoonRefused
<1> QED
  BY <1>1, Invariant, PTL

\* A revocation that no lookup straddles is final: no entry of the session comes
\* back, whichever maps are dropped and made anew.
THEOREM RevocationStays == SessionSpec => []RevocationIsFinal
<1>1. Inv => RevocationIsFinal
  BY DEF Inv, EntryTimes, RevocationIsFinal
<1> QED
  BY <1>1, Invariant, PTL
=============================================================================
