---------------------------- MODULE SessionCache ----------------------------
(***************************************************************************)
(* The session cache in front of the sessions table                         *)
(* (database/accounts/session_cache.go, sessions.go, accounts.go and        *)
(* internal/dbcache/revision.go).                                           *)
(*                                                                          *)
(* A lookup reads the clock, looks into the map under the lock, queries the *)
(* database without it and takes it again to store the answer until         *)
(* PositiveTTL or NegativeTTL after the clock it read.  A revocation        *)
(* deletes rows and then removes the entries: one of them, or the whole     *)
(* map, which the next lookup makes again.  A write of the users table      *)
(* raises its revision, at which either critical section starts a new map.  *)
(*                                                                          *)
(* A token is a random string: a new session gets one no request carried    *)
(* before.  Names begin with Session so that other components can be        *)
(* extended beside them.                                                    *)
(***************************************************************************)
EXTENDS Integers, FiniteSets

CONSTANTS
    SessionTokens,  \* session tokens
    Requests,       \* goroutines of requests and of the daily cleanup
    NoToken,        \* the token of a request that has none
    PositiveTTL,    \* 30 seconds in the code
    NegativeTTL,    \* sessionNegativeCacheTTL: 10 seconds
    MaxEntries,     \* sessionCacheMaxEntries: 4096
    SessionLife,    \* the expires argument of CreateSession
    SessionHorizon, \* bound: the clock stops there
    MaxUserWrites,  \* bound: writes of the users table
    MaxQueryErrors  \* bound: database statements that fail

ASSUME NoTokenIsNone == NoToken \notin SessionTokens
ASSUME SessionTimes == /\ PositiveTTL \in Nat \ {0} /\ NegativeTTL \in Nat
                       /\ SessionLife \in Nat /\ SessionHorizon \in Nat
ASSUME SessionLimits == /\ MaxEntries \in Nat \ {0}
                        /\ MaxUserWrites \in Nat /\ MaxQueryErrors \in Nat

VARIABLES
    sessionClock,   \* time.Now
    rows,           \* database: tokens that have a row in sessions
    expires,        \* database: the expiry of a token's row
    seen,           \* tokens that a request carried or a session was given
    userRevision,   \* dbcache.Revision("users")
    cacheRevision,  \* sessionCache.userRevision
    allocated,      \* sessionCache.entries # nil
    entries,        \* sessionCache.entries
    request,        \* per goroutine: its stage, its token, loadSession's now
                    \* and what the query returned
    goneAt,         \* history: when a token's row was deleted
    settled,        \* history: revocations no lookup was under way across
    queryErrors     \* database statements that failed so far

tableVars == <<rows, expires, seen, userRevision>>
cacheVars == <<cacheRevision, allocated, entries>>
sessionHistory == <<goneAt, settled>>
sessionVars == <<sessionClock, tableVars, cacheVars, request, sessionHistory,
                 queryErrors>>

Never == -1
Stages == {"idle", "check", "query", "store", "resolved", "expired", "panicked",
           "forget", "revokeAll", "forgetAll"}
Answers == {"row", "none", "error"}
Request == [stage : Stages, token : SessionTokens \cup {NoToken}, readAt : Nat, answer : Answers]
NoRequest == [stage |-> "idle", token |-> NoToken, readAt |-> 0, answer |-> "none"]
Entries == [token : SessionTokens, until : Nat, valid : BOOLEAN]

SessionInit ==
    /\ sessionClock = 0 /\ rows = {} /\ expires = [t \in SessionTokens |-> 0] /\ seen = {}
    /\ userRevision = 0 /\ cacheRevision = 0 /\ allocated = FALSE /\ entries = {}
    /\ request = [r \in Requests |-> NoRequest]
    /\ goneAt = [t \in SessionTokens |-> Never] /\ settled = {}
    /\ queryErrors = 0

StatementFails == queryErrors < MaxQueryErrors /\ queryErrors' = queryErrors + 1

At(r, stages) == request[r].stage \in stages
Becomes(r, record) == request' = [request EXCEPT ![r] = record]
Goes(r, next) == Becomes(r, [request[r] EXCEPT !.stage = next])

\* A request that is over leaves nothing behind.
Rests(r) == Becomes(r, NoRequest)

-----------------------------------------------------------------------------
(* The map. *)

\* Both critical sections begin with this: a users revision other than the
\* map's starts a new map.  The first one also does so when there is none.
Current == IF cacheRevision = userRevision THEN entries ELSE {}

\* What pruneSessionCacheLocked can leave: everything while there is room, else
\* what has not expired, as far as it fits, the soonest to expire dropped first.
RoomMade(kept, at) ==
    LET live == {e \in kept : at < e.until}
        limit == MaxEntries - 1
    IN  IF Cardinality(kept) < MaxEntries THEN {kept}
        ELSE IF Cardinality(live) <= limit THEN {live}
        ELSE {few \in SUBSET live :
                /\ Cardinality(few) = limit
                /\ \A e \in few, dropped \in live \ few : dropped.until <= e.until}

\* The entry that a lookup stores; a mutant of it counts from the time of storing.
TTL(answer) == IF answer = "row" THEN PositiveTTL ELSE NegativeTTL
StoredNow(q) == [token |-> q.token, valid |-> q.answer = "row",
                 until |-> sessionClock + TTL(q.answer)]
Stored(q) == [token |-> q.token, valid |-> q.answer = "row",
              until |-> q.readAt + TTL(q.answer)]

\* A map assignment replaces the token's entry.
Put(room, q) == {e \in room : e.token # q.token} \cup {Stored(q)}

-----------------------------------------------------------------------------
(* A lookup: loadSession and GetSession. *)

\* A request carries a session_token cookie; the clock is read before the lock.
LookupStarts(r, t) ==
    /\ At(r, {"idle"})
    /\ Becomes(r, [NoRequest EXCEPT !.stage = "check", !.token = t, !.readAt = sessionClock])
    /\ seen' = seen \cup {t}
    /\ UNCHANGED <<sessionClock, rows, expires, userRevision, cacheVars,
                   sessionHistory, queryErrors>>

\* The first critical section: a live entry is the answer.
LookupChecks(r) ==
    LET hits == {e \in Current : e.token = request[r].token /\ request[r].readAt < e.until}
    IN  /\ At(r, {"check"})
        /\ allocated' = TRUE /\ cacheRevision' = userRevision /\ entries' = Current
        /\ IF hits = {} THEN Goes(r, "query")
           ELSE IF \E e \in hits : e.valid THEN Goes(r, "resolved") ELSE Rests(r)
        /\ UNCHANGED <<sessionClock, tableVars, sessionHistory, queryErrors>>

\* The query, without the lock.
LookupQueries(r) ==
    /\ At(r, {"query"})
    /\ \/ /\ Becomes(r, [request[r] EXCEPT !.stage = "store",
                           !.answer = IF request[r].token \in rows THEN "row" ELSE "none"])
          /\ UNCHANGED queryErrors
       \/ /\ Becomes(r, [request[r] EXCEPT !.stage = "store", !.answer = "error"])
          /\ StatementFails
    /\ UNCHANGED <<sessionClock, tableVars, cacheVars, sessionHistory>>

\* The second critical section.  It makes no map when the revision has not
\* changed: storing into the nil map a bulk revocation left panics.
LookupStores(r) ==
    LET q == request[r]
        isMap == allocated \/ cacheRevision # userRevision
    IN  /\ At(r, {"store"})
        /\ cacheRevision' = userRevision /\ allocated' = isMap
        /\ IF isMap
           THEN \E room \in RoomMade(Current, q.readAt) :
                  entries' = IF q.answer = "error" THEN room ELSE Put(room, q)
           ELSE UNCHANGED entries
        /\ IF q.answer = "error" THEN Rests(r)
           ELSE IF ~isMap THEN Goes(r, "panicked")
           ELSE IF q.answer = "row" THEN Goes(r, "resolved") ELSE Rests(r)
        /\ UNCHANGED <<sessionClock, tableVars, sessionHistory, queryErrors>>

\* GetSession: an expired session is deleted, another one is the caller's.
LookupReturns(r) ==
    /\ At(r, {"resolved"})
    /\ IF sessionClock > expires[request[r].token] THEN Goes(r, "expired") ELSE Rests(r)
    /\ UNCHANGED <<sessionClock, tableVars, cacheVars, sessionHistory, queryErrors>>

\* The server's recover handler answers the request that panicked.
PanicRecovered(r) ==
    /\ At(r, {"panicked"}) /\ Rests(r)
    /\ UNCHANGED <<sessionClock, tableVars, cacheVars, sessionHistory, queryErrors>>

-----------------------------------------------------------------------------
(* Sessions come and go: CreateSession and the revocations. *)

CreateSession(t) ==
    /\ t \notin seen
    /\ seen' = seen \cup {t} /\ rows' = rows \cup {t}
    /\ expires' = [expires EXCEPT ![t] = sessionClock + SessionLife]
    /\ UNCHANGED <<sessionClock, userRevision, cacheVars, request, sessionHistory,
                   queryErrors>>

\* The DELETE statement of a revocation: on an error it returns there, else its
\* entries go next.
DeleteRows(r, gone, next) ==
    /\ \/ /\ rows' = rows \ gone
          /\ goneAt' = [t \in SessionTokens |-> IF t \in gone \cap rows THEN sessionClock
                                                ELSE goneAt[t]]
          /\ Becomes(r, next)
          /\ UNCHANGED queryErrors
       \/ /\ StatementFails /\ Rests(r)
          /\ UNCHANGED <<rows, goneAt>>
    /\ UNCHANGED <<sessionClock, expires, seen, userRevision, cacheVars, settled>>

Forgetting(t) == [NoRequest EXCEPT !.stage = "forget", !.token = t]
ForgettingAll == [NoRequest EXCEPT !.stage = "forgetAll"]

\* DeleteSession: a logout or a session an operator ends.
DeleteSession(r, t) ==
    /\ At(r, {"idle"}) /\ t \in seen
    /\ DeleteRows(r, {t}, Forgetting(t))

\* DeleteSession of GetSession.
DeleteExpired(r) ==
    /\ At(r, {"expired"})
    /\ DeleteRows(r, {request[r].token}, Forgetting(request[r].token))

\* DeleteAllSessions, on its own or after a password was changed.
DeleteAllSessions(r) ==
    /\ At(r, {"idle", "revokeAll"})
    /\ DeleteRows(r, SessionTokens, ForgettingAll)

\* DeleteOtherSessions: a new second factor keeps the caller's session.
DeleteOtherSessions(r, keep) ==
    /\ At(r, {"idle"}) /\ keep \in rows
    /\ DeleteRows(r, SessionTokens \ {keep}, ForgettingAll)

\* RemoveExpiredSessions: the daily cleanup.
RemoveExpiredSessions(r) ==
    /\ At(r, {"idle"})
    /\ DeleteRows(r, {t \in SessionTokens : expires[t] < sessionClock}, ForgettingAll)

\* Tokens that some lookup still holds the row of.
HeldRows == {request[r].token : r \in {q \in Requests : request[q].stage = "store"
                                                        /\ request[q].answer = "row"}}

\* Revocations of these tokens return now; those no lookup straddles are settled.
Settle(revoked) == settled' = settled \cup (revoked \ (rows \cup HeldRows))

\* A revocation that forgets nothing (a mutant of ForgetSession).
ForgetNothing(r) ==
    /\ At(r, {"forget"}) /\ Rests(r)
    /\ Settle({request[r].token})
    /\ UNCHANGED <<sessionClock, tableVars, cacheVars, goneAt, queryErrors>>

ForgetSession(r) ==
    /\ At(r, {"forget"}) /\ Rests(r)
    /\ entries' = {e \in entries : e.token # request[r].token}
    /\ Settle({request[r].token})
    /\ UNCHANGED <<sessionClock, tableVars, cacheRevision, allocated, goneAt, queryErrors>>

ForgetAllSessions(r) ==
    /\ At(r, {"forgetAll"}) /\ Rests(r)
    /\ allocated' = FALSE /\ entries' = {}
    /\ Settle(seen)
    /\ UNCHANGED <<sessionClock, tableVars, cacheRevision, goneAt, queryErrors>>

\* UpdateUser, ForceResetPassword and the other writes of users: the revision
\* rises after the commit; a new password then revokes every session.
UpdateUser(r, password) ==
    /\ At(r, {"idle"}) /\ userRevision < MaxUserWrites
    /\ userRevision' = userRevision + 1
    /\ IF password THEN Goes(r, "revokeAll") ELSE Rests(r)
    /\ UNCHANGED <<sessionClock, rows, expires, seen, cacheVars, sessionHistory,
                   queryErrors>>

SessionTick ==
    /\ sessionClock < SessionHorizon /\ sessionClock' = sessionClock + 1
    /\ UNCHANGED <<tableVars, cacheVars, request, sessionHistory, queryErrors>>

SessionNext ==
    \/ SessionTick
    \/ \E t \in SessionTokens : CreateSession(t)
    \/ \E r \in Requests :
         \/ \E t \in SessionTokens : LookupStarts(r, t) \/ DeleteSession(r, t)
                                     \/ DeleteOtherSessions(r, t)
         \/ LookupChecks(r) \/ LookupQueries(r) \/ LookupStores(r) \/ LookupReturns(r)
         \/ PanicRecovered(r)
         \/ DeleteExpired(r) \/ DeleteAllSessions(r) \/ RemoveExpiredSessions(r)
         \/ ForgetSession(r) \/ ForgetAllSessions(r)
         \/ \E password \in BOOLEAN : UpdateUser(r, password)

SessionSpec == SessionInit /\ [][SessionNext]_sessionVars

-----------------------------------------------------------------------------
(* Properties. *)

\* The state keeps its shape: the map holds one entry for a token, and a request
\* that is over holds none.
SessionTypeOK ==
    /\ sessionClock \in Nat /\ rows \subseteq seen /\ seen \subseteq SessionTokens
    /\ expires \in [SessionTokens -> Nat]
    /\ userRevision \in Nat /\ cacheRevision \in 0..userRevision /\ allocated \in BOOLEAN
    /\ entries \subseteq Entries
    /\ \A e, f \in entries : e.token = f.token => e = f
    /\ request \in [Requests -> Request]
    /\ \A r \in Requests : At(r, {"idle", "revokeAll", "forgetAll"})
                           => request[r].token = NoToken
    /\ goneAt \in [SessionTokens -> Nat \cup {Never}] /\ settled \subseteq SessionTokens
    /\ queryErrors \in Nat

\* Whatever requests carry and however lookups overlap, the map holds no more
\* entries than pruneSessionCacheLocked allows, and none when it is nil.
CacheBounded ==
    /\ Cardinality(entries) <= MaxEntries
    /\ ~allocated => entries = {}

\* Once a revocation has returned, no entry of the map that a lookup would answer
\* from holds a session that has no row: what forgetSession's comment promises.  A
\* lookup that has read the row before the revocation stores it afterwards, and the
\* code breaks this: SessionCache_revoked.cfg.
RevokedAtOnce ==
    \A e \in Current :
        e.valid /\ sessionClock < e.until /\ e.token \notin rows
            => \E r \in Requests : \/ At(r, {"forgetAll"})
                                   \/ At(r, {"forget"}) /\ request[r].token = e.token

\* What is left of that promise: a revoked session outlives its row by the life of
\* a cache entry at most, even when the lookup that stores it straddles the
\* revocation, for loadSession counts the 30 seconds from before its query.  A
\* request that came PositiveTTL or more after the row was deleted is not given
\* its user.
RevokedSoonRefused ==
    \A r \in Requests :
        LET q == request[r] IN
        q.stage = "resolved" /\ goneAt[q.token] # Never
            => q.readAt < goneAt[q.token] + PositiveTTL

\* A revocation that no lookup straddles is final: once DeleteSession or a bulk
\* revocation has returned, no lookup stores the session again, whichever maps
\* are dropped and made anew in between.
RevocationIsFinal ==
    \A e \in entries : e.valid => e.token \notin settled
=============================================================================
