------------------------------ MODULE RequestGate ------------------------------
(***************************************************************************)
(* What a request to an admin route passes before its handler: the sliding *)
(* window of core/rate_limit.py, kept in the process or in Redis, and the  *)
(* credential checks of auth/admin.py.  Several processes serve one        *)
(* address; time moves on between requests.                                *)
(***************************************************************************)
EXTENDS Integers, Sequences, FiniteSets

CONSTANTS
    Procs,
    Limit, Window,  \* requests per window, length of the window
    MaxTime,        \* bound on the clock
    Bearers,        \* the tokens requests carry
    None

\* ROLE_RANK
Rank == [viewer |-> 0, reviewer |-> 1, source_admin |-> 2, admin |-> 3, owner |-> 4]
Roles == DOMAIN Rank
Tokens == [role : Roles, type : {"access", "refresh"}] \cup {None}

RequestGateAssumption ==
    /\ IsFiniteSet(Procs)
    /\ Limit \in Nat /\ Window \in Nat \ {0} /\ MaxTime \in Nat
    /\ Bearers \subseteq Tokens

VARIABLES
    settings,  \* the deployment: where the window lives and what the checks read
    now,
    window,    \* Procs -> the times of the requests counted; in Redis the processes share one
    redisUp,
    lapsed,    \* history: Redis failed and a request was let through uncounted
    entered    \* history: the request whose handler has just been entered

vars == <<settings, now, window, redisUp, lapsed, entered>>

Times  == 0..MaxTime
Kinds  == {"general", "import", "review"}
Settings == [redis : BOOLEAN, production : BOOLEAN, jwt : BOOLEAN, legacy : BOOLEAN,
             enforce : BOOLEAN, limited : BOOLEAN, open : SUBSET {"import", "review"}]

\* Mutant: a production start that does not look at the legacy token.
StartableLegacy(x) == x.production => x.jwt

\* _validate_production_safety: production starts only with JWT and without shared
\* tokens.  The window may stay in the process by an explicit override.
Startable(x) == x.production => x.jwt /\ ~x.legacy

Init ==
    /\ settings \in Settings
    /\ Startable(settings)
    /\ now = 0
    /\ window = [p \in Procs |-> <<>>]
    /\ redisUp = TRUE
    /\ lapsed = FALSE
    /\ entered = None

\* The processes that count in the same window as p.
Sharing(p) == IF settings.redis THEN Procs ELSE {p}

\* The requests the processes P counted, and when.  One that has left the window stays
\* here: nothing counts it again.
Hits(P) == UNION {{p} \X DOMAIN window[p] : p \in P}
At(r)   == window[r[1]][r[2]]

\* Mutant: the window is one tick short.
RecentShort(P) == {r \in Hits(P) : now - At(r) < Window - 1}

\* Those in the window that ends now.
Recent(P) == {r \in Hits(P) : now - At(r) < Window}

\* SimpleRateLimiter.check, or the Lua script, which Redis runs atomically.
Counted(p) ==
    /\ settings.limited
    /\ settings.redis => redisUp
    /\ Cardinality(Recent(Sharing(p))) < Limit
    /\ window' = [window EXCEPT ![p] = Append(@, now)]
    /\ UNCHANGED lapsed

\* Redis cannot be reached: 503 in production, elsewhere the request goes on.
Uncounted(p) ==
    /\ settings.limited /\ settings.redis /\ ~redisUp /\ ~settings.production
    /\ lapsed' = TRUE
    /\ UNCHANGED window

\* rate_limit_enabled is off; production starts like that too.
Unlimited == ~settings.limited /\ UNCHANGED <<window, lapsed>>

\* require_admin_token, require_admin_imports, require_admin_review: a bearer token when
\* JWT is on, decoded without a look at the account; otherwise the shared token, which is
\* owner, or admin for an import.
Actors(bearer, kind) ==
    IF kind # "general" /\ kind \notin settings.open THEN {}
    ELSE IF settings.jwt /\ bearer # None
    THEN IF bearer.type = "access" THEN {[role |-> bearer.role, method |-> "jwt"]} ELSE {}
    ELSE IF settings.legacy
    THEN {[role |-> IF kind = "import" THEN "admin" ELSE "owner", method |-> "shared_token"]}
    ELSE {}

\* enforce_min_role, enforce_jwt_mutation_authority.
Authorised(a, required, mutation) ==
    /\ Rank[a.role] >= Rank[required]
    /\ mutation /\ settings.enforce => a.method = "jwt"

\* The limiter counts a request before its credentials are looked at, so one that is
\* refused for those has used up its place.
Request(p, bearer, kind, required, mutation) ==
    LET actors == {a \in Actors(bearer, kind) : Authorised(a, required, mutation)} IN
    /\ Counted(p) \/ Uncounted(p) \/ Unlimited
    /\ entered' = IF actors = {} THEN None
                  ELSE [actor |-> CHOOSE a \in actors : TRUE, bearer |-> bearer,
                        kind |-> kind, required |-> required, mutation |-> mutation]
    /\ UNCHANGED <<settings, now, redisUp>>

\* reset, or the process starts again: its own window is gone, the one in Redis is not.
Restart(p) ==
    /\ ~settings.redis
    /\ window' = [window EXCEPT ![p] = <<>>]
    /\ entered' = None
    /\ UNCHANGED <<settings, now, redisUp, lapsed>>

Redis ==
    /\ settings.redis
    /\ redisUp' = ~redisUp
    /\ entered' = None
    /\ UNCHANGED <<settings, now, window, lapsed>>

Tick ==
    /\ now < MaxTime
    /\ now' = now + 1
    /\ entered' = None
    /\ UNCHANGED <<settings, window, redisUp, lapsed>>

Next ==
    \/ \E p \in Procs, b \in Bearers, k \in Kinds, r \in {"viewer", "source_admin"}, m \in BOOLEAN :
        Request(p, b, k, r, m)
    \/ \E p \in Procs : Restart(p)
    \/ Redis \/ Tick

Spec == Init /\ [][Next]_vars

--------------------------------------------------------------------------------
TypeOK ==
    /\ settings \in Settings
    /\ now \in Times
    /\ window \in [Procs -> Seq(0..now)]
    /\ redisUp \in BOOLEAN /\ lapsed \in BOOLEAN

\* No window of any position holds more counted requests than the limit: in each process
\* where the window is its own, over all of them where Redis keeps it
\* (core/rate_limit.py:32-54, 71-135).
WindowBounded ==
    \A p \in Procs, t \in 0..now :
        Cardinality({r \in Hits(Sharing(p)) : At(r) <= t /\ t < At(r) + Window}) <= Limit

\* Where the limit is on, only a deployment that is not production ever lets an uncounted
\* request pass (core/rate_limit.py:123-135).
LapseIsLocal == lapsed => settings.limited /\ settings.redis /\ ~settings.production

\* A handler is entered only by an actor of the rank its route asks for, an access token
\* or an allowed shared one, and by a shared one for a mutation only where the deployment
\* does not insist on JWT; in production by no shared one at all
\* (auth/admin.py:30-39, 152-224, 263-281; main.py:107-136).
EnteredByRight ==
    entered # None =>
        /\ Rank[entered.actor.role] >= Rank[entered.required]
        /\ entered.actor.method = "jwt" => settings.jwt /\ entered.bearer.type = "access"
        /\ entered.actor.method = "shared_token" =>
            /\ ~settings.production
            /\ ~(entered.mutation /\ settings.enforce)
        /\ entered.kind \in settings.open \cup {"general"}

GateSafe == TypeOK /\ WindowBounded /\ LapseIsLocal /\ EnteredByRight
================================================================================
