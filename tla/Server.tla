------------------------------- MODULE Server -------------------------------
(***************************************************************************)
(* What happens to a request before and after a plugin sees it: the Axum   *)
(* router, BetterAuth::handle_request, and the middleware it runs, in a    *)
(* server that boots, serves and crashes.                                  *)
(*                                                                         *)
(* The checks of a request that look at nothing but the request are one    *)
(* step.  What the requests share are the rate limiter's timestamps, in    *)
(* memory, and the users and sessions, in the database; a request stops    *)
(* between two uses of them, and between its reading of the clock and its  *)
(* turn at the rate limiter's lock.  The handlers of the plugins are in    *)
(* modules of their own; here a plugin answers.  An origin, a path and a   *)
(* redirect target are members of small sets.                              *)
(***************************************************************************)
EXTENDS Migrations

CONSTANTS
    Requests,       \* the requests the server handles
    Offers,         \* Offers[r]: what request r may be
    Names,          \* usernames
    Owners,         \* Owners[k]: the user of API key k; no other key is valid
    SessionOf,      \* SessionOf[s]: the user of session s
    Disabled,       \* disabled_paths
    Trusted,        \* trusted_origins, and the origin of base_url
    Allowed,        \* CorsConfig.allowed_origins
    MaxPerWindow,   \* RateLimitConfig.default.max_requests
    Overrides,      \* Overrides[x]: per_endpoint, by path
    Window,         \* the rate limiter's window
    ExpiresIn,      \* session.expires_in
    Served,         \* bound on the servers that get requests: which backend, installed or not
    MaxTime         \* bound on the clock

None == "none"
Users == Range(Owners) \cup Range(SessionOf)
Sessions == DOMAIN SessionOf

\* What the router mounts at a path: the method, and who answers.  The path
\* is the one behind the base path; what is not in Routes, nobody answers.
Routes == [ok          |-> [method |-> "GET", by |-> "core"],
           update_user |-> [method |-> "POST", by |-> "update_user"],
           sign_in     |-> [method |-> "POST", by |-> "plugin"],
           get_session |-> [method |-> "GET", by |-> "plugin"],
           off         |-> [method |-> "POST", by |-> "plugin"]]
Mounted(q) == q.path \in DOMAIN Routes /\ q.method = Routes[q.path].method

\* via: through the Axum router, by a call of handle_request, or to a route of the
\* application that asks for the current session.  based: the path is spelled with
\* the base path, which the router has taken off.  name and more are fields of the body
\* of update-user: the username, and any of name, image, display name, role and metadata.
RequestSet ==
    [via : {"axum", "call", "app"}, method : {"GET", "POST", "OPTIONS"},
     path : DOMAIN Routes \cup {"missing"}, based : BOOLEAN,
     origin : Trusted \cup Allowed \cup {None, "null", "foreign"},
     referer : Trusted \cup {None, "foreign"},
     cookie : Sessions \cup {None}, key : DOMAIN Owners \cup {None, "bad"},
     fetch : {"none", "same_site", "cross_site"}, target : BOOLEAN, large : BOOLEAN,
     name : Names \cup {None}, more : BOOLEAN]

ASSUME ServerAssumption ==
    /\ \A r \in Requests : Offers[r] \subseteq RequestSet
    /\ None \notin Users \cup DOMAIN Owners \cup Sessions
    /\ \A x \in DOMAIN Overrides : Overrides[x] \in Nat
    /\ Window \in Nat \ {0} /\ MaxPerWindow \in Nat /\ ExpiresIn \in Nat /\ MaxTime \in Nat

VARIABLES
    now,        \* the clock
    stage,      \* stage[r]: where request r is
    asked,      \* asked[r]: what it is
    stamp,      \* stamp[r]: the clock as the rate limiter read it for r
    acting,     \* acting[r]: the user the request acts for
    answer,     \* answer[r]: the status, and whether the answer has CORS headers
    buckets,    \* buckets[x]: the timestamps of the rate limiter for path x, each with the
                \* request it is of: equal ones count twice, their order only shows in Retry-After
    rows,       \* the sessions that have a row
    until,      \* until[s]: when session s expires
    username,   \* username[u]
    admitted,   \* requests this process let past the rate limiter: who, where and when
    handled,    \* requests whose handler ran, and for whom
    late        \* requests the extractor let in on a session that had expired

shared == <<buckets, rows, until, username>>
watch == <<admitted, handled, late>>
requestVars == <<stage, asked, stamp, acting, answer>>
serverVars == <<now, requestVars, shared, watch>>
vars == <<schemaVars, serverVars>>

-----------------------------------------------------------------------------
(* The middleware.                                                         *)

Spelled(q) == <<q.based, q.path>>
LimitFor(x) == IF x \in DOMAIN Overrides THEN Overrides[x] ELSE MaxPerWindow
\* A stamp is saturated: one that is later than the clock is no time ago.
Within(t, s) == s > t \/ t - s < Window
\* Seeded fault: timestamps are dropped a tick early.
InWindowShort(t, stamps) == {e \in stamps : e.at > t \/ t - e.at < Window - 1}
InWindow(t, stamps) == {e \in stamps : Within(t, e.at)}

\* The timestamps of a bucket after a request with entry e: a refusal leaves none.
\* Seeded fault: a refused request counts, too.
CountedAlways(recent, e, full) == recent \cup {e}
Counted(recent, e, full) == IF full THEN recent ELSE recent \cup {e}

\* The origin of a request, or else that of its referer.
OriginOf(q) == IF q.origin # None THEN q.origin ELSE q.referer
ValidOrigin(q) == OriginOf(q) \in Trusted

\* A first sign-in has no cookie; where the browser says what kind of request it is, a
\* navigation from another site is refused and the origin is checked all the same.
FormOk(q) ==
    IF q.cookie # None THEN ValidOrigin(q)
    ELSE q.fetch = "none" \/ (q.fetch # "cross_site" /\ ValidOrigin(q))
\* Seeded fault: the path is compared as it was spelled.
CsrfOkSpelled(q) ==
    q.method = "POST" =>
        /\ IF Spelled(q) = <<FALSE, "sign_in">> THEN FormOk(q)
           ELSE q.cookie # None => ValidOrigin(q)
        /\ q.target
CsrfOk(q) ==
    q.method = "POST" =>
        /\ IF q.path = "sign_in" THEN FormOk(q) ELSE q.cookie # None => ValidOrigin(q)
        /\ q.target

Preflight(q) == q.method = "OPTIONS" /\ q.origin \in Allowed

\* after_request, of the answers of middleware and handlers and of errors.
Answered(q, status) == [status |-> status, cors |-> q.origin \in Allowed]

-----------------------------------------------------------------------------
(* Steps.                                                                  *)

Goto(r, s) == stage' = [stage EXCEPT ![r] = s]
Answer(r, status) ==
    /\ Goto(r, "answered")
    /\ answer' = [answer EXCEPT ![r] = Answered(asked[r], status)]
\* An answer of the router, which has run no middleware.
AnswerBare(r, status) ==
    /\ Goto(r, "answered")
    /\ answer' = [answer EXCEPT ![r] = [status |-> status, cors |-> FALSE]]

Arrive(r) ==
    /\ phase = "up" /\ stage[r] = "idle" /\ <<backend, installed>> \in Served
    /\ \E q \in Offers[r] :
          /\ asked' = [asked EXCEPT ![r] = q]
          /\ IF q.via = "app" THEN Goto(r, "extract") /\ UNCHANGED answer
             ELSE IF q.via = "call" THEN Goto(r, "limit") /\ UNCHANGED answer
             ELSE IF q.path \notin DOMAIN Routes \ Disabled THEN AnswerBare(r, 404)
             ELSE IF ~ Mounted(q) THEN AnswerBare(r, 405)
             ELSE IF q.path = "ok" THEN AnswerBare(r, 200)
             ELSE IF q.large THEN AnswerBare(r, 413)
             ELSE Goto(r, "limit") /\ UNCHANGED answer
    /\ UNCHANGED <<schemaVars, now, stamp, acting, shared, watch>>

\* The body limit, and the rate limiter up to its lock.
ReadClock(r) ==
    /\ stage[r] = "limit"
    /\ IF asked[r].large THEN Answer(r, 413) /\ UNCHANGED stamp
       ELSE /\ stamp' = [stamp EXCEPT ![r] = now]
            /\ Goto(r, "lock")
            /\ UNCHANGED answer
    /\ UNCHANGED <<schemaVars, now, asked, acting, shared, watch>>

\* The rate limiter with the lock, and the middleware behind it.
Count(r) ==
    LET q == asked[r]
        x == Spelled(q)
        recent == InWindow(stamp[r], buckets[x])
        full == Cardinality(recent) >= LimitFor(x)
    IN
    /\ stage[r] = "lock"
    /\ buckets' = [buckets EXCEPT ![x] =
          Counted(recent, [who |-> r, at |-> stamp[r]], full)]
    /\ admitted' = IF full THEN admitted
                   ELSE admitted \cup {[who |-> r, path |-> x, from |-> stamp[r], to |-> now]}
    /\ IF full THEN Answer(r, 429)
       ELSE IF ~ CsrfOk(q) THEN Answer(r, 403)
       ELSE IF Preflight(q) THEN Answer(r, 204)
       ELSE IF q.path \in Disabled THEN Answer(r, 404)
       ELSE Goto(r, "hooks") /\ UNCHANGED answer
    /\ UNCHANGED <<schemaVars, now, asked, stamp, acting, rows, until, username, handled, late>>

Handle(r, user) == handled' = handled \cup {[who |-> r, user |-> user]}

\* The plugins' before_request hooks, of which API keys have one, and the dispatch.
VirtualUser(q) == IF q.key \in DOMAIN Owners THEN Owners[q.key] ELSE None

Dispatch(r) ==
    LET q == asked[r] IN
    /\ stage[r] = "hooks"
    /\ acting' = [acting EXCEPT ![r] = VirtualUser(q)]
    /\ IF q.key \notin DOMAIN Owners \cup {None}
       THEN Answer(r, 400) /\ UNCHANGED handled
       ELSE IF q.key # None /\ q.path = "get_session" /\ q.method = "GET"
       THEN Answer(r, 200) /\ Handle(r, Owners[q.key])
       ELSE IF ~ Mounted(q) THEN Answer(r, 404) /\ UNCHANGED handled
       ELSE IF Routes[q.path].by = "update_user"
       THEN Goto(r, "who") /\ UNCHANGED <<answer, handled>>
       ELSE Answer(r, 200) /\ Handle(r, None)
    /\ UNCHANGED <<schemaVars, now, asked, stamp, shared, admitted, late>>

\* get_session of the session manager, with a refresh at every use: module Sessions
\* has its statements.
Live(s) == s \in rows /\ until[s] >= now

\* handle_update_user: who the request acts for, whether the name is free, the write.
FindUser(r) ==
    LET s == asked[r].cookie IN
    /\ stage[r] = "who"
    /\ \/ /\ acting[r] # None
          /\ Goto(r, "name") /\ UNCHANGED <<acting, answer, rows, until>>
       \/ /\ acting[r] = None
          /\ IF Live(s)
             THEN /\ until' = [until EXCEPT ![s] = now + ExpiresIn]
                  /\ acting' = [acting EXCEPT ![r] = SessionOf[s]]
                  /\ Goto(r, "name") /\ UNCHANGED <<answer, rows>>
             ELSE /\ rows' = rows \ {s}
                  /\ Answer(r, 401) /\ UNCHANGED <<acting, until>>
    /\ UNCHANGED <<schemaVars, now, asked, stamp, buckets, username, watch>>

Holders(n) == {u \in Users : n # None /\ username[u] = n}

CheckName(r) ==
    LET q == asked[r] IN
    /\ stage[r] = "name"
    /\ IF (q.name = None /\ ~ q.more) \/ ~ Holders(q.name) \subseteq {acting[r]}
       THEN Answer(r, 400) ELSE Goto(r, "write") /\ UNCHANGED answer
    /\ UNCHANGED <<schemaVars, now, asked, stamp, acting, shared, watch>>

\* A field that was not sent stays as it is.  The column is unique: a name that was taken
\* since is an error of the database.
WriteName(r) ==
    LET n == asked[r].name IN
    /\ stage[r] = "write"
    /\ IF Holders(n) \subseteq {acting[r]}
       THEN /\ username' = IF n = None THEN username ELSE [username EXCEPT ![acting[r]] = n]
            /\ Handle(r, acting[r])
            /\ Answer(r, 200)
       ELSE Answer(r, 500) /\ UNCHANGED <<username, handled>>
    /\ UNCHANGED <<schemaVars, now, asked, stamp, acting, buckets, rows, until, admitted, late>>

\* The extractor of the Axum integration reads the row and its user.
Extract(r) ==
    LET s == asked[r].cookie IN
    /\ stage[r] = "extract"
    /\ IF s \in rows
       THEN /\ AnswerBare(r, 200)
            /\ Handle(r, SessionOf[s])
            /\ late' = IF Live(s) THEN late ELSE late \cup {r}
       ELSE AnswerBare(r, 401) /\ UNCHANGED <<handled, late>>
    /\ UNCHANGED <<schemaVars, now, asked, stamp, acting, shared, admitted>>

Tick ==
    /\ now < MaxTime
    /\ now' = now + 1
    /\ UNCHANGED <<schemaVars, requestVars, shared, watch>>

\* A crash takes the requests under way and the rate limiter's memory with it.
Stop ==
    /\ Crash
    /\ stage' = [r \in Requests |-> IF stage[r] \in {"idle", "answered"} THEN stage[r] ELSE "lost"]
    /\ buckets' = [x \in DOMAIN buckets |-> {}]
    /\ admitted' = {}
    /\ UNCHANGED <<now, asked, stamp, acting, answer, rows, until, username, handled, late>>

Start == BootStep /\ UNCHANGED serverVars

-----------------------------------------------------------------------------
Blank == [via |-> "call", method |-> "GET", path |-> "missing", based |-> FALSE,
          origin |-> None, referer |-> None, cookie |-> None, key |-> None,
          fetch |-> "none", target |-> TRUE, large |-> FALSE, name |-> None,
          more |-> FALSE]

Init ==
    /\ SchemaInit
    /\ now = 0
    /\ stage = [r \in Requests |-> "idle"]
    /\ asked = [r \in Requests |-> Blank]
    /\ stamp = [r \in Requests |-> 0]
    /\ acting = [r \in Requests |-> None]
    /\ answer = [r \in Requests |-> [status |-> 0, cors |-> FALSE]]
    /\ buckets = [x \in BOOLEAN \X (DOMAIN Routes \cup {"missing"}) |-> {}]
    /\ rows = Sessions
    /\ until = [s \in Sessions |-> ExpiresIn]
    /\ username = [u \in Users |-> None]
    /\ admitted = {} /\ handled = {} /\ late = {}

Step(r) ==
    \/ ReadClock(r) \/ Count(r) \/ Dispatch(r)
    \/ FindUser(r) \/ CheckName(r) \/ WriteName(r) \/ Extract(r)

Next ==
    \/ Start \/ Stop \/ Tick
    \/ \E r \in Requests : Arrive(r) \/ Step(r)

Spec == Init /\ [][Next]_vars
\* Whoever runs the server starts it again, and a boot is never left half-way but by a crash.
FairSpec == Spec /\ WF_vars(Start)

-----------------------------------------------------------------------------
(* Properties.                                                             *)

Stages == {"idle", "limit", "lock", "hooks", "who", "name", "write", "extract",
           "answered", "lost"}

\* What each variable holds, and that a request is under way in a server that is up only.
TypeOK ==
    /\ phase \in {"down", "booting", "up"}
    /\ stage \in [Requests -> Stages]
    /\ asked \in [Requests -> RequestSet]
    /\ phase # "up" => \A r \in Requests : stage[r] \in {"idle", "answered", "lost"}
    /\ \A x \in DOMAIN buckets : Cardinality(buckets[x]) <= LimitFor(x)

\* EndpointRateLimit.max_requests: in no window does the rate limiter let past more
\* requests of a path than its maximum, however late each got the lock after it read
\* the clock; a request counts for a window that holds both moments.
RateHolds ==
    \A x \in DOMAIN buckets : \A t \in 0 .. now :
        Cardinality({a \in admitted : a.path = x /\ t <= a.from /\ a.to < t + Window})
            <= LimitFor(x)

\* A handler of a plugin runs for a request that every check allows, whichever way it
\* came in and however its path was spelled, and acts for the user of its key, or else
\* its session.  A route of the application acts for the session alone: the middleware
\* of BetterAuth does not stand before it.
OnlyAllowedHandled ==
    \A h \in handled :
        LET q == asked[h.who] IN
        IF q.via = "app" THEN h.user = SessionOf[q.cookie]
        ELSE /\ q.path \notin Disabled /\ ~ q.large
             /\ q.method = "POST" /\ q.cookie # None => OriginOf(q) \in Trusted
             /\ q.method = "POST" /\ q.path = "sign_in" /\ q.cookie = None /\ q.fetch # "none" =>
                   q.fetch = "same_site" /\ OriginOf(q) \in Trusted
             /\ q.method = "POST" => q.target
             /\ h.user # None =>
                   h.user = IF q.key # None THEN Owners[q.key] ELSE SessionOf[q.cookie]

\* A page of an allowed origin can read every answer of handle_request, errors and the
\* refusals of the middleware included, and a page of another origin can read none.
Readable ==
    \A r \in Requests : stage[r] = "answered" =>
        /\ answer[r].cors => asked[r].origin \in Allowed
        /\ asked[r].via = "call" /\ asked[r].origin \in Allowed => answer[r].cors

\* CurrentSession "extracts and validates the current user and session" and "returns 401
\* if no valid session is found": it lets nobody in on a session that has expired.
ExtractorAdmitsLive == late = {}

=============================================================================
