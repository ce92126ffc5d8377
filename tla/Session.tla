------------------------------ MODULE Session ------------------------------
(***************************************************************************)
(* Sessions of a browser across restarts: POST /login (its rate limit is   *)
(* RateLimit's) hands out the pm_session cookie, which is nothing but a    *)
(* signed time stamp.  No server keeps a session, so whether one is        *)
(* accepted depends on the SESSION_SECRET that the serving instance has    *)
(* from Startup and on the wall clock, which may be set either way.        *)
(*                                                                         *)
(* The middleware is a chain of handlers that call the next one or answer: *)
(* operators from an answer of the next handler to an answer.  What the    *)
(* handlers behind it change is Dashboard's; here only /logout does.       *)
(***************************************************************************)
EXTENDS Startup

CONSTANTS
    NoCookie,
    CookieTTL,     \* in clock ticks
    MaxClock       \* bound: the clock runs over 0..MaxClock

ASSUME SessionConstants ==
    CookieTTL \in Nat \ {0} /\ MaxClock \in Nat /\ NoCookie \notin [secret : Values, issued : Nat]

VARIABLES
    clock,         \* time.Now of the server, truncated to whole ticks
    jar,           \* the browser's pm_session
    token,         \* history: the AUTH_TOKEN of the last login, Unset before
    onDisk         \* history: whether that login was after .env had reached the disk

sessionVars == <<clock, jar, token, onDisk>>
ssVars == <<suVars, sessionVars>>

Cookies == [secret : Values, issued : 0..MaxClock]

\* route: a page is GET /, data any other GET behind requireAuth, a mutation any
\* POST behind it.  bearer: the token of the Authorization header.
Request == [route : {"login", "page", "data", "mutation"},
            bearer : Values, requestedWith : BOOLEAN]

SessionInit == Init /\ clock = 0 /\ jar = NoCookie /\ token = Unset /\ onDisk = FALSE

Serving == {i \in Instances : pc[i] = "serving"}

-----------------------------------------------------------------------------
(* auth.go.  (The variants beside some definitions are plausible slips; no  *)
(* specification uses them.)                                                *)

CheckBearer(i, t) == t \notin {Unset, TooShort} /\ t = cfg[i]["AUTH_TOKEN"]

IssueCookie(i) == [secret |-> cfg[i]["SESSION_SECRET"], issued |-> clock]

VerifyAnyAge(i, c) == c.secret = cfg[i]["SESSION_SECRET"] /\ clock - c.issued < CookieTTL

VerifyCookie(i, c) ==
    /\ c.secret = cfg[i]["SESSION_SECRET"]
    /\ c.issued <= clock /\ clock - c.issued < CookieTTL

-----------------------------------------------------------------------------
(* middleware.go and handlers.go *)

HasCookie(i) == jar # NoCookie

cookieAuthed(i) == jar # NoCookie /\ VerifyCookie(i, jar)

\* A bearer token, right or wrong, hides the cookie.
authenticate(i, req) ==
    IF req.bearer # Unset
    THEN IF CheckBearer(i, req.bearer) THEN "bearer" ELSE "none"
    ELSE IF jar # NoCookie /\ VerifyCookie(i, jar) THEN "cookie" ELSE "none"

requireAuth(i, req, next) == IF authenticate(i, req) # "none" THEN next ELSE "401"

requireAuthOrRedirect(i, req, next) ==
    IF authenticate(i, req) # "none" THEN next ELSE "303 /login"

withCSRF(i, req, next) ==
    IF authenticate(i, req) = "bearer" \/ req.requestedWith THEN next ELSE "403"

handleLoginGet(i) == IF cookieAuthed(i) THEN "303 /" ELSE "handled"

buildHandler(i, req) ==
    CASE req.route = "login"    -> handleLoginGet(i)
      [] req.route = "page"     -> requireAuthOrRedirect(i, req, "handled")
      [] req.route = "data"     -> requireAuth(i, req, "handled")
      [] req.route = "mutation" -> requireAuth(i, req, withCSRF(i, req, "handled"))

\* POST /login with a token somebody was shown or chose.
handleLoginPost(i) ==
    /\ i \in Serving
    /\ \E t \in printed \cup {Own, TooShort} :
         CheckBearer(i, t) /\ token' = t
    /\ jar' = IssueCookie(i) /\ onDisk' = (hard = env)
    /\ UNCHANGED <<suVars, clock>>

\* Only the browser's copy goes.
handleLogout(i) ==
    /\ i \in Serving
    /\ jar # NoCookie /\ jar' = NoCookie
    /\ \E req \in [route : {"mutation"}, bearer : {Unset}, requestedWith : BOOLEAN] :
         buildHandler(i, req) = "handled"
    /\ UNCHANGED <<suVars, clock, token, onDisk>>

SetClock ==
    /\ clock' \in 0..MaxClock \ {clock}
    /\ UNCHANGED <<suVars, jar, token, onDisk>>

SessionNext ==
    \/ Next /\ UNCHANGED sessionVars
    \/ \E i \in Instances : handleLoginPost(i) \/ handleLogout(i)
    \/ SetClock

SessionSpec == SessionInit /\ [][SessionNext]_ssVars

-----------------------------------------------------------------------------
(* Properties *)

SessionTypeOK ==
    /\ TypeOK
    /\ clock \in 0..MaxClock
    /\ jar \in Cookies \cup {NoCookie}
    /\ token \in Values /\ onDisk \in BOOLEAN

\* Nobody is logged out by a restart: whatever starts, deaths and power failures do
\* after a login, an instance that serves accepts the token it used, and its cookie
\* until the time is up.  (Only a login to a start that found .env renamed but not
\* on the disk yet, as one that died before its directory sync leaves it, may be
\* lost with the secrets if the power fails before the kernel writes it back.)
SessionsSurvive ==
    onDisk => \A i \in Serving :
        /\ CheckBearer(i, token)
        /\ jar # NoCookie /\ clock - jar.issued \in 0 .. CookieTTL - 1 => VerifyCookie(i, jar)

\* A handler behind the middleware runs for the token, or, without a token, for a
\* cookie that a login under this SESSION_SECRET got less than CookieTTL ago, and
\* then a mutation is one that the page's script sent.
HandledIsAuthorised ==
    \A i \in Serving, req \in Request :
        req.route # "login" /\ buildHandler(i, req) = "handled" =>
            \/ req.bearer = cfg[i]["AUTH_TOKEN"]
            \/ /\ req.bearer = Unset
               /\ jar \in [secret : {cfg[i]["SESSION_SECRET"]},
                           issued : clock - CookieTTL + 1 .. clock]
               /\ req.route = "mutation" => req.requestedWith

\* GET / redirects to /login, and /login to / for who has a session: a browser is
\* never sent in a circle, whatever its cookie has become.  (A client that adds a
\* wrong bearer token to a good cookie is: only the page looks at the token.)
RedirectsEnd ==
    \A i \in Serving, req \in Request :
        req.route = "page" /\ req.bearer \in {Unset, cfg[i]["AUTH_TOKEN"]} =>
            ~ (buildHandler(i, req) = "303 /login"
               /\ buildHandler(i, [req EXCEPT !.route = "login"]) = "303 /")

=============================================================================
