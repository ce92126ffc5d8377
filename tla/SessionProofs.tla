--------------------------- MODULE SessionProofs ---------------------------
(***************************************************************************)
(* Who is let in, and that a lone dashboard's restarts log nobody out.     *)
(***************************************************************************)
EXTENDS Session, StartupProofs

(***************************************************************************)
(* Browsers and clocks leave the processes and their files alone.          *)
(***************************************************************************)
LEMMA SessionStepsStart == [SessionNext]_ssVars => [Next]_suVars
  BY DEF SessionNext, ssVars, handleLoginPost, handleLogout, SetClock

\* What holds of every start holds beside a browser.
LEMMA SessionStarts == SessionSpec => Spec
<1>1. SessionInit => Init
  BY DEF SessionInit
<1> QED
  BY <1>1, SessionStepsStart, PTL DEF SessionSpec, Spec

\* The three special values of a secret are values.
LEMMA ValuesHoldThese == Unset \in Values /\ TooShort \in Values /\ Own \in Values
  BY StartupConstants DEF Values, Unset, TooShort, Own

-----------------------------------------------------------------------------
(* Domains                                                                  *)

BrowserShape ==
    /\ clock \in 0 .. MaxClock
    /\ jar \in Cookies \cup {NoCookie}
    /\ token \in Values /\ onDisk \in BOOLEAN

\* No step of a start or of the browser leaves these domains.
LEMMA BrowserShapeStep ==
    ASSUME TypeInv, BrowserShape, [SessionNext]_ssVars
    PROVE  BrowserShape'
<1>1. ASSUME NEW i \in Instances, handleLoginPost(i)  PROVE BrowserShape'
  <2>1. cfg[i]["SESSION_SECRET"] \in Values
    BY DEF TypeInv, Shape, Secrets
  <2>2. IssueCookie(i) \in Cookies
    BY <2>1 DEF BrowserShape, IssueCookie, Cookies
  <2>3. printed \cup {Own, TooShort} \subseteq Values
    BY ValuesHoldThese DEF TypeInv, Shape
  <2>4. token' \in Values
    BY <1>1, <2>3 DEF handleLoginPost
  <2>5. jar' = IssueCookie(i) /\ clock' = clock /\ onDisk' = (hard = env)
    BY <1>1 DEF handleLoginPost
  <2> QED
    BY <2>2, <2>4, <2>5 DEF BrowserShape, Cookies
<1>2. ASSUME NEW i \in Instances, handleLogout(i)  PROVE BrowserShape'
  BY <1>2 DEF handleLogout, BrowserShape, Cookies
<1>3. CASE SetClock
  BY <1>3 DEF SetClock, BrowserShape, Cookies
<1>4. CASE UNCHANGED sessionVars
  BY <1>4 DEF sessionVars, BrowserShape, Cookies
<1> QED
  BY <1>1, <1>2, <1>3, <1>4 DEF SessionNext, ssVars

(***************************************************************************)
(* Every variable stays in its domain, the clock set either way and any    *)
(* number of instances beside each other.                                  *)
(***************************************************************************)
THEOREM SessionTypeCorrect == SessionSpec => []SessionTypeOK
<1>1. SessionInit => BrowserShape
  <2>1. 0 \in 0 .. MaxClock
    BY SessionConstants
  <2> QED
    BY <2>1, ValuesHoldThese DEF SessionInit, BrowserShape
<1>2. TypeOK /\ BrowserShape => SessionTypeOK
  BY DEF SessionTypeOK, BrowserShape
<1>3. TypeInv /\ BrowserShape /\ [SessionNext]_ssVars => BrowserShape'
  BY BrowserShapeStep
<1> QED
  BY <1>1, <1>2, <1>3, SessionStarts, Typed, TypeCorrect, PTL DEF SessionSpec

\* Both types in every reachable state.
LEMMA SessionTyped == SessionSpec => [](TypeInv /\ BrowserShape)
<1>1. SessionTypeOK => BrowserShape
  BY DEF SessionTypeOK, BrowserShape
<1> QED
  BY <1>1, SessionStarts, Typed, SessionTypeCorrect, PTL

-----------------------------------------------------------------------------
(* The middleware                                                           *)

(***************************************************************************)
(* What authenticate says of a request.                                    *)
(***************************************************************************)
LEMMA AuthenticateMeans ==
    ASSUME TypeInv, BrowserShape, NEW i \in Instances, NEW req \in Request
    PROVE  /\ authenticate(i, req) = "bearer" => req.bearer = cfg[i]["AUTH_TOKEN"]
           /\ authenticate(i, req) = "cookie" =>
                /\ req.bearer = Unset
                /\ jar \in [secret : {cfg[i]["SESSION_SECRET"]},
                            issued : clock - CookieTTL + 1 .. clock]
           /\ authenticate(i, req) \in {"bearer", "cookie", "none"}
<1>1. jar # NoCookie /\ VerifyCookie(i, jar) =>
         jar \in [secret : {cfg[i]["SESSION_SECRET"]}, issued : clock - CookieTTL + 1 .. clock]
  <2> SUFFICES ASSUME jar # NoCookie, VerifyCookie(i, jar)
               PROVE  jar \in [secret : {cfg[i]["SESSION_SECRET"]},
                               issued : clock - CookieTTL + 1 .. clock]
    OBVIOUS
  <2>1. jar \in Cookies /\ jar.issued \in Nat /\ clock \in Nat
    BY DEF BrowserShape, Cookies
  <2>2. jar = [secret |-> jar.secret, issued |-> jar.issued]
    BY <2>1 DEF Cookies
  <2>3. jar.issued \in clock - CookieTTL + 1 .. clock /\ jar.secret = cfg[i]["SESSION_SECRET"]
    BY <2>1, SessionConstants DEF VerifyCookie
  <2> QED
    BY <2>2, <2>3
<1> QED
  BY <1>1 DEF authenticate, CheckBearer

(***************************************************************************)
(* Whatever a browser or a client sends, and however the clock is set, no  *)
(* handler behind requireAuth runs for a stranger: it takes the token, or, *)
(* without one, a cookie of this SESSION_SECRET that is younger than       *)
(* CookieTTL and not of the future; and a cookie alone changes nothing     *)
(* unless the page's script sent the request (middleware.go requireAuth,   *)
(* requireAuthOrRedirect, withCSRF).                                       *)
(***************************************************************************)
THEOREM StrangersAreKeptOut == SessionSpec => []HandledIsAuthorised
<1>1. TypeInv /\ BrowserShape => HandledIsAuthorised
  <2> SUFFICES ASSUME TypeInv, BrowserShape, NEW i \in Serving, NEW req \in Request,
                      req.route # "login", buildHandler(i, req) = "handled"
               PROVE  \/ req.bearer = cfg[i]["AUTH_TOKEN"]
                      \/ /\ req.bearer = Unset
                         /\ jar \in [secret : {cfg[i]["SESSION_SECRET"]},
                                     issued : clock - CookieTTL + 1 .. clock]
                         /\ req.route = "mutation" => req.requestedWith
    BY DEF HandledIsAuthorised
  <2>0. i \in Instances
    BY DEF Serving
  <2>1. req.route \in {"page", "data", "mutation"}
    BY DEF Request
  <2>2. authenticate(i, req) # "none"
    BY <2>1 DEF buildHandler, requireAuth, requireAuthOrRedirect
  <2>3. req.route = "mutation" => authenticate(i, req) = "bearer" \/ req.requestedWith
    BY <2>2 DEF buildHandler, requireAuth, withCSRF
  <2> QED
    BY <2>0, <2>2, <2>3, AuthenticateMeans
<1> QED
  BY <1>1, SessionTyped, PTL

(***************************************************************************)
(* No browser is sent in a circle between / and /login, whatever its       *)
(* cookie has become by restarts and the clock.                            *)
(***************************************************************************)
THEOREM NoCircle == SessionSpec => []RedirectsEnd
<1>1. Accepted => RedirectsEnd
  <2> SUFFICES ASSUME Accepted, NEW i \in Serving, NEW req \in Request, req.route = "page",
                      req.bearer \in {Unset, cfg[i]["AUTH_TOKEN"]},
                      buildHandler(i, req) = "303 /login",
                      buildHandler(i, [req EXCEPT !.route = "login"]) = "303 /"
               PROVE  FALSE
    BY DEF RedirectsEnd
  <2>1. authenticate(i, req) = "none"
    BY DEF buildHandler, requireAuthOrRedirect
  <2>2. [req EXCEPT !.route = "login"].route = "login"
    BY DEF Request
  <2>3. jar # NoCookie /\ VerifyCookie(i, jar)
    BY <2>2 DEF buildHandler, handleLoginGet, cookieAuthed
  <2>4. req.bearer # Unset /\ ~ CheckBearer(i, req.bearer)
    BY <2>1, <2>3 DEF authenticate
  <2>5. cfg[i]["AUTH_TOKEN"] = TooShort
    BY <2>4 DEF CheckBearer
  <2>6. cfg[i]["AUTH_TOKEN"] # TooShort
    BY DEF Serving, Accepted, Secrets
  <2> QED
    BY <2>5, <2>6
<1> QED
  BY <1>1, SessionStarts, SecretsAreUsable, PTL

-----------------------------------------------------------------------------
(* Restarts                                                                 *)

(***************************************************************************)
(* After a login whose .env had reached the disk, .env keeps the secrets   *)
(* that it was served with, whichever file it names, so that no later      *)
(* start generates any and writes another one.                             *)
(***************************************************************************)
Lasting(n) ==
    /\ \A k \in Secrets : Lookup(Content(n), k) \notin {Unset, TooShort}
    /\ Lookup(Content(n), "AUTH_TOKEN") = token
    /\ jar # NoCookie => jar.secret = Lookup(Content(n), "SESSION_SECRET")

LoggedIn ==
    onDisk =>
      /\ \A n \in {env, hard} : Lasting(n)
      /\ \A i \in Instances : pc[i] \in {"off", "load", "listen", "serving"}

\* A step that leaves the token, the cookie and the text of .env alone logs
\* nobody out.
LEMMA LoggedInFrame ==
    ASSUME LoggedIn, UNCHANGED <<exported, token, jar, onDisk>>,
           {env', hard'} \subseteq {env, hard},
           \A n \in {env, hard} : n # NoInode => inode'[n].body = inode[n].body,
           onDisk => \A i \in Instances : pc'[i] \in {"off", "load", "listen", "serving"}
    PROVE  LoggedIn'
<1>1. ASSUME onDisk, NEW n \in {env, hard}  PROVE Lasting(n)'
  <2>1. Content(n)' = Content(n) /\ Lasting(n)
    BY <1>1 DEF Content, LoggedIn
  <2>2. \A k : Lookup(Content(n), k)' = Lookup(Content(n), k)
    BY <2>1 DEF Lookup
  <2> QED
    BY <2>1, <2>2 DEF Lasting
<1> QED
  BY <1>1 DEF LoggedIn

(***************************************************************************)
(* No step of a start, no death and no power failure takes the secrets of  *)
(* a login that had reached the disk out of .env.                          *)
(***************************************************************************)
LEMMA LoggedInStartStep ==
    ASSUME OneInstance, StartInv, LoggedIn, Next, UNCHANGED sessionVars
    PROVE  LoggedIn'
<1> USE DEF Goto, fileVars, confVars, bounds, sessionVars
<1>0. SUFFICES ASSUME onDisk PROVE LoggedIn'
  BY DEF LoggedIn
<1>a. \A i \in Instances : pc[i] \in {"off", "load", "listen", "serving"} /\ i \in DOMAIN pc
  BY <1>0 DEF LoggedIn, StartInv, TypeInv, Shape
<1>b. \A n \in {env, hard} : \A k \in Secrets : Lookup(Content(n), k) \notin {Unset, TooShort}
  BY <1>0 DEF LoggedIn, Lasting
<1>1. ASSUME NEW i \in Instances, Start(i) \/ Listen(i) \/ Stop(i)  PROVE LoggedIn'
  <2>1. UNCHANGED <<env, hard, inode, exported>>
    BY <1>1 DEF Start, Listen, Stop
  <2>2. \A j \in Instances : pc'[j] \in {"off", "load", "listen", "serving"}
    BY <1>1, <1>a DEF Start, Listen, Stop
  <2> QED
    BY <2>1, <2>2, LoggedInFrame
<1>2. ASSUME NEW i \in Instances, Load(i)  PROVE LoggedIn'
  <2>1. UNCHANGED <<env, hard, inode, exported>>
    BY <1>2 DEF Load
  <2>2. pc'[i] \in {"off", "listen"}
    <3> SUFFICES ASSUME pc'[i] # "off" PROVE pc'[i] = "listen"
      OBVIOUS
    <3>1. PICK lines \in Readings(Content(env)) \ {NoReading} :
             pc'[i] = IF {k \in Secrets : Lookup(lines, k) = Unset} = {} THEN "listen" ELSE "read"
      BY <1>2, <1>a DEF Load
    <3>2. lines = Content(env)
      BY ReadsContent DEF StartInv
    <3> QED
      BY <1>b, <3>1, <3>2
  <2>3. \A j \in Instances : j = i
    BY DEF OneInstance
  <2> QED
    BY <2>1, <2>2, <2>3, LoggedInFrame
<1>3. ASSUME NEW i \in Instances, ReadAgain(i) \/ OpenTmp(i) \/ WriteTmp(i) \/ SyncTmp(i) \/ CloseTmp(i)
                \/ Rename(i) \/ Cleanup(i) \/ SyncDir(i) \/ Banner(i)
      PROVE  FALSE
  BY <1>3, <1>a DEF ReadAgain, OpenTmp, WriteTmp, SyncTmp, CloseTmp, Rename, Cleanup, SyncDir, Banner
<1>4. CASE Flush
  <2>1. UNCHANGED <<env, inode, exported, pc>> /\ hard' = env
    BY <1>4 DEF Flush
  <2> QED
    BY <1>a, <2>1, LoggedInFrame
<1>5. CASE PowerLoss
  <2>1. {env', hard'} \subseteq {env, hard} /\ UNCHANGED exported
        /\ \A i \in Instances : pc'[i] = "off"
    BY <1>5 DEF PowerLoss
  <2>2. \A n \in {env, hard} : n # NoInode => inode'[n].body = inode[n].body
    BY <1>5 DEF PowerLoss, Settled, StartInv, OnDisk, TypeInv, Shape
  <2> QED
    BY <2>1, <2>2, LoggedInFrame
<1> QED
  BY <1>1, <1>2, <1>3, <1>4, <1>5 DEF Next

\* Nor does any other step, a login or a logout included.
LEMMA LoggedInStep ==
    ASSUME OneInstance, StartInv, BrowserShape, LoggedIn, [SessionNext]_ssVars
    PROVE  LoggedIn'
<1>1. CASE UNCHANGED ssVars
  BY <1>1, LoggedInFrame DEF ssVars, sessionVars, suVars, LoggedIn
<1>2. CASE Next /\ UNCHANGED sessionVars
  BY <1>2, LoggedInStartStep
<1>3. ASSUME NEW i \in Instances, handleLoginPost(i)  PROVE LoggedIn'
  <2>0. \A j \in Instances : j = i
    BY DEF OneInstance
  <2>1. /\ pc[i] = "serving" /\ UNCHANGED <<pc, env, hard, inode, exported>>
        /\ jar' = IssueCookie(i) /\ token' = cfg[i]["AUTH_TOKEN"] /\ onDisk' = (hard = env)
    BY <1>3 DEF handleLoginPost, Serving, CheckBearer, suVars
  <2>2. \A k \in Secrets : Lookup(Content(env), k) = cfg[i][k] /\ cfg[i][k] \notin {Unset, TooShort}
    BY <2>1 DEF StartInv, Holds, Accepted
  <2>3. \A k : Lookup(Content(env), k)' = Lookup(Content(env), k)
    BY <2>1 DEF Content, Lookup
  <2>4. Lasting(env)'
    BY <2>1, <2>2, <2>3 DEF Lasting, IssueCookie, Secrets
  <2>5. ASSUME hard = env  PROVE Lasting(hard)'
    BY <2>1, <2>2, <2>3, <2>5 DEF Lasting, IssueCookie, Secrets
  <2> QED
    BY <2>0, <2>1, <2>4, <2>5 DEF LoggedIn
<1>4. ASSUME NEW i \in Instances, handleLogout(i)  PROVE LoggedIn'
  <2>1. UNCHANGED <<pc, env, hard, inode, exported, token, onDisk>> /\ jar' = NoCookie
    BY <1>4 DEF handleLogout, suVars
  <2>2. ASSUME onDisk, NEW n \in {env, hard}  PROVE Lasting(n)'
    <3>1. \A k : Lookup(Content(n), k)' = Lookup(Content(n), k)
      BY <2>1 DEF Content, Lookup
    <3> QED
      BY <2>1, <2>2, <3>1 DEF LoggedIn, Lasting
  <2> QED
    BY <2>1, <2>2 DEF LoggedIn
<1>5. CASE SetClock
  BY <1>5, LoggedInFrame DEF SetClock, suVars, LoggedIn
<1> QED
  BY <1>1, <1>2, <1>3, <1>4, <1>5 DEF SessionNext

(***************************************************************************)
(* Nobody is logged out by restarts of a lone dashboard: after a login     *)
(* whose .env had reached the disk, any number of deaths, power failures   *)
(* and starts leaves the token good, and the cookie until its time is up   *)
(* (auth.go: a session is nothing but a signed time stamp; README.md:132:  *)
(* only "rotating" SESSION_SECRET "invalidates all sessions").             *)
(***************************************************************************)
THEOREM RestartsLogNobodyOut ==
    ASSUME OneInstance
    PROVE  SessionSpec => []SessionsSurvive
<1>1. StartInv /\ BrowserShape /\ LoggedIn => SessionsSurvive
  <2> SUFFICES ASSUME StartInv, BrowserShape, LoggedIn, onDisk, NEW i \in Serving
               PROVE  /\ CheckBearer(i, token)
                      /\ jar # NoCookie /\ clock - jar.issued \in 0 .. CookieTTL - 1
                            => VerifyCookie(i, jar)
    BY DEF SessionsSurvive
  <2>1. \A k \in Secrets : Lookup(Content(env), k) = cfg[i][k] /\ cfg[i][k] \notin {Unset, TooShort}
    BY DEF Serving, StartInv, Holds, Accepted
  <2>2. Lasting(env)
    BY DEF LoggedIn
  <2>3. CheckBearer(i, token)
    BY <2>1, <2>2 DEF Lasting, CheckBearer, Secrets
  <2>4. ASSUME jar # NoCookie, clock - jar.issued \in 0 .. CookieTTL - 1
        PROVE  VerifyCookie(i, jar)
    <3>1. jar.secret = cfg[i]["SESSION_SECRET"]
      BY <2>1, <2>2, <2>4 DEF Lasting, Secrets
    <3>2. jar.issued \in Nat /\ clock \in Nat
      BY <2>4 DEF BrowserShape, Cookies
    <3> QED
      BY <2>4, <3>1, <3>2, SessionConstants DEF VerifyCookie
  <2> QED
    BY <2>3, <2>4
<1>2. SessionInit => LoggedIn
  BY DEF SessionInit, LoggedIn
<1>3. StartInv /\ BrowserShape /\ LoggedIn /\ [SessionNext]_ssVars => LoggedIn'
  BY LoggedInStep
<1>4. Spec => []StartInv
  BY LoneStart
<1> QED
  BY <1>1, <1>2, <1>3, <1>4, SessionStarts, SessionTyped, PTL DEF SessionSpec

=============================================================================
