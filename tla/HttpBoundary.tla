---------------------------- MODULE HttpBoundary ----------------------------
(***************************************************************************)
(* What every HTTP request goes through before a handler of main.py sees   *)
(* it: dispatch of SecurityBoundaryMiddleware in http_security.py, with    *)
(* the shared limiter of RateLimit.                                        *)
(*                                                                         *)
(* dispatch runs on the event loop of its process and gives way to other   *)
(* requests of the process only in call_next, while the handler runs; the  *)
(* transactions of the limiter stop the whole process.  So a request turns *)
(* up at a process that waits for no transaction, and is then answered,    *)
(* handed to a handler or in the limiter, in one step.                     *)
(*                                                                         *)
(* A definition that stands right before another of the same parameters,   *)
(* and whose name continues the other's, is a plausible mistake in it.     *)
(***************************************************************************)
EXTENDS RateLimit, Integers

CONSTANTS
    Shapes,         \* what dispatch tells apart in a request
    Production,     \* app_env is production
    RequireHttps,   \* require_https
    CookieAuth,     \* cookie_auth_enabled
    CorsCredentials \* cors_allow_credentials

(* "limited": not OPTIONS and not one of the exempt paths; "cookie": a     *)
(* change that a cookie authenticates, without an Authorization header;    *)
(* "token": with a CSRF header that equals the CSRF cookie.                *)
Shape == [secure : BOOLEAN, limited : BOOLEAN, cookie : BOOLEAN, token : BOOLEAN]

ASSUME ShapesAreTyped == Shapes \subseteq Shape

(* validate_security_configuration, of the settings dispatch uses.         *)
Accepted ==
    /\ \A n \in Limits : n >= 1
    /\ Window >= 1
    /\ Retention >= Window
    /\ CleanupInterval >= 1
    /\ CookieAuth => CorsCredentials
    /\ Production => RequireHttps

ASSUME SettingsAreAccepted == Accepted

VARIABLES
    http,    \* http[r]: how far dispatch of request r is, and what it answered
    shape    \* shape[r]: what request r looks like, None before it arrives

httpVars == <<http, shape>>
allVars == <<vars, http, shape>>

Statuses == {0, 200, 403, 426, 429, 500, 503}    \* 200: whatever a handler answers

Exchange ==
    [at : {"new", "consuming", "handling", "answered", "lost"},
     proc : Processes \cup {None},
     status : Statuses,
     remaining : Nat \cup {None},          \* X-RateLimit-Remaining
     retry : Int \cup {None},               \* Retry-After
     degraded : BOOLEAN]                    \* X-RateLimit-Policy

Fresh == [at |-> "new", proc |-> None, status |-> 0, remaining |-> None,
          retry |-> None, degraded |-> FALSE]

Lost == [at |-> "lost", proc |-> None, status |-> 0, remaining |-> None,
         retry |-> None, degraded |-> FALSE]

BoundaryTypeOK ==
    /\ TypeOK
    /\ http \in [Requests -> Exchange]
    /\ shape \in [Requests -> Shapes \cup {None}]

BoundaryInit ==
    /\ Init
    /\ http = [r \in Requests |-> Fresh]
    /\ shape = [r \in Requests |-> None]

----------------------------------------------------------------------------
(* Answers                                                                 *)

(* A response with the headers of _add_security_headers.  A request that   *)
(* the limiter did not decide on carries no rate.                          *)
Answer(r, status, remaining, retry, degraded) ==
    http' = [http EXCEPT ![r] = [at |-> "answered", proc |-> None, status |-> status,
                                 remaining |-> remaining, retry |-> retry,
                                 degraded |-> degraded]]

(* call_next, with what the response will say of the rate.                 *)
CallNext(r, p, remaining, degraded) ==
    http' = [http EXCEPT ![r] = [at |-> "handling", proc |-> p, status |-> 0,
                                 remaining |-> remaining, retry |-> None,
                                 degraded |-> degraded]]

Forged(s) == CookieAuth /\ s.cookie /\ ~s.token

(* The check of the CSRF token, which comes last.                          *)
PassOn(r, p, s, remaining, degraded) ==
    IF Forged(s) THEN Answer(r, 403, remaining, None, degraded)
    ELSE CallNext(r, p, remaining, degraded)

RemainingBefore(place) == IF place > limit THEN 0 ELSE limit - place + 1
Remaining(place) == IF place > limit THEN 0 ELSE limit - place

RetryAfter(reset, t) == IF reset - t > 1 THEN reset - t ELSE 1

----------------------------------------------------------------------------
(* dispatch                                                                *)

Idle(p) == \A s \in Requests : InFlight(s) => req[s].proc # p

TurnedAway(s) == RequireHttps /\ ~s.secure

Receive(r, p, s) ==
    /\ http[r].at = "new"
    /\ Idle(p)
    /\ shape' = [shape EXCEPT ![r] = s]
    /\ \/ /\ TurnedAway(s)
          /\ Answer(r, 426, None, None, FALSE)
          /\ UNCHANGED vars
       \/ /\ ~TurnedAway(s) /\ ~s.limited
          /\ PassOn(r, p, s, None, FALSE)
          /\ UNCHANGED vars
       \/ /\ ~TurnedAway(s) /\ s.limited
          /\ \E k \in Keys, t \in Times : Arrive(p, r, k, t)
          /\ http' = [http EXCEPT ![r] = [at |-> "consuming", proc |-> p, status |-> 0,
                                          remaining |-> None, retry |-> None,
                                          degraded |-> FALSE]]

(* A step of consume, and what dispatch makes of its result.  The clock    *)
(* that Retry-After is computed from is read after the transactions.       *)
Consume(r) ==
    /\ http[r].at = "consuming"
    /\ Handle(r)
    /\ LET p == req[r].proc
           place == req'[r].place
       IN \/ /\ req'[r].at = "cleanup"
             /\ UNCHANGED http
          \/ /\ req'[r].at = "served"
             /\ PassOn(r, p, shape[r], Remaining(place), FALSE)
          \/ /\ req'[r].at = "degraded"
             /\ PassOn(r, p, shape[r], None, TRUE)
          \/ /\ req'[r].at = "error"
             /\ Answer(r, 503, None, None, FALSE)
          \/ /\ req'[r].at = "refused"
             /\ \E t \in req[r].stamp .. now :
                    Answer(r, 429, Remaining(place),
                           RetryAfter(WindowOf(req[r].stamp) + Window, t), FALSE)
    /\ UNCHANGED shape

(* The handler answers, or raises what no exception handler of main.py     *)
(* takes: the server then answers without the headers of dispatch.         *)
Respond(r) ==
    /\ http[r].at = "handling"
    /\ \/ Answer(r, 200, http[r].remaining, None, http[r].degraded)
       \/ Answer(r, 500, None, None, FALSE)
    /\ UNCHANGED <<vars, shape>>

(* A process that stops loses all its requests.                            *)
Stop(p) ==
    /\ Restart(p)
    /\ http' = [r \in Requests |->
                  IF http[r].at \in {"consuming", "handling"} /\ http[r].proc = p
                  THEN Lost ELSE http[r]]
    /\ UNCHANGED shape

Pass == Tick /\ UNCHANGED httpVars

BoundaryNext ==
    \/ \E r \in Requests, p \in Processes, s \in Shapes : Receive(r, p, s)
    \/ \E r \in Requests : Consume(r)
    \/ \E r \in Requests : Respond(r)
    \/ \E p \in Processes : Stop(p)
    \/ Pass

BoundarySpec == BoundaryInit /\ [][BoundaryNext]_allVars

----------------------------------------------------------------------------
(* Properties                                                              *)

Handled(r) == http[r].at = "handling" \/ http[r].status \in {200, 500}

(* A request that a handler sees came over HTTPS where that is required,   *)
(* was not forged, and took a place within the limit of its window, unless *)
(* it is exempt or its process fails open.  A request that is turned away  *)
(* for its scheme, or is exempt, uses up no place, although the three      *)
(* checks, the limiter's failures and the restarts come in any order with  *)
(* those of other requests.  (http_security.py 97-168)                     *)
HandledWhenAdmitted ==
    \A r \in Requests :
        /\ Handled(r) =>
              /\ RequireHttps => shape[r].secure
              /\ CookieAuth /\ shape[r].cookie => shape[r].token
              /\ shape[r].limited =>
                    \/ req[r].place \in 1 .. limit
                    \/ FailMode[req[r].proc] = "open" /\ req[r].at = "degraded"
        /\ Counted(req[r]) => shape[r].limited /\ (RequireHttps => shape[r].secure)

(* What an answer says of the rate holds whatever the other processes do:  *)
(* with n remaining, nobody who takes one of the next n places of the key  *)
(* and window is turned away for the rate, and nobody who takes a place    *)
(* after them is let through by the limiter.  A request that fails once it *)
(* is counted keeps its place without being let through.  And a request    *)
(* that is turned away is told to wait for at least a second and at most a *)
(* window, also when its window has ended by then.                         *)
(* (http_security.py 132-145, shared_rate_limit.py 180-185)                *)
AnswersAreHonest ==
    \A r \in Requests :
        /\ http[r].remaining # None =>
              \A s \in Requests :
                  /\ Counts(req[s], req[r].key, WindowOf(req[r].stamp))
                  /\ req[s].place > req[r].place
                  => /\ req[s].at = "served" => req[s].place <= req[r].place + http[r].remaining
                     /\ req[s].at = "refused" => req[s].place > req[r].place + http[r].remaining
        /\ http[r].status = 429 => http[r].retry \in 1 .. Window

=============================================================================
