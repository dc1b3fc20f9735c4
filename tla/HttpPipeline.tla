----------------------------- MODULE HttpPipeline -----------------------------
(* What a request meets before and after its handler: the body parser, the     *)
(* routers, rate limiters, guards and pipes, asyncHandler and the error        *)
(* filter.  Layers run to the next await in one step; only rate limiters,      *)
(* which ask Redis, and handlers wait.                                         *)
EXTENDS Routes, RedisConnection, Bags

CONSTANTS MaxRequests,  \* bound: requests, each in a slot of its own
          Strays,       \* requests that name no route
          Scale         \* bound: the limits of the code are divided by it

ASSUME ScaleIsPositive == Scale \in Nat \ {0} /\ MaxRequests \in Nat

Requests == 1..MaxRequests

-------------------------------------------------------------------------------
(* Requests.                                                                   *)

Callers == {"anonymous", "badToken", "user", "admin"}
Emails == {"plain", "upper", "padded", "missing"}
Inputs == {"body", "params", "query", "nothing"}

(* Every route once, with values that other routes might take for their own.   *)
Targets ==
    LET pairs == UNION {{<<i, j>> : j \in DOMAIN Mounted[i].routes} : i \in DOMAIN Mounted}
    IN  {RequestFor(Mounted[p[1]], Mounted[p[1]].routes[p[2]], "x") : p \in pairs} \cup Strays

Meets(layers, kind) == {l \in Range(layers) : l.kind = kind}

EmailLimits ==
    {"signupOtpByEmail", "loginOtpByEmail", "magicLinkByEmail",
     "forgotPasswordOtpByEmail", "forgotPasswordMagicLinkByEmail"}

(* The requests for t that differ in what its layers look at: the token, the   *)
(* input that is invalid, the spelling of the address.                         *)
ArrivalsAt(t, layers) ==
    {[target |-> t, layers |-> layers, caller |-> c, invalid |-> i, email |-> e] :
        c \in IF Meets(layers, "guard") = {} THEN {"anonymous"} ELSE Callers,
        i \in {"nothing"} \cup {p.name : p \in Meets(layers, "pipe")},
        e \in IF \E l \in Meets(layers, "limit") : l.name \in EmailLimits THEN Emails ELSE {"plain"}}

(* A request carries the layers it meets.                                      *)
Arrivals == UNION {ArrivalsAt(t, Walk(t.method, t.path)) : t \in Targets}

(* An address that is missing does not pass the pipe.                          *)
Invalid(q, source) == q.invalid = source \/ (source = "body" /\ q.email = "missing")

-------------------------------------------------------------------------------
(* Errors and their status.                                                    *)

ErrorStatus ==
    [ConflictRequestError |-> 409, BadRequestError |-> 400, ForbiddenError |-> 403,
     NotFoundError |-> 404, UnauthorizedError |-> 401, ValidationError |-> 400,
     TooManyRequestsError |-> 429, ServiceUnavailableError |-> 503,
     RedisError |-> 500, DatabaseError |-> 500, InternalServerError |-> 500]

(* Defect: errors that are no ErrorResponse are answered with their own status.*)
StatusOfOwn(error) == IF error \in DOMAIN ErrorStatus THEN ErrorStatus[error] ELSE 0

(* handleError: MongoDB's errors first, then ErrorResponse, then any other.    *)
StatusOf(error) ==
    CASE error = "duplicateKey" -> 409
      [] error \in {"mongooseValidation", "mongooseCast"} -> 400
      [] error \in DOMAIN ErrorStatus -> ErrorStatus[error]
      [] OTHER -> 500

(* What a handler may throw; asyncDatabaseHandler wraps what it does not know. *)
HandlerErrors ==
    {"duplicateKey", "mongooseValidation", "mongooseCast", "other",
     "BadRequestError", "NotFoundError", "ServiceUnavailableError", "DatabaseError"}

-------------------------------------------------------------------------------
VARIABLES counts,   \* Redis: requests counted, a bag of buckets
          pc,       \* "new", "limit", "handler", "done" or "cut"
          req,      \* the request of a slot
          at,       \* the layer it has reached
          user,     \* RequestContext: whose token a guard has accepted
          answer,   \* the kind of answer it got
          checks,   \* history: credentials checked in the window of loginByIp
          mails     \* history: mails asked for one address in its window

slots == <<pc, req, at, user, answer>>
history == <<checks, mails>>
httpVars == <<counts, slots, history>>

NoRequest == [target |-> "none"]
NoAnswer == "none"

(* The class of a status is all that is remembered of an answer.               *)
Answer(status) ==
    CASE status \in 200..299 -> "success"
      [] status \in 400..499 -> "clientError"
      [] status \in 500..599 -> "serverError"
      [] OTHER -> "noStatus"

HttpTypeOK ==
    /\ IsABag(counts)
    /\ pc \in [Requests -> {"new", "limit", "handler", "done", "cut"}]
    /\ req \in [Requests -> Arrivals \cup {NoRequest}]
    /\ \A r \in Requests : pc[r] \in {"limit", "handler"} => req[r].layers[at[r]].kind = pc[r]
    /\ user \in [Requests -> Callers \ {"badToken"}]
    /\ \A r \in Requests : pc[r] = "done" <=> answer[r] \in {"success", "clientError", "serverError", "unformatted"}

HttpInit ==
    /\ counts = EmptyBag
    /\ pc = [r \in Requests |-> "new"]
    /\ req = [r \in Requests |-> NoRequest]
    /\ at = [r \in Requests |-> 0]
    /\ user = [r \in Requests |-> "anonymous"]
    /\ answer = [r \in Requests |-> NoAnswer]
    /\ checks = 0
    /\ mails = [l \in EmailLimits |-> 0]

-------------------------------------------------------------------------------
(* Guards and pipes.                                                           *)

HasToken(q) == q.caller \in {"user", "admin"}

(* The error a guard or pipe passes to next, or "none".                        *)
Outcome(layer, q) ==
    CASE layer = Auth -> IF HasToken(q) THEN "none" ELSE "UnauthorizedError"
      [] layer = OptionalAuth -> IF HasToken(q) \/ q.caller = "anonymous" THEN "none" ELSE "UnauthorizedError"
      [] layer = Admin -> IF ~HasToken(q) THEN "UnauthorizedError"
                          ELSE IF q.caller = "admin" THEN "none" ELSE "ForbiddenError"
      [] layer.kind = "pipe" -> IF Invalid(q, layer.name) THEN "ValidationError" ELSE "none"
      [] OTHER -> "none"

(* Whom RequestContext names after layers i..j, which were passed.             *)
Identity(q, i, j, before) ==
    IF HasToken(q) /\ \E k \in i..j : q.layers[k].kind = "guard" THEN q.caller ELSE before

-------------------------------------------------------------------------------
(* Rate limiters.                                                              *)

Limits ==
    [loginByIp |-> 30, loginOtpByIp |-> 10, loginOtpByEmail |-> 5,
     magicLinkByIp |-> 10, magicLinkByEmail |-> 5,
     signupOtpByIp |-> 5, signupOtpByEmail |-> 3, checkEmailByIp |-> 10,
     forgotPasswordOtpByIp |-> 10, forgotPasswordOtpByEmail |-> 5,
     forgotPasswordMagicLinkByIp |-> 10, forgotPasswordMagicLinkByEmail |-> 5,
     forgotPasswordResetByIp |-> 10, changePasswordByIpAndUser |-> 5,
     contactByIp |-> 5, updateProfileByIp |-> 10,
     adminUserMutationByIpAndUser |-> 20, categoriesByIp |-> 100]

(* The limits an instance is checked with, at least 1.                         *)
MaxOf(limit) == (Limits[limit] + Scale - 1) \div Scale

(* Defect: the address is taken as it is spelled.                              *)
EmailKeyAsSpelled(spelling) == IF spelling = "missing" THEN "unknown" ELSE spelling

(* req.body.email?.toLowerCase() || "unknown": spaces around it are kept.      *)
EmailKey(spelling) ==
    CASE spelling = "missing" -> "unknown"
      [] spelling = "upper" -> "plain"
      [] OTHER -> spelling

PerUser == {"changePasswordByIpAndUser", "adminUserMutationByIpAndUser"}

(* The bucket a request falls into; all come from one IP.                      *)
Bucket(limit, q, identity) ==
    <<limit, CASE limit \in EmailLimits -> EmailKey(q.email)
               [] limit \in PerUser -> identity
               [] OTHER -> "ip">>

(* The key generator of a limiter per user requires an identity.               *)
KeyThrows(layer, identity) ==
    layer.kind = "limit" /\ layer.name \in PerUser /\ identity = "anonymous"

-------------------------------------------------------------------------------
(* Handlers whose begin is counted.                                            *)

CredentialChecks == {"login.login", "login.verifyOtp", "login.verifyMagicLink", "unlock.unlockVerify"}

MailHandlers ==
    [signupOtpByEmail |-> {"signup.sendOtp", "signup.resendOtp"},
     loginOtpByEmail |-> {"login.sendOtp"},
     magicLinkByEmail |-> {"login.sendMagicLink"},
     forgotPasswordOtpByEmail |-> {"forgot.sendOtp"},
     forgotPasswordMagicLinkByEmail |-> {"forgot.sendMagicLink"}]

Count(handler, q) ==
    /\ checks' = IF handler \in CredentialChecks THEN checks + 1 ELSE checks
    /\ mails' = [l \in EmailLimits |->
                   IF handler \in MailHandlers[l] /\ q.email \in {"plain", "upper"} THEN mails[l] + 1 ELSE mails[l]]

-------------------------------------------------------------------------------
(* How often the bucket b has been counted.                                    *)
Counted(b, buckets) == IF b \in DOMAIN buckets THEN buckets[b] ELSE 0

(* The requests in `over` are over.                                            *)
Leave(over, mark) ==
    /\ pc' = [r \in Requests |-> IF r \in over THEN mark ELSE pc[r]]
    /\ req' = [r \in Requests |-> IF r \in over THEN NoRequest ELSE req[r]]
    /\ at' = [r \in Requests |-> IF r \in over THEN 0 ELSE at[r]]
    /\ user' = [r \in Requests |-> IF r \in over THEN "anonymous" ELSE user[r]]

RespondAll(over, a) ==
    /\ Leave(over, "done")
    /\ answer' = [r \in Requests |-> IF r \in over THEN a ELSE answer[r]]

Respond(r, a) == RespondAll({r}, a)

(* Request q of slot r waits at layer i.                                       *)
Wait(r, q, i, identity) ==
    /\ pc' = [pc EXCEPT ![r] = q.layers[i].kind]
    /\ req' = [req EXCEPT ![r] = q]
    /\ at' = [at EXCEPT ![r] = i]
    /\ user' = [user EXCEPT ![r] = identity]
    /\ UNCHANGED answer

(* A layer that waits or passes an error.                                      *)
Stops(q, k) == q.layers[k].kind \in {"limit", "handler"} \/ Outcome(q.layers[k], q) # "none"

FirstStop(q, i) ==
    CHOOSE k \in i..Len(q.layers) : Stops(q, k) /\ \A j \in i..(k - 1) : ~Stops(q, j)

(* The layers from i on run until one of them stops.                           *)
Run(r, q, i, before) ==
    LET stop == FirstStop(q, i)
        layer == q.layers[stop]
        identity == Identity(q, i, stop - 1, before)
    IN  CASE Outcome(layer, q) # "none" -> Respond(r, Answer(StatusOf(Outcome(layer, q)))) /\ UNCHANGED history
          [] KeyThrows(layer, identity) -> Respond(r, Answer(StatusOf("UnauthorizedError"))) /\ UNCHANGED history
          [] layer = NotFound -> Respond(r, Answer(StatusOf("NotFoundError"))) /\ UNCHANGED history
          [] layer.kind = "handler" /\ layer # NotFound -> Wait(r, q, stop, identity) /\ Count(layer.name, q)
          [] OTHER -> Wait(r, q, stop, identity) /\ UNCHANGED history

-------------------------------------------------------------------------------
LayerOf(r) == req[r].layers[at[r]]
BucketOf(r) == Bucket(LayerOf(r).name, req[r], user[r])

Arrive(r, q) ==
    /\ pc[r] = "new"
    /\ Run(r, q, 1, "anonymous")
    /\ UNCHANGED <<redisVars, counts>>

(* express.json fails before i18n: handleError finds no req.t, throws, and     *)
(* Express answers in its own way.                                             *)
ArriveMalformed(r) ==
    /\ pc[r] = "new"
    /\ Respond(r, "unformatted")
    /\ UNCHANGED <<redisVars, counts, history>>

(* The store counts the request, in one script, and the limiter decides.       *)
LimiterAnswers(r) ==
    /\ pc[r] = "limit"
    /\ link = "ready"
    /\ counts' = counts (+) SetToBag({BucketOf(r)})
    /\ IF Counted(BucketOf(r), counts') > MaxOf(LayerOf(r).name)
       THEN Respond(r, Answer(StatusOf("TooManyRequestsError"))) /\ UNCHANGED history
       ELSE Run(r, req[r], at[r] + 1, user[r])
    /\ UNCHANGED redisVars

(* A client that has ended refuses the command; the limiter passes the error.  *)
LimiterFails(r) ==
    /\ pc[r] = "limit"
    /\ link = "ended"
    /\ Respond(r, Answer(StatusOf("other")))
    /\ UNCHANGED <<redisVars, counts, history>>

HandlerAnswers(r) ==
    /\ pc[r] = "handler"
    /\ Respond(r, Answer(Handlers[LayerOf(r).name].success))
    /\ UNCHANGED <<redisVars, counts, history>>

(* asyncHandler passes what a handler throws to handleError.                   *)
HandlerThrows(r) ==
    /\ pc[r] = "handler"
    /\ \E error \in HandlerErrors : Respond(r, Answer(StatusOf(error)))
    /\ UNCHANGED <<redisVars, counts, history>>

(* The connection fails: limiters that wait get an error, whether or not the   *)
(* store has counted their requests.                                           *)
RedisLost ==
    LET waiting == {r \in Requests : pc[r] = "limit"}
    IN  /\ ConnectionLost
        /\ \E counted \in SUBSET waiting :
             counts' = counts (+) [b \in {BucketOf(r) : r \in counted} |->
                                     Cardinality({r \in counted : BucketOf(r) = b})]
        /\ RespondAll(waiting, Answer(StatusOf("other")))
        /\ UNCHANGED history

(* closeAllConnections: the requests that wait lose their connection.          *)
CutRequests ==
    /\ Leave({r \in Requests : pc[r] \in {"limit", "handler"}}, "cut")
    /\ UNCHANGED <<counts, answer, history>>

(* The window of a bucket ends: Redis drops its counter.                       *)
WindowEnds(b) ==
    /\ counts' = [x \in DOMAIN counts \ {b} |-> counts[x]]
    /\ checks' = IF b = <<"loginByIp", "ip">> THEN 0 ELSE checks
    /\ mails' = [l \in EmailLimits |-> IF b = <<l, "plain">> THEN 0 ELSE mails[l]]
    /\ UNCHANGED <<redisVars, slots>>

-------------------------------------------------------------------------------
(* Properties.                                                                 *)

InHandler(r) == pc[r] = "handler"

(* What is meant for administrators: all under /admin, in the API or beside    *)
(* it, but the dashboard of the queues, which is mounted without a guard.      *)
Dashboard == {Last(route.layers).name : route \in Range(QueuesRouter.routes)}

IsAdministrative(t, handler) ==
    /\ IsPrefix(<<"admin">>, t.path) \/ IsPrefix(MountV1 \o <<"admin">>, t.path)
    /\ handler \notin Dashboard

(* What the table of routes promises of the layers a request meets: they end   *)
(* with their only handler, ...                                                *)
Layers == [kind : {"limit", "guard", "pipe", "handler"}, name : STRING]

EndsWithHandler(q) ==
    /\ q.layers \in Seq(Layers) \ {<<>>}
    /\ \A i \in DOMAIN q.layers : q.layers[i].kind = "handler" <=> i = Len(q.layers)

IsRouted(q) == Last(q.layers) # NotFound

(* ... that handler is the one of the request's own route and is known, ...    *)
HasOwnHandler(q) ==
    /\ Last(q.layers).name \in DOMAIN Handlers
    /\ Handlers[Last(q.layers).name].success \in 200..299
    /\ \E i \in DOMAIN Mounted : \E route \in Range(Mounted[i].routes) :
          RequestFor(Mounted[i], route, "x") = q.target /\ Last(route.layers) = Last(q.layers)

(* ... the guards it relies on are in front of it, ...                         *)
HasGuards(q) ==
    /\ IsAdministrative(q.target, Last(q.layers).name) => Admin \in Range(q.layers)
    /\ Handlers[Last(q.layers).name].needs = "user" => {Auth, Admin} \cap Range(q.layers) # {}

(* ... and the limiter of what it does is the last one before it.              *)
LastLimitIs(q, l) ==
    \E i \in DOMAIN q.layers :
        q.layers[i] = Limit(l) /\ \A j \in DOMAIN q.layers : j > i => q.layers[j].kind # "limit"

HasLimits(q) ==
    /\ Last(q.layers).name \in CredentialChecks => LastLimitIs(q, "loginByIp")
    /\ \A l \in EmailLimits : Last(q.layers).name \in MailHandlers[l] => LastLimitIs(q, l)

RoutesAreSound ==
    \A q \in Arrivals :
        /\ EndsWithHandler(q)
        /\ IsRouted(q) => HasOwnHandler(q) /\ HasGuards(q) /\ HasLimits(q)

(* A handler under /admin or /api/v1/admin, except those of the dashboard of   *)
(* the queues, begins only for a token of an administrator: the guards of each *)
(* router cover every route it will ever match.                                *)
OnlyAdminsAdminister ==
    \A r \in Requests :
        InHandler(r) /\ IsAdministrative(req[r].target, LayerOf(r).name) => req[r].caller = "admin"

(* A handler whose service requires an identity finds the caller's, whatever   *)
(* the limiters' awaits in between: requireUserId never throws.                *)
HandlersHaveIdentity ==
    \A r \in Requests :
        InHandler(r) /\ Handlers[LayerOf(r).name].needs = "user" =>
            user[r] = req[r].caller /\ user[r] # "anonymous"

(* Whoever reaches a handler has passed the guards it relies on; the dashboard *)
(* of the queues relies on none.                                               *)
GuardsHold == OnlyAdminsAdminister /\ HandlersHaveIdentity

(* The handler that runs is one the request's own route declares: no route of  *)
(* this or an earlier router takes it, and a stray request reaches none.       *)
OwnHandlerAnswers ==
    \A r \in Requests :
        InHandler(r) =>
            \E i \in DOMAIN Mounted : \E route \in Range(Mounted[i].routes) :
                /\ RequestFor(Mounted[i], route, "x") = req[r].target
                /\ Last(route.layers) = LayerOf(r)

(* However requests overlap, no more credentials are checked for an IP in a    *)
(* window than loginByIp admits, over all four ways to present one, and no     *)
(* more mails of a kind are asked for an address than its limiter admits.      *)
AttemptsBounded ==
    /\ checks <= MaxOf("loginByIp")
    /\ \A l \in EmailLimits : mails[l] <= MaxOf(l)

(* README: all errors are processed by the global error handler into a         *)
(* consistent JSON format.                                                     *)
ErrorsAreFormatted == \A r \in Requests : answer[r] # "unformatted"
===============================================================================
