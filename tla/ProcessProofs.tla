----------------------------- MODULE ProcessProofs -----------------------------
(* Proofs about the process: the requests it serves and its connections, for   *)
(* any number of requests, outages, retries and shutdowns; and the circuit     *)
(* breaker its mails go through, for any set of mails, threshold and quota.    *)
(* Those about requests assume RoutesAreSound of the constant table of routes, *)
(* which TLC evaluates as a part of TypeOK.                                    *)
EXTENDS EmailDelivery, Server, FiniteSetTheorems, WellFoundedInduction, TLAPS

Classes == {"success", "clientError", "serverError", "unformatted"}
Marks == {"new", "limit", "handler", "done", "cut"}

-------------------------------------------------------------------------------
(* Layers.                                                                     *)

LEMMA ArrivalFields ==
    ASSUME NEW q \in Arrivals
    PROVE  q.caller \in Callers
BY DEF Arrivals, ArrivalsAt, Callers

LEMMA LayerShape ==
    ASSUME NEW q, EndsWithHandler(q)
    PROVE  /\ q.layers \in Seq(Layers) /\ Len(q.layers) \in Nat \ {0}
           /\ DOMAIN q.layers = 1..Len(q.layers)
           /\ \A i \in 1..Len(q.layers) : q.layers[i] \in Layers
           /\ q.layers[Len(q.layers)].kind = "handler"
           /\ Last(q.layers) = q.layers[Len(q.layers)]
BY DEF EndsWithHandler, Last

(* Limiters and handlers pass no error.                                        *)
LEMMA OutcomeOfStops ==
    ASSUME NEW q, NEW layer, layer.kind \in {"limit", "handler"}
    PROVE  Outcome(layer, q) = "none"
<1>1. layer \notin {Auth, OptionalAuth, Admin} /\ layer.kind # "pipe"
    BY DEF Auth, OptionalAuth, Admin, Guard
<1> QED
    BY <1>1 DEF Outcome

(* A non-empty set of numbers has a least one.                                 *)
LEMMA LeastOf ==
    ASSUME NEW S \in SUBSET Nat, S # {}
    PROVE  \E k \in S : \A j \in S : k <= j
<1>1. PICK k \in S : \A y \in S : ~(<<y, k>> \in OpToRel(<, Nat))
    BY NatLessThanWellFounded, WFMin
<1>2. \A j \in S : ~(j < k)
    BY <1>1 DEF OpToRel
<1> QED
    BY <1>2

(* Some layer stops the request, and Run finds the first.                      *)
LEMMA FirstStopExists ==
    ASSUME NEW q, EndsWithHandler(q), NEW i \in 1..Len(q.layers)
    PROVE  /\ FirstStop(q, i) \in i..Len(q.layers)
           /\ Stops(q, FirstStop(q, i))
           /\ \A j \in i..(FirstStop(q, i) - 1) : ~Stops(q, j)
<1> DEFINE n == Len(q.layers)
           S == {k \in i..n : Stops(q, k)}
<1>1. n \in Nat /\ Stops(q, n)
    BY LayerShape DEF Stops
<1>2. S \in SUBSET Nat /\ n \in S
    BY <1>1
<1>3. PICK k \in S : \A j \in S : k <= j
    BY <1>2, LeastOf
<1>4. k \in i..n /\ Stops(q, k) /\ \A j \in i..(k - 1) : ~Stops(q, j)
    BY <1>1, <1>3
<1> QED
    BY <1>4 DEF FirstStop

-------------------------------------------------------------------------------
(* Where a request stands.                                                     *)

(* The layers up to i let q pass.                                              *)
Passed(q, i) == \A j \in 1..i : Outcome(q.layers[j], q) = "none"

(* q waits at layer i, of kind mark, with the identity u that the guards in    *)
(* front of it have established.                                               *)
StandsAt(q, i, u, mark) ==
    /\ q \in Arrivals
    /\ i \in 1..Len(q.layers)
    /\ q.layers[i].kind = mark
    /\ q.layers[i] # NotFound
    /\ Passed(q, i - 1)
    /\ u = Identity(q, 1, i - 1, "anonymous")

(* Guards are remembered from layer to layer.                                  *)
LEMMA IdentityGoesOn ==
    ASSUME NEW q, NEW i \in Nat, NEW k \in Nat, i <= k
    PROVE  Identity(q, i + 1, k, Identity(q, 1, i, "anonymous")) = Identity(q, 1, k, "anonymous")
<1>1. (\E j \in 1..k : q.layers[j].kind = "guard")
        <=> (\E j \in 1..i : q.layers[j].kind = "guard") \/ (\E j \in (i + 1)..k : q.layers[j].kind = "guard")
    OBVIOUS
<1> QED
    BY <1>1 DEF Identity

LEMMA IdentityPasses ==
    ASSUME NEW q, NEW i \in Nat \ {0}, q.layers[i].kind # "guard"
    PROVE  Identity(q, 1, i, "anonymous") = Identity(q, 1, i - 1, "anonymous")
<1>1. (\E k \in 1..i : q.layers[k].kind = "guard") <=> (\E k \in 1..(i - 1) : q.layers[k].kind = "guard")
    OBVIOUS
<1> QED
    BY <1>1 DEF Identity

LEMMA IdentityType ==
    ASSUME NEW q \in Arrivals, NEW i, NEW k
    PROVE  Identity(q, i, k, "anonymous") \in Callers \ {"badToken"}
BY DEF Identity, HasToken, Callers

(* Every error a layer or a handler may pass has a class.                      *)
Errors == {"UnauthorizedError", "ForbiddenError", "ValidationError", "NotFoundError",
           "TooManyRequestsError", "other"} \cup HandlerErrors

LEMMA ErrorsHaveClass ==
    ASSUME NEW error \in Errors
    PROVE  Answer(StatusOf(error)) \in Classes
<1>1. StatusOf(error) \in 400..599
    BY DEF StatusOf, ErrorStatus, Errors, HandlerErrors
<1> QED
    BY <1>1 DEF Answer, Classes

LEMMA OutcomeIsError ==
    ASSUME NEW layer, NEW q
    PROVE  Outcome(layer, q) \in Errors \cup {"none"}
BY DEF Outcome, Errors

-------------------------------------------------------------------------------
(* What Run does: it answers with an error, or the request waits at its next   *)
(* limiter, or its own handler begins; no limiter is left out.                 *)
AnswersError(r) ==
    /\ \E error \in Errors : Respond(r, Answer(StatusOf(error)))
    /\ UNCHANGED history

WaitsAt(r, q, i, k) ==
    /\ Wait(r, q, k, Identity(q, 1, k - 1, "anonymous"))
    /\ StandsAt(q, k, Identity(q, 1, k - 1, "anonymous"), q.layers[k].kind)
    /\ \A j \in i..(k - 1) : q.layers[j].kind # "limit"

WaitsForLimiter(r, q, i, k) ==
    /\ WaitsAt(r, q, i, k)
    /\ q.layers[k].kind = "limit"
    /\ UNCHANGED history

BeginsHandler(r, q, i) ==
    /\ WaitsAt(r, q, i, Len(q.layers))
    /\ IsRouted(q)
    /\ Count(Last(q.layers).name, q)

LEMMA RunEffect ==
    ASSUME RoutesAreSound,
           NEW r \in Requests, NEW q \in Arrivals, NEW i \in 1..Len(q.layers), NEW before,
           Passed(q, i - 1), before = Identity(q, 1, i - 1, "anonymous"),
           Run(r, q, i, before)
    PROVE  \/ AnswersError(r)
           \/ \E k \in i..Len(q.layers) : WaitsForLimiter(r, q, i, k)
           \/ BeginsHandler(r, q, i)
<1> DEFINE stop == FirstStop(q, i)
           layer == q.layers[stop]
           identity == Identity(q, i, stop - 1, before)
<1>1. EndsWithHandler(q)
    BY DEF RoutesAreSound
<1>2. /\ stop \in i..Len(q.layers) /\ stop \in 1..Len(q.layers)
      /\ Stops(q, stop)
      /\ \A j \in i..(stop - 1) : ~Stops(q, j)
      /\ layer \in Layers
    BY <1>1, FirstStopExists, LayerShape
<1>3. identity = Identity(q, 1, stop - 1, "anonymous")
    <2>1. /\ i - 1 \in Nat /\ stop - 1 \in Nat /\ i - 1 <= stop - 1
          /\ (i - 1) + 1 = i
        BY <1>2, LayerShape, <1>1
    <2> QED
        BY <2>1, IdentityGoesOn
<1>4. \A j \in i..(stop - 1) : Outcome(q.layers[j], q) = "none" /\ q.layers[j].kind # "limit"
    BY <1>2 DEF Stops
<1>5. Passed(q, stop - 1)
    <2>1. \A j \in 1..(stop - 1) : j \in 1..(i - 1) \/ j \in i..(stop - 1)
        BY <1>2, LayerShape, <1>1
    <2> QED
        BY <1>4, <2>1 DEF Passed
<1>6. layer.kind = "handler" => stop = Len(q.layers)
    BY <1>1, <1>2, LayerShape DEF EndsWithHandler
<1>7. IsRouted(q) <=> q.layers[Len(q.layers)] # NotFound
    BY <1>1, LayerShape DEF IsRouted
<1>8. NotFound.kind = "handler"
    BY DEF NotFound, Handler
<1>9. Outcome(layer, q) = "none" => layer.kind \in {"limit", "handler"}
    BY <1>2 DEF Stops
<1>10. layer.kind \in {"limit", "handler"} => Outcome(layer, q) = "none"
    BY OutcomeOfStops
<1>11. CASE Outcome(layer, q) # "none"
    <2>1. Respond(r, Answer(StatusOf(Outcome(layer, q)))) /\ UNCHANGED history
        BY <1>9, <1>10, <1>11, <1>8 DEF Run, KeyThrows
    <2> QED
        BY <2>1, <1>11, OutcomeIsError DEF AnswersError
<1>12. CASE Outcome(layer, q) = "none" /\ (KeyThrows(layer, identity) \/ layer = NotFound)
    <2>1. (Respond(r, Answer(StatusOf("UnauthorizedError"))) \/ Respond(r, Answer(StatusOf("NotFoundError"))))
          /\ UNCHANGED history
        BY <1>12, <1>8 DEF Run, KeyThrows
    <2> QED
        BY <2>1 DEF AnswersError, Errors
<1>13. CASE Outcome(layer, q) = "none" /\ layer.kind = "handler" /\ layer # NotFound
    <2>1. Wait(r, q, stop, identity) /\ Count(layer.name, q)
        BY <1>13 DEF Run, KeyThrows
    <2>2. stop = Len(q.layers) /\ layer = Last(q.layers)
        BY <1>13, <1>6, LayerShape, <1>1
    <2> QED
        BY <2>1, <2>2, <1>2, <1>3, <1>4, <1>5, <1>7, <1>13 DEF BeginsHandler, WaitsAt, StandsAt
<1>14. CASE Outcome(layer, q) = "none" /\ layer.kind = "limit" /\ ~KeyThrows(layer, identity)
    <2>1. Wait(r, q, stop, identity) /\ UNCHANGED history
        BY <1>14, <1>8 DEF Run
    <2>2. WaitsForLimiter(r, q, i, stop)
        BY <2>1, <1>2, <1>3, <1>4, <1>5, <1>8, <1>14 DEF WaitsForLimiter, WaitsAt, StandsAt
    <2> QED
        BY <2>2, <1>2
<1> QED
    BY <1>9, <1>11, <1>12, <1>13, <1>14

-------------------------------------------------------------------------------
(* The requests.                                                               *)

SlotsOK ==
    /\ pc \in [Requests -> Marks]
    /\ req \in [Requests -> Arrivals \cup {NoRequest}]
    /\ at \in [Requests -> Nat]
    /\ user \in [Requests -> Callers \ {"badToken"}]
    /\ answer \in [Requests -> Classes \cup {NoAnswer}]
    /\ \A r \in Requests : pc[r] = "done" <=> answer[r] # NoAnswer
    /\ \A r \in Requests :
          pc[r] \in {"limit", "handler"} => StandsAt(req[r], at[r], user[r], pc[r])

LEMMA SlotsInit ==
    ASSUME HttpInit
    PROVE  SlotsOK
BY DEF HttpInit, SlotsOK, Marks, Callers, Classes, NoAnswer

LEMMA AnswerKeepsSlots ==
    ASSUME SlotsOK, NEW over \in SUBSET Requests, NEW a \in Classes, RespondAll(over, a)
    PROVE  SlotsOK'
BY DEF SlotsOK, RespondAll, Leave, Marks, Callers, Classes, NoAnswer

LEMMA CutKeepsSlots ==
    ASSUME SlotsOK, CutRequests
    PROVE  SlotsOK'
BY DEF SlotsOK, CutRequests, Leave, Marks, Callers

LEMMA WaitKeepsSlots ==
    ASSUME SlotsOK, NEW r \in Requests, pc[r] \in {"new", "limit"},
           NEW q \in Arrivals, NEW i, NEW k \in 1..Len(q.layers), WaitsAt(r, q, i, k),
           q.layers[k].kind \in {"limit", "handler"}
    PROVE  SlotsOK'
<1> DEFINE u == Identity(q, 1, k - 1, "anonymous")
           mark == q.layers[k].kind
<1>1. u \in Callers \ {"badToken"}
    BY IdentityType
<1>2. StandsAt(q, k, u, mark) /\ k \in Nat /\ mark \in Marks
    BY DEF WaitsAt, Marks
<1>3. /\ pc' = [pc EXCEPT ![r] = mark] /\ req' = [req EXCEPT ![r] = q]
      /\ at' = [at EXCEPT ![r] = k] /\ user' = [user EXCEPT ![r] = u]
      /\ answer' = answer
    BY DEF WaitsAt, Wait
<1> HIDE DEF u, mark
<1>4. mark # "done"
    BY DEF mark
<1> QED
    BY <1>1, <1>2, <1>3, <1>4 DEF SlotsOK

LEMMA RunKeepsSlots ==
    ASSUME RoutesAreSound, SlotsOK, NEW r \in Requests, pc[r] \in {"new", "limit"},
           NEW q \in Arrivals, NEW i \in 1..Len(q.layers),
           AnswersError(r) \/ (\E k \in i..Len(q.layers) : WaitsForLimiter(r, q, i, k)) \/ BeginsHandler(r, q, i)
    PROVE  SlotsOK'
<1>1. EndsWithHandler(q)
    BY DEF RoutesAreSound
<1>2. CASE AnswersError(r)
    BY <1>2, ErrorsHaveClass, AnswerKeepsSlots DEF AnswersError, Respond
<1>3. CASE \E k \in i..Len(q.layers) : WaitsForLimiter(r, q, i, k)
    <2>1. PICK k \in i..Len(q.layers) : WaitsForLimiter(r, q, i, k)
        BY <1>3
    <2>2. k \in 1..Len(q.layers)
        BY LayerShape, <1>1
    <2> QED
        BY <2>1, <2>2, WaitKeepsSlots DEF WaitsForLimiter
<1>4. CASE BeginsHandler(r, q, i)
    <2>1. Len(q.layers) \in 1..Len(q.layers) /\ q.layers[Len(q.layers)].kind = "handler"
        BY LayerShape, <1>1
    <2> QED
        BY <1>4, <2>1, WaitKeepsSlots DEF BeginsHandler
<1> QED
    BY <1>2, <1>3, <1>4

-------------------------------------------------------------------------------
(* Where a request goes on.                                                    *)

LEMMA ArriveEffect ==
    ASSUME RoutesAreSound, NEW r \in Requests, NEW q \in Arrivals, Arrive(r, q)
    PROVE  /\ pc[r] = "new" /\ 1 \in 1..Len(q.layers)
           /\ \/ AnswersError(r)
              \/ \E k \in 1..Len(q.layers) : WaitsForLimiter(r, q, 1, k)
              \/ BeginsHandler(r, q, 1)
<1>1. 1 \in 1..Len(q.layers)
    BY LayerShape DEF RoutesAreSound
<1>2. Passed(q, 1 - 1) /\ "anonymous" = Identity(q, 1, 1 - 1, "anonymous")
    BY DEF Passed, Identity
<1>3. Run(r, q, 1, "anonymous") /\ pc[r] = "new"
    BY DEF Arrive
<1> QED
    BY <1>1, <1>2, <1>3, RunEffect

(* A request that waits for a limiter has a layer after it.                    *)
LEMMA AfterLimiter ==
    ASSUME RoutesAreSound, SlotsOK, NEW r \in Requests, pc[r] = "limit"
    PROVE  /\ req[r] \in Arrivals /\ at[r] \in Nat \ {0}
           /\ at[r] + 1 \in 1..Len(req[r].layers)
           /\ LayerOf(r).kind = "limit"
           /\ Passed(req[r], at[r])
           /\ user[r] = Identity(req[r], 1, at[r], "anonymous")
<1>1. StandsAt(req[r], at[r], user[r], "limit")
    BY DEF SlotsOK
<1>2. EndsWithHandler(req[r]) /\ at[r] \in 1..Len(req[r].layers) /\ LayerOf(r).kind = "limit"
    BY <1>1 DEF StandsAt, RoutesAreSound, LayerOf
<1>3. at[r] # Len(req[r].layers)
    BY <1>2, LayerShape DEF LayerOf
<1>4. at[r] \in Nat \ {0} /\ at[r] + 1 \in 1..Len(req[r].layers)
    BY <1>2, <1>3, LayerShape
<1>5. Outcome(LayerOf(r), req[r]) = "none"
    BY <1>2, OutcomeOfStops
<1>6. Passed(req[r], at[r])
    <2>1. \A j \in 1..at[r] : j \in 1..(at[r] - 1) \/ j = at[r]
        BY <1>4
    <2> QED
        BY <1>1, <1>5, <2>1 DEF StandsAt, Passed, LayerOf
<1>7. user[r] = Identity(req[r], 1, at[r], "anonymous")
    BY <1>1, <1>2, <1>4, IdentityPasses DEF StandsAt, LayerOf
<1> QED
    BY <1>1, <1>2, <1>4, <1>6, <1>7 DEF StandsAt

LEMMA LimiterEffect ==
    ASSUME RoutesAreSound, SlotsOK, NEW r \in Requests, LimiterAnswers(r)
    PROVE  /\ pc[r] = "limit"
           /\ \/ AnswersError(r)
              \/ /\ ~(Counted(BucketOf(r), counts') > MaxOf(LayerOf(r).name))
                 /\ \/ AnswersError(r)
                    \/ \E k \in (at[r] + 1)..Len(req[r].layers) : WaitsForLimiter(r, req[r], at[r] + 1, k)
                    \/ BeginsHandler(r, req[r], at[r] + 1)
<1>1. pc[r] = "limit"
    BY DEF LimiterAnswers
<1>2. CASE Counted(BucketOf(r), counts') > MaxOf(LayerOf(r).name)
    BY <1>1, <1>2 DEF LimiterAnswers, AnswersError, Errors
<1>3. CASE ~(Counted(BucketOf(r), counts') > MaxOf(LayerOf(r).name))
    <2>1. Run(r, req[r], at[r] + 1, user[r])
        BY <1>3 DEF LimiterAnswers
    <2>2. (at[r] + 1) - 1 = at[r]
        BY <1>1, AfterLimiter
    <2> QED
        BY <1>1, <1>3, <2>1, <2>2, AfterLimiter, RunEffect
<1> QED
    BY <1>2, <1>3

-------------------------------------------------------------------------------
(* A request in its handler.                                                   *)

LEMMA HandlersAreKnown ==
    ASSUME RoutesAreSound, NEW q, NEW i, NEW u, StandsAt(q, i, u, "handler")
    PROVE  /\ i = Len(q.layers) /\ q.layers[i] = Last(q.layers)
           /\ HasOwnHandler(q) /\ HasGuards(q)
           /\ Handlers[q.layers[i].name].success \in 200..299
<1>1. q \in Arrivals /\ i \in 1..Len(q.layers) /\ q.layers[i].kind = "handler" /\ q.layers[i] # NotFound
    BY DEF StandsAt
<1>2. EndsWithHandler(q)
    BY <1>1 DEF RoutesAreSound
<1>3. i = Len(q.layers) /\ q.layers[i] = Last(q.layers)
    BY <1>1, <1>2, LayerShape DEF EndsWithHandler
<1>4. HasOwnHandler(q) /\ HasGuards(q)
    BY <1>1, <1>3 DEF RoutesAreSound, IsRouted
<1> QED
    BY <1>3, <1>4 DEF HasOwnHandler

(* Its guards were passed, so its token is one they accept and is remembered.  *)
LEMMA StandingIsGuarded ==
    ASSUME RoutesAreSound, NEW q, NEW i, NEW u, StandsAt(q, i, u, "handler")
    PROVE  /\ IsAdministrative(q.target, q.layers[i].name) => q.caller = "admin"
           /\ Handlers[q.layers[i].name].needs = "user" => u = q.caller /\ u # "anonymous"
<1>1. /\ q \in Arrivals /\ EndsWithHandler(q)
      /\ i = Len(q.layers) /\ q.layers[i] = Last(q.layers) /\ HasGuards(q)
      /\ Passed(q, i - 1) /\ u = Identity(q, 1, i - 1, "anonymous")
      /\ q.layers[i].kind = "handler"
    BY HandlersAreKnown DEF StandsAt, RoutesAreSound
<1>2. ASSUME NEW guard, guard.kind = "guard", guard \in Range(q.layers)
      PROVE  Outcome(guard, q) = "none" /\ \E k \in 1..(i - 1) : q.layers[k].kind = "guard"
    <2>1. PICK k \in 1..Len(q.layers) : q.layers[k] = guard
        BY <1>1, <1>2, LayerShape DEF Range
    <2>2. k # i
        BY <1>1, <1>2, <2>1
    <2>3. k \in 1..(i - 1)
        BY <1>1, <2>1, <2>2, LayerShape
    <2> QED
        BY <1>1, <1>2, <2>1, <2>3 DEF Passed
<1>3. Auth.kind = "guard" /\ Admin.kind = "guard" /\ Auth # Admin
      /\ Auth # OptionalAuth /\ Admin # OptionalAuth
    BY DEF Auth, Admin, OptionalAuth, Guard
<1>4. Outcome(Admin, q) = "none" => q.caller = "admin" /\ HasToken(q)
    BY <1>3 DEF Outcome, HasToken
<1>5. Outcome(Auth, q) = "none" => HasToken(q)
    BY <1>3 DEF Outcome
<1>6. HasToken(q) /\ (\E k \in 1..(i - 1) : q.layers[k].kind = "guard") => u = q.caller /\ u # "anonymous"
    BY <1>1 DEF Identity, HasToken
<1>7. IsAdministrative(q.target, q.layers[i].name) => q.caller = "admin"
    BY <1>1, <1>2, <1>3, <1>4 DEF HasGuards
<1>8. Handlers[q.layers[i].name].needs = "user" => u = q.caller /\ u # "anonymous"
    BY <1>1, <1>2, <1>3, <1>4, <1>5, <1>6 DEF HasGuards
<1> QED
    BY <1>7, <1>8

-------------------------------------------------------------------------------
(* The counters of the limiters.                                               *)

LEMMA CountedIsNat ==
    ASSUME NEW c, IsABag(c), NEW b
    PROVE  Counted(b, c) \in Nat
BY DEF IsABag, Counted

LEMMA CountsOneMore ==
    ASSUME NEW c, IsABag(c), NEW b, NEW d, d = c (+) SetToBag({b})
    PROVE  /\ IsABag(d)
           /\ Counted(b, d) = Counted(b, c) + 1
           /\ \A x : Counted(x, d) >= Counted(x, c)
<1>1. DOMAIN d = DOMAIN c \cup {b}
    BY DEF (+), SetToBag
<1>2. \A x \in DOMAIN d :
         d[x] = (IF x \in DOMAIN c THEN c[x] ELSE 0) + (IF x = b THEN 1 ELSE 0)
    BY DEF (+), SetToBag
<1>3. d = [x \in DOMAIN d |-> d[x]]
    BY DEF (+), SetToBag
<1>4. \A x \in DOMAIN c : c[x] \in Nat /\ c[x] > 0
    BY DEF IsABag
<1> QED
    BY <1>1, <1>2, <1>3, <1>4 DEF IsABag, Counted

LEMMA CountsSomeMore ==
    ASSUME NEW c, IsABag(c), NEW e, IsABag(e)
    PROVE  IsABag(c (+) e) /\ \A x : Counted(x, c (+) e) >= Counted(x, c)
<1> DEFINE d == c (+) e
<1>1. DOMAIN d = DOMAIN c \cup DOMAIN e
    BY DEF (+)
<1>2. \A x \in DOMAIN d :
         d[x] = (IF x \in DOMAIN c THEN c[x] ELSE 0) + (IF x \in DOMAIN e THEN e[x] ELSE 0)
    BY DEF (+)
<1>3. d = [x \in DOMAIN d |-> d[x]]
    BY DEF (+)
<1>4. (\A x \in DOMAIN c : c[x] \in Nat /\ c[x] > 0) /\ \A x \in DOMAIN e : e[x] \in Nat /\ e[x] > 0
    BY DEF IsABag
<1> HIDE DEF d
<1>5. IsABag(d) /\ \A x : Counted(x, d) >= Counted(x, c)
    BY <1>1, <1>2, <1>3, <1>4 DEF IsABag, Counted
<1> QED
    BY <1>5 DEF d

LEMMA LimitsAreNumbers ==
    /\ MaxOf("loginByIp") \in Nat
    /\ \A l \in EmailLimits : MaxOf(l) \in Nat
<1>1. \A n \in Nat : n > 0 => (n + Scale - 1) \div Scale \in Nat
    BY ScaleIsPositive
<1>2. Limits["loginByIp"] \in Nat /\ Limits["loginByIp"] > 0
    BY DEF Limits
<1>3. \A l \in EmailLimits : Limits[l] \in Nat /\ Limits[l] > 0
    BY DEF Limits, EmailLimits
<1> QED
    BY <1>1, <1>2, <1>3 DEF MaxOf

LoginBucket == <<"loginByIp", "ip">>

(* Inductive: what has begun in a window was counted in it before.             *)
LimitsOK ==
    /\ IsABag(counts)
    /\ checks \in Nat /\ checks <= Counted(LoginBucket, counts) /\ checks <= MaxOf("loginByIp")
    /\ mails \in [EmailLimits -> Nat]
    /\ \A l \in EmailLimits : mails[l] <= Counted(<<l, "plain">>, counts) /\ mails[l] <= MaxOf(l)

LEMMA LimitsInit ==
    ASSUME HttpInit
    PROVE  LimitsOK
BY LimitsAreNumbers DEF HttpInit, LimitsOK, IsABag, EmptyBag, SetToBag, Counted

(* Nothing begins, and the counters only grow.                                 *)
LEMMA CountingKeepsLimits ==
    ASSUME LimitsOK, UNCHANGED history, IsABag(counts'),
           \A x : Counted(x, counts') >= Counted(x, counts)
    PROVE  LimitsOK'
<1>1. checks' = checks /\ mails' = mails
    BY DEF history
<1>2. \A x : Counted(x, counts) \in Nat /\ Counted(x, counts') \in Nat
    BY CountedIsNat DEF LimitsOK
<1>3. \A x \in Nat, y \in Nat, z \in Nat : x <= y /\ z >= y => x <= z
    OBVIOUS
<1> QED
    BY <1>1, <1>2, <1>3 DEF LimitsOK

(* Between a handler and its last limiter there is no other.                   *)
LEMMA LastLimiterStands ==
    ASSUME NEW q \in Arrivals, EndsWithHandler(q), NEW i \in 1..Len(q.layers), NEW l, LastLimitIs(q, l),
           \A j \in i..(Len(q.layers) - 1) : q.layers[j].kind # "limit"
    PROVE  i > 1 /\ (q.layers[i - 1].kind = "limit" => q.layers[i - 1] = Limit(l))
<1>1. PICK k \in 1..Len(q.layers) :
         q.layers[k] = Limit(l) /\ \A j \in 1..Len(q.layers) : j > k => q.layers[j].kind # "limit"
    BY LayerShape DEF LastLimitIs
<1>2. q.layers[k].kind = "limit"
    BY <1>1 DEF Limit
<1>3. k # Len(q.layers) /\ Len(q.layers) \in Nat
    BY <1>2, LayerShape
<1>4. k \notin i..(Len(q.layers) - 1)
    BY <1>2
<1>5. k < i /\ i - 1 \in 1..Len(q.layers) /\ k \in Nat
    BY <1>3, <1>4
<1>6. q.layers[i - 1].kind = "limit" => k = i - 1
    BY <1>1, <1>5
<1> QED
    BY <1>1, <1>5, <1>6

(* A handler that begins when a request arrives is counted by no limiter.      *)
LEMMA UnlimitedKeepsLimits ==
    ASSUME RoutesAreSound, LimitsOK, UNCHANGED counts,
           NEW r \in Requests, NEW q \in Arrivals, BeginsHandler(r, q, 1)
    PROVE  LimitsOK'
<1> DEFINE h == Last(q.layers).name
<1>1. EndsWithHandler(q) /\ HasLimits(q) /\ Count(h, q)
    BY DEF RoutesAreSound, BeginsHandler
<1>2. 1 \in 1..Len(q.layers) /\ \A j \in 1..(Len(q.layers) - 1) : q.layers[j].kind # "limit"
    BY <1>1, LayerShape DEF BeginsHandler, WaitsAt
<1>3. \A l : ~LastLimitIs(q, l)
    BY <1>1, <1>2, LastLimiterStands
<1>4. h \notin CredentialChecks /\ \A l \in EmailLimits : h \notin MailHandlers[l]
    BY <1>1, <1>3 DEF HasLimits
<1> HIDE DEF h
<1>5. checks' = checks /\ mails' = [l \in EmailLimits |-> mails[l]]
    BY <1>1, <1>4 DEF Count
<1>6. mails' = mails
    BY <1>5 DEF LimitsOK
<1> QED
    BY <1>5, <1>6 DEF LimitsOK

(* One that begins when its limiter has answered is counted by that one.       *)
LEMMA LimitedKeepsLimits ==
    ASSUME RoutesAreSound, SlotsOK, LimitsOK,
           NEW r \in Requests, LimiterAnswers(r),
           ~(Counted(BucketOf(r), counts') > MaxOf(LayerOf(r).name)),
           BeginsHandler(r, req[r], at[r] + 1)
    PROVE  LimitsOK'
<1> DEFINE q == req[r]
           h == Last(q.layers).name
           b == BucketOf(r)
<1>1. pc[r] = "limit" /\ counts' = counts (+) SetToBag({b})
    BY DEF LimiterAnswers
<1>2. /\ q \in Arrivals /\ at[r] \in Nat \ {0} /\ at[r] + 1 \in 1..Len(q.layers)
      /\ LayerOf(r).kind = "limit" /\ LayerOf(r) = q.layers[at[r]]
    BY <1>1, AfterLimiter DEF LayerOf
<1>3. EndsWithHandler(q) /\ HasLimits(q) /\ Count(h, q)
    BY <1>2 DEF RoutesAreSound, BeginsHandler
<1>4. \A l : LastLimitIs(q, l) => LayerOf(r) = Limit(l)
    <2>1. \A j \in (at[r] + 1)..(Len(q.layers) - 1) : q.layers[j].kind # "limit"
        BY DEF BeginsHandler, WaitsAt
    <2>2. (at[r] + 1) - 1 = at[r]
        BY <1>2
    <2> QED
        BY <1>2, <1>3, <2>1, <2>2, LastLimiterStands
<1>5. /\ IsABag(counts') /\ Counted(b, counts') = Counted(b, counts) + 1
      /\ \A x : Counted(x, counts') >= Counted(x, counts)
    BY <1>1, CountsOneMore DEF LimitsOK
<1>6. \A x : Counted(x, counts) \in Nat /\ Counted(x, counts') \in Nat
    BY <1>5, CountedIsNat DEF LimitsOK
<1>7. checks' \in Nat /\ checks' <= Counted(LoginBucket, counts') /\ checks' <= MaxOf("loginByIp")
    <2>1. CASE h \in CredentialChecks
        <3>1. LayerOf(r) = Limit("loginByIp")
            BY <1>3, <1>4, <2>1 DEF HasLimits
        <3>2. b = LoginBucket /\ LayerOf(r).name = "loginByIp"
            BY <3>1 DEF BucketOf, Bucket, Limit, LoginBucket, EmailLimits, PerUser
        <3>3. checks' = checks + 1
            BY <1>3, <2>1 DEF Count
        <3> QED
            BY <3>2, <3>3, <1>5, <1>6, LimitsAreNumbers DEF LimitsOK
    <2>2. CASE h \notin CredentialChecks
        <3>1. checks' = checks
            BY <1>3, <2>2 DEF Count
        <3> QED
            BY <3>1, <1>5, <1>6, LimitsAreNumbers DEF LimitsOK
    <2> QED
        BY <2>1, <2>2
<1>8. mails' \in [EmailLimits -> Nat]
    BY <1>3 DEF Count, LimitsOK
<1>9. ASSUME NEW l \in EmailLimits
      PROVE  mails'[l] <= Counted(<<l, "plain">>, counts') /\ mails'[l] <= MaxOf(l)
    <2>0. mails[l] \in Nat /\ mails[l] <= Counted(<<l, "plain">>, counts) /\ mails[l] <= MaxOf(l)
        BY DEF LimitsOK
    <2>1. CASE h \in MailHandlers[l] /\ q.email \in {"plain", "upper"}
        <3>1. LayerOf(r) = Limit(l)
            BY <1>3, <1>4, <2>1 DEF HasLimits
        <3>2. b = <<l, "plain">> /\ LayerOf(r).name = l
            <4>1. EmailKey(q.email) = "plain" /\ l \notin PerUser
                BY <2>1 DEF EmailKey, EmailLimits, PerUser
            <4>2. b = <<LayerOf(r).name, EmailKey(q.email)>> /\ LayerOf(r).name = l
                BY <3>1, <4>1 DEF BucketOf, Bucket, Limit
            <4> QED
                BY <4>1, <4>2
        <3>3. mails'[l] = mails[l] + 1
            BY <1>3, <2>1 DEF Count
        <3> QED
            BY <3>2, <3>3, <2>0, <1>5, <1>6, LimitsAreNumbers
    <2>2. CASE ~(h \in MailHandlers[l] /\ q.email \in {"plain", "upper"})
        <3>1. mails'[l] = mails[l]
            BY <1>3, <2>2 DEF Count
        <3> QED
            BY <3>1, <2>0, <1>5, <1>6, LimitsAreNumbers
    <2> QED
        BY <2>1, <2>2
<1> QED
    BY <1>5, <1>7, <1>8, <1>9 DEF LimitsOK

LEMMA WindowEndKeepsLimits ==
    ASSUME LimitsOK, NEW b, WindowEnds(b)
    PROVE  LimitsOK'
<1>1. /\ IsABag(counts')
      /\ \A x : x # b => Counted(x, counts') = Counted(x, counts)
      /\ Counted(b, counts') = 0
    BY DEF WindowEnds, LimitsOK, IsABag, Counted
<1>2. /\ checks' = IF b = LoginBucket THEN 0 ELSE checks
      /\ mails' = [l \in EmailLimits |-> IF b = <<l, "plain">> THEN 0 ELSE mails[l]]
    BY DEF WindowEnds, LoginBucket
<1> QED
    BY <1>1, <1>2, LimitsAreNumbers DEF LimitsOK

LEMMA RedisLossKeepsLimits ==
    ASSUME LimitsOK, RedisLost
    PROVE  LimitsOK'
<1>1. PICK counted \in SUBSET {r \in Requests : pc[r] = "limit"} :
         counts' = counts (+) [b \in {BucketOf(r) : r \in counted} |->
                                 Cardinality({r \in counted : BucketOf(r) = b})]
    BY DEF RedisLost
<1> DEFINE more == [b \in {BucketOf(r) : r \in counted} |-> Cardinality({r \in counted : BucketOf(r) = b})]
<1>2. IsFiniteSet(Requests)
    BY ScaleIsPositive, FS_Interval DEF Requests
<1>3. ASSUME NEW b \in DOMAIN more
      PROVE  more[b] \in Nat /\ more[b] > 0
    <2>1. {r \in counted : BucketOf(r) = b} # {} /\ {r \in counted : BucketOf(r) = b} \subseteq Requests
        BY <1>3
    <2>2. IsFiniteSet({r \in counted : BucketOf(r) = b})
        BY <2>1, <1>2, FS_Subset
    <2> QED
        BY <2>1, <2>2, FS_EmptySet, FS_CardinalityType
<1>4. IsABag(more)
    BY <1>3 DEF IsABag
<1>5. UNCHANGED history /\ counts' = counts (+) more
    BY <1>1 DEF RedisLost
<1> HIDE DEF more
<1> QED
    BY <1>4, <1>5, CountsSomeMore, CountingKeepsLimits DEF LimitsOK

-------------------------------------------------------------------------------
(* The server.                                                                 *)

HttpInv == SlotsOK /\ LimitsOK

(* What a step does to the requests: nothing but its process' own business,    *)
(* or one of these.                                                            *)
HttpStep ==
    \/ UNCHANGED httpVars
    \/ \E r \in Requests :
          \/ \E q \in Arrivals : Arrive(r, q)
          \/ ArriveMalformed(r) \/ LimiterAnswers(r) \/ LimiterFails(r)
          \/ HandlerThrows(r)
          \/ HandlerAnswers(r)
    \/ \E b : WindowEnds(b)
    \/ RedisLost
    \/ CutRequests

LEMMA StepsOfRequests ==
    ASSUME [Next]_vars
    PROVE  HttpStep
<1>1. CASE UNCHANGED vars
    BY <1>1 DEF vars, HttpStep
<1>2. CASE GoesOn
    <2>1. StartUp => UNCHANGED httpVars
        BY DEF StartUp, LoadDatabase, DatabaseLoaded, LoadRedis, RedisLoaded, LoadModules, Listen
    <2>2. \A s \in Shutdowns : ShutdownStep(s) => UNCHANGED httpVars
        BY DEF ShutdownStep, ServerClosed, QueuesClosed, CloseDatabase, DatabaseClosed, CloseRedis, RedisClosed
    <2>3. \A r \in Requests : ServeRequest(r) => HttpStep
        BY DEF ServeRequest, HandlerEnds, HttpStep
    <2>4. WindowEnd => \E b : WindowEnds(b)
        BY DEF WindowEnd
    <2>5. RedisFails => RedisLost
        BY DEF RedisFails
    <2>6. RedisReturns \/ MongoRecovers \/ Dies => UNCHANGED httpVars
        BY DEF RedisReturns, MongoRecovers, Dies
    <2> QED
        BY <1>2, <2>1, <2>2, <2>3, <2>4, <2>5, <2>6 DEF GoesOn, HttpStep
<1>3. CASE \E r \in Requests : ReceiveMalformed(r) \/ \E q \in Arrivals : ReceiveRequest(r, q)
    BY <1>3 DEF ReceiveMalformed, ReceiveRequest, HttpStep
<1>4. CASE MongoFails \/ \E s \in Shutdowns : BeginShutdown(s)
    BY <1>4 DEF MongoFails, BeginShutdown, HttpStep
<1> QED
    BY <1>1, <1>2, <1>3, <1>4 DEF Next

LEMMA RequestsKeep ==
    ASSUME RoutesAreSound, HttpInv, HttpStep
    PROVE  HttpInv'
<1> USE DEF HttpInv
<1>1. CASE UNCHANGED httpVars
    BY <1>1 DEF httpVars, slots, history, SlotsOK, LimitsOK
<1>2. ASSUME UNCHANGED counts, UNCHANGED history
      PROVE  LimitsOK'
    BY <1>2 DEF history, LimitsOK
<1>3. ASSUME NEW r \in Requests, NEW q \in Arrivals, Arrive(r, q)
      PROVE  HttpInv'
    <2>1. UNCHANGED counts
        BY <1>3 DEF Arrive
    <2>2. SlotsOK'
        BY <1>3, ArriveEffect, RunKeepsSlots
    <2>3. LimitsOK'
        BY <1>2, <1>3, <2>1, ArriveEffect, UnlimitedKeepsLimits DEF AnswersError, WaitsForLimiter
    <2> QED
        BY <2>2, <2>3
<1>4. ASSUME NEW r \in Requests, LimiterAnswers(r)
      PROVE  HttpInv'
    <2>1. /\ IsABag(counts') /\ \A x : Counted(x, counts') >= Counted(x, counts)
        BY <1>4, CountsOneMore DEF LimiterAnswers, LimitsOK
    <2>2. SlotsOK'
        BY <1>4, LimiterEffect, AfterLimiter, RunKeepsSlots
    <2>3. CASE UNCHANGED history
        BY <2>1, <2>2, <2>3, CountingKeepsLimits
    <2>4. CASE ~UNCHANGED history
        BY <1>4, <2>2, <2>4, LimiterEffect, LimitedKeepsLimits DEF AnswersError, WaitsForLimiter
    <2> QED
        BY <2>2, <2>3, <2>4
<1>5. ASSUME NEW r \in Requests, ArriveMalformed(r) \/ LimiterFails(r) \/ HandlerThrows(r)
      PROVE  HttpInv'
    <2>1. UNCHANGED counts /\ UNCHANGED history
        BY <1>5 DEF ArriveMalformed, LimiterFails, HandlerThrows
    <2>2. \E a \in Classes : RespondAll({r}, a)
        BY <1>5, ErrorsHaveClass DEF ArriveMalformed, LimiterFails, HandlerThrows, Respond, Errors, Classes
    <2> QED
        BY <1>2, <2>1, <2>2, AnswerKeepsSlots
<1>6. ASSUME NEW r \in Requests, HandlerAnswers(r)
      PROVE  HttpInv'
    <2>1. StandsAt(req[r], at[r], user[r], "handler")
        BY <1>6 DEF HandlerAnswers, SlotsOK
    <2>2. Handlers[LayerOf(r).name].success \in 200..299
        BY <2>1, HandlersAreKnown DEF LayerOf
    <2>3. Answer(Handlers[LayerOf(r).name].success) \in Classes
        BY <2>2 DEF Answer, Classes
    <2> QED
        BY <1>2, <1>6, <2>3, AnswerKeepsSlots DEF HandlerAnswers, Respond
<1>7. ASSUME NEW b, WindowEnds(b)
      PROVE  HttpInv'
    BY <1>7, WindowEndKeepsLimits DEF WindowEnds, slots, SlotsOK
<1>8. CASE RedisLost
    <2>1. Answer(StatusOf("other")) \in Classes
        BY ErrorsHaveClass DEF Errors
    <2> QED
        BY <1>8, <2>1, AnswerKeepsSlots, RedisLossKeepsLimits DEF RedisLost
<1>9. CASE CutRequests
    BY <1>2, <1>9, CutKeepsSlots DEF CutRequests
<1> QED
    BY <1>1, <1>3, <1>4, <1>5, <1>6, <1>7, <1>8, <1>9 DEF HttpStep

(* A waiting request stands at one of its own layers with the identity its     *)
(* guards established, and what has begun was counted by its limiter before.   *)
THEOREM RequestsInvariant ==
    ASSUME RoutesAreSound
    PROVE  Spec => []HttpInv
<1>1. Init => HttpInv
    BY SlotsInit, LimitsInit DEF Init, HttpInv
<1>2. HttpInv /\ [Next]_vars => HttpInv'
    BY StepsOfRequests, RequestsKeep
<1> QED
    BY <1>1, <1>2, PTL DEF Spec

(* Any number of requests, outages and shutdowns: nobody presents more         *)
(* credentials, or asks for more mails, in a window than the limiters admit.   *)
THEOREM AttemptsStayBounded ==
    ASSUME RoutesAreSound
    PROVE  Spec => []AttemptsBounded
<1>1. HttpInv => AttemptsBounded
    BY DEF HttpInv, LimitsOK, AttemptsBounded
<1> QED
    BY <1>1, RequestsInvariant, PTL

(* Whoever reaches a handler has passed the guards it relies on, and its       *)
(* identity is still the one they established.                                 *)
THEOREM GuardsAlwaysHold ==
    ASSUME RoutesAreSound
    PROVE  Spec => []GuardsHold
<1>1. HttpInv => GuardsHold
    BY StandingIsGuarded DEF HttpInv, SlotsOK, GuardsHold, OnlyAdminsAdminister, HandlersHaveIdentity,
       InHandler, LayerOf
<1> QED
    BY <1>1, RequestsInvariant, PTL

(* The handler that runs is the one of the request's own route.                *)
THEOREM HandlersAreOwn ==
    ASSUME RoutesAreSound
    PROVE  Spec => []OwnHandlerAnswers
<1>1. HttpInv => OwnHandlerAnswers
    BY HandlersAreKnown DEF HttpInv, SlotsOK, OwnHandlerAnswers, InHandler, LayerOf, HasOwnHandler
<1> QED
    BY <1>1, RequestsInvariant, PTL

-------------------------------------------------------------------------------
(* The process and its connections.                                            *)

ProcessTypeOK ==
    /\ RedisTypeOK /\ MongoTypeOK
    /\ phase \in Phases
    /\ down \in [Shutdowns -> DownSteps]
    /\ code \in {"none", "0", "1"}

LEMMA RedisTypes ==
    ASSUME RedisTypeOK,
           \/ UNCHANGED redisVars \/ ConnectRedis \/ Established \/ AttemptFails
           \/ ConnectionLost \/ DisconnectRedis \/ ForgetRedis
    PROVE  RedisTypeOK'
BY RetriesAreNat DEF RedisTypeOK, redisVars, ConnectRedis, Established, AttemptFails, ConnectionLost,
   DisconnectRedis, ForgetRedis, IsOpen

LEMMA MongoTypes ==
    ASSUME MongoTypeOK,
           \/ UNCHANGED mongoVars \/ ConnectMongo \/ MongoConnected \/ MongoRefused
           \/ MongoLost \/ MongoReturns \/ DisconnectMongo \/ MongoClosed
    PROVE  MongoTypeOK'
BY OutagesAreNat DEF MongoTypeOK, mongoVars, ConnectMongo, MongoConnected, MongoRefused, MongoLost,
   MongoReturns, DisconnectMongo, MongoClosed, HandleDisconnected, HandleReconnected

(* What a step does to the connections and to the process.                     *)
LEMMA StepsOfProcess ==
    ASSUME ProcessTypeOK, [Next]_vars
    PROVE  /\ \/ UNCHANGED redisVars \/ ConnectRedis \/ Established \/ AttemptFails
              \/ ConnectionLost \/ DisconnectRedis \/ ForgetRedis
           /\ \/ UNCHANGED mongoVars \/ ConnectMongo \/ MongoConnected \/ MongoRefused
              \/ MongoLost \/ MongoReturns \/ DisconnectMongo \/ MongoClosed
           /\ phase' \in Phases /\ down' \in [Shutdowns -> DownSteps] /\ code' \in {"none", "0", "1"}
<1> USE DEF ProcessTypeOK, Phases, DownSteps
<1>1. CASE UNCHANGED vars
    BY <1>1 DEF vars, processVars
<1>2. CASE StartUp
    BY <1>2 DEF StartUp, LoadDatabase, DatabaseLoaded, LoadRedis, RedisLoaded, LoadModules, Listen, Exit
<1>3. CASE \E r \in Requests : ServeRequest(r) \/ ReceiveMalformed(r) \/ \E q \in Arrivals : ReceiveRequest(r, q)
    BY <1>3 DEF ServeRequest, ReceiveMalformed, ReceiveRequest, LimiterAnswers, LimiterFails,
       HandlerEnds, HandlerAnswers, HandlerThrows, ArriveMalformed, Arrive, processVars
<1>4. CASE WindowEnd \/ RedisFails \/ RedisReturns \/ MongoRecovers \/ MongoFails \/ Dies
    BY <1>4 DEF WindowEnd, WindowEnds, RedisFails, RedisLost, RedisReturns, MongoRecovers, MongoFails,
       Dies, Exit, processVars
<1>5. CASE \E s \in Shutdowns : BeginShutdown(s) \/ ShutdownStep(s)
    BY <1>5 DEF BeginShutdown, ShutdownStep, ServerClosed, QueuesClosed, CloseDatabase,
       DatabaseClosed, CloseRedis, RedisClosed, Exit
<1> QED
    BY <1>1, <1>2, <1>3, <1>4, <1>5 DEF Next, GoesOn

(* Every variable of the server has its type, whatever happens.                *)
THEOREM ServerTypes ==
    ASSUME RoutesAreSound
    PROVE  Spec => []TypeOK
<1>1. Init => ProcessTypeOK
    BY RetriesAreNat, OutagesAreNat DEF Init, RedisInit, MongoInit, ProcessTypeOK, RedisTypeOK, MongoTypeOK,
       Phases, DownSteps
<1>2. ProcessTypeOK /\ [Next]_vars => ProcessTypeOK'
    <2> SUFFICES ASSUME ProcessTypeOK, [Next]_vars PROVE ProcessTypeOK'
        OBVIOUS
    <2> QED
        BY StepsOfProcess, RedisTypes, MongoTypes DEF ProcessTypeOK
<1>3. HttpInv => HttpTypeOK
    <2> SUFFICES ASSUME HttpInv PROVE HttpTypeOK
        OBVIOUS
    <2>1. \A r \in Requests : pc[r] \in {"limit", "handler"} => req[r].layers[at[r]].kind = pc[r]
        BY DEF HttpInv, SlotsOK, StandsAt
    <2> QED
        BY <2>1 DEF HttpInv, SlotsOK, LimitsOK, HttpTypeOK, Marks, Classes, NoAnswer
<1>4. ProcessTypeOK /\ HttpTypeOK => TypeOK
    BY DEF ProcessTypeOK, TypeOK
<1> QED
    BY <1>1, <1>2, <1>3, <1>4, RequestsInvariant, PTL DEF Spec

Running == {"redis", "modules", "listen", "serving"}

(* Inductive: nothing closes MongoDB before a shutdown has begun, and until    *)
(* then the class and the driver move together.                                *)
MongoInv ==
    /\ down \in [Shutdowns -> DownSteps]
    /\ phase \notin {"closing", "exited"} => \A s \in Shutdowns : down[s] = "none"
    /\ phase = "start" => driver = "disconnected" /\ outages = 0
    /\ phase = "database" => driver = "connecting" /\ outages = 0
    /\ phase \in Running =>
          \/ driver = "connected" /\ connectionState = "CONNECTED"
          \/ driver = "disconnected" /\ connectionState = "DISCONNECTED"

LEMMA InitMongoInv == Init => MongoInv
BY DEF Init, MongoInit, MongoInv, Running, DownSteps

(* A step that leaves the process and MongoDB alone.                           *)
LEMMA MongoUntouched ==
    ASSUME MongoInv, UNCHANGED <<mongoVars, processVars>>
    PROVE  MongoInv'
BY DEF MongoInv, mongoVars, processVars

LEMMA StartUpKeeps ==
    ASSUME MongoInv, StartUp
    PROVE  MongoInv'
<1>1. CASE LoadDatabase
    BY <1>1 DEF LoadDatabase, ConnectMongo, MongoInv, Running
<1>2. CASE DatabaseLoaded
    BY <1>2 DEF DatabaseLoaded, MongoConnected, MongoRefused, Exit, MongoInv, Running, DownSteps
<1>3. CASE LoadRedis \/ LoadModules \/ RedisLoaded \/ Listen
    BY <1>3 DEF LoadRedis, LoadModules, RedisLoaded, Listen, Exit, mongoVars, MongoInv, Running, DownSteps
<1> QED
    BY <1>1, <1>2, <1>3 DEF StartUp

LEMMA ConnectionsKeep ==
    ASSUME MongoInv, RedisFails \/ RedisReturns \/ MongoFails \/ MongoRecovers
    PROVE  MongoInv'
<1>1. CASE RedisFails \/ RedisReturns
    BY <1>1, MongoUntouched DEF RedisFails, RedisReturns
<1>2. CASE MongoFails
    BY <1>2 DEF MongoFails, MongoLost, HandleDisconnected, processVars, MongoInv, Running
<1>3. CASE MongoRecovers
    BY <1>3 DEF MongoRecovers, MongoReturns, HandleReconnected, processVars, MongoInv, Running
<1> QED
    BY <1>1, <1>2, <1>3

LEMMA ShutdownKeeps ==
    ASSUME MongoInv, NEW s \in Shutdowns, BeginShutdown(s) \/ ShutdownStep(s)
    PROVE  MongoInv'
<1> USE DEF MongoInv, Running, DownSteps
<1>1. CASE BeginShutdown(s)
    BY <1>1 DEF BeginShutdown
<1>2. CASE ShutdownStep(s)
    <2>1. /\ down[s] # "none"
          /\ \/ phase' = phase /\ \E step \in DownSteps : down' = [down EXCEPT ![s] = step]
             \/ phase' = "exited" /\ down' = [t \in Shutdowns |-> "none"]
        BY <1>2 DEF ShutdownStep, ServerClosed, QueuesClosed, CloseDatabase,
                    DatabaseClosed, CloseRedis, RedisClosed, Exit
    <2>2. phase \in {"closing", "exited"}
        BY <2>1
    <2> QED
        BY <2>1, <2>2
<1> QED
    BY <1>1, <1>2

(* From the first connection until a shutdown begins, health checks say of     *)
(* MongoDB what the driver says, for any number of outages and shutdowns.      *)
THEOREM HealthIsTrue == Spec => []HealthFollowsDriver
<1>1. MongoInv /\ [Next]_vars => MongoInv'
    <2> SUFFICES ASSUME MongoInv, [Next]_vars PROVE MongoInv'
        OBVIOUS
    <2>1. CASE UNCHANGED vars
        BY <2>1, MongoUntouched DEF vars
    <2>2. CASE WindowEnd \/ \E r \in Requests :
                   ServeRequest(r) \/ ReceiveMalformed(r) \/ \E q \in Arrivals : ReceiveRequest(r, q)
        BY <2>2, MongoUntouched DEF ServeRequest, ReceiveMalformed, ReceiveRequest, WindowEnd
    <2>3. CASE Dies
        BY <2>3 DEF Dies, Exit, MongoInv, Running, DownSteps
    <2> QED
        BY <2>1, <2>2, <2>3, StartUpKeeps, ConnectionsKeep, ShutdownKeeps DEF Next, GoesOn
<1>2. MongoInv => HealthFollowsDriver
    BY DEF MongoInv, Running, HealthFollowsDriver
<1> QED
    BY <1>1, <1>2, InitMongoInv, PTL DEF Spec

-------------------------------------------------------------------------------
(* The circuit breaker of the mails.                                           *)

(* Inductive: the count and the state agree, and what the breaker has counted  *)
(* in a HALF_OPEN period is in flight.  Finiteness is needed to speak of the   *)
(* number of probes when the set of mails is infinite.                         *)
BreakerInv ==
    /\ BreakerTypeOK
    /\ OpensOnThreshold
    /\ ProbesAreInFlight
    /\ IsFiniteSet(probes)

LEMMA InitBreakerInv == BreakerInit => BreakerInv
<1> SUFFICES ASSUME BreakerInit PROVE BreakerInv
    OBVIOUS
<1>0. BreakerTypeOK
  <2>1. cooled \in BOOLEAN
      BY DEF BreakerInit
  <2> QED
      BY <2>1, BreakerLimits DEF BreakerInit, BreakerTypeOK
<1>1. OpensOnThreshold
    BY BreakerLimits DEF BreakerInit, OpensOnThreshold
<1>2. ProbesAreInFlight
    BY DEF BreakerInit, ProbesAreInFlight
<1>3. IsFiniteSet(probes)
    BY FS_EmptySet DEF BreakerInit
<1> QED
    BY <1>0, <1>1, <1>2, <1>3 DEF BreakerInv

(* A call that is let through while CLOSED changes nothing; otherwise it is    *)
(* one more probe, and one more counted.                                       *)
LEMMA ExecuteKeeps ==
    ASSUME NEW c \in Calls, BreakerInv, Execute(c)
    PROVE  BreakerInv'
<1> USE DEF BreakerInv
<1>1. CASE state = "CLOSED"
  <2>1. UNCHANGED <<state, failureCount, halfOpenAttempts, cooled, probes>>
      BY <1>1 DEF Execute
  <2>2. inFlight' = inFlight \cup {c}
      BY DEF Execute
  <2> QED
      BY <1>1, <2>1, <2>2 DEF BreakerTypeOK, OpensOnThreshold, ProbesAreInFlight
<1>2. CASE state = "OPEN"
  <2>1. /\ state' = "HALF_OPEN"
        /\ halfOpenAttempts' = 1
        /\ probes' = {c}
        /\ inFlight' = inFlight \cup {c}
        /\ UNCHANGED <<failureCount, cooled>>
      BY <1>2 DEF Execute, Probe
  <2>2. IsFiniteSet(probes') /\ Cardinality(probes') = 1
      BY <2>1, FS_Singleton
  <2>3. halfOpenAttempts' \in 1..MaxProbes
      BY <2>1, BreakerLimits
  <2> QED
      BY <1>2, <2>1, <2>2, <2>3
      DEF BreakerTypeOK, OpensOnThreshold, ProbesAreInFlight
<1>3. CASE state = "HALF_OPEN"
  <2>1. /\ state' = "HALF_OPEN"
        /\ halfOpenAttempts < MaxProbes
        /\ halfOpenAttempts' = halfOpenAttempts + 1
        /\ probes' = probes \cup {c}
        /\ inFlight' = inFlight \cup {c}
        /\ c \notin inFlight
        /\ UNCHANGED <<failureCount, cooled>>
      BY <1>3 DEF Execute, Probe, QuotaLeft
  <2>2. /\ probes \subseteq inFlight
        /\ Cardinality(probes) = halfOpenAttempts
        /\ halfOpenAttempts \in 1..MaxProbes
      BY <1>3 DEF ProbesAreInFlight
  <2>3. c \notin probes
      BY <2>1, <2>2
  <2>4. /\ IsFiniteSet(probes')
        /\ Cardinality(probes') = Cardinality(probes) + 1
      BY <2>1, <2>3, FS_AddElement
  <2>5. halfOpenAttempts' \in 1..MaxProbes
      BY <2>1, <2>2, BreakerLimits
  <2> QED
      BY <1>3, <2>1, <2>2, <2>4, <2>5
      DEF BreakerTypeOK, OpensOnThreshold, ProbesAreInFlight
<1> QED
    BY <1>1, <1>2, <1>3 DEF BreakerTypeOK

LEMMA SuccessKeeps ==
    ASSUME NEW c \in Calls, BreakerInv, OnSuccess(c)
    PROVE  BreakerInv'
<1>1. /\ state' = "CLOSED" /\ failureCount' = 0
      /\ halfOpenAttempts' = 0 /\ probes' = {}
      /\ inFlight' = inFlight \ {c} /\ UNCHANGED cooled
    BY DEF OnSuccess, Answered
<1>2. IsFiniteSet(probes')
    BY <1>1, FS_EmptySet
<1>3. BreakerTypeOK' /\ OpensOnThreshold'
    BY <1>1, BreakerLimits DEF BreakerInv, BreakerTypeOK, OpensOnThreshold
<1>4. ProbesAreInFlight'
    BY <1>1 DEF ProbesAreInFlight
<1> QED
    BY <1>2, <1>3, <1>4 DEF BreakerInv

(* Outside HALF_OPEN there are no probes to lose; in HALF_OPEN every failure   *)
(* ends the period.                                                            *)
LEMMA FailureKeeps ==
    ASSUME NEW c \in Calls, BreakerInv, OnFailure(c)
    PROVE  BreakerInv'
<1>1. /\ failureCount' \in 0..Threshold
      /\ failureCount = Threshold => failureCount' = Threshold
    BY BreakerLimits DEF BreakerInv, BreakerTypeOK, OnFailure, CountFailure
<1>2. inFlight' = inFlight \ {c} /\ cooled' = FALSE
    BY DEF OnFailure, Answered
<1>3. probes' = {} /\ halfOpenAttempts' = 0 /\ state' \in {"CLOSED", "OPEN"}
    BY DEF BreakerInv, BreakerTypeOK, ProbesAreInFlight, OnFailure
<1>4. state' # "CLOSED" <=> failureCount' = Threshold
  <2>1. CASE state = "HALF_OPEN"
      BY <1>1, <2>1 DEF BreakerInv, OpensOnThreshold, OnFailure
  <2>2. CASE state = "OPEN"
      BY <1>1, <2>2 DEF BreakerInv, OpensOnThreshold, OnFailure
  <2>3. CASE state = "CLOSED"
      BY <2>3 DEF OnFailure
  <2> QED
      BY <2>1, <2>2, <2>3 DEF BreakerInv, BreakerTypeOK
<1>5. BreakerTypeOK'
  <2>1. cooled' \in BOOLEAN
      BY <1>2
  <2> QED
      BY <1>1, <1>2, <1>3, <2>1, BreakerLimits DEF BreakerInv, BreakerTypeOK
<1>6. OpensOnThreshold'
    BY <1>4 DEF OpensOnThreshold
<1>7. ProbesAreInFlight' /\ IsFiniteSet(probes')
    BY <1>3, FS_EmptySet DEF ProbesAreInFlight
<1> QED
    BY <1>5, <1>6, <1>7 DEF BreakerInv

LEMMA BreakerStep ==
    ASSUME BreakerInv, BreakerNext
    PROVE  BreakerInv'
<1>1. CASE \E c \in Calls : Execute(c) \/ OnSuccess(c) \/ OnFailure(c)
    BY <1>1, ExecuteKeeps, SuccessKeeps, FailureKeeps
<1>2. CASE CoolDown
    BY <1>2 DEF CoolDown, BreakerInv, BreakerTypeOK, OpensOnThreshold, ProbesAreInFlight
<1>3. CASE Restart
  <2>1. BreakerInit'
      BY <1>3 DEF Restart, BreakerInit
  <2>2. BreakerInit' => BreakerInv'
    <3>0. BreakerInit' => BreakerTypeOK'
      <4>1. BreakerInit' => cooled' \in BOOLEAN
          BY DEF BreakerInit
      <4> QED
          BY <4>1, BreakerLimits DEF BreakerInit, BreakerTypeOK
    <3>1. BreakerInit' => OpensOnThreshold'
        BY BreakerLimits DEF BreakerInit, OpensOnThreshold
    <3>2. BreakerInit' => ProbesAreInFlight'
        BY DEF BreakerInit, ProbesAreInFlight
    <3>3. BreakerInit' => IsFiniteSet(probes')
        BY FS_EmptySet DEF BreakerInit
    <3> QED
        BY <3>0, <3>1, <3>2, <3>3 DEF BreakerInv
  <2> QED
      BY <2>1, <2>2
<1> QED
    BY <1>1, <1>2, <1>3 DEF BreakerNext

(* The mail delivery reaches the breaker only through `execute`, its answers,  *)
(* the passing of time and a restart.                                          *)
THEOREM DeliveryUsesBreaker == DeliverySpec => BreakerSpec
<1>1. DeliveryInit => BreakerInit
    BY DEF DeliveryInit
<1>2. [DeliveryNext]_deliveryVars => [BreakerNext]_breaker
  <2> SUFFICES ASSUME [DeliveryNext]_deliveryVars PROVE BreakerNext \/ UNCHANGED breaker
      OBVIOUS
  <2>1. ASSUME NEW m \in Mails, Send(m) \/ Attempt(m) \/ Ended(m)
        PROVE  BreakerNext \/ UNCHANGED breaker
    <3>1. CASE Send(m) \/ Refused(m)
        BY <3>1 DEF Send, Refused
    <3>2. CASE Call(m) \/ Sent(m) \/ SendFailed(m)
        BY <2>1, <3>2 DEF Call, Sent, SendFailed, BreakerNext, Mails
    <3> QED
        BY <2>1, <3>1, <3>2 DEF Attempt, Ended
  <2>2. CASE TimePasses \/ Crash
      BY <2>2 DEF TimePasses, Crash, BreakerNext
  <2>3. CASE UNCHANGED deliveryVars
      BY <2>3 DEF deliveryVars
  <2> QED
      BY <2>1, <2>2, <2>3 DEF DeliveryNext
<1> QED
    BY <1>1, <1>2, PTL DEF DeliverySpec, BreakerSpec

LEMMA BreakerInvariant == BreakerSpec => []BreakerInv
<1>1. BreakerInit => BreakerInv
    BY InitBreakerInv
<1>2. BreakerInv /\ [BreakerNext]_breaker => BreakerInv'
  <2>1. ASSUME BreakerInv, UNCHANGED breaker PROVE BreakerInv'
      BY <2>1 DEF breaker, BreakerInv, BreakerTypeOK, OpensOnThreshold, ProbesAreInFlight
  <2> QED
      BY <2>1, BreakerStep
<1> QED
    BY <1>1, <1>2, PTL DEF BreakerSpec

(* For any threshold, the breaker of a running mail delivery refuses calls     *)
(* exactly when it has counted that many failures since a success.             *)
THEOREM BreakerOpensOnThreshold == DeliverySpec => []OpensOnThreshold
<1>1. BreakerInv => OpensOnThreshold
    BY DEF BreakerInv
<1> QED
    BY <1>1, DeliveryUsesBreaker, BreakerInvariant, PTL

(* For any quota, a HALF_OPEN breaker counts exactly the probes in flight, so  *)
(* it is never left refusing every mail with nobody to report.                 *)
THEOREM HalfOpenIsNeverStuck == DeliverySpec => []ProbesAreInFlight
<1>1. BreakerInv => ProbesAreInFlight
    BY DEF BreakerInv
<1> QED
    BY <1>1, DeliveryUsesBreaker, BreakerInvariant, PTL
===============================================================================
