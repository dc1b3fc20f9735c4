------------------------------- MODULE MCServer --------------------------------
(* A small instance of Server with a few requests that name no route, and its  *)
(* behaviours that keep to the bounds below.                                   *)
EXTENDS Server

Stray(method, path) == [method |-> method, path |-> path]

MCStrays ==
    {Stray("GET", MountV1 \o <<"users", "me", "favorites", "x">>),
     Stray("POST", MountV1 \o <<"admin", "users", "x", "lock">>),
     Stray("DELETE", MountV1 \o <<"notifications", "x">>),
     Stray("GET", <<"admin", "users">>)}

(* Slots are alike, so they are filled in order.                               *)
NextSlot(r) == pc[r] = "new" /\ \A s \in 1..(r - 1) : pc[s] # "new"

(* Requests that share no limiter and are not counted together do not touch    *)
(* each other, so a second one comes only where they do.                       *)
MayMeet(q) ==
    LET handler == Last(q.layers).name
    IN  \/ \A s \in Requests : pc[s] = "new"
        \/ checks > 0 /\ handler \in CredentialChecks
        \/ \E l \in EmailLimits : mails[l] > 0 /\ handler \in MailHandlers[l]
        \/ \E l \in Meets(q.layers, "limit") :
              \/ \E b \in DOMAIN counts : b[1] = l.name
              \/ \E s \in Requests : pc[s] = "limit" /\ LayerOf(s) = l

(* Outages of MongoDB and shutdowns meet at most one request.                  *)
FirstOnly == \A r \in Requests \ {1} : pc[r] = "new"

Receive(r) ==
    /\ NextSlot(r)
    /\ \/ r = 1 /\ ReceiveMalformed(r)
       \/ /\ r = 1 \/ outages = 0
          /\ \E q \in Arrivals : MayMeet(q) /\ ReceiveRequest(r, q)

BoundedNext ==
    \/ GoesOn
    \/ \E r \in Requests : Receive(r)
    \/ FirstOnly /\ (MongoFails \/ \E s \in Shutdowns : BeginShutdown(s))

BoundedSpec == Init /\ [][BoundedNext]_vars

FairBoundedSpec == BoundedSpec /\ Fairness
===============================================================================
