-------------------------------- MODULE Server --------------------------------
(* The process: start-up by the loaders, serving requests, and shutdown, over  *)
(* the connections to MongoDB and Redis and the requests in flight.            *)
EXTENDS HttpPipeline, MongoConnection

CONSTANT Shutdowns  \* bound: signals and unhandled rejections that start one

VARIABLES phase,  \* how far startServer has come
          down,   \* where each gracefulShutdown waits
          code    \* the exit code, once the process is over

processVars == <<phase, down, code>>
vars == <<redisVars, mongoVars, httpVars, processVars>>

Phases == {"start", "database", "redis", "modules", "listen", "serving", "closing", "exited"}
DownSteps == {"none", "server", "queues", "database", "mongo", "redis", "client"}

(* RoutesAreSound is about constants: it holds of the table or it does not.    *)
TypeOK ==
    /\ RoutesAreSound
    /\ RedisTypeOK /\ MongoTypeOK /\ HttpTypeOK
    /\ phase \in Phases
    /\ down \in [Shutdowns -> DownSteps]
    /\ code \in {"none", "0", "1"}

Init ==
    /\ RedisInit /\ MongoInit /\ HttpInit
    /\ phase = "start"
    /\ down = [s \in Shutdowns |-> "none"]
    /\ code = "none"

(* process.exit: whatever waits is over with the process.                      *)
Exit(c) ==
    /\ phase' = "exited"
    /\ code' = c
    /\ down' = [s \in Shutdowns |-> "none"]

Alive == phase # "exited"

-------------------------------------------------------------------------------
(* startServer.                                                                *)

LoadDatabase ==
    /\ phase = "start"
    /\ ConnectMongo
    /\ phase' = "database"
    /\ UNCHANGED <<redisVars, httpVars, down, code>>

DatabaseLoaded ==
    /\ phase = "database"
    /\ \/ MongoConnected /\ phase' = "redis" /\ UNCHANGED <<down, code>>
       \/ MongoRefused /\ Exit("1")
    /\ UNCHANGED <<redisVars, httpVars>>

(* Without settings for Redis connectRedis returns at once.                    *)
LoadRedis ==
    /\ phase = "redis" /\ link = "none"
    /\ \/ ConnectRedis /\ UNCHANGED phase
       \/ phase' = "modules" /\ UNCHANGED redisVars
    /\ UNCHANGED <<mongoVars, httpVars, down, code>>

RedisLoaded ==
    /\ phase = "redis"
    /\ \/ link = "ready" /\ phase' = "modules" /\ UNCHANGED <<down, code>>
       \/ link = "ended" /\ Exit("1")
    /\ UNCHANGED <<redisVars, mongoVars, httpVars>>

(* Services, queues, modules, routes: one step; modules need an open client.   *)
LoadModules ==
    /\ phase = "modules"
    /\ IF IsOpen THEN phase' = "listen" /\ UNCHANGED <<down, code>> ELSE Exit("1")
    /\ UNCHANGED <<redisVars, mongoVars, httpVars>>

(* The port is bound, or the error handler of the server exits.                *)
Listen ==
    /\ phase = "listen"
    /\ \/ phase' = "serving" /\ UNCHANGED <<down, code>>
       \/ Exit("1")
    /\ UNCHANGED <<redisVars, mongoVars, httpVars>>

-------------------------------------------------------------------------------
(* Requests, while the server accepts them.                                    *)

(* What a health check finds.                                                  *)
Healthy(handler) ==
    CASE handler = "health.checkMongoDB" -> MongoHealthy
      [] handler = "health.checkRedis" -> RedisHealthy
      [] handler = "health.checkAll" -> MongoHealthy /\ RedisHealthy
      [] OTHER -> TRUE

HandlerEnds(r) ==
    \/ pc[r] = "handler" /\ Healthy(LayerOf(r).name) /\ HandlerAnswers(r)
    \/ HandlerThrows(r)

ReceiveRequest(r, q) ==
    /\ phase = "serving"
    /\ Arrive(r, q)
    /\ UNCHANGED <<mongoVars, processVars>>

ReceiveMalformed(r) ==
    /\ phase = "serving"
    /\ ArriveMalformed(r)
    /\ UNCHANGED <<mongoVars, processVars>>

ServeRequest(r) ==
    /\ phase = "serving"
    /\ LimiterAnswers(r) \/ LimiterFails(r) \/ HandlerEnds(r)
    /\ UNCHANGED <<mongoVars, processVars>>

WindowEnd ==
    /\ phase = "serving"
    /\ \E b \in DOMAIN counts : WindowEnds(b)
    /\ UNCHANGED <<mongoVars, processVars>>

-------------------------------------------------------------------------------
(* The connections fail and return by themselves, at any time.                 *)

RedisFails == Alive /\ RedisLost /\ UNCHANGED <<mongoVars, processVars>>

RedisReturns ==
    /\ Alive
    /\ Established \/ AttemptFails
    /\ UNCHANGED <<mongoVars, httpVars, processVars>>

MongoFails == Alive /\ MongoLost /\ UNCHANGED <<redisVars, httpVars, processVars>>

MongoRecovers == Alive /\ MongoReturns /\ UNCHANGED <<redisVars, httpVars, processVars>>

-------------------------------------------------------------------------------
(* gracefulShutdown.                                                           *)

(* SIGTERM, SIGINT or an unhandled rejection.  All connections are closed and  *)
(* the server with them; a server that is closed already calls back at once.   *)
BeginShutdown(s) ==
    /\ phase \in {"listen", "serving", "closing"} /\ down[s] = "none"
    /\ phase' = "closing"
    /\ down' = [down EXCEPT ![s] = "server"]
    /\ CutRequests
    /\ UNCHANGED <<redisVars, mongoVars, code>>

(* server.close calls back, or 30 seconds are over.                            *)
ServerClosed(s) ==
    /\ down[s] = "server"
    /\ down' = [down EXCEPT ![s] = "queues"]
    /\ UNCHANGED <<redisVars, mongoVars, httpVars, phase, code>>

(* closeAllQueues: worker and queue, whatever they answer (allSettled).        *)
QueuesClosed(s) ==
    /\ down[s] = "queues"
    /\ down' = [down EXCEPT ![s] = "database"]
    /\ UNCHANGED <<redisVars, mongoVars, httpVars, phase, code>>

CloseDatabase(s) ==
    /\ down[s] = "database"
    /\ \/ /\ NothingToDisconnect
          /\ down' = [down EXCEPT ![s] = "redis"]
          /\ UNCHANGED mongoVars
       \/ /\ DisconnectMongo
          /\ down' = [down EXCEPT ![s] = "mongo"]
    /\ UNCHANGED <<redisVars, httpVars, phase, code>>

(* mongoose.connection.close resolves or throws.                               *)
DatabaseClosed(s) ==
    /\ down[s] = "mongo"
    /\ \/ MongoClosed /\ down' = [down EXCEPT ![s] = "redis"] /\ UNCHANGED <<phase, code>>
       \/ Exit("1") /\ UNCHANGED mongoVars
    /\ UNCHANGED <<redisVars, httpVars>>

(* Defect: a client that has ended is waited for.                              *)
CloseRedisWaits(s) ==
    /\ down[s] = "redis"
    /\ DisconnectRedis
    /\ down' = [down EXCEPT ![s] = "client"]
    /\ UNCHANGED <<mongoVars, httpVars, phase, code>>

(* closeRedis: no client, an open one, or one whose disconnect throws.         *)
CloseRedis(s) ==
    /\ down[s] = "redis"
    /\ \/ link = "none" /\ Exit("0") /\ UNCHANGED redisVars
       \/ DisconnectRedis /\ down' = [down EXCEPT ![s] = "client"] /\ UNCHANGED <<phase, code>>
       \/ link = "ended" /\ Exit("1") /\ UNCHANGED redisVars
    /\ UNCHANGED <<mongoVars, httpVars>>

RedisClosed(s) ==
    /\ down[s] = "client"
    /\ ForgetRedis
    /\ Exit("0")
    /\ UNCHANGED <<mongoVars, httpVars>>

ShutdownStep(s) ==
    \/ ServerClosed(s) \/ QueuesClosed(s)
    \/ CloseDatabase(s) \/ DatabaseClosed(s)
    \/ CloseRedis(s) \/ RedisClosed(s)

(* An exception nobody catches, or a signal before its handler is installed.   *)
Dies ==
    /\ Alive
    /\ Exit("1")
    /\ UNCHANGED <<redisVars, mongoVars, httpVars>>

-------------------------------------------------------------------------------
StartUp == LoadDatabase \/ DatabaseLoaded \/ LoadRedis \/ RedisLoaded \/ LoadModules \/ Listen

(* What needs no request and no signal to come.                                *)
GoesOn ==
    \/ StartUp
    \/ \E r \in Requests : ServeRequest(r)
    \/ WindowEnd
    \/ RedisFails \/ RedisReturns \/ MongoRecovers
    \/ \E s \in Shutdowns : ShutdownStep(s)
    \/ Dies

Next ==
    \/ GoesOn
    \/ \E r \in Requests : ReceiveMalformed(r) \/ \E q \in Arrivals : ReceiveRequest(r, q)
    \/ MongoFails
    \/ \E s \in Shutdowns : BeginShutdown(s)

Spec == Init /\ [][Next]_vars

(* Start-up and shutdown go on, Redis reconnects or gives up and answers or    *)
(* refuses, handlers end: each of these awaits has a timeout of its own.       *)
Fairness ==
    /\ WF_vars(StartUp) /\ WF_vars(RedisReturns)
    /\ \A r \in Requests : WF_vars(ServeRequest(r))
    /\ \A s \in Shutdowns : WF_vars(ShutdownStep(s))

FairSpec == Spec /\ Fairness

-------------------------------------------------------------------------------
(* Properties; those of requests are in HttpPipeline.                          *)

(* From the first connection until it closes the connection itself, the class  *)
(* reports MongoDB as connected exactly while the driver is: events alone keep *)
(* the two together over any number of outages, and health checks rely on it.  *)
HealthFollowsDriver ==
    phase \in {"redis", "modules", "listen", "serving"} =>
        (connectionState = "CONNECTED" <=> driver = "connected")

(* Every request is answered, or lost with the process: not even a Redis that  *)
(* never returns leaves one waiting.                                           *)
EveryRequestAnswered ==
    \A r \in Requests :
        pc[r] \in {"limit", "handler"} ~> (pc[r] \in {"done", "cut"} \/ phase = "exited")

(* A shutdown ends the process, though connections are lost meanwhile and a    *)
(* second shutdown closes what the first is closing.                           *)
ShutdownEnds == phase = "closing" ~> phase = "exited"

(* README: the server waits for the requests in flight before it closes its    *)
(* connections.                                                                *)
RequestsSurviveShutdown == \A r \in Requests : pc[r] # "cut"
===============================================================================
