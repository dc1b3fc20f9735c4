---------------------------- MODULE MongoConnection ----------------------------
(* MongoDatabase: its connectionState beside the state of the driver it        *)
(* follows by events.  connect is called once, when the process starts, so     *)
(* that its only failure is that of the first attempt, which it throws.        *)
EXTENDS Naturals

CONSTANT MaxOutages  \* bound: how often the server is lost

ASSUME OutagesAreNat == MaxOutages \in Nat

VARIABLES driver,           \* readyState of mongoose.connection; "closed" after close()
          connectionState,  \* of the class
          outages           \* history: how often the server was lost

mongoVars == <<driver, connectionState, outages>>

MongoTypeOK ==
    /\ driver \in {"disconnected", "connecting", "connected", "disconnecting", "closed"}
    /\ connectionState \in {"DISCONNECTED", "CONNECTING", "CONNECTED", "DISCONNECTING"}
    /\ outages \in 0..MaxOutages

MongoInit == driver = "disconnected" /\ connectionState = "DISCONNECTED" /\ outages = 0

(* connect, up to the driver's answer.                                         *)
ConnectMongo ==
    /\ driver' = "connecting"
    /\ connectionState' = "CONNECTING"
    /\ UNCHANGED outages

(* handleConnected and handleConnectionSuccess.                                *)
MongoConnected ==
    /\ driver = "connecting"
    /\ driver' = "connected"
    /\ connectionState' = "CONNECTED"
    /\ UNCHANGED outages

(* handleConnectionError: the first attempt has failed.                        *)
MongoRefused ==
    /\ driver = "connecting"
    /\ driver' = "disconnected"
    /\ connectionState' = "DISCONNECTED"
    /\ UNCHANGED outages

(* handleDisconnected, unless the process is closing the connection itself.    *)
HandleDisconnected ==
    connectionState' = IF connectionState = "DISCONNECTING" THEN connectionState ELSE "DISCONNECTED"

(* The driver loses the server ...                                             *)
MongoLost ==
    /\ driver = "connected"
    /\ outages < MaxOutages
    /\ driver' = "disconnected"
    /\ outages' = outages + 1
    /\ HandleDisconnected

(* Defect: the event of a return only counts it.                               *)
HandleReconnectedCounts == connectionState' = connectionState

(* handleConnected and handleReconnected.                                      *)
HandleReconnected == connectionState' = "CONNECTED"

(* ... and finds it again by itself.                                           *)
MongoReturns ==
    /\ driver = "disconnected" /\ outages > 0
    /\ driver' = "connected"
    /\ HandleReconnected
    /\ UNCHANGED outages

(* disconnect returns at once while the server is lost.                        *)
NothingToDisconnect == connectionState = "DISCONNECTED"

DisconnectMongo ==
    /\ ~NothingToDisconnect
    /\ connectionState' = "DISCONNECTING"
    /\ driver' = IF driver = "connected" THEN "disconnecting" ELSE driver
    /\ UNCHANGED outages

MongoClosed ==
    /\ driver' = "closed"
    /\ connectionState' = "DISCONNECTED"
    /\ UNCHANGED outages

(* isHealthy.                                                                  *)
MongoHealthy == connectionState = "CONNECTED" /\ driver = "connected"
===============================================================================
