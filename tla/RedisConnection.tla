---------------------------- MODULE RedisConnection ----------------------------
(* The client behind instanceRedis: its connection, the reconnection strategy  *)
(* of redis.config and what becomes of commands.                               *)
EXTENDS Naturals

CONSTANT MaxRetries  \* reconnectStrategy gives up when retries exceed it

ASSUME RetriesAreNat == MaxRetries \in Nat

VARIABLES link,    \* "none": no client yet, or closed by closeRedis
          retries  \* failed attempts to connect in a row

redisVars == <<link, retries>>

RedisTypeOK ==
    /\ link \in {"none", "connecting", "ready", "ended"}
    /\ retries \in 0..(MaxRetries + 1)

RedisInit == link = "none" /\ retries = 0

(* client.isOpen: also while it reconnects, when commands wait in its queue.   *)
IsOpen == link \in {"connecting", "ready"}

(* connectRedis creates the client and begins to connect.                      *)
ConnectRedis ==
    /\ link = "none"
    /\ link' = "connecting"
    /\ UNCHANGED retries

Established ==
    /\ link = "connecting"
    /\ link' = "ready"
    /\ retries' = 0

(* Defect: the attempts are counted anew, so the strategy never gives up.      *)
RetryForever ==
    /\ link = "connecting"
    /\ retries' = IF retries > MaxRetries THEN 0 ELSE retries + 1
    /\ UNCHANGED link

(* reconnectStrategy: another attempt, or an Error that ends the client.       *)
AttemptFails ==
    /\ link = "connecting"
    /\ IF retries > MaxRetries
       THEN link' = "ended" /\ UNCHANGED retries
       ELSE retries' = retries + 1 /\ UNCHANGED link

(* The socket fails: commands that wait for their reply are rejected.          *)
ConnectionLost ==
    /\ link = "ready"
    /\ link' = "connecting"
    /\ UNCHANGED retries

(* closeRedis calls disconnect, which throws on a client that has ended ...     *)
DisconnectRedis ==
    /\ IsOpen
    /\ link' = "ended"
    /\ UNCHANGED retries

(* ... and forgets the client when disconnect has resolved.                    *)
ForgetRedis ==
    /\ link' = "none"
    /\ retries' = 0

(* healthCheck: a client that is not open is unhealthy without a ping, and a   *)
(* ping is answered when the connection is up.                                 *)
RedisHealthy == link = "ready"
===============================================================================
