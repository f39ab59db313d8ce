-------------------------- MODULE VnuRefreshRedis --------------------------
(***************************************************************************)
(* The authority on Redis (node/redis/vnu-refresh-coordinator.ts), a       *)
(* building block that scripts/ha/node-probe.ts drives; the API itself     *)
(* runs on PostgreSQL or on Durable Objects.                               *)
(*                                                                         *)
(* A transition is a WATCH/MULTI transaction, retried on contention, so it *)
(* is atomic.  There is no alarm: the record is SET with a time to live    *)
(* that ends at nextVnuRefreshAlarm, where the Durable Object would wake   *)
(* up to clean it, and Redis deletes it there.  With HasAlarm the variable *)
(* alarm of VnuRefreshAuthority holds that deadline.                       *)
(***************************************************************************)
EXTENDS VnuRefreshAuthority

VARIABLE onRedis    \* Where the record is. Never changes.

storeVars == <<vars, onRedis>>

\* The key is past its time to live and no longer read.
due == alarm # None /\ now >= alarm

KeyExpires ==
    /\ due
    /\ stored' = None
    /\ alarm' = None
    /\ UNCHANGED <<now, issued>>

RedisNext == (~due /\ (Call \/ Tick)) \/ KeyExpires

(***************************************************************************)
(* One record in either kind of store.                                     *)
(***************************************************************************)
StoreInit == Init /\ onRedis \in BOOLEAN /\ (onRedis => HasAlarm)

StoreNext ==
    /\ \/ onRedis /\ RedisNext
       \/ ~onRedis /\ Next
    /\ UNCHANGED onRedis

StoreSpec == StoreInit /\ [][StoreNext]_storeVars

\* Time passes on both; a due alarm is delivered, a due key expires.
Passes == UNCHANGED onRedis /\ (onRedis => ~due) /\ Tick
Cleans == UNCHANGED onRedis /\ IF onRedis THEN KeyExpires ELSE Alarm

FairStoreSpec == StoreSpec /\ WF_storeVars(Passes) /\ WF_storeVars(Cleans)

\* On a Durable Object no issued pair is forgotten while its grant could still be used.
\* Redis forgets a whole record with the first thing in it that ends.
DurableAccountsForPairs == onRedis \/ IssuedPairsAccounted

=============================================================================
