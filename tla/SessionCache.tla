---------------------------- MODULE SessionCache ----------------------------
(***************************************************************************)
(* What scripts may rely on when they use @SESSION_FUNC: a key keeps its   *)
(* data until a DEL_TIME_OUT of n seconds finds it unused for longer than  *)
(* n seconds, NEW and GET count as uses, and a session that was not used   *)
(* for more than n + 1 seconds does not survive.                           *)
(***************************************************************************)
EXTENDS Integers, Functions

CONSTANTS
    Ids,        \* the keys NEW may return
    Data,       \* what a session holds
    Times,      \* the values of the clock, in seconds
    Ages        \* the ages scripts give to DEL_TIME_OUT, in seconds

VARIABLES
    sessions,   \* the live sessions: their data and the time of the last use
    now         \* the clock

cacheVars == <<sessions, now>>

Without(f, S) == Restrict(f, DOMAIN f \ S)
Put(f, k, v) == [x \in DOMAIN f \cup {k} |-> IF x = k THEN v ELSE f[x]]

CacheInit == sessions = [id \in {} |-> {}] /\ now \in Times

(* A new key, used now. *)
CacheNew(d) == \E id \in Ids \ DOMAIN sessions :
    /\ sessions' = Put(sessions, id, [data |-> d, used |-> now])
    /\ UNCHANGED now

CacheGet(id) ==
    /\ id \in DOMAIN sessions
    /\ sessions' = Put(sessions, id, [sessions[id] EXCEPT !.used = now])
    /\ UNCHANGED now

UnusedSince(t) == {id \in DOMAIN sessions : sessions[id].used < t}

(* The keys are not exact in the last second. *)
CacheSweep(n) == \E gone \in SUBSET UnusedSince(now - n) :
    /\ UnusedSince(now - n - 1) \subseteq gone
    /\ sessions' = Without(sessions, gone)
    /\ UNCHANGED now

(* time(NULL) may be set to any value. *)
CacheClock == now' \in Times /\ UNCHANGED sessions

CacheNext ==
    \/ \E d \in Data : CacheNew(d)
    \/ \E id \in Ids : CacheGet(id)
    \/ \E n \in Ages : CacheSweep(n)
    \/ CacheClock

CacheSpec == CacheInit /\ [][CacheNext]_cacheVars
=============================================================================
