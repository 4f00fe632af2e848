---------------------------- MODULE SessionStore ----------------------------
(***************************************************************************)
(* Class Session of ConnQueue.cpp: the map SessionBuf from a session's key *)
(* to its data and its time key, and the map SessionTime from time keys    *)
(* back to sessions, which OlderDel walks from the oldest.                 *)
(*                                                                         *)
(* A key is (seconds << 32) + low, where low is the sum of two 32-bit      *)
(* numbers and may carry into the seconds; Wide stands for 2^32.  That two *)
(* calls of _CreateSessionKey return different keys is assumed, as the     *)
(* source does: New has no test for it.  The clock may be set back.        *)
(***************************************************************************)
EXTENDS Integers, FiniteSets, Functions

CONSTANTS
    Wide,           \* 2^32
    Lows,           \* the values of low1 + low2
    Data,           \* what a session holds
    Times,          \* the values of time(NULL)
    Ages,           \* the ages OlderDel gets, in seconds (it takes 0 for 60)
    MaxSessions     \* BOUND: sessions at one time

ASSUME SessionAssumption ==
    /\ Wide \in Nat \ {0}
    /\ Lows \subseteq 0 .. 2 * Wide - 2
    /\ Times \subseteq Nat /\ Ages \subseteq Nat
    /\ MaxSessions \in Nat

(* now - in_time is unsigned: an age beyond the clock would wrap. *)
ASSUME AgeAssumption == \A t \in Times, n \in Ages : n <= t

VARIABLES
    sessionBuf,     \* session key -> its data and its current time key
    sessionTime,    \* time key -> session key
    used,           \* history: session key -> clock at its last use
    now             \* time(NULL)

vars == <<sessionBuf, sessionTime, used, now>>

Key == {t * Wide + low : t \in Times, low \in Lows}

Without(f, S) == Restrict(f, DOMAIN f \ S)
Put(f, k, v) == [x \in DOMAIN f \cup {k} |-> IF x = k THEN v ELSE f[x]]

(* The two maps and the history keep to their types. *)
TypeOK ==
    /\ DOMAIN sessionBuf \subseteq Key /\ DOMAIN sessionTime \subseteq Key
    /\ sessionBuf \in [DOMAIN sessionBuf -> [data : Data, stime : Key]]
    /\ sessionTime \in [DOMAIN sessionTime -> Key]
    /\ used \in [DOMAIN sessionBuf -> Times]
    /\ now \in Times

-----------------------------------------------------------------------------
CreateSessionKey == {now * Wide + low : low \in Lows}

(* The time keys that remain when session id gets a new one. *)
TimesWithout_None(id) == sessionTime
TimesWithout(id) == Without(sessionTime, {sessionBuf[id].stime})

New(d) == \E id \in CreateSessionKey, t \in CreateSessionKey :
    /\ Cardinality(DOMAIN sessionBuf) < MaxSessions
    /\ id \notin DOMAIN sessionBuf /\ t \notin DOMAIN sessionTime
    /\ sessionTime' = Put(sessionTime, t, id)
    /\ sessionBuf' = Put(sessionBuf, id, [data |-> d, stime |-> t])
    /\ used' = Put(used, id, now)
    /\ UNCHANGED now

(* Get of a key that exists; another key changes nothing. *)
Get(id) == \E t \in CreateSessionKey :
    /\ id \in DOMAIN sessionBuf
    /\ t \notin DOMAIN TimesWithout(id)
    /\ sessionTime' = Put(TimesWithout(id), t, id)
    /\ sessionBuf' = Put(sessionBuf, id, [sessionBuf[id] EXCEPT !.stime = t])
    /\ used' = Put(used, id, now)
    /\ UNCHANGED now

Older_Inclusive(n) == {t \in DOMAIN sessionTime : t <= (now - n) * Wide}
Older(n) == {t \in DOMAIN sessionTime : t < (now - n) * Wide}

OlderDel(n) == LET gone == {sessionTime[t] : t \in Older(n)} IN
    /\ sessionTime' = Without(sessionTime, Older(n))
    /\ sessionBuf' = Without(sessionBuf, gone)
    /\ used' = Without(used, gone)
    /\ UNCHANGED now

Clock == now' \in Times /\ UNCHANGED <<sessionBuf, sessionTime, used>>

Init ==
    /\ sessionBuf = [id \in {} |-> {}]
    /\ sessionTime = [t \in {} |-> {}]
    /\ used = [id \in {} |-> {}]
    /\ now \in Times

Next ==
    \/ \E d \in Data : New(d)
    \/ \E id \in Key : Get(id)
    \/ \E n \in Ages : OlderDel(n)
    \/ Clock

Spec == Init /\ [][Next]_vars

-----------------------------------------------------------------------------
(* The two maps are inverse to each other: no session without a time key,  *)
(* which no sweep would ever delete, and no left-over time key, whose      *)
(* sweep would delete a session that is in use.                            *)
IndexSound ==
    /\ \A id \in DOMAIN sessionBuf :
         /\ sessionBuf[id].stime \in DOMAIN sessionTime
         /\ sessionTime[sessionBuf[id].stime] = id
    /\ \A t \in DOMAIN sessionTime :
         /\ sessionTime[t] \in DOMAIN sessionBuf
         /\ sessionBuf[sessionTime[t]].stime = t

(* A time key tells the second of the last use, or the next one. *)
StampSound ==
    \A id \in DOMAIN sessionBuf :
        /\ used[id] * Wide <= sessionBuf[id].stime
        /\ sessionBuf[id].stime < (used[id] + 2) * Wide - 1

(* The maps are inverse and their time keys are those of the last use. *)
MapsSound == IndexSound /\ StampSound

Cache == INSTANCE SessionCache WITH
    Ids <- Key,
    sessions <- [id \in DOMAIN sessionBuf |->
                    [data |-> sessionBuf[id].data, used |-> used[id]]]

(* The two maps do what SessionCache promises: only the sessions unused    *)
(* for longer than n seconds go, and all those unused for longer than      *)
(* n + 1 seconds do.                                                       *)
ImplementsCache == Cache!CacheSpec
=============================================================================
