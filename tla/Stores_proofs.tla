---------------------------- MODULE Stores_proofs ----------------------------
(***************************************************************************)
(* What outlives a script: its sessions, the change flags of table rows,   *)
(* the parameters in AddParas and the object that a cut works on.          *)
(*                                                                         *)
(* The two maps of Session are inverse to each other and the class keeps   *)
(* the promise of SessionCache, for every width of the keys, every set of  *)
(* clock values and ages, and any number of sessions.  A changed row stays *)
(* flagged until a query has read it.  The nodes of a script find their    *)
(* own parameters in the one map, and a cut handles every packet once.     *)
(***************************************************************************)
EXTENDS SessionStore, TableSync, Script, SequenceTheorems, FiniteSetTheorems,
        WellFoundedInduction, NaturalsInduction, TLAPS

SessionInv == TypeOK /\ IndexSound /\ StampSound

-----------------------------------------------------------------------------
(* Maps *)

LEMMA PutType ==
    ASSUME NEW f, NEW k, NEW v, NEW V, f \in [DOMAIN f -> V], v \in V
    PROVE  Put(f, k, v) \in [DOMAIN Put(f, k, v) -> V]
  BY DEF Put

LEMMA WithoutType ==
    ASSUME NEW f, NEW S, NEW V, f \in [DOMAIN f -> V]
    PROVE  Without(f, S) \in [DOMAIN Without(f, S) -> V]
  BY DEF Without, Restrict

-----------------------------------------------------------------------------
(* Keys *)

(* A key is a number between its second and the second after the next. *)
LEMMA KeyRange ==
    ASSUME NEW t \in Times, NEW low \in Lows
    PROVE  /\ t * Wide \in Nat
           /\ t * Wide + low \in Nat
           /\ t * Wide <= t * Wide + low
           /\ t * Wide + low < (t + 2) * Wide - 1
  <1>1. t \in Nat /\ Wide \in Nat /\ Wide > 0 /\ low \in Nat /\ low <= 2 * Wide - 2
    BY SessionAssumption
  <1>2. (t + 2) * Wide = t * Wide + 2 * Wide /\ t * Wide \in Nat
    BY <1>1
  <1> QED  BY <1>1, <1>2

LEMMA KeyNat == Key \subseteq Nat
  BY KeyRange DEF Key

(* Seconds times the width keep the order of the seconds. *)
LEMMA WideMonotone ==
    ASSUME NEW a \in Int, NEW b \in Int, a <= b
    PROVE  a * Wide <= b * Wide
  <1>1. Wide \in Nat  BY SessionAssumption
  <1>2. PICK c \in Nat : b = a + c
    <2>1. b - a \in Nat /\ b = a + (b - a)  OBVIOUS
    <2> QED  BY <2>1
  <1>3. c * Wide \in Nat /\ a * Wide \in Int  BY <1>1, <1>2
  <1>4. b * Wide = a * Wide + c * Wide  BY <1>1, <1>2
  <1> QED  BY <1>3, <1>4

LEMMA NewKey ==
    ASSUME now \in Times, NEW k \in CreateSessionKey
    PROVE  k \in Key /\ now * Wide <= k /\ k < (now + 2) * Wide - 1
  BY KeyRange DEF CreateSessionKey, Key

-----------------------------------------------------------------------------
(* The invariant *)

LEMMA SessionInit == Init => SessionInv
  BY DEF Init, SessionInv, TypeOK, IndexSound, StampSound

(* Session id gets the time key t and the data d: what New and Get do,     *)
(* once the time key that id had is gone from rest.                        *)
LEMMA TouchKeepsInv ==
    ASSUME SessionInv,
           NEW id \in Key, NEW t \in CreateSessionKey, NEW d \in Data, NEW rest,
           rest \in [DOMAIN rest -> Key],
           DOMAIN rest \subseteq DOMAIN sessionTime,
           \A k \in DOMAIN sessionTime :
               sessionTime[k] # id <=> k \in DOMAIN rest,
           \A k \in DOMAIN rest : rest[k] = sessionTime[k],
           t \notin DOMAIN rest,
           sessionTime' = Put(rest, t, id),
           sessionBuf' = Put(sessionBuf, id, [data |-> d, stime |-> t]),
           used' = Put(used, id, now),
           now' = now
    PROVE  SessionInv'
  <1> DEFINE entry == [data |-> d, stime |-> t]
  <1>1. now \in Times  BY DEF SessionInv, TypeOK
  <1>2. t \in Key /\ now * Wide <= t /\ t < (now + 2) * Wide - 1
    BY <1>1, NewKey
  <1>3. entry \in [data : Data, stime : Key]  BY <1>2
  <1>4. /\ DOMAIN sessionTime' = DOMAIN rest \cup {t}
        /\ sessionTime'[t] = id
        /\ \A k \in DOMAIN rest : k # t => sessionTime'[k] = rest[k]
    BY DEF Put
  <1>5. /\ DOMAIN sessionBuf' = DOMAIN sessionBuf \cup {id}
        /\ sessionBuf'[id] = entry
        /\ \A x \in DOMAIN sessionBuf : x # id => sessionBuf'[x] = sessionBuf[x]
    BY DEF Put
  <1>6. DOMAIN used = DOMAIN sessionBuf  BY DEF SessionInv, TypeOK
  <1>7. /\ DOMAIN used' = DOMAIN used \cup {id}
        /\ used'[id] = now
        /\ \A x \in DOMAIN used : x # id => used'[x] = used[x]
    BY DEF Put
  <1>8. TypeOK'
    <2>1. sessionBuf' \in [DOMAIN sessionBuf' -> [data : Data, stime : Key]]
      BY <1>3, PutType DEF SessionInv, TypeOK
    <2>2. sessionTime' \in [DOMAIN sessionTime' -> Key]
      BY PutType
    <2>3. used' \in [DOMAIN used' -> Times]
      BY <1>1, <1>6, PutType DEF SessionInv, TypeOK
    <2> QED
      BY <2>1, <2>2, <2>3, <1>1, <1>2, <1>4, <1>5, <1>6, <1>7
      DEF SessionInv, TypeOK
  <1>9. IndexSound'
    <2>1. ASSUME NEW x \in DOMAIN sessionBuf'
          PROVE  /\ sessionBuf'[x].stime \in DOMAIN sessionTime'
                 /\ sessionTime'[sessionBuf'[x].stime] = x
      <3>1. CASE x = id  BY <3>1, <1>4, <1>5
      <3>2. CASE x # id
        <4>1. x \in DOMAIN sessionBuf /\ sessionBuf'[x] = sessionBuf[x]
          BY <3>2, <1>5
        <4>2. /\ sessionBuf[x].stime \in DOMAIN sessionTime
              /\ sessionTime[sessionBuf[x].stime] = x
          BY <4>1 DEF SessionInv, IndexSound
        <4>3. sessionBuf[x].stime \in DOMAIN rest  BY <3>2, <4>2
        <4> QED  BY <4>1, <4>2, <4>3, <1>4
      <3> QED  BY <3>1, <3>2
    <2>2. ASSUME NEW k \in DOMAIN sessionTime'
          PROVE  /\ sessionTime'[k] \in DOMAIN sessionBuf'
                 /\ sessionBuf'[sessionTime'[k]].stime = k
      <3>1. CASE k = t  BY <3>1, <1>4, <1>5
      <3>2. CASE k # t
        <4>1. k \in DOMAIN rest /\ sessionTime'[k] = rest[k]  BY <3>2, <1>4
        <4>2. k \in DOMAIN sessionTime /\ sessionTime'[k] = sessionTime[k]
              /\ sessionTime[k] # id
          BY <4>1
        <4>3. /\ sessionTime[k] \in DOMAIN sessionBuf
              /\ sessionBuf[sessionTime[k]].stime = k
          BY <4>2 DEF SessionInv, IndexSound
        <4> QED  BY <4>2, <4>3, <1>5
      <3> QED  BY <3>1, <3>2
    <2> QED  BY <2>1, <2>2 DEF IndexSound
  <1>10. StampSound'
    <2> SUFFICES ASSUME NEW x \in DOMAIN sessionBuf'
                 PROVE  /\ used'[x] * Wide <= sessionBuf'[x].stime
                        /\ sessionBuf'[x].stime < (used'[x] + 2) * Wide - 1
      BY DEF StampSound
    <2>1. CASE x = id  BY <2>1, <1>2, <1>5, <1>7
    <2>2. CASE x # id
      BY <2>2, <1>5, <1>6, <1>7 DEF SessionInv, StampSound
    <2> QED  BY <2>1, <2>2
  <1> QED  BY <1>8, <1>9, <1>10 DEF SessionInv

LEMMA NewKeepsInv ==
    ASSUME SessionInv, NEW d \in Data, New(d)
    PROVE  SessionInv'
  <1>1. PICK id \in CreateSessionKey, t \in CreateSessionKey :
            /\ id \notin DOMAIN sessionBuf /\ t \notin DOMAIN sessionTime
            /\ sessionTime' = Put(sessionTime, t, id)
            /\ sessionBuf' = Put(sessionBuf, id, [data |-> d, stime |-> t])
            /\ used' = Put(used, id, now)
            /\ now' = now
    BY DEF New
  <1>2. id \in Key  BY NewKey DEF SessionInv, TypeOK
  <1>3. \A k \in DOMAIN sessionTime : sessionTime[k] # id
    BY <1>1 DEF SessionInv, IndexSound
  <1>4. sessionTime \in [DOMAIN sessionTime -> Key]
    BY DEF SessionInv, TypeOK
  <1> QED  BY <1>1, <1>2, <1>3, <1>4, TouchKeepsInv

LEMMA GetKeepsInv ==
    ASSUME SessionInv, NEW id \in Key, Get(id)
    PROVE  SessionInv'
  <1> DEFINE rest == TimesWithout(id)
             d == sessionBuf[id].data
  <1>1. PICK t \in CreateSessionKey :
            /\ id \in DOMAIN sessionBuf
            /\ t \notin DOMAIN rest
            /\ sessionTime' = Put(rest, t, id)
            /\ sessionBuf' = Put(sessionBuf, id, [sessionBuf[id] EXCEPT !.stime = t])
            /\ used' = Put(used, id, now)
            /\ now' = now
    BY DEF Get
  <1>2. sessionBuf[id] \in [data : Data, stime : Key]
    BY <1>1 DEF SessionInv, TypeOK
  <1>3. d \in Data /\ [sessionBuf[id] EXCEPT !.stime = t] = [data |-> d, stime |-> t]
    BY <1>2
  <1>4. /\ DOMAIN rest = DOMAIN sessionTime \ {sessionBuf[id].stime}
        /\ \A k \in DOMAIN rest : rest[k] = sessionTime[k]
    BY DEF TimesWithout, Without, Restrict
  <1>5. rest \in [DOMAIN rest -> Key]
    BY WithoutType DEF TimesWithout, SessionInv, TypeOK
  <1>6. \A k \in DOMAIN sessionTime : sessionTime[k] # id <=> k \in DOMAIN rest
    BY <1>1, <1>4 DEF SessionInv, IndexSound
  <1> HIDE DEF rest, d
  <1> QED  BY <1>1, <1>3, <1>4, <1>5, <1>6, TouchKeepsInv

LEMMA OlderDelKeepsInv ==
    ASSUME SessionInv, NEW n \in Ages, OlderDel(n)
    PROVE  SessionInv'
  <1> DEFINE gone == {sessionTime[t] : t \in Older(n)}
  <1>1. /\ sessionTime' = Without(sessionTime, Older(n))
        /\ sessionBuf' = Without(sessionBuf, gone)
        /\ used' = Without(used, gone)
        /\ now' = now
    BY DEF OlderDel
  <1>2. /\ DOMAIN sessionTime' = DOMAIN sessionTime \ Older(n)
        /\ \A t \in DOMAIN sessionTime' : sessionTime'[t] = sessionTime[t]
    BY <1>1 DEF Without, Restrict
  <1>3. /\ DOMAIN sessionBuf' = DOMAIN sessionBuf \ gone
        /\ \A x \in DOMAIN sessionBuf' : sessionBuf'[x] = sessionBuf[x]
    BY <1>1 DEF Without, Restrict
  <1>4. DOMAIN used = DOMAIN sessionBuf  BY DEF SessionInv, TypeOK
  <1>5. /\ DOMAIN used' = DOMAIN used \ gone
        /\ \A x \in DOMAIN used' : used'[x] = used[x]
    BY <1>1 DEF Without, Restrict
  <1>6. TypeOK'
    <2>1. sessionBuf' \in [DOMAIN sessionBuf' -> [data : Data, stime : Key]]
      BY <1>1, WithoutType DEF SessionInv, TypeOK
    <2>2. sessionTime' \in [DOMAIN sessionTime' -> Key]
      BY <1>1, WithoutType DEF SessionInv, TypeOK
    <2>3. used' \in [DOMAIN used' -> Times]
      BY <1>1, <1>4, WithoutType DEF SessionInv, TypeOK
    <2> QED
      BY <2>1, <2>2, <2>3, <1>1, <1>2, <1>3, <1>4, <1>5 DEF SessionInv, TypeOK
  <1>7. \A x \in DOMAIN sessionBuf : x \in gone <=> sessionBuf[x].stime \in Older(n)
    <2> SUFFICES ASSUME NEW x \in DOMAIN sessionBuf
                 PROVE  x \in gone <=> sessionBuf[x].stime \in Older(n)
      OBVIOUS
    <2>1. ASSUME NEW t \in Older(n), x = sessionTime[t]
          PROVE  sessionBuf[x].stime = t
      BY <2>1 DEF SessionInv, IndexSound, Older
    <2>2. sessionTime[sessionBuf[x].stime] = x
      BY DEF SessionInv, IndexSound
    <2> QED  BY <2>1, <2>2
  <1>8. IndexSound'
    <2>1. ASSUME NEW x \in DOMAIN sessionBuf'
          PROVE  /\ sessionBuf'[x].stime \in DOMAIN sessionTime'
                 /\ sessionTime'[sessionBuf'[x].stime] = x
      <3>1. x \in DOMAIN sessionBuf /\ x \notin gone  BY <1>3
      <3>2. /\ sessionBuf[x].stime \in DOMAIN sessionTime \ Older(n)
            /\ sessionTime[sessionBuf[x].stime] = x
        BY <3>1, <1>7 DEF SessionInv, IndexSound
      <3> QED  BY <3>2, <1>2, <1>3
    <2>2. ASSUME NEW t \in DOMAIN sessionTime'
          PROVE  /\ sessionTime'[t] \in DOMAIN sessionBuf'
                 /\ sessionBuf'[sessionTime'[t]].stime = t
      <3>1. t \in DOMAIN sessionTime /\ t \notin Older(n)  BY <1>2
      <3>2. /\ sessionTime[t] \in DOMAIN sessionBuf
            /\ sessionBuf[sessionTime[t]].stime = t
        BY <3>1 DEF SessionInv, IndexSound
      <3>3. sessionTime[t] \in DOMAIN sessionBuf'  BY <3>1, <3>2, <1>3, <1>7
      <3> QED  BY <3>2, <3>3, <1>2, <1>3
    <2> QED  BY <2>1, <2>2 DEF IndexSound
  <1>9. StampSound'
    BY <1>3, <1>4, <1>5 DEF SessionInv, StampSound
  <1> QED  BY <1>6, <1>8, <1>9 DEF SessionInv

LEMMA SessionStep ==
    ASSUME SessionInv, [Next]_vars
    PROVE  SessionInv'
  <1>1. CASE \E d \in Data : New(d)  BY <1>1, NewKeepsInv
  <1>2. CASE \E id \in Key : Get(id)  BY <1>2, GetKeepsInv
  <1>3. CASE \E n \in Ages : OlderDel(n)  BY <1>3, OlderDelKeepsInv
  <1>4. CASE Clock
    BY <1>4 DEF Clock, SessionInv, TypeOK, IndexSound, StampSound
  <1>5. CASE UNCHANGED vars
    BY <1>5 DEF vars, SessionInv, TypeOK, IndexSound, StampSound
  <1> QED  BY <1>1, <1>2, <1>3, <1>4, <1>5 DEF Next

(* SessionInv holds in every reachable state. *)
THEOREM SessionInvariant == Spec => []SessionInv
  <1>1. Init => SessionInv  BY SessionInit
  <1>2. SessionInv /\ [Next]_vars => SessionInv'  BY SessionStep
  <1> QED  BY <1>1, <1>2, PTL DEF Spec

(* New, Get and OlderDel keep SessionBuf and SessionTime inverse to each   *)
(* other.                                                                  *)
THEOREM IndexSoundHolds == Spec => []IndexSound
  <1>1. SessionInv => IndexSound  BY DEF SessionInv
  <1> QED  BY <1>1, SessionInvariant, PTL

(* A time key tells the second of the last use, or the next one.           *)
THEOREM StampSoundHolds == Spec => []StampSound
  <1>1. SessionInv => StampSound  BY DEF SessionInv
  <1> QED  BY <1>1, SessionInvariant, PTL

(* A session is under one time key, of its last use. *)
THEOREM MapsSoundHolds == Spec => []MapsSound
  <1>1. SessionInv => MapsSound  BY DEF SessionInv, MapsSound
  <1> QED  BY <1>1, SessionInvariant, PTL

(* The maps, the history and the clock keep to their types. *)
THEOREM SessionTypes == Spec => []TypeOK
  <1>1. SessionInv => TypeOK  BY DEF SessionInv
  <1> QED  BY <1>1, SessionInvariant, PTL

-----------------------------------------------------------------------------
(* Refinement *)

(* What a caller sees of the maps: Cache's `sessions'. *)
View == [id \in DOMAIN sessionBuf |->
            [data |-> sessionBuf[id].data, used |-> used[id]]]

LEMMA ViewInit == Init => Cache!CacheInit
  BY DEF Init, Cache!CacheInit

(* A session that gets a new time key is a session used now. *)
LEMMA TouchIsPut ==
    ASSUME SessionInv, NEW id, NEW e,
           sessionBuf' = Put(sessionBuf, id, e),
           used' = Put(used, id, now)
    PROVE  View' = Cache!Put(View, id, [data |-> e.data, used |-> now])
  <1>1. DOMAIN used = DOMAIN sessionBuf  BY DEF SessionInv, TypeOK
  <1>2. DOMAIN sessionBuf' = DOMAIN sessionBuf \cup {id}  BY DEF Put
  <1>3. \A x \in DOMAIN sessionBuf' :
            /\ sessionBuf'[x] = IF x = id THEN e ELSE sessionBuf[x]
            /\ used'[x] = IF x = id THEN now ELSE used[x]
    BY <1>1, <1>2 DEF Put
  <1> QED  BY <1>2, <1>3 DEF View, Cache!Put

LEMMA NewRefines ==
    ASSUME SessionInv, NEW d \in Data, New(d)
    PROVE  Cache!CacheNew(d)
  <1>1. PICK id \in CreateSessionKey, t \in CreateSessionKey :
            /\ id \notin DOMAIN sessionBuf
            /\ sessionBuf' = Put(sessionBuf, id, [data |-> d, stime |-> t])
            /\ used' = Put(used, id, now)
            /\ now' = now
    BY DEF New
  <1>2. id \in Key  BY NewKey DEF SessionInv, TypeOK
  <1>3. View' = Cache!Put(View, id, [data |-> d, used |-> now])
    BY <1>1, TouchIsPut
  <1>4. DOMAIN View = DOMAIN sessionBuf  BY DEF View
  <1> QED  BY <1>1, <1>2, <1>3, <1>4 DEF Cache!CacheNew, View

LEMMA GetRefines ==
    ASSUME SessionInv, NEW id \in Key, Get(id)
    PROVE  Cache!CacheGet(id)
  <1>1. PICK t \in CreateSessionKey :
            /\ id \in DOMAIN sessionBuf
            /\ sessionBuf' = Put(sessionBuf, id, [sessionBuf[id] EXCEPT !.stime = t])
            /\ used' = Put(used, id, now)
            /\ now' = now
    BY DEF Get
  <1>2. sessionBuf[id] \in [data : Data, stime : Key]
    BY <1>1 DEF SessionInv, TypeOK
  <1>3. [sessionBuf[id] EXCEPT !.stime = t].data = sessionBuf[id].data
    BY <1>2
  <1>4. View' = Cache!Put(View, id, [data |-> sessionBuf[id].data, used |-> now])
    BY <1>1, <1>3, TouchIsPut
  <1>5. id \in DOMAIN View
        /\ [View[id] EXCEPT !.used = now] = [data |-> sessionBuf[id].data, used |-> now]
    BY <1>1 DEF View
  <1> QED  BY <1>1, <1>4, <1>5 DEF Cache!CacheGet, View

(* A sweep of n seconds takes no session used in the last n seconds, and   *)
(* every session not used in the last n + 1.                               *)
LEMMA OlderDelRefines ==
    ASSUME SessionInv, NEW n \in Ages, OlderDel(n)
    PROVE  Cache!CacheSweep(n)
  <1> DEFINE gone == {sessionTime[t] : t \in Older(n)}
  <1>1. /\ sessionBuf' = Without(sessionBuf, gone)
        /\ used' = Without(used, gone)
        /\ now' = now
    BY DEF OlderDel
  <1>2. DOMAIN used = DOMAIN sessionBuf  BY DEF SessionInv, TypeOK
  <1>3. View' = Cache!Without(View, gone)
    BY <1>1, <1>2 DEF View, Without, Cache!Without, Restrict, Cache!Restrict
  <1>4. DOMAIN View = DOMAIN sessionBuf /\ \A x \in DOMAIN View : View[x].used = used[x]
    BY DEF View
  <1>5. now \in Nat /\ n \in Nat /\ Wide \in Nat /\ Wide > 0
    BY SessionAssumption DEF SessionInv, TypeOK
  <1>6. gone \subseteq Cache!UnusedSince(now - n)
    <2> SUFFICES ASSUME NEW t \in Older(n)
                 PROVE  sessionTime[t] \in Cache!UnusedSince(now - n)
      OBVIOUS
    <2> DEFINE x == sessionTime[t]
    <2>1. /\ x \in DOMAIN sessionBuf /\ sessionBuf[x].stime = t
          /\ t < (now - n) * Wide
      BY DEF SessionInv, IndexSound, Older
    <2>2. /\ used[x] \in Nat /\ t \in Nat
          /\ used[x] * Wide <= t
      BY <2>1, SessionAssumption, KeyNat DEF SessionInv, TypeOK, StampSound
    <2>3. used[x] * Wide \in Int /\ (now - n) * Wide \in Int  BY <2>2, <1>5
    <2>4. used[x] < now - n
      <3>1. ASSUME now - n <= used[x]  PROVE FALSE
        <4>1. (now - n) * Wide <= used[x] * Wide
          BY <3>1, <2>2, <1>5, WideMonotone
        <4> QED  BY <4>1, <2>1, <2>2, <2>3
      <3> QED  BY <3>1, <2>2, <1>5
    <2> QED  BY <2>1, <2>4, <1>4 DEF Cache!UnusedSince, View
  <1>7. Cache!UnusedSince(now - n - 1) \subseteq gone
    <2> SUFFICES ASSUME NEW x \in DOMAIN sessionBuf, used[x] < now - n - 1
                 PROVE  x \in gone
      BY <1>4 DEF Cache!UnusedSince, View
    <2> DEFINE t == sessionBuf[x].stime
    <2>1. /\ t \in DOMAIN sessionTime /\ sessionTime[t] = x
          /\ t < (used[x] + 2) * Wide - 1
      BY DEF SessionInv, IndexSound, StampSound
    <2>2. used[x] \in Nat /\ t \in Nat
      BY <2>1, SessionAssumption, KeyNat DEF SessionInv, TypeOK
    <2>3. (used[x] + 2) * Wide \in Int /\ (now - n) * Wide \in Int  BY <2>2, <1>5
    <2>4. (used[x] + 2) * Wide <= (now - n) * Wide
      <3>1. used[x] + 2 <= now - n /\ used[x] + 2 \in Int /\ now - n \in Int
        BY <2>2, <1>5
      <3> QED  BY <3>1, WideMonotone
    <2>5. t < (now - n) * Wide  BY <2>1, <2>2, <2>3, <2>4
    <2> QED  BY <2>1, <2>5 DEF Older
  <1> QED  BY <1>1, <1>3, <1>6, <1>7 DEF Cache!CacheSweep, View

LEMMA StepRefines ==
    ASSUME SessionInv, [Next]_vars
    PROVE  [Cache!CacheNext]_(Cache!cacheVars)
  <1>1. CASE \E d \in Data : New(d)
    BY <1>1, NewRefines DEF Cache!CacheNext
  <1>2. CASE \E id \in Key : Get(id)
    BY <1>2, GetRefines DEF Cache!CacheNext
  <1>3. CASE \E n \in Ages : OlderDel(n)
    BY <1>3, OlderDelRefines DEF Cache!CacheNext
  <1>4. CASE Clock
    BY <1>4 DEF Clock, Cache!CacheNext, Cache!CacheClock
  <1>5. CASE UNCHANGED vars
    BY <1>5 DEF vars, Cache!cacheVars
  <1> QED  BY <1>1, <1>2, <1>3, <1>4, <1>5 DEF Next

(* SessionBuf and SessionTime together keep the promise of SessionCache:   *)
(* DEL_TIME_OUT of n seconds takes only sessions unused for longer than n  *)
(* seconds, and all those unused for longer than n + 1.                    *)
THEOREM SessionRefinesCache == Spec => ImplementsCache
  <1>1. Init => Cache!CacheInit  BY ViewInit
  <1>2. SessionInv /\ [Next]_vars => [Cache!CacheNext]_(Cache!cacheVars)
    BY StepRefines
  <1> QED
    BY <1>1, <1>2, SessionInvariant, PTL DEF Spec, ImplementsCache, Cache!CacheSpec

-----------------------------------------------------------------------------
(* Induction *)

LEMMA NatMin ==
    ASSUME NEW T, T \subseteq Nat, T # {}
    PROVE  \E x \in T : \A y \in T : x <= y
<1> DEFINE R == OpToRel(<, Nat)
<1>1. IsWellFoundedOn(R, Nat)
  BY NatLessThanWellFounded
<1>2. PICK x \in T : \A y \in T : ~ (<<y, x>> \in R)
  BY <1>1, WFMin
<1>3. ASSUME NEW y \in T PROVE x <= y
  <2>1. ~ (y < x)
    BY <1>2 DEF OpToRel
  <2> QED BY <2>1
<1> QED BY <1>3

LEMMA MinIs ==
    ASSUME NEW T, T \subseteq Nat, T # {}
    PROVE  Min(T) \in T /\ \A y \in T : Min(T) <= y
  BY NatMin DEF Min

(* A set that has 0 and with a number the next has all. *)
LEMMA Induct ==
    ASSUME NEW T, 0 \in T, \A n \in Nat : n \in T => n + 1 \in T
    PROVE  \A n \in Nat : n \in T
<1> SUFFICES ASSUME NEW m \in Nat, m \notin T PROVE FALSE
  OBVIOUS
<1>1. PICK x \in Nat \ T : \A y \in Nat \ T : x <= y
  <2>1. m \in Nat \ T
    OBVIOUS
  <2> QED BY <2>1, NatMin
<1>2. x - 1 \in Nat
  BY <1>1
<1>3. x - 1 \in T
  BY <1>1, <1>2
<1> QED BY <1>1, <1>2, <1>3

-----------------------------------------------------------------------------
(* Change flags of rows *)

LEMMA RowsIs ==
    ASSUME NEW n \in 0 .. MaxRows, flags \in [0 .. n - 1 -> BOOLEAN]
    PROVE  Rows = n /\ DOMAIN flags = 0 .. n - 1
<1>1. MaxRows \in Nat /\ n \in Nat
  BY SyncAssumption
<1>2. Cardinality(0 .. n - 1) = n
  BY <1>1, FS_Interval
<1> QED BY <1>2 DEF Rows

LEMMA RowsType ==
    ASSUME flags \in Flags
    PROVE  /\ Rows \in 0 .. MaxRows /\ MaxRows \in Nat
           /\ flags \in [0 .. Rows - 1 -> BOOLEAN] /\ DOMAIN flags = 0 .. Rows - 1
<1>1. PICK n \in 0 .. MaxRows : flags \in [0 .. n - 1 -> BOOLEAN]
  BY DEF Flags
<1> QED BY <1>1, RowsIs, SyncAssumption

LEMMA FlagsOf ==
    ASSUME NEW n \in 0 .. MaxRows, NEW f \in [0 .. n - 1 -> BOOLEAN]
    PROVE  f \in Flags
  BY DEF Flags

(* A row, old or new, written as a whole. *)
LEMMA WriteKeeps ==
    ASSUME Tracked, NEW r \in 0 .. MaxRows - 1, Write(r)
    PROVE  Tracked'
<1>1. /\ Rows \in 0 .. MaxRows /\ MaxRows \in Nat /\ r \in Nat /\ r < MaxRows
      /\ flags \in [0 .. Rows - 1 -> BOOLEAN] /\ DOMAIN flags = 0 .. Rows - 1
  BY RowsType DEF Tracked, SyncTypeOK
<1>2. PICK n \in 0 .. MaxRows : (0 .. Rows - 1) \cup {r} = 0 .. n - 1
  <2>1. CASE r < Rows
    <3>1. (0 .. Rows - 1) \cup {r} = 0 .. Rows - 1
      BY <2>1, <1>1
    <3> QED BY <3>1, <1>1
  <2>2. CASE r = Rows
    <3>1. (0 .. Rows - 1) \cup {r} = 0 .. (r + 1) - 1 /\ r + 1 \in 0 .. MaxRows
      BY <2>2, <1>1
    <3> QED BY <3>1
  <2>3. r <= Rows
    BY DEF Write
  <2> QED BY <2>1, <2>2, <2>3, <1>1
<1>3. flags' = [i \in 0 .. n - 1 |-> i = r \/ flags[i]]
  BY <1>1, <1>2 DEF Write
<1>4. flags' \in [0 .. n - 1 -> BOOLEAN]
  <2>1. \A i \in 0 .. n - 1 : (i = r \/ flags[i]) \in BOOLEAN
    OBVIOUS
  <2> QED BY <2>1, <1>3
<1>5. flags' \in Flags /\ DOMAIN flags' = 0 .. n - 1
  BY <1>3, <1>4, FlagsOf
<1>6. SyncTypeOK'
  <2>1. marks' \subseteq Bits /\ changed' \in BOOLEAN
    BY DEF Write, HasBit, Tracked, SyncTypeOK
  <2>2. owed' \subseteq DOMAIN flags'
    BY <1>1, <1>2, <1>5 DEF Write, Tracked, SyncTypeOK
  <2>3. disk' \in [flags : Flags, marks : SUBSET Bits, changed : BOOLEAN]
    BY <1>5, <2>1 DEF Write, Saved
  <2> QED BY <1>5, <2>1, <2>2, <2>3 DEF Write, Tracked, SyncTypeOK
<1>7. ASSUME NEW s \in owed'
      PROVE  flags'[s] /\ s \in DOMAIN disk'.flags /\ disk'.flags[s]
  <2>1. s \in 0 .. n - 1 /\ disk'.flags = flags'
    BY <1>5, <1>6 DEF SyncTypeOK, Write, Saved
  <2>2. s = r \/ s \in owed
    BY DEF Write
  <2>3. flags'[s]
    BY <2>1, <2>2, <1>3 DEF Tracked
  <2> QED BY <2>1, <2>3, <1>5
<1> QED BY <1>6, <1>7 DEF Tracked

LEMMA WriteQuietlyKeeps ==
    ASSUME Tracked, WriteQuietly
    PROVE  Tracked'
<1>1. /\ Rows \in 0 .. MaxRows /\ MaxRows \in Nat /\ Rows < MaxRows
      /\ flags \in [0 .. Rows - 1 -> BOOLEAN] /\ DOMAIN flags = 0 .. Rows - 1
  BY RowsType DEF Tracked, SyncTypeOK, WriteQuietly
<1>2. PICK n \in 0 .. MaxRows : n = Rows + 1 /\ 0 .. Rows = 0 .. n - 1
  BY <1>1
<1>3. flags' = [i \in 0 .. n - 1 |-> i = Rows \/ flags[i]]
  BY <1>2 DEF WriteQuietly
<1>4. flags' \in [0 .. n - 1 -> BOOLEAN]
  <2>1. \A i \in 0 .. n - 1 : (i = Rows \/ flags[i]) \in BOOLEAN
    OBVIOUS
  <2> QED BY <2>1, <1>3
<1>5. flags' \in Flags /\ DOMAIN flags' = 0 .. n - 1
  BY <1>3, <1>4, FlagsOf
<1>6. SyncTypeOK'
  <2>1. owed' \subseteq DOMAIN flags'
    BY <1>1, <1>2, <1>5 DEF WriteQuietly, Tracked, SyncTypeOK
  <2>2. disk' \in [flags : Flags, marks : SUBSET Bits, changed : BOOLEAN]
    BY <1>5 DEF WriteQuietly, Saved, Tracked, SyncTypeOK
  <2> QED BY <1>5, <2>1, <2>2 DEF WriteQuietly, Tracked, SyncTypeOK
<1>7. ASSUME NEW s \in owed'
      PROVE  flags'[s] /\ s \in DOMAIN disk'.flags /\ disk'.flags[s]
  <2>1. s \in 0 .. n - 1 /\ disk'.flags = flags' /\ s \in owed
    BY <1>5, <1>6 DEF SyncTypeOK, WriteQuietly, Saved
  <2>2. flags'[s]
    BY <2>1, <1>3 DEF Tracked
  <2> QED BY <2>1, <2>2, <1>5
<1> QED BY <1>6, <1>7 DEF Tracked

(* The rows behind move down, with what is owed of them. *)
LEMMA DeleteKeeps ==
    ASSUME Tracked, NEW r \in 0 .. MaxRows - 1, Delete(r)
    PROVE  Tracked'
<1>1. /\ Rows \in 0 .. MaxRows /\ MaxRows \in Nat /\ r \in 0 .. Rows - 1
      /\ flags \in [0 .. Rows - 1 -> BOOLEAN] /\ DOMAIN flags = 0 .. Rows - 1
  BY RowsType DEF Tracked, SyncTypeOK, Delete
<1>2. PICK n \in 0 .. MaxRows : n = Rows - 1 /\ 0 .. Rows - 2 = 0 .. n - 1
  BY <1>1
<1>3. flags' = [i \in 0 .. n - 1 |-> flags[IF i < r THEN i ELSE i + 1]]
  BY <1>2 DEF Delete
<1>4. flags' \in [0 .. n - 1 -> BOOLEAN]
  <2>1. \A i \in 0 .. n - 1 : (IF i < r THEN i ELSE i + 1) \in 0 .. Rows - 1
    BY <1>1, <1>2
  <2>2. \A i \in 0 .. n - 1 : flags[IF i < r THEN i ELSE i + 1] \in BOOLEAN
    BY <2>1, <1>1
  <2> QED BY <2>2, <1>3
<1>5. flags' \in Flags /\ DOMAIN flags' = 0 .. n - 1
  BY <1>3, <1>4, FlagsOf
<1>6. owed \subseteq 0 .. Rows - 1
  BY <1>1 DEF Tracked, SyncTypeOK
<1>7. ASSUME NEW s \in owed'
      PROVE  s \in 0 .. n - 1 /\ flags'[s]
  <2>1. PICK t \in owed : t # r /\ s = IF t < r THEN t ELSE t - 1
    <3>1. s \in Down(owed, r)
      BY DEF Delete
    <3>2. CASE s \in {i \in owed : i < r}
      BY <3>2, <1>1, <1>6
    <3>3. CASE s \in {i - 1 : i \in {j \in owed : j > r}}
      BY <3>3, <1>1, <1>6
    <3> QED BY <3>1, <3>2, <3>3 DEF Down
  <2>2. t \in 0 .. Rows - 1 /\ s \in 0 .. n - 1 /\ (IF s < r THEN s ELSE s + 1) = t
    BY <2>1, <1>1, <1>2, <1>6
  <2>3. flags[t]
    BY DEF Tracked
  <2> QED BY <2>2, <2>3, <1>3
<1>8. SyncTypeOK'
  <2>1. disk' \in [flags : Flags, marks : SUBSET Bits, changed : BOOLEAN]
    BY <1>5 DEF Delete, Saved, Tracked, SyncTypeOK
  <2> QED BY <1>5, <1>7, <2>1 DEF Delete, Tracked, SyncTypeOK
<1>9. disk'.flags = flags'
  BY DEF Delete, Saved
<1> QED BY <1>5, <1>7, <1>8, <1>9 DEF Tracked

(* Flags that are taken back only of rows that are owed no more. *)
LEMMA TakenBack ==
    ASSUME Tracked, SyncTypeOK',
           DOMAIN flags' = DOMAIN flags, owed' \subseteq owed,
           \A s \in owed' : flags[s] => flags'[s],
           Saved \/ UNCHANGED disk
    PROVE  Tracked'
<1>1. ASSUME NEW s \in owed'
      PROVE  flags'[s] /\ s \in DOMAIN disk'.flags /\ disk'.flags[s]
  <2>1. s \in owed /\ flags[s] /\ flags'[s] /\ s \in DOMAIN flags'
    BY DEF Tracked, SyncTypeOK
  <2>2. CASE Saved
    <3>1. disk'.flags = flags'
      BY <2>2 DEF Saved
    <3> QED BY <2>1, <3>1
  <2>3. CASE UNCHANGED disk
    BY <2>1, <2>3 DEF Tracked
  <2> QED BY <2>1, <2>2, <2>3
<1> QED BY <1>1 DEF Tracked

LEMMA ClearedType ==
    ASSUME SyncTypeOK, NEW q
    PROVE  Cleared(q) \in Flags /\ DOMAIN Cleared(q) = DOMAIN flags
<1>1. /\ Rows \in 0 .. MaxRows /\ flags \in [0 .. Rows - 1 -> BOOLEAN]
      /\ DOMAIN flags = 0 .. Rows - 1
  BY RowsType DEF SyncTypeOK
<1>2. CASE q.clear
  <2>1. Cleared(q) = [r \in 0 .. Rows - 1 |-> flags[r] /\ r \notin Reached(q)]
    BY <1>1, <1>2 DEF Cleared
  <2>2. \A r \in 0 .. Rows - 1 : (flags[r] /\ r \notin Reached(q)) \in BOOLEAN
    OBVIOUS
  <2>3. Cleared(q) \in [0 .. Rows - 1 -> BOOLEAN]
    BY <2>1, <2>2
  <2> QED BY <2>1, <2>3, <1>1, FlagsOf
<1>3. CASE ~q.clear
  BY <1>3 DEF Cleared, SyncTypeOK
<1> QED BY <1>2, <1>3

(* Who clears reads what it clears. *)
LEMMA QueryKeeps ==
    ASSUME Tracked, Strict, NEW q, Query(q)
    PROVE  Tracked'
<1>1. flags' \in Flags /\ DOMAIN flags' = DOMAIN flags /\ owed' = owed \ Read(q)
  BY ClearedType DEF Query, Tracked
<1>2. Saved \/ UNCHANGED disk
  BY DEF Query
<1>3. marks' \subseteq Bits /\ changed' \in BOOLEAN
  BY DEF Query, Tracked, SyncTypeOK
<1>4. SyncTypeOK'
  <2>1. disk' \in [flags : Flags, marks : SUBSET Bits, changed : BOOLEAN]
    BY <1>1, <1>2, <1>3 DEF Saved, Tracked, SyncTypeOK
  <2> QED BY <1>1, <1>3, <2>1 DEF Query, Tracked, SyncTypeOK
<1>5. ASSUME NEW s \in owed', flags[s]
      PROVE  flags'[s]
  <2>1. CASE q.clear
    <3>1. q.page = NoPage
      BY <2>1 DEF Query, Sensible
    <3>2. Reached(q) = Read(q)
      BY <3>1 DEF Reached, Read
    <3>3. s \in DOMAIN flags /\ s \notin Reached(q)
      BY <1>1, <3>2 DEF Tracked, SyncTypeOK
    <3> QED BY <2>1, <3>3, <1>5 DEF Query, Cleared
  <2>2. CASE ~q.clear
    BY <2>2, <1>5 DEF Query, Cleared
  <2> QED BY <2>1, <2>2
<1> QED BY <1>1, <1>2, <1>4, <1>5, TakenBack

(* An access mask forbids nothing of a query that clears. *)
LEMMA QueryForbiddenKeeps ==
    ASSUME Tracked, Strict, NEW q, QueryForbidden(q)
    PROVE  Tracked'
<1>1. ~q.clear
  BY DEF QueryForbidden, Forbidden, Sensible
<1>2. UNCHANGED syncVars
  BY <1>1 DEF QueryForbidden, Cleared, syncVars
<1> QED BY <1>2 DEF syncVars, Tracked, SyncTypeOK

LEMMA ReadOneKeeps ==
    ASSUME Tracked, NEW r, NEW clear \in BOOLEAN, ReadOne(r, clear)
    PROVE  Tracked'
<1>1. /\ Rows \in 0 .. MaxRows /\ flags \in [0 .. Rows - 1 -> BOOLEAN]
      /\ DOMAIN flags = 0 .. Rows - 1
  BY RowsType DEF Tracked, SyncTypeOK
<1>2. flags' \in [0 .. Rows - 1 -> BOOLEAN] /\ DOMAIN flags' = DOMAIN flags
  BY <1>1 DEF ReadOne
<1>3. flags' \in Flags /\ owed' = owed \ {r}
  BY <1>1, <1>2, FlagsOf DEF ReadOne
<1>4. Saved \/ UNCHANGED disk
  BY DEF ReadOne
<1>5. SyncTypeOK'
  <2>1. marks' \in SUBSET Bits /\ changed' \in BOOLEAN
    BY DEF ReadOne, Tracked, SyncTypeOK
  <2>2. disk' \in [flags : Flags, marks : SUBSET Bits, changed : BOOLEAN]
    <3>1. CASE Saved
      BY <1>3, <2>1, <3>1 DEF Saved
    <3>2. CASE UNCHANGED disk
      BY <3>2 DEF Tracked, SyncTypeOK
    <3> QED BY <1>4, <3>1, <3>2
  <2> QED BY <1>2, <1>3, <2>2 DEF ReadOne, Tracked, SyncTypeOK
<1>6. ASSUME NEW s \in owed', flags[s]
      PROVE  flags'[s]
  <2>1. s \in DOMAIN flags /\ s # r
    BY <1>3 DEF Tracked, SyncTypeOK
  <2> QED BY <2>1, <1>6, <1>1 DEF ReadOne
<1> QED BY <1>2, <1>3, <1>4, <1>5, <1>6, TakenBack

LEMMA CrashKeeps ==
    ASSUME Tracked, Crash
    PROVE  Tracked'
<1>1. disk.flags \in Flags /\ disk.marks \subseteq Bits /\ disk.changed \in BOOLEAN
  BY DEF Tracked, SyncTypeOK
<1>2. crashes' \in 0 .. MaxCrash
  BY SyncAssumption DEF Crash, Tracked, SyncTypeOK
<1>3. owed \subseteq DOMAIN disk.flags
  BY DEF Tracked
<1>4. SyncTypeOK'
  BY <1>1, <1>2, <1>3 DEF Crash, Tracked, SyncTypeOK
<1> QED BY <1>4 DEF Crash, Tracked

LEMMA TrackedInit == SyncInit => Tracked
<1> SUFFICES ASSUME SyncInit PROVE Tracked
  OBVIOUS
<1>1. flags \in [0 .. 0 - 1 -> BOOLEAN] /\ 0 \in 0 .. MaxRows
  BY SyncAssumption DEF SyncInit
<1>2. flags \in Flags
  BY <1>1, FlagsOf
<1>3. crashes \in 0 .. MaxCrash
  BY SyncAssumption DEF SyncInit
<1> QED BY <1>2, <1>3 DEF SyncInit, Tracked, SyncTypeOK

LEMMA TrackedStep ==
    ASSUME Tracked, Strict, [SyncNext]_syncVars
    PROVE  Tracked'
<1>1. ASSUME NEW r \in 0 .. MaxRows - 1, Write(r) PROVE Tracked'
  BY <1>1, WriteKeeps
<1>2. ASSUME NEW r \in 0 .. MaxRows - 1, Delete(r) PROVE Tracked'
  BY <1>2, DeleteKeeps
<1>3. CASE WriteQuietly
  BY <1>3, WriteQuietlyKeeps
<1>4. ASSUME NEW q \in Queries, Query(q) PROVE Tracked'
  BY <1>4, QueryKeeps
<1>5. ASSUME NEW q \in Queries, QueryForbidden(q) PROVE Tracked'
  BY <1>5, QueryForbiddenKeeps
<1>6. ASSUME NEW r \in DOMAIN flags, NEW clear \in BOOLEAN, ReadOne(r, clear)
      PROVE  Tracked'
  BY <1>6, ReadOneKeeps
<1>7. CASE Crash
  BY <1>7, CrashKeeps
<1>8. CASE UNCHANGED syncVars
  BY <1>8 DEF syncVars, Tracked, SyncTypeOK
<1> QED BY <1>1, <1>2, <1>3, <1>4, <1>5, <1>6, <1>7, <1>8 DEF SyncNext

(* Tracked, for every number of rows, layout of the marks and set of       *)
(* pages, if who clears flags reads what it clears.                        *)
THEOREM TrackedHolds ==
    ASSUME Strict
    PROVE  SyncSpec => []Tracked
  BY TrackedInit, TrackedStep, PTL DEF SyncSpec

-----------------------------------------------------------------------------
(* Rows and their bits *)

(* Division with a remainder. *)
LEMMA DivMod ==
    ASSUME NEW a \in Nat, NEW s \in Nat \ {0}
    PROVE  a \div s \in Nat /\ (a % s) \in 0 .. s - 1 /\ a = s * (a \div s) + (a % s)
  OBVIOUS

LEMMA DivIs ==
    ASSUME NEW a \in Nat, NEW s \in Nat \ {0}, NEW q \in Nat, NEW m \in 0 .. s - 1, a = s * q + m
    PROVE  a \div s = q /\ (a % s) = m
  OBVIOUS

LEMMA StepSizes ==
    /\ BitStep \in Nat \ {0} /\ ByteBits \in Nat \ {0} /\ ByteStep \in Nat \ {0}
    /\ ByteStep = BitStep * ByteBits /\ BitStep <= ByteStep
    /\ MaxNum \in Nat /\ MaxRows \in Nat /\ DataLen \in Nat \ {0}
    /\ BitStep * (ByteBits * DataLen) <= MaxNum
<1>1. ByteBits \in Nat \ {0} /\ DataLen \in Nat \ {0} /\ MaxNum \in Nat /\ BitStep > 0 /\ MaxRows \in Nat
  BY SyncAssumption
<1>2. PICK d \in Nat \ {0} : d = ByteBits * DataLen
  BY <1>1
<1>3. BitStep = MaxNum \div d
  BY <1>2 DEF BitStep
<1>4. PICK s \in Nat \ {0} : s = BitStep
  BY <1>1, <1>2, <1>3, DivMod
<1>5. d * s <= MaxNum
  <2>1. MaxNum = d * s + (MaxNum % d) /\ (MaxNum % d) \in 0 .. d - 1
    BY <1>1, <1>2, <1>3, <1>4, DivMod
  <2>2. PICK x \in Nat : x = d * s
    OBVIOUS
  <2>3. PICK y \in Nat : y = (MaxNum % d)
    BY <2>1
  <2>4. MaxNum = x + y
    BY <2>1, <2>2, <2>3
  <2> QED BY <2>2, <2>4
<1>6. s * d = d * s /\ s * ByteBits \in Nat \ {0} /\ s <= s * ByteBits
  BY <1>1, <1>2
<1> QED BY <1>1, <1>2, <1>4, <1>5, <1>6 DEF ByteStep

(* A byte's rows have its bits, a bit's rows lie together. *)
LEMMA BitIs ==
    ASSUME NEW r \in Nat
    PROVE  /\ BitOf(r) = r \div BitStep /\ BitOf(r) \in Nat
           /\ BitOf(r) - ByteBits * (r \div ByteStep) \in 0 .. ByteBits - 1
<1>1. PICK s \in Nat \ {0} : s = BitStep
  BY StepSizes
<1>2. PICK w \in Nat \ {0} : w = ByteBits
  BY StepSizes
<1>3. PICK t \in Nat \ {0} : t = ByteStep /\ t = s * w
  BY StepSizes, <1>1, <1>2
<1>4. PICK Q \in Nat, m \in 0 .. t - 1 : r = t * Q + m /\ Q = r \div t /\ m = (r % t)
  BY DivMod
<1>5. PICK p \in Nat, k \in 0 .. s - 1 : m = s * p + k /\ p = m \div s
  BY DivMod
<1>6. p < w
  <2> SUFFICES ASSUME p >= w PROVE FALSE
    OBVIOUS
  <2>1. s * p >= s * w
    OBVIOUS
  <2> QED BY <2>1, <1>3, <1>4, <1>5
<1>7. PICK q \in Nat : q = w * Q + p
  OBVIOUS
<1>8. r = s * q + k
  <2>1. s * q = s * (w * Q) + s * p
    BY <1>7
  <2>2. s * (w * Q) = t * Q
    BY <1>3
  <2>3. PICK x \in Nat, y \in Nat, z \in Nat : x = s * p /\ y = t * Q /\ z = s * q
    OBVIOUS
  <2>4. z = y + x
    BY <2>1, <2>2, <2>3
  <2>5. r = y + (x + k)
    BY <1>4, <1>5, <2>3
  <2>6. r = z + k
    BY <2>4, <2>5
  <2> QED BY <2>3, <2>6
<1>9. r \div s = q
  BY <1>8, DivIs
<1>10. BitOf(r) = Q * w + p
  BY <1>1, <1>2, <1>3, <1>4, <1>5 DEF BitOf
<1>11. Q * w = w * Q /\ w * Q \in Nat
  OBVIOUS
<1>12. BitOf(r) = q
  BY <1>7, <1>10, <1>11
<1>13. q - w * Q = p
  BY <1>7, <1>11
<1>14. ByteBits * (r \div ByteStep) = w * Q
  BY <1>2, <1>3, <1>4
<1> QED BY <1>1, <1>2, <1>6, <1>9, <1>12, <1>13, <1>14

LEMMA BitBound ==
    ASSUME NEW r \in Nat, BitOf(r) \in Bits
    PROVE  r < MaxNum
<1>1. PICK s \in Nat \ {0} : s = BitStep
  BY StepSizes
<1>2. PICK d \in Nat \ {0} : d = DataLen * ByteBits /\ s * d <= MaxNum
  <2>1. ByteBits * DataLen = DataLen * ByteBits /\ DataLen * ByteBits \in Nat \ {0}
    BY StepSizes
  <2> QED BY <2>1, <1>1, StepSizes
<1>3. PICK q \in Nat, k \in 0 .. s - 1 : r = s * q + k /\ q = BitOf(r)
  <2>1. PICK q \in Nat, k \in 0 .. s - 1 : r = s * q + k /\ q = r \div s
    BY DivMod
  <2>2. BitOf(r) = q
    BY <1>1, <2>1, BitIs
  <2> QED BY <2>1, <2>2
<1>4. q <= d - 1
  BY <1>2, <1>3 DEF Bits
<1>5. s * q <= s * d - s
  <2>1. PICK e \in Nat : d = q + 1 + e
    <3>1. d - q - 1 \in Nat /\ d = q + 1 + (d - q - 1)
      BY <1>4
    <3> QED BY <3>1
  <2>2. s * d = s * q + s + s * e /\ s * e \in Nat /\ s * q \in Nat
    BY <2>1
  <2> QED BY <2>2
<1>6. s * q \in Nat /\ s * d \in Nat
  OBVIOUS
<1> QED BY <1>2, <1>3, <1>5, <1>6, StepSizes

(* The rows of the group of n. *)
LEMMA Group ==
    ASSUME NEW n \in Nat, NEW c \in 0 .. BitStep - 1, (n % BitStep) + c < BitStep
    PROVE  ((n + c) % BitStep) = (n % BitStep) + c /\ BitOf(n + c) = BitOf(n)
<1>1. PICK s \in Nat \ {0} : s = BitStep
  BY StepSizes
<1>2. PICK q \in Nat, k \in 0 .. s - 1 : n = s * q + k /\ q = n \div s /\ k = (n % s)
  BY DivMod
<1>3. PICK m \in 0 .. s - 1 : m = k + c /\ n + c \in Nat
  <2>1. c \in Nat /\ k + c < s
    BY <1>1, <1>2
  <2>2. k + c \in 0 .. s - 1 /\ n + c \in Nat
    BY <2>1
  <2> QED BY <2>2
<1>4. n + c = s * q + m
  <2>1. s * q \in Nat
    OBVIOUS
  <2> QED BY <1>1, <1>2, <1>3, <2>1
<1>5. (n + c) \div s = q /\ ((n + c) % s) = m
  BY <1>3, <1>4, DivIs
<1> QED BY <1>1, <1>2, <1>3, <1>5, BitIs

(* The group behind the last row of one. *)
LEMMA NextGroup ==
    ASSUME NEW n \in Nat, NEW c \in 1 .. BitStep, (n % BitStep) + c = BitStep
    PROVE  ((n + c) % BitStep) = 0
<1>1. PICK s \in Nat \ {0} : s = BitStep
  BY StepSizes
<1>2. PICK q \in Nat, k \in 0 .. s - 1 : n = s * q + k /\ k = (n % s)
  BY DivMod
<1>3. PICK p \in Nat, v \in Nat, z \in 0 .. s - 1 : p = n + c /\ v = q + 1 /\ z = 0
  OBVIOUS
<1>4. p = s * v + z
  <2>1. PICK x \in Nat : x = s * q /\ s * v = x + s
    BY <1>3
  <2>2. n = x + k /\ k + c = s /\ c \in Nat
    BY <1>1, <1>2, <2>1
  <2> QED BY <1>3, <2>1, <2>2
<1>5. (p % s) = z
  BY <1>4, DivIs
<1> QED BY <1>1, <1>3, <1>5

LEMMA NextByte ==
    ASSUME NEW n \in Nat, (n % ByteStep) = 0
    PROVE  /\ ((n + ByteStep) % BitStep) = 0
           /\ \A m \in 0 .. ByteStep - 1 : ((n + m) \div ByteStep) = n \div ByteStep
<1>1. PICK s \in Nat \ {0}, w \in Nat \ {0}, t \in Nat \ {0} :
         s = BitStep /\ w = ByteBits /\ t = ByteStep /\ t = s * w
  BY StepSizes
<1>2. PICK q \in Nat : n = t * q + 0 /\ q = n \div t
  BY <1>1, DivMod
<1>3. n + t = s * (w * (q + 1)) + 0 /\ w * (q + 1) \in Nat /\ n + t \in Nat /\ 0 \in 0 .. s - 1
  <2>1. PICK u \in Nat : u = w * (q + 1)
    OBVIOUS
  <2>2. s * u = t * (q + 1)
    BY <1>1, <2>1
  <2>3. t * (q + 1) = t * q + t /\ t * q \in Nat
    OBVIOUS
  <2> QED BY <1>2, <2>1, <2>2, <2>3
<1>4. ((n + t) % s) = 0
  <2>1. PICK p \in Nat, v \in Nat, z \in 0 .. s - 1 : p = n + t /\ v = w * (q + 1) /\ z = 0
    BY <1>3
  <2>2. p = s * v + z
    BY <1>3, <2>1
  <2>3. (p % s) = z
    BY <2>2, DivIs
  <2> QED BY <2>1, <2>3
<1>5. ASSUME NEW m \in 0 .. t - 1 PROVE ((n + m) \div t) = q
  <2>1. n + m = t * q + m /\ n + m \in Nat
    <3>1. t * q \in Nat
      OBVIOUS
    <3> QED BY <1>2, <3>1
  <2> QED BY <2>1, DivIs
<1> QED BY <1>1, <1>2, <1>4, <1>5

-----------------------------------------------------------------------------
(* The rows a query looks at *)

Far == MaxRows + ByteStep
Walk(f, first, narrow) ==
    f = [n \in first .. Far |-> [b \in 0 .. BitStep |-> LookFrom(f, n, b, narrow)]]

LEMMA FarIs == Far \in Nat /\ MaxRows + BitStep <= Far /\ MaxRows + 1 <= Far
  BY StepSizes DEF Far

LEMMA WalkAt ==
    ASSUME NEW f, NEW first, NEW narrow, Walk(f, first, narrow),
           NEW n \in first .. Far, NEW b \in 0 .. BitStep
    PROVE  f[n][b] = LookFrom(f, n, b, narrow)
<1> DEFINE e(m, c) == LookFrom(f, m, c, narrow)
<1>1. f = [m \in first .. Far |-> [c \in 0 .. BitStep |-> e(m, c)]]
  BY DEF Walk
<1> HIDE DEF e
<1>2. f[n] = [c \in 0 .. BitStep |-> e(n, c)]
  BY <1>1
<1>3. f[n][b] = e(n, b)
  BY <1>2
<1> QED BY <1>3 DEF e

(* Only rows further on count. *)
LEMMA LookSame ==
    ASSUME NEW f, NEW g, NEW n \in Nat, NEW b \in 0 .. BitStep, NEW narrow,
           flags \in Flags, \A m \in n + 1 .. Far : f[m] = g[m]
    PROVE  LookFrom(f, n, b, narrow) = LookFrom(g, n, b, narrow)
<1>1. Rows \in 0 .. MaxRows /\ MaxRows \in Nat
  BY RowsType
<1>2. ASSUME n < Rows
      PROVE  f[n + 1] = g[n + 1] /\ f[n + BitStep] = g[n + BitStep] /\ f[n + ByteStep] = g[n + ByteStep]
  <2>1. {n + 1, n + BitStep, n + ByteStep} \subseteq n + 1 .. Far
    BY <1>1, <1>2, StepSizes DEF Far
  <2> QED BY <2>1
<1>3. CASE n >= Rows
  BY <1>3, <1>1 DEF LookFrom
<1>4. CASE n < Rows
  BY <1>4, <1>2, <1>1 DEF LookFrom
<1> QED BY <1>1, <1>3, <1>4

LEMMA WalkMore ==
    ASSUME NEW f, NEW first \in 1 .. Far + 1, NEW narrow, Walk(f, first, narrow), flags \in Flags
    PROVE  \E g : Walk(g, first - 1, narrow)
<1>1. PICK p \in Nat : p = first - 1 /\ first = p + 1 /\ p \in 0 .. Far /\ Far \in Nat
  BY FarIs
<1> DEFINE e(n, b) == LookFrom(f, n, b, narrow)
           g == [n \in p .. Far |-> [b \in 0 .. BitStep |-> e(n, b)]]
           h(n, b) == LookFrom(g, n, b, narrow)
<1>2. \A m \in first .. Far : g[m] = f[m]
  <2>1. f = [n \in first .. Far |-> [b \in 0 .. BitStep |-> e(n, b)]]
    BY DEF Walk
  <2> HIDE DEF e
  <2>2. \A m \in first .. Far : m \in p .. Far
    BY <1>1
  <2>3. \A m \in first .. Far : f[m] = [b \in 0 .. BitStep |-> e(m, b)]
    BY <2>1
  <2> QED BY <2>2, <2>3
<1>3. ASSUME NEW n \in p .. Far, NEW b \in 0 .. BitStep
      PROVE  e(n, b) = h(n, b)
  <2>1. n \in Nat /\ \A m \in n + 1 .. Far : m \in first .. Far
    BY <1>1
  <2>2. \A m \in n + 1 .. Far : f[m] = g[m]
    BY <2>1, <1>2
  <2> HIDE DEF g
  <2> QED BY <2>1, <2>2, LookSame
<1>4. g = [n \in p .. Far |-> [b \in 0 .. BitStep |-> h(n, b)]]
  <2>1. \A n \in p .. Far : [b \in 0 .. BitStep |-> e(n, b)] = [b \in 0 .. BitStep |-> h(n, b)]
    <3> HIDE DEF e, h
    <3> QED BY <1>3
  <2> HIDE DEF e, h
  <2> QED BY <2>1
<1>5. Walk(g, p, narrow)
  <2> HIDE DEF g
  <2> QED BY <1>4 DEF Walk
<1> QED BY <1>1, <1>5

LEMMA WalkExists ==
    ASSUME NEW narrow, flags \in Flags
    PROVE  \E f : Walk(f, 0, narrow)
<1> DEFINE T == {k \in Nat : k <= Far + 1 => \E f : Walk(f, Far + 1 - k, narrow)}
<1>0. Far \in Nat
  BY FarIs
<1>1. 0 \in T
  <2> DEFINE f == [n \in Far + 1 .. Far |-> {}]
  <2>1. Far + 1 .. Far = {} /\ Far + 1 - 0 = Far + 1
    BY <1>0
  <2>2. f = [n \in Far + 1 .. Far |-> [b \in 0 .. BitStep |-> LookFrom(f, n, b, narrow)]]
    BY <2>1
  <2>3. Walk(f, Far + 1, narrow)
    <3> HIDE DEF f
    <3> QED BY <2>2 DEF Walk
  <2> QED BY <2>1, <2>3
<1>2. ASSUME NEW k \in Nat, k \in T PROVE k + 1 \in T
  <2> SUFFICES ASSUME k + 1 <= Far + 1 PROVE \E f : Walk(f, Far + 1 - (k + 1), narrow)
    OBVIOUS
  <2>1. PICK first \in 1 .. Far + 1 : first = Far + 1 - k /\ first - 1 = Far + 1 - (k + 1)
    BY <1>0
  <2>2. PICK f : Walk(f, first, narrow)
    BY <1>0, <1>2, <2>1
  <2>3. \E g : Walk(g, first - 1, narrow)
    BY <2>2, WalkMore
  <2> QED BY <2>1, <2>3
<1> HIDE DEF T
<1>3. Far + 1 \in T
  BY <1>0, <1>1, <1>2, Induct
<1>4. Far + 1 - (Far + 1) = 0
  BY <1>0
<1> QED BY <1>0, <1>3, <1>4 DEF T

LEMMA LookedIs ==
    ASSUME NEW narrow, flags \in Flags
    PROVE  \E f : Walk(f, 0, narrow) /\ Looked(narrow) = f[0][0]
<1> DEFINE f == CHOOSE look : look = [n \in 0 .. MaxRows + ByteStep |->
                                        [b \in 0 .. BitStep |-> LookFrom(look, n, b, narrow)]]
<1>1. \E look : look = [n \in 0 .. MaxRows + ByteStep |->
                          [b \in 0 .. BitStep |-> LookFrom(look, n, b, narrow)]]
  BY WalkExists DEF Walk, Far
<1>2. f = [n \in 0 .. MaxRows + ByteStep |-> [b \in 0 .. BitStep |-> LookFrom(f, n, b, narrow)]]
  BY <1>1
<1>3. Walk(f, 0, narrow)
  BY <1>2 DEF Walk, Far
<1>4. Looked(narrow) = f[0][0]
  BY DEF Looked
<1> QED BY <1>3, <1>4

(* Where the loop can be: in a group it is as far as it counts, and its    *)
(* bit is set.                                                             *)
Aligned(n, b) ==
    n < MaxNum =>
        \/ b \in {0, BitStep} /\ (n % BitStep) = 0
        \/ b \in 1 .. BitStep - 1 /\ (n % BitStep) = b /\ BitOf(n) \in marks
(* What a walk from n on has. *)
Good(S, n, narrow) ==
    /\ \A r \in S : r \in n .. Rows - 1
    /\ ~narrow => \A r \in n .. Rows - 1 : r \in S
    /\ narrow => \A r \in n .. Rows - 1 : r < MaxNum => (r \in S <=> BitOf(r) \in marks)

(* n is looked at, and the rest is. *)
LEMMA GoodOne ==
    ASSUME NEW S, NEW n \in Nat, NEW narrow \in BOOLEAN, flags \in Flags, n < Rows,
           Good(S, n + 1, narrow), narrow /\ n < MaxNum => BitOf(n) \in marks
    PROVE  Good({n} \cup S, n, narrow)
<1>1. Rows \in Nat
  BY RowsType
<1>2. \A r \in n .. Rows - 1 : r = n \/ r \in n + 1 .. Rows - 1
  BY <1>1
<1>3. \A r \in n + 1 .. Rows - 1 : r \in n .. Rows - 1
  BY <1>1
<1>4. \A r \in S : r \in n + 1 .. Rows - 1
  BY DEF Good
<1>5. n \in n .. Rows - 1 /\ n \notin n + 1 .. Rows - 1
  BY <1>1
<1>6. \A r \in {n} \cup S : r \in n .. Rows - 1
  BY <1>3, <1>4, <1>5
<1>7. ~narrow => \A r \in n .. Rows - 1 : r \in {n} \cup S
  BY <1>2 DEF Good
<1>8. ASSUME narrow, NEW r \in n .. Rows - 1, r < MaxNum
      PROVE  r \in {n} \cup S <=> BitOf(r) \in marks
  <2>1. CASE r = n
    BY <2>1, <1>8
  <2>2. CASE r # n
    BY <2>2, <1>2, <1>8 DEF Good
  <2> QED BY <2>1, <2>2
<1> QED BY <1>6, <1>7, <1>8 DEF Good

(* A jump over rows without a bit. *)
LEMMA GoodJump ==
    ASSUME NEW S, NEW n \in Nat, NEW c \in Nat, flags \in Flags,
           Good(S, n + c, TRUE), \A m \in 0 .. c - 1 : BitOf(n + m) \notin marks
    PROVE  Good(S, n, TRUE)
<1>1. Rows \in Nat
  BY RowsType
<1>2. ASSUME NEW r \in S PROVE r \in n .. Rows - 1
  <2>1. r \in n + c .. Rows - 1
    BY DEF Good
  <2> QED BY <2>1, <1>1
<1>3. ASSUME NEW r \in n .. Rows - 1, r < MaxNum
      PROVE  r \in S <=> BitOf(r) \in marks
  <2>1. CASE r >= n + c
    <3>1. r \in n + c .. Rows - 1
      BY <2>1, <1>1
    <3> QED BY <3>1, <1>3 DEF Good
  <2>2. CASE r < n + c
    <3>1. PICK m \in 0 .. c - 1 : m = r - n /\ n + m = r
      <4>1. r - n \in 0 .. c - 1 /\ n + (r - n) = r
        BY <2>2, <1>1
      <4> QED BY <4>1
    <3>2. BitOf(r) \notin marks
      BY <3>1
    <3>3. r \notin n + c .. Rows - 1
      BY <2>2, <1>1
    <3> QED BY <3>2, <3>3 DEF Good
  <2> QED BY <2>1, <2>2, <1>1
<1> QED BY <1>2, <1>3 DEF Good

GoodFrom(f, first, narrow) ==
    \A m \in first .. Far, c \in 0 .. BitStep :
        (narrow => Aligned(m, c)) => Good(f[m][c], m, narrow)

LEMMA GoodAt ==
    ASSUME NEW f, NEW first, NEW narrow, GoodFrom(f, first, narrow),
           NEW m \in first .. Far, NEW c \in 0 .. BitStep, narrow => Aligned(m, c)
    PROVE  Good(f[m][c], m, narrow)
  BY DEF GoodFrom

LEMMA GoodStep ==
    ASSUME NEW f, NEW narrow \in BOOLEAN, NEW n \in Nat, NEW b \in 0 .. BitStep,
           flags \in Flags, narrow => Aligned(n, b), GoodFrom(f, n + 1, narrow)
    PROVE  Good(LookFrom(f, n, b, narrow), n, narrow)
<1>1. Rows \in 0 .. MaxRows /\ Rows \in Nat /\ MaxRows \in Nat /\ Far \in Nat
  BY RowsType, FarIs
<1>2. /\ BitStep \in Nat \ {0} /\ ByteStep \in Nat \ {0} /\ BitStep <= ByteStep
      /\ MaxNum \in Nat /\ MaxRows + ByteStep = Far
  BY StepSizes DEF Far
<1>3. CASE n >= Rows
  <2>1. LookFrom(f, n, b, narrow) = {}
    BY <1>3, <1>1 DEF LookFrom
  <2>2. n .. Rows - 1 = {}
    BY <1>1, <1>3
  <2> QED BY <2>1, <2>2 DEF Good
<1>4. CASE n < Rows /\ (~narrow \/ n >= MaxNum)
  <2>1. LookFrom(f, n, b, narrow) = {n} \cup f[n + 1][b]
    BY <1>4, <1>1, <1>2 DEF LookFrom
  <2>2. n + 1 \in n + 1 .. Far
    BY <1>1, <1>2, <1>4
  <2>3. narrow => Aligned(n + 1, b)
    BY <1>2, <1>4 DEF Aligned
  <2>4. Good(f[n + 1][b], n + 1, narrow)
    BY <2>2, <2>3, GoodAt
  <2>5. narrow /\ n < MaxNum => BitOf(n) \in marks
    BY <1>2, <1>4
  <2> QED BY <2>1, <2>4, <2>5, <1>4, GoodOne
<1>5. CASE n < Rows /\ narrow /\ n < MaxNum /\ b \notin {0, BitStep}
  <2>1. LookFrom(f, n, b, narrow) = {n} \cup f[n + 1][b + 1]
    BY <1>5, <1>1, <1>2 DEF LookFrom
  <2>2. n + 1 \in n + 1 .. Far /\ b + 1 \in 0 .. BitStep /\ b \in 1 .. BitStep - 1 /\ 1 \in 1 .. BitStep
    BY <1>1, <1>2, <1>5
  <2>3. (n % BitStep) = b /\ BitOf(n) \in marks
    BY <1>2, <1>5 DEF Aligned
  <2>4. Aligned(n + 1, b + 1)
    <3>1. CASE b + 1 = BitStep
      <4>1. ((n + 1) % BitStep) = 0
        BY <2>2, <2>3, <3>1, NextGroup
      <4> QED BY <3>1, <4>1 DEF Aligned
    <3>2. CASE b + 1 # BitStep
      <4>1. 1 \in 0 .. BitStep - 1 /\ b + 1 < BitStep /\ b + 1 \in 1 .. BitStep - 1
        BY <2>2, <3>2, <1>2
      <4>2. ((n + 1) % BitStep) = b + 1 /\ BitOf(n + 1) = BitOf(n)
        BY <2>3, <4>1, Group
      <4> QED BY <2>3, <4>1, <4>2 DEF Aligned
    <3> QED BY <3>1, <3>2
  <2>5. Good(f[n + 1][b + 1], n + 1, narrow)
    BY <2>2, <2>4, GoodAt
  <2> QED BY <2>1, <2>3, <2>5, <1>5, GoodOne
<1>6. CASE n < Rows /\ narrow /\ n < MaxNum /\ b \in {0, BitStep}
  <2>1. LookFrom(f, n, b, narrow) =
          IF (n % ByteStep) = 0 /\ EmptyByte(n) THEN f[n + ByteStep][0]
          ELSE IF BitOf(n) \notin marks THEN f[n + BitStep][0]
          ELSE {n} \cup f[n + 1][1]
    BY <1>6, <1>1, <1>2 DEF LookFrom
  <2>2. /\ n + 1 \in n + 1 .. Far /\ n + BitStep \in n + 1 .. Far /\ n + ByteStep \in n + 1 .. Far
        /\ 0 \in 0 .. BitStep /\ 1 \in 0 .. BitStep /\ BitStep \in 1 .. BitStep
    BY <1>1, <1>2, <1>6
  <2>3. (n % BitStep) = 0
    BY <1>2, <1>6 DEF Aligned
  <2>4. CASE (n % ByteStep) = 0 /\ EmptyByte(n)
    <3>1. ((n + ByteStep) % BitStep) = 0
      BY <2>4, NextByte
    <3>2. Aligned(n + ByteStep, 0)
      BY <3>1 DEF Aligned
    <3>3. Good(f[n + ByteStep][0], n + ByteStep, TRUE)
      BY <2>2, <3>2, <1>6, GoodAt
    <3>4. ASSUME NEW m \in 0 .. ByteStep - 1 PROVE BitOf(n + m) \notin marks
      <4>1. PICK w \in Nat, q \in Nat : w = ByteBits /\ q = n \div ByteStep
        <5>1. n \div ByteStep \in Nat
          BY <1>2, DivMod
        <5> QED BY <5>1, StepSizes
      <4>2. ((n + m) \div ByteStep) = q
        BY <2>4, <4>1, NextByte
      <4>3. n + m \in Nat
        BY <1>2
      <4>4. BitOf(n + m) \in Nat /\ BitOf(n + m) - w * q \in 0 .. w - 1
        BY <4>1, <4>2, <4>3, BitIs
      <4>5. PICK i \in 0 .. w - 1, x \in Nat : x = q * w /\ BitOf(n + m) = x + i
        <5>1. PICK x \in Nat : x = q * w /\ x = w * q
          OBVIOUS
        <5>2. PICK y \in Nat : y = BitOf(n + m)
          BY <4>4
        <5>3. y - x \in 0 .. w - 1 /\ y = x + (y - x)
          BY <4>4, <5>1, <5>2
        <5> QED BY <5>1, <5>2, <5>3
      <4>6. (q * w) + i \notin marks
        BY <2>4, <4>1 DEF EmptyByte
      <4> QED BY <4>5, <4>6
    <3> QED BY <2>1, <2>4, <3>3, <3>4, <1>2, <1>6, GoodJump
  <2>5. CASE ~((n % ByteStep) = 0 /\ EmptyByte(n)) /\ BitOf(n) \notin marks
    <3>1. ((n + BitStep) % BitStep) = 0
      <4>1. PICK s \in 1 .. BitStep : s = BitStep /\ (n % BitStep) + s = BitStep
        BY <1>2, <2>2, <2>3
      <4>2. ((n + s) % BitStep) = 0
        BY <4>1, NextGroup
      <4> QED BY <4>1, <4>2
    <3>2. Aligned(n + BitStep, 0)
      BY <3>1 DEF Aligned
    <3>3. Good(f[n + BitStep][0], n + BitStep, TRUE)
      BY <2>2, <3>2, <1>6, GoodAt
    <3>4. ASSUME NEW m \in 0 .. BitStep - 1 PROVE BitOf(n + m) \notin marks
      <4>1. (n % BitStep) + m < BitStep
        BY <2>3, <1>2
      <4>2. BitOf(n + m) = BitOf(n)
        BY <4>1, Group
      <4> QED BY <4>2, <2>5
    <3> QED BY <2>1, <2>5, <3>3, <3>4, <1>2, <1>6, GoodJump
  <2>6. CASE ~((n % ByteStep) = 0 /\ EmptyByte(n)) /\ BitOf(n) \in marks
    <3>1. Aligned(n + 1, 1)
      <4>1. CASE BitStep = 1
        <5>1. ((n + 1) % BitStep) = 0
          BY <2>2, <2>3, <4>1, NextGroup
        <5> QED BY <4>1, <5>1 DEF Aligned
      <4>2. CASE BitStep # 1
        <5>1. 1 \in 0 .. BitStep - 1 /\ 0 + 1 < BitStep /\ 1 \in 1 .. BitStep - 1 /\ 0 + 1 = 1
          BY <4>2, <1>2
        <5>2. ((n + 1) % BitStep) = 1 /\ BitOf(n + 1) = BitOf(n)
          BY <2>3, <5>1, Group
        <5> QED BY <2>6, <5>1, <5>2 DEF Aligned
      <4> QED BY <4>1, <4>2
    <3>2. Good(f[n + 1][1], n + 1, narrow)
      BY <2>2, <3>1, GoodAt
    <3> QED BY <2>1, <2>6, <3>2, <1>6, GoodOne
  <2> QED BY <2>4, <2>5, <2>6
<1> QED BY <1>1, <1>2, <1>3, <1>4, <1>5, <1>6

LEMMA WalkGood ==
    ASSUME NEW f, NEW narrow \in BOOLEAN, flags \in Flags, Walk(f, 0, narrow)
    PROVE  GoodFrom(f, 0, narrow)
<1> DEFINE T == {k \in Nat : k <= Far + 1 => GoodFrom(f, Far + 1 - k, narrow)}
<1>0. Far \in Nat
  BY FarIs
<1>1. 0 \in T
  <2>1. Far + 1 - 0 .. Far = {}
    BY <1>0
  <2> QED BY <2>1 DEF GoodFrom
<1>2. ASSUME NEW k \in Nat, k \in T PROVE k + 1 \in T
  <2> SUFFICES ASSUME k + 1 <= Far + 1 PROVE GoodFrom(f, Far + 1 - (k + 1), narrow)
    OBVIOUS
  <2>1. PICK n \in 0 .. Far : n = Far + 1 - (k + 1) /\ n + 1 = Far + 1 - k
    BY <1>0
  <2>2. GoodFrom(f, n + 1, narrow)
    BY <1>0, <1>2, <2>1
  <2>3. ASSUME NEW m \in n .. Far, NEW c \in 0 .. BitStep, narrow => Aligned(m, c)
        PROVE  Good(f[m][c], m, narrow)
    <3>1. CASE m = n
      <4>1. f[n][c] = LookFrom(f, n, c, narrow)
        BY WalkAt
      <4>2. n \in Nat
        OBVIOUS
      <4> QED BY <2>2, <2>3, <3>1, <4>1, <4>2, GoodStep
    <3>2. CASE m # n
      <4>1. m \in n + 1 .. Far
        BY <3>2, <1>0
      <4> QED BY <2>2, <2>3, <4>1, GoodAt
    <3> QED BY <3>1, <3>2
  <2> QED BY <2>1, <2>3 DEF GoodFrom
<1> HIDE DEF T
<1>3. Far + 1 \in T
  BY <1>0, <1>1, <1>2, Induct
<1>4. Far + 1 - (Far + 1) = 0
  BY <1>0
<1> QED BY <1>0, <1>3, <1>4 DEF T

(* Looked has exactly the rows with a set bit and those behind the marks,  *)
(* or all rows.                                                            *)
LEMMA LookedHas ==
    ASSUME NEW narrow \in BOOLEAN, flags \in Flags
    PROVE  Good(Looked(narrow), 0, narrow)
<1>1. PICK f : Walk(f, 0, narrow) /\ Looked(narrow) = f[0][0]
  BY LookedIs
<1>2. 0 \in 0 .. Far /\ 0 \in 0 .. BitStep
  BY FarIs, StepSizes
<1>3. Aligned(0, 0)
  <2>1. PICK s \in Nat \ {0} : s = BitStep
    BY StepSizes
  <2>2. (0 % s) = 0
    BY <2>1
  <2> QED BY <2>1, <2>2 DEF Aligned
<1>4. GoodFrom(f, 0, narrow)
  BY <1>1, WalkGood
<1> QED BY <1>1, <1>2, <1>3, <1>4, GoodAt

-----------------------------------------------------------------------------
(* Marks *)

(* What is owed has its bit, in memory and in what a restart loads. *)
MarkInv == marked => \A r \in owed : BitOf(r) \in marks /\ BitOf(r) \in disk.marks

LEMMA MarksFollow ==
    ASSUME Tracked, MarkInv
    PROVE  MarksExact
<1>1. /\ Rows \in Nat /\ owed \subseteq 0 .. Rows - 1 /\ marks \subseteq Bits
      /\ marked \in BOOLEAN /\ changed \in BOOLEAN /\ flags \in Flags
  BY RowsType DEF Tracked, SyncTypeOK
<1>2. PICK narrow \in BOOLEAN : narrow = (marked /\ changed)
  BY <1>1
<1>3. Good(Looked(narrow), 0, narrow)
  BY <1>1, LookedHas
<1>4. ASSUME NEW r \in owed PROVE r \in Looked(narrow)
  <2>1. r \in 0 .. Rows - 1 /\ r \in Nat
    BY <1>1
  <2>2. CASE narrow
    <3>1. BitOf(r) \in marks
      BY <2>2, <1>2 DEF MarkInv
    <3>2. r < MaxNum
      BY <3>1, <1>1, <2>1, BitBound
    <3> QED BY <2>1, <2>2, <3>1, <3>2, <1>3 DEF Good
  <2>3. CASE ~narrow
    BY <2>1, <2>3, <1>3 DEF Good
  <2> QED BY <2>2, <2>3
<1>5. ASSUME marked /\ changed, NEW r \in Looked(TRUE), r < MaxNum PROVE BitOf(r) \in marks
  <2>1. Good(Looked(TRUE), 0, TRUE)
    BY <1>1, LookedHas
  <2>2. r \in 0 .. Rows - 1
    BY <2>1 DEF Good
  <2> QED BY <2>1, <2>2, <1>5 DEF Good
<1>6. owed \subseteq Looked(marked /\ changed)
  BY <1>2, <1>4
<1> QED BY <1>5, <1>6 DEF MarksExact

(* Who clears the marks reads what is owed. *)
LEMMA ClearsMarks ==
    ASSUME Tracked, MarkInv, Strict, NEW q \in Queries, Query(q), q.onlyMark, marked
    PROVE  owed' = {}
<1>1. q.clear /\ q.page = NoPage /\ q.rows = DOMAIN flags /\ q.denied = {}
  BY DEF Query, Sensible
<1>2. (q.onlyMark /\ marked /\ changed) = (marked /\ changed)
  BY DEF Queries, Tracked, SyncTypeOK
<1>3. owed \subseteq Looked(marked /\ changed)
  BY MarksFollow DEF MarksExact
<1>4. ASSUME NEW r \in owed PROVE r \in Passing(q)
  <2>1. r \in DOMAIN flags /\ flags[r]
    BY DEF Tracked, SyncTypeOK
  <2> QED BY <2>1, <1>1, <1>2, <1>3 DEF Passing
<1>5. Read(q) = Passing(q)
  BY <1>1 DEF Read, UpToDenied
<1> QED BY <1>4, <1>5 DEF Query

LEMMA MarkKept ==
    ASSUME MarkInv, owed' \subseteq owed, UNCHANGED <<marked, marks>>, Saved \/ UNCHANGED disk
    PROVE  MarkInv'
<1>1. Saved => disk'.marks = marks'
  BY DEF Saved
<1> QED BY <1>1 DEF MarkInv

LEMMA MarkStep ==
    ASSUME Tracked, MarkInv, Strict, [SyncNext]_syncVars
    PROVE  MarkInv'
<1>1. ASSUME NEW r \in 0 .. MaxRows - 1, Write(r) PROVE MarkInv'
  <2>1. disk'.marks = marks' /\ marked' = marked
    BY <1>1 DEF Write, Saved
  <2>2. marked => BitOf(r) \in marks' /\ \A s \in owed : BitOf(s) \in marks'
    BY <1>1 DEF Write, MarkInv
  <2>3. \A s \in owed' : s = r \/ s \in owed
    BY <1>1 DEF Write
  <2> QED BY <2>1, <2>2, <2>3 DEF MarkInv
<1>2. ASSUME NEW r \in 0 .. MaxRows - 1, Delete(r) PROVE MarkInv'
  BY <1>2 DEF Delete, MarkInv
<1>3. CASE WriteQuietly
  BY <1>3, MarkKept DEF WriteQuietly
<1>4. ASSUME NEW q \in Queries, Query(q) PROVE MarkInv'
  <2>1. CASE q.onlyMark /\ marked
    BY <2>1, <1>4, ClearsMarks DEF MarkInv
  <2>2. CASE ~(q.onlyMark /\ marked)
    BY <2>2, <1>4, MarkKept DEF Query
  <2> QED BY <2>1, <2>2
<1>5. ASSUME NEW q \in Queries, QueryForbidden(q) PROVE MarkInv'
  BY <1>5, MarkKept DEF QueryForbidden
<1>6. ASSUME NEW r \in DOMAIN flags, NEW clear \in BOOLEAN, ReadOne(r, clear)
      PROVE  MarkInv'
  BY <1>6, MarkKept DEF ReadOne
<1>7. CASE Crash
  BY <1>7 DEF Crash, MarkInv
<1>8. CASE UNCHANGED syncVars
  BY <1>8 DEF syncVars, MarkInv
<1> QED BY <1>1, <1>2, <1>3, <1>4, <1>5, <1>6, <1>7, <1>8 DEF SyncNext

(* MarksExact, for every layout of the marks, the one where DataLen does   *)
(* not divide MaxNum included.                                             *)
THEOREM MarksExactHolds ==
    ASSUME Strict
    PROVE  SyncSpec => []MarksExact
<1>1. SyncInit => Tracked /\ MarkInv
  BY TrackedInit DEF SyncInit, MarkInv
<1>2. Tracked /\ MarkInv /\ [SyncNext]_syncVars => (Tracked /\ MarkInv)'
  BY TrackedStep, MarkStep
<1>3. Tracked /\ MarkInv => MarksExact
  BY MarksFollow
<1> QED BY <1>1, <1>2, <1>3, PTL DEF SyncSpec

-----------------------------------------------------------------------------
(* Sequences that are joined *)

(* What FlattenSeq computes its result with. *)
Joins(f, ss, n) == f = [i \in 1 .. n |-> IF i = 1 THEN ss[i] ELSE f[i - 1] \o ss[i]]

LEMMA JoinAt ==
    ASSUME NEW f, NEW ss, NEW n, Joins(f, ss, n), NEW i \in 1 .. n
    PROVE  f[i] = IF i = 1 THEN ss[i] ELSE f[i - 1] \o ss[i]
<1> DEFINE e(j) == IF j = 1 THEN ss[j] ELSE f[j - 1] \o ss[j]
<1>1. f = [j \in 1 .. n |-> e(j)]
  BY DEF Joins
<1> HIDE DEF e
<1>2. f[i] = e(i)
  BY <1>1
<1> QED BY <1>2 DEF e

LEMMA JoinExists ==
    ASSUME NEW ss, NEW n \in Nat
    PROVE  \E f : Joins(f, ss, n)
<1> DEFINE T == {m \in Nat : \E f : Joins(f, ss, m)}
<1>1. 0 \in T
  <2> DEFINE f == [i \in 1 .. 0 |-> {}]
  <2>1. Joins(f, ss, 0)
    BY DEF Joins
  <2> QED BY <2>1
<1>2. ASSUME NEW m \in Nat, m \in T PROVE m + 1 \in T
  <2>1. PICK f : Joins(f, ss, m)
    BY <1>2
  <2>2. f = [i \in 1 .. m |-> IF i = 1 THEN ss[i] ELSE f[i - 1] \o ss[i]]
    BY <2>1 DEF Joins
  <2> DEFINE e(i) == IF i = 1 THEN ss[i] ELSE f[i - 1] \o ss[i]
             g == [i \in 1 .. m + 1 |-> e(i)]
  <2>3. \A i \in 1 .. m : g[i] = f[i]
    <3>1. \A i \in 1 .. m : f[i] = e(i)
      BY <2>1, JoinAt
    <3> HIDE DEF e
    <3> QED BY <3>1
  <2>4. \A i \in 1 .. m + 1 : i # 1 => i - 1 \in 1 .. m
    OBVIOUS
  <2> DEFINE h(i) == IF i = 1 THEN ss[i] ELSE g[i - 1] \o ss[i]
  <2>5. \A i \in 1 .. m + 1 : e(i) = h(i)
    <3> HIDE DEF g
    <3> QED BY <2>3, <2>4
  <2>6. g = [i \in 1 .. m + 1 |-> h(i)]
    <3> HIDE DEF e, h
    <3> QED BY <2>5
  <2>7. Joins(g, ss, m + 1)
    <3> HIDE DEF g
    <3> QED BY <2>6 DEF Joins
  <2> QED BY <2>7
<1> HIDE DEF T
<1>3. n \in T
  BY <1>1, <1>2, Induct
<1> QED BY <1>3 DEF T

LEMMA JoinUnique ==
    ASSUME NEW ss, NEW n \in Nat, NEW f, Joins(f, ss, n),
           NEW tt, NEW m \in Nat, NEW g, Joins(g, tt, m), n <= m,
           \A i \in 1 .. n : ss[i] = tt[i]
    PROVE  \A i \in 1 .. n : f[i] = g[i]
<1> DEFINE T == {k \in Nat : k \in 1 .. n => f[k] = g[k]}
<1>1. 0 \in T
  OBVIOUS
<1>2. ASSUME NEW k \in Nat, k \in T PROVE k + 1 \in T
  <2> SUFFICES ASSUME k + 1 \in 1 .. n PROVE f[k + 1] = g[k + 1]
    OBVIOUS
  <2>1. f[k + 1] = IF k + 1 = 1 THEN ss[k + 1] ELSE f[k + 1 - 1] \o ss[k + 1]
    BY JoinAt
  <2>2. g[k + 1] = IF k + 1 = 1 THEN tt[k + 1] ELSE g[k + 1 - 1] \o tt[k + 1]
    <3>1. k + 1 \in 1 .. m
      OBVIOUS
    <3> QED BY <3>1, JoinAt
  <2>3. k + 1 # 1 => f[k + 1 - 1] = g[k + 1 - 1]
    <3>1. k + 1 # 1 => k \in 1 .. n /\ k + 1 - 1 = k
      OBVIOUS
    <3> QED BY <3>1, <1>2
  <2>4. ss[k + 1] = tt[k + 1]
    OBVIOUS
  <2> QED BY <2>1, <2>2, <2>3, <2>4
<1> HIDE DEF T
<1>3. \A k \in Nat : k \in T
  BY <1>1, <1>2, Induct
<1> QED BY <1>3 DEF T

LEMMA FlatJoins ==
    ASSUME NEW ss, Len(ss) \in Nat \ {0}
    PROVE  \E f : Joins(f, ss, Len(ss)) /\ FlattenSeq(ss) = f[Len(ss)]
<1> DEFINE f == CHOOSE g : g = [i \in 1 .. Len(ss) |-> IF i = 1 THEN ss[i] ELSE g[i-1] \o ss[i]]
<1>1. \E g : g = [i \in 1 .. Len(ss) |-> IF i = 1 THEN ss[i] ELSE g[i-1] \o ss[i]]
  BY JoinExists DEF Joins
<1>2. f = [i \in 1 .. Len(ss) |-> IF i = 1 THEN ss[i] ELSE f[i-1] \o ss[i]]
  BY <1>1
<1>3. FlattenSeq(ss) = f[Len(ss)]
  BY DEF FlattenSeq
<1>4. Joins(f, ss, Len(ss))
  BY <1>2 DEF Joins
<1> QED BY <1>3, <1>4

(* FlattenSeq of one sequence more. *)
LEMMA FlatMore ==
    ASSUME NEW S, NEW n \in Nat, NEW ss \in Seq(Seq(S)), NEW tt \in Seq(Seq(S)),
           Len(ss) = n, Len(tt) = n + 1, \A i \in 1 .. n : tt[i] = ss[i],
           FlattenSeq(ss) \in Seq(S)
    PROVE  FlattenSeq(tt) = FlattenSeq(ss) \o tt[n + 1]
<1>1. PICK g : Joins(g, tt, n + 1) /\ FlattenSeq(tt) = g[n + 1]
  BY FlatJoins
<1>2. g[n + 1] = IF n = 0 THEN tt[n + 1] ELSE g[n] \o tt[n + 1]
  <2>1. g[n + 1] = IF n + 1 = 1 THEN tt[n + 1] ELSE g[n + 1 - 1] \o tt[n + 1]
    BY <1>1, JoinAt
  <2>2. n + 1 - 1 = n /\ (n + 1 = 1 <=> n = 0)
    OBVIOUS
  <2> QED BY <2>1, <2>2
<1>3. CASE n = 0
  <2>1. ss = <<>>
    BY <1>3
  <2>2. FlattenSeq(ss) = <<>>
    BY <1>3, <2>1 DEF FlattenSeq
  <2>3. tt[n + 1] \in Seq(S)
    BY ElementOfSeq
  <2> QED BY <1>1, <1>2, <1>3, <2>2, <2>3, ConcatEmptySeq
<1>4. CASE n # 0
  <2>1. PICK f : Joins(f, ss, n) /\ FlattenSeq(ss) = f[n]
    BY <1>4, FlatJoins
  <2>2. f[n] = g[n]
    <3>1. n \in 1 .. n /\ n <= n + 1 /\ n + 1 \in Nat
      BY <1>4
    <3>2. \A i \in 1 .. n : ss[i] = tt[i]
      OBVIOUS
    <3>3. PICK m \in Nat : m = n + 1
      OBVIOUS
    <3>4. Joins(g, tt, m) /\ n <= m /\ Joins(f, ss, n)
      BY <1>1, <2>1, <3>3
    <3>5. \A i \in 1 .. n : f[i] = g[i]
      BY ONLY <3>2, <3>3, <3>4, JoinUnique, n \in Nat
    <3> QED BY <3>1, <3>5
  <2> QED BY <1>1, <1>2, <1>4, <2>1, <2>2
<1> QED BY <1>3, <1>4

-----------------------------------------------------------------------------
(* The bytes of the packets *)

Sent == {<<n, i>> : n \in DOMAIN Packets, i \in Nat}
Done(k) == FlattenSeq([n \in 1 .. k |-> Bytes(n)])

LEMMA BytesIs ==
    ASSUME NEW n \in DOMAIN Packets
    PROVE  /\ Packets[n] \in Nat \ {0} /\ Bytes(n) \in Seq(Sent)
           /\ Len(Bytes(n)) = Packets[n]
           /\ \A i \in 1 .. Packets[n] : Bytes(n)[i] = <<n, i>>
<1>1. Packets[n] \in Nat \ {0}
  BY ScriptAssumption
<1>2. \A i \in 1 .. Packets[n] : <<n, i>> \in Sent
  BY <1>1 DEF Sent
<1>3. Bytes(n) \in [1 .. Packets[n] -> Sent]
  BY <1>2 DEF Bytes
<1> QED BY <1>1, <1>3 DEF Bytes

LEMMA ManyBytes ==
    ASSUME NEW k \in 0 .. Len(Packets)
    PROVE  /\ [n \in 1 .. k |-> Bytes(n)] \in Seq(Seq(Sent))
           /\ Len([n \in 1 .. k |-> Bytes(n)]) = k
<1>1. Len(Packets) \in Nat /\ DOMAIN Packets = 1 .. Len(Packets)
  BY ScriptAssumption
<1>2. \A n \in 1 .. k : Bytes(n) \in Seq(Sent)
  BY <1>1, BytesIs
<1>3. [n \in 1 .. k |-> Bytes(n)] \in [1 .. k -> Seq(Sent)]
  BY <1>2
<1> QED BY <1>1, <1>3

LEMMA DoneStep ==
    ASSUME NEW k \in 0 .. Len(Packets) - 1, Done(k) \in Seq(Sent)
    PROVE  Done(k + 1) = Done(k) \o Bytes(k + 1) /\ Done(k + 1) \in Seq(Sent)
<1>1. Len(Packets) \in Nat /\ DOMAIN Packets = 1 .. Len(Packets)
  BY ScriptAssumption
<1> DEFINE ss == [n \in 1 .. k |-> Bytes(n)]
           tt == [n \in 1 .. k + 1 |-> Bytes(n)]
<1>2. k \in Nat /\ k \in 0 .. Len(Packets) /\ k + 1 \in 0 .. Len(Packets)
  BY <1>1
<1>3. /\ ss \in Seq(Seq(Sent)) /\ tt \in Seq(Seq(Sent)) /\ Len(ss) = k /\ Len(tt) = k + 1
  BY <1>2, ManyBytes
<1>4. \A i \in 1 .. k : tt[i] = ss[i]
  BY <1>2
<1>5. tt[k + 1] = Bytes(k + 1)
  BY <1>2
<1>6. FlattenSeq(ss) = Done(k) /\ FlattenSeq(tt) = Done(k + 1)
  BY DEF Done
<1> HIDE DEF ss, tt
<1>7. FlattenSeq(tt) = FlattenSeq(ss) \o tt[k + 1]
  BY <1>2, <1>3, <1>4, <1>6, FlatMore
<1>8. Bytes(k + 1) \in Seq(Sent)
  BY <1>1, BytesIs
<1>9. Done(k + 1) = Done(k) \o Bytes(k + 1)
  BY <1>5, <1>6, <1>7
<1> QED BY <1>8, <1>9, ConcatProperties

LEMMA DoneIs ==
    ASSUME NEW k \in 0 .. Len(Packets)
    PROVE  Done(k) \in Seq(Sent)
<1> DEFINE T == {n \in Nat : n <= Len(Packets) => Done(n) \in Seq(Sent)}
<1>0. Len(Packets) \in Nat
  BY ScriptAssumption
<1>1. 0 \in T
  <2> DEFINE none == [n \in 1 .. 0 |-> Bytes(n)]
  <2>1. none = <<>>
    OBVIOUS
  <2>2. Done(0) = <<>>
    BY <2>1 DEF Done, FlattenSeq
  <2>3. Done(0) \in Seq(Sent)
    BY <2>2, EmptySeq
  <2> QED BY <2>3
<1>2. ASSUME NEW n \in Nat, n \in T PROVE n + 1 \in T
  <2>1. ASSUME n + 1 <= Len(Packets) PROVE Done(n + 1) \in Seq(Sent)
    <3>1. n \in 0 .. Len(Packets) - 1
      BY <1>0, <2>1
    <3>2. Done(n) \in Seq(Sent)
      BY <1>0, <1>2, <2>1
    <3> QED BY <3>1, <3>2, DoneStep
  <2> QED BY <2>1
<1> HIDE DEF T
<1>3. \A n \in Nat : n \in T
  BY <1>1, <1>2, Induct
<1> QED BY <1>0, <1>3 DEF T

LEMMA StreamIs ==
    /\ Len(Packets) \in Nat /\ DOMAIN Packets = 1 .. Len(Packets)
    /\ Stream = Done(Len(Packets)) /\ Stream \in Seq(Sent) /\ Range(Stream) \subseteq Sent
<1>1. Len(Packets) \in Nat /\ DOMAIN Packets = 1 .. Len(Packets)
  BY ScriptAssumption
<1>2. Stream = Done(Len(Packets))
  BY <1>1 DEF Stream, Done
<1>3. Stream \in Seq(Sent)
  BY <1>1, <1>2, DoneIs
<1> QED BY <1>1, <1>2, <1>3, RangeOfSeq

LEMMA Assoc ==
    \A s, t, u \in Seq(Sent) : (s \o t) \o u = s \o (t \o u)
  BY ConcatAssociative

LEMMA DoneGoesOn ==
    ASSUME NEW k \in 0 .. Len(Packets) - 1, NEW r \in Seq(Sent)
    PROVE  Done(k) \o (Bytes(k + 1) \o r) = Done(k + 1) \o r
<1>1. Done(k) \in Seq(Sent) /\ k \in 0 .. Len(Packets)
  <2>1. k \in 0 .. Len(Packets)
    BY StreamIs
  <2> QED BY <2>1, DoneIs
<1>2. Bytes(k + 1) \in Seq(Sent)
  <2>1. k + 1 \in DOMAIN Packets
    BY StreamIs
  <2> QED BY <2>1, BytesIs
<1>3. Done(k + 1) = Done(k) \o Bytes(k + 1)
  BY <1>1, DoneStep
<1>4. (Done(k) \o Bytes(k + 1)) \o r = Done(k) \o (Bytes(k + 1) \o r)
  BY <1>1, <1>2, Assoc
<1> QED BY <1>3, <1>4

(* Whatever was handled, the stream goes on with the next packet. *)
LEMMA StreamGoesOn ==
    ASSUME NEW k \in 0 .. Len(Packets)
    PROVE  \E r \in Seq(Sent) : Stream = Done(k) \o r
<1>0. PICK N \in Nat : N = Len(Packets) /\ DOMAIN Packets = 1 .. N
  BY StreamIs
<1> DEFINE P(n) == \E r \in Seq(Sent) : Stream = Done(N - n) \o r
           T == {n \in Nat : n <= N => P(n)}
<1>1. 0 \in T
  <2>1. N - 0 = N
    OBVIOUS
  <2>2. Stream = Done(N) \o <<>> /\ <<>> \in Seq(Sent)
    BY <1>0, StreamIs, ConcatEmptySeq, EmptySeq
  <2> QED BY <2>1, <2>2
<1>2. ASSUME NEW n \in Nat, n \in T PROVE n + 1 \in T
  <2> SUFFICES ASSUME n + 1 <= N PROVE P(n + 1)
    OBVIOUS
  <2>1. PICK j \in 0 .. N - 1 : j = N - (n + 1) /\ j + 1 = N - n
    OBVIOUS
  <2>2. PICK r \in Seq(Sent) : Stream = Done(j + 1) \o r
    BY <1>2, <2>1
  <2>3. Done(j) \in Seq(Sent)
    BY <1>0, DoneIs
  <2>4. Done(j + 1) = Done(j) \o Bytes(j + 1)
    BY <1>0, <2>3, DoneStep
  <2>5. Bytes(j + 1) \in Seq(Sent)
    BY <1>0, BytesIs
  <2>6. Stream = Done(j) \o (Bytes(j + 1) \o r)
    <3>1. (Done(j) \o Bytes(j + 1)) \o r = Done(j) \o (Bytes(j + 1) \o r)
      BY <2>3, <2>5, Assoc, Zenon
    <3> QED BY <2>2, <2>4, <3>1
  <2>7. Bytes(j + 1) \o r \in Seq(Sent)
    BY <2>5, ConcatProperties
  <2> QED BY <2>1, <2>6, <2>7
<1> HIDE DEF T
<1>3. \A n \in Nat : n \in T
  BY <1>1, <1>2, Induct
<1>4. PICK m \in Nat : m = N - k /\ m <= N /\ N - m = k
  <2>1. k \in 0 .. N
    BY <1>0
  <2>2. N - k \in Nat /\ N - k <= N /\ N - (N - k) = k
    BY <2>1
  <2> QED BY <2>2
<1>5. P(m)
  BY <1>3, <1>4 DEF T
<1> QED BY <1>4, <1>5

(* The whole packet in front of a buffer is the next one. *)
LEMMA NextPacket ==
    ASSUME NEW k \in 0 .. Len(Packets), NEW b \in Seq(Sent), NEW c \in Seq(Sent),
           Done(k) \o b \o c = Stream, IsWhole(b)
    PROVE  /\ k + 1 \in 1 .. Len(Packets) /\ Head(b)[1] = k + 1
           /\ LET rest == SubSeq(b, FrontLen(b) + 1, Len(b))
              IN  rest \in Seq(Sent) /\ Done(k + 1) \o rest \o c = Stream
<1>0. /\ Len(Packets) \in Nat /\ DOMAIN Packets = 1 .. Len(Packets) /\ Len(b) \in Nat
      /\ Len(b) > 1 /\ Len(b) >= FrontLen(b)
  BY StreamIs DEF IsWhole
<1>1. Done(k) \in Seq(Sent) /\ b \o c \in Seq(Sent) /\ Stream = Done(k) \o (b \o c)
  <2>1. Done(k) \in Seq(Sent)
    BY DoneIs
  <2>2. b \o c \in Seq(Sent)
    BY ConcatProperties
  <2>3. (Done(k) \o b) \o c = Done(k) \o (b \o c)
    BY <2>1, Assoc, Zenon
  <2> QED BY <2>1, <2>2, <2>3
<1>2. k # Len(Packets)
  <2> SUFFICES ASSUME k = Len(Packets) PROVE FALSE
    OBVIOUS
  <2>1. Done(k) \o (b \o c) = Done(k)
    BY <1>1, StreamIs
  <2>2. b \o c = <<>>
    BY <1>1, <2>1, ConcatEqualIffEmpty
  <2>3. b = <<>>
    BY <2>2, ConcatEqualIffEmpty
  <2> QED BY <2>3, <1>0
<1>3. k \in 0 .. Len(Packets) - 1 /\ k + 1 \in 1 .. Len(Packets) /\ k + 1 \in 0 .. Len(Packets)
  <2>1. Len(Packets) \in Nat
    BY <1>0
  <2> QED BY <2>1, <1>2
<1> DEFINE B == Bytes(k + 1)
<1>4. /\ B \in Seq(Sent) /\ Len(B) = Packets[k + 1] /\ Packets[k + 1] \in Nat \ {0}
      /\ \A i \in 1 .. Len(B) : B[i] = <<k + 1, i>>
  BY <1>0, <1>3, BytesIs
<1>5. Done(k + 1) = Done(k) \o B
  BY <1>1, <1>3, DoneStep
<1>6. PICK r \in Seq(Sent) : Stream = Done(k + 1) \o r
  BY <1>3, StreamGoesOn
<1> HIDE DEF B
<1>7. Stream = Done(k) \o (B \o r) /\ B \o r \in Seq(Sent)
  <2>1. Done(k) \o (B \o r) = Done(k + 1) \o r
    BY <1>3, DoneGoesOn DEF B
  <2>2. B \o r \in Seq(Sent)
    BY <1>4, ConcatProperties
  <2> QED BY <1>5, <1>6, <2>1, <2>2
<1>8. b \o c = B \o r
  BY <1>1, <1>7, ConcatSimplifications
<1>9. \A i \in 1 .. Len(b) : (b \o c)[i] = b[i]
  BY <1>0, ConcatProperties
<1>10. \A i \in 1 .. Len(B) : (B \o r)[i] = B[i]
  BY <1>4, ConcatProperties
<1>11. b[1] = <<k + 1, 1>> /\ Head(b) = b[1]
  <2>1. 1 \in 1 .. Len(b) /\ 1 \in 1 .. Len(B)
    BY <1>0, <1>4
  <2>2. b[1] = B[1]
    BY <2>1, <1>8, <1>9, <1>10
  <2> QED BY <2>1, <2>2, <1>4
<1>12. Head(b)[1] = k + 1 /\ FrontLen(b) = Len(B)
  BY <1>4, <1>11 DEF FrontLen
<1>13. PICK m \in 1 .. Len(b) : m = Len(B) /\ FrontLen(b) = m
  BY <1>0, <1>4, <1>12
<1> DEFINE front == SubSeq(b, 1, m)
           rest == SubSeq(b, m + 1, Len(b))
<1>14. front \in Seq(Sent) /\ rest \in Seq(Sent) /\ Len(front) = m
  <2>1. \A i \in 1 .. m : b[i] \in Sent
    BY <1>0
  <2>2. \A i \in m + 1 .. Len(b) : b[i] \in Sent
    BY <1>0
  <2>3. m - 1 + 1 = m /\ 1 <= m /\ m \in Int /\ m + 1 \in Int /\ Len(b) \in Int
    BY <1>0
  <2>4. front \in Seq(Sent) /\ Len(front) = IF 1 <= m THEN m - 1 + 1 ELSE 0
    BY <2>1, <2>3, SubSeqProperties
  <2>5. rest \in Seq(Sent)
    BY <2>2, <2>3, SubSeqProperties
  <2> QED BY <2>3, <2>4, <2>5
<1>15. front = B
  <2>1. ASSUME NEW i \in 1 .. m PROVE front[i] = B[i]
    <3>1. front[i] = b[i]
      <4>1. \A j \in 1 .. m : b[j] \in Sent
        BY <1>0
      <4>2. \A j \in 1 .. m - 1 + 1 : front[j] = b[1 + j - 1]
        BY <4>1, SubSeqProperties
      <4> QED BY <4>2
    <3>2. b[i] = B[i]
      BY <1>0, <1>8, <1>9, <1>10, <1>13
    <3> QED BY <3>1, <3>2
  <2> HIDE DEF front
  <2> QED BY <1>4, <1>13, <1>14, <2>1, SeqEqual
<1>16. front \o rest = b
  <2>1. 1 \in 1 .. Len(b) + 1 /\ m \in 1 - 1 .. Len(b) /\ Len(b) \in m .. Len(b)
    BY <1>0
  <2>2. SubSeq(b, 1, m) \o SubSeq(b, m + 1, Len(b)) = SubSeq(b, 1, Len(b))
    BY <2>1, ConcatAdjacentSubSeq
  <2> QED BY <2>2, SubSeqFull
<1> HIDE DEF front, rest
<1>17. Done(k + 1) \o rest \o c = Stream
  <2>1. Done(k) \o (B \o rest) = Done(k + 1) \o rest
    <3>1. Done(k) \o (Bytes(k + 1) \o rest) = Done(k + 1) \o rest
      BY <1>3, <1>14, DoneGoesOn
    <3> QED BY <3>1 DEF B
  <2>2. B \o rest = b
    BY <1>15, <1>16
  <2> QED BY <2>1, <2>2
<1> QED BY <1>3, <1>12, <1>13, <1>14, <1>17 DEF rest

-----------------------------------------------------------------------------
(* Stacks and frames *)

LEMMA FrontIs ==
    ASSUME NEW S, NEW s \in Seq(S), s # <<>>
    PROVE  /\ Front(s) \in Seq(S) /\ Len(s) \in Nat \ {0}
           /\ Len(Front(s)) = Len(s) - 1 /\ DOMAIN Front(s) = 1 .. Len(s) - 1
           /\ \A i \in 1 .. Len(s) - 1 : Front(s)[i] = s[i]
           /\ Last(s) = s[Len(s)] /\ Last(s) \in S
<1>1. Len(s) \in Nat \ {0}
  OBVIOUS
<1>2. \A i \in 1 .. Len(s) : s[i] \in S
  OBVIOUS
<1>3. PICK n \in Int : n = Len(s) - 1
  BY <1>1
<1>4. \A i \in 1 .. n : s[i] \in S
  BY <1>1, <1>2, <1>3
<1>5. /\ SubSeq(s, 1, n) \in Seq(S)
      /\ Len(SubSeq(s, 1, n)) = IF 1 <= n THEN n - 1 + 1 ELSE 0
      /\ \A i \in 1 .. n - 1 + 1 : SubSeq(s, 1, n)[i] = s[1 + i - 1]
  BY <1>4, SubSeqProperties
<1>6. Len(SubSeq(s, 1, n)) = n /\ DOMAIN SubSeq(s, 1, n) = 1 .. n
  BY <1>1, <1>3, <1>5
<1>7. \A i \in 1 .. n : SubSeq(s, 1, n)[i] = s[i]
  BY <1>5, <1>1, <1>3
<1>8. Front(s) = SubSeq(s, 1, n) /\ Last(s) = s[Len(s)]
  BY <1>3 DEF Front, Last
<1>9. s[Len(s)] \in S
  BY <1>1, <1>2
<1> QED BY <1>1, <1>3, <1>5, <1>6, <1>7, <1>8, <1>9

LEMMA AppendIs ==
    ASSUME NEW S, NEW s \in Seq(S), NEW x \in S
    PROVE  /\ Append(s, x) \in Seq(S) /\ Len(s) \in Nat
           /\ Len(Append(s, x)) = Len(s) + 1 /\ DOMAIN Append(s, x) = 1 .. Len(s) + 1
           /\ \A i \in 1 .. Len(s) : Append(s, x)[i] = s[i]
           /\ Append(s, x)[Len(s) + 1] = x /\ Append(s, x) # <<>>
  OBVIOUS

LoopKinds == {"range", "list", "cut"}

(* What frames have, by their kinds. *)
LEMMA FrameFields ==
    ASSUME NEW fr \in Frames
    PROVE  /\ fr.kind \in {"block", "case", "switch", "call"} \cup LoopKinds
           /\ fr.kind = "switch" => fr.deep \in BOOLEAN
           /\ fr.kind = "call" =>
                /\ fr.node \in Calls /\ fr.f \in Names /\ fr.arg \in Args
                /\ fr.of \in Names /\ fr.then \in Calls
           /\ fr.kind \in LoopKinds =>
                fr.slot \in 0 .. MaxDepth /\ fr.i \in Nat /\ fr.body \in BOOLEAN
           /\ fr.kind \in {"range", "list"} =>
                fr.to \in 0 .. MaxTo /\ fr.step \in Steps \cup {1}
           /\ fr.kind = "cut" =>
                fr.buff \in Seq(Range(Stream)) /\ fr.packet \in 0 .. Len(Packets)
  BY DEF Frames, LoopKinds

(* Own is the names of Entries. *)
LEMMA OwnOf ==
    ASSUME NEW fr \in Frames
    PROVE  /\ fr.kind = "call" => Own(fr) = {ArgOf(fr.f), CBID(fr.f)}
           /\ fr.kind \in LoopKinds =>
                /\ Own(fr) \subseteq {Num(fr.slot), Value(fr.slot)}
                /\ IF fr.body THEN Num(fr.slot) \in Own(fr) ELSE Own(fr) = {}
           /\ fr.kind \in {"list", "cut"} /\ fr.body =>
                Own(fr) = {Num(fr.slot), Value(fr.slot)}
           /\ fr.kind = "range" /\ fr.body => Own(fr) = {Num(fr.slot)}
           /\ fr.kind \notin LoopKinds \cup {"call"} => Own(fr) = {}
<1>1. fr.kind \in {"block", "case", "switch", "call"} \cup LoopKinds
  BY FrameFields
<1>2. CASE fr.kind = "call"
  <2>1. Entries(fr) = {<<ArgOf(fr.f), fr.arg>>, <<CBID(fr.f), fr.node>>}
    BY <1>2 DEF Entries
  <2> QED BY <1>2, <2>1 DEF Own, LoopKinds
<1>3. CASE fr.kind \in {"block", "case", "switch"}
  <2>1. Entries(fr) = {}
    BY <1>3 DEF Entries
  <2> QED BY <1>3, <2>1 DEF Own, LoopKinds
<1>4. CASE fr.kind \in LoopKinds /\ ~fr.body
  <2>1. Entries(fr) = {}
    BY <1>4 DEF Entries, LoopKinds
  <2> QED BY <1>4, <2>1 DEF Own, LoopKinds
<1>5. CASE fr.kind = "range" /\ fr.body
  <2>1. Entries(fr) = {<<Num(fr.slot), fr.i>>}
    BY <1>5 DEF Entries
  <2> QED BY <1>5, <2>1 DEF Own, LoopKinds
<1>6. CASE fr.kind = "list" /\ fr.body
  <2>1. Entries(fr) = {<<Num(fr.slot), fr.i>>, <<Value(fr.slot), fr.i>>}
    BY <1>6 DEF Entries
  <2> QED BY <1>6, <2>1 DEF Own, LoopKinds
<1>7. CASE fr.kind = "cut" /\ fr.body
  <2>1. Entries(fr) = {<<Num(fr.slot), fr.i>>, <<Value(fr.slot), fr.packet>>}
    BY <1>7 DEF Entries
  <2> QED BY <1>7, <2>1 DEF Own, LoopKinds
<1> QED BY <1>1, <1>2, <1>3, <1>4, <1>5, <1>6, <1>7 DEF LoopKinds

LEMMA NoOwn ==
    ASSUME NEW fr, Own(fr) = {}
    PROVE  Entries(fr) = {}
  BY DEF Own

-----------------------------------------------------------------------------
(* The map holds what the frames of a stack need, and nothing else. *)
Fits(s, p) ==
    /\ DOMAIN p = UNION {Own(s[j]) : j \in DOMAIN s}
    /\ \A j \in DOMAIN s : \A e \in Entries(s[j]) : p[e[1]] = e[2]

OwnBelow(s) == UNION {Own(s[j]) : j \in 1 .. Len(s) - 1}

LEMMA FitsDrop ==
    ASSUME NEW s \in Seq(Frames), s # <<>>, NEW p, Fits(s, p),
           NEW names, Own(Last(s)) \subseteq names, names \cap OwnBelow(s) = {}
    PROVE  Fits(Front(s), Erase(p, names))
<1> DEFINE t == Front(s)
<1>1. /\ DOMAIN t = 1 .. Len(s) - 1 /\ \A i \in 1 .. Len(s) - 1 : t[i] = s[i]
      /\ Last(s) = s[Len(s)] /\ Len(s) \in Nat \ {0} /\ DOMAIN s = 1 .. Len(s)
  <2>1. DOMAIN s = 1 .. Len(s)
    OBVIOUS
  <2> QED BY <2>1, FrontIs
<1> HIDE DEF t
<1>2. DOMAIN p = OwnBelow(s) \cup Own(Last(s))
  BY <1>1 DEF Fits, OwnBelow
<1>3. UNION {Own(t[j]) : j \in DOMAIN t} = OwnBelow(s)
  BY <1>1 DEF OwnBelow
<1>4. DOMAIN Erase(p, names) = OwnBelow(s)
  BY <1>2 DEF Erase, Restrict
<1>5. ASSUME NEW j \in DOMAIN t, NEW e \in Entries(t[j])
      PROVE  Erase(p, names)[e[1]] = e[2]
  <2>1. e \in Entries(s[j]) /\ j \in DOMAIN s /\ j \in 1 .. Len(s) - 1
    BY <1>1
  <2>2. e[1] \in OwnBelow(s)
    BY <2>1 DEF OwnBelow, Own
  <2>3. p[e[1]] = e[2]
    BY <2>1 DEF Fits
  <2>4. e[1] \in DOMAIN p \ names
    BY <2>2, <1>2
  <2> QED BY <2>3, <2>4 DEF Erase, Restrict
<1> QED BY <1>3, <1>4, <1>5 DEF Fits, t

LEMMA FitsPop ==
    ASSUME NEW s \in Seq(Frames), s # <<>>, NEW p, Fits(s, p), Own(Last(s)) = {}
    PROVE  Fits(Front(s), p)
<1> DEFINE t == Front(s)
<1>1. /\ DOMAIN t = 1 .. Len(s) - 1 /\ \A i \in 1 .. Len(s) - 1 : t[i] = s[i]
      /\ Last(s) = s[Len(s)] /\ Len(s) \in Nat \ {0} /\ DOMAIN s = 1 .. Len(s)
  <2>1. DOMAIN s = 1 .. Len(s)
    OBVIOUS
  <2> QED BY <2>1, FrontIs
<1> HIDE DEF t
<1>2. UNION {Own(t[j]) : j \in DOMAIN t} = DOMAIN p
  <2>1. DOMAIN s = DOMAIN t \cup {Len(s)} /\ \A i \in DOMAIN t : t[i] = s[i]
    BY <1>1
  <2>2. DOMAIN p = UNION {Own(s[j]) : j \in DOMAIN s}
    BY DEF Fits
  <2>3. ASSUME NEW x, x \in UNION {Own(s[j]) : j \in DOMAIN s}
        PROVE  x \in UNION {Own(t[j]) : j \in DOMAIN t}
    <3>1. PICK j \in DOMAIN s : x \in Own(s[j])
      BY <2>3
    <3>2. j # Len(s)
      BY <3>1, <1>1
    <3> QED BY <3>1, <3>2, <2>1
  <2>4. ASSUME NEW x, x \in UNION {Own(t[j]) : j \in DOMAIN t}
        PROVE  x \in UNION {Own(s[j]) : j \in DOMAIN s}
    BY <2>4, <2>1
  <2> QED BY <2>2, <2>3, <2>4
<1>3. ASSUME NEW j \in DOMAIN t PROVE \A e \in Entries(t[j]) : p[e[1]] = e[2]
  <2>1. j \in DOMAIN s /\ t[j] = s[j]
    BY <1>1
  <2> QED BY <2>1 DEF Fits
<1> QED BY <1>2, <1>3 DEF Fits, t

LEMMA FitsAdd ==
    ASSUME NEW s \in Seq(Frames), NEW p, Fits(s, p), NEW fr \in Frames, NEW q,
           Own(fr) \cap DOMAIN p = {}, DOMAIN q = DOMAIN p \cup Own(fr),
           \A x \in DOMAIN p : q[x] = p[x],
           \A e \in Entries(fr) : q[e[1]] = e[2]
    PROVE  Fits(Append(s, fr), q)
<1> DEFINE t == Append(s, fr)
<1>1. /\ DOMAIN t = 1 .. Len(s) + 1 /\ \A i \in 1 .. Len(s) : t[i] = s[i]
      /\ t[Len(s) + 1] = fr /\ Len(s) \in Nat /\ DOMAIN s = 1 .. Len(s)
  BY AppendIs
<1> HIDE DEF t
<1>2. DOMAIN q = UNION {Own(t[j]) : j \in DOMAIN t}
  <2>1. UNION {Own(t[j]) : j \in DOMAIN t} = (UNION {Own(s[j]) : j \in DOMAIN s}) \cup Own(fr)
    <3>1. DOMAIN t = DOMAIN s \cup {Len(s) + 1} /\ \A i \in DOMAIN s : t[i] = s[i]
      BY <1>1
    <3>2. ASSUME NEW x, x \in UNION {Own(t[j]) : j \in DOMAIN t}
          PROVE  x \in (UNION {Own(s[j]) : j \in DOMAIN s}) \cup Own(fr)
      BY <3>1, <3>2, <1>1
    <3>3. ASSUME NEW x, x \in (UNION {Own(s[j]) : j \in DOMAIN s}) \cup Own(fr)
          PROVE  x \in UNION {Own(t[j]) : j \in DOMAIN t}
      <4>1. CASE x \in Own(fr)
        <5>1. x \in Own(t[Len(s) + 1]) /\ Len(s) + 1 \in DOMAIN t
          BY <4>1, <1>1
        <5> QED BY <5>1
      <4>2. CASE x \in UNION {Own(s[j]) : j \in DOMAIN s}
        BY <4>2, <3>1
      <4> QED BY <4>1, <4>2, <3>3
    <3> QED BY <3>2, <3>3
  <2> QED BY <2>1 DEF Fits
<1>3. ASSUME NEW j \in DOMAIN t, NEW e \in Entries(t[j])
      PROVE  q[e[1]] = e[2]
  <2>1. CASE j = Len(s) + 1
    BY <2>1, <1>1, <1>3
  <2>2. CASE j \in DOMAIN s
    <3>1. e \in Entries(s[j]) /\ e[1] \in Own(s[j])
      BY <2>2, <1>1, <1>3 DEF Own
    <3>2. p[e[1]] = e[2] /\ e[1] \in DOMAIN p
      BY <3>1, <2>2 DEF Fits
    <3> QED BY <3>2
  <2> QED BY <2>1, <2>2, <1>1
<1> QED BY <1>2, <1>3 DEF Fits, t

LEMMA FitsPush ==
    ASSUME NEW s \in Seq(Frames), NEW p, Fits(s, p), NEW fr \in Frames, Own(fr) = {}
    PROVE  Fits(Append(s, fr), p)
  BY FitsAdd, NoOwn

-----------------------------------------------------------------------------
(* How frames stand on each other: only the topmost loop may be at its     *)
(* test, loops have counters of their own, a CASE is one of the SWITCH     *)
(* below it, functions on the stack differ, and a callback stands above    *)
(* the call whose THEN it runs.                                            *)
Shape(s) ==
    /\ \A j \in DOMAIN s : s[j].kind \in LoopKinds =>
         /\ s[j].slot < j
         /\ j < Len(s) => s[j].body
         /\ \A k \in DOMAIN s : k # j /\ s[k].kind \in LoopKinds => s[k].slot # s[j].slot
    /\ \A j \in DOMAIN s : s[j].kind = "case" => j > 1 /\ s[j - 1].kind = "switch"
    /\ \A j \in DOMAIN s : s[j].kind = "call" =>
         /\ \A k \in DOMAIN s : k # j /\ s[k].kind = "call" => s[k].f # s[j].f
         /\ s[j].f = Anon => \E k \in 1 .. j - 1 :
              s[k].kind = "call" /\ s[k].f = s[j].of /\ s[j].then = s[k].node

LEMMA ShapeFront ==
    ASSUME NEW s \in Seq(Frames), s # <<>>, Shape(s)
    PROVE  Shape(Front(s))
<1> DEFINE t == Front(s)
<1>1. /\ DOMAIN t = 1 .. Len(s) - 1 /\ \A i \in 1 .. Len(s) - 1 : t[i] = s[i]
      /\ Len(t) = Len(s) - 1 /\ Len(s) \in Nat \ {0} /\ DOMAIN s = 1 .. Len(s)
  BY FrontIs
<1> HIDE DEF t
<1>2. ASSUME NEW j \in DOMAIN t, t[j].kind \in LoopKinds
      PROVE  /\ t[j].slot < j /\ (j < Len(t) => t[j].body)
             /\ \A k \in DOMAIN t : k # j /\ t[k].kind \in LoopKinds => t[k].slot # t[j].slot
  BY <1>1, <1>2 DEF Shape
<1>3. ASSUME NEW j \in DOMAIN t, t[j].kind = "case"
      PROVE  j > 1 /\ t[j - 1].kind = "switch"
  BY <1>1, <1>3 DEF Shape
<1>4. ASSUME NEW j \in DOMAIN t, t[j].kind = "call"
      PROVE  \A k \in DOMAIN t : k # j /\ t[k].kind = "call" => t[k].f # t[j].f
  <2>1. j \in DOMAIN s /\ t[j] = s[j]
    BY <1>1
  <2>2. \A k \in DOMAIN s : k # j /\ s[k].kind = "call" => s[k].f # s[j].f
    BY <2>1, <1>4 DEF Shape
  <2>3. \A k \in DOMAIN t : k \in DOMAIN s /\ t[k] = s[k]
    BY <1>1
  <2> QED BY <2>1, <2>2, <2>3
<1>5. ASSUME NEW j \in DOMAIN t, t[j].kind = "call", t[j].f = Anon
      PROVE  \E k \in 1 .. j - 1 :
               t[k].kind = "call" /\ t[k].f = t[j].of /\ t[j].then = t[k].node
  <2>1. j \in DOMAIN s /\ t[j] = s[j]
    BY <1>1
  <2>2. PICK k \in 1 .. j - 1 : s[k].kind = "call" /\ s[k].f = s[j].of /\ s[j].then = s[k].node
    BY <2>1, <1>5 DEF Shape
  <2>3. t[k] = s[k]
    BY <1>1, <2>1
  <2> QED BY <2>1, <2>2, <2>3
<1> QED BY <1>2, <1>3, <1>4, <1>5 DEF Shape, t

LEMMA ShapeAppend ==
    ASSUME NEW s \in Seq(Frames), Shape(s), NEW fr \in Frames,
           \A j \in DOMAIN s : s[j].kind \in LoopKinds => s[j].body,
           fr.kind \in LoopKinds =>
               /\ fr.slot <= Len(s)
               /\ \A k \in DOMAIN s : s[k].kind \in LoopKinds => s[k].slot # fr.slot,
           fr.kind = "case" => s # <<>> /\ Last(s).kind = "switch",
           fr.kind = "call" => \A k \in DOMAIN s : s[k].kind = "call" => s[k].f # fr.f,
           fr.kind = "call" /\ fr.f = Anon => \E k \in DOMAIN s :
               s[k].kind = "call" /\ s[k].f = fr.of /\ fr.then = s[k].node
    PROVE  Shape(Append(s, fr))
<1> DEFINE t == Append(s, fr)
<1>1. /\ DOMAIN t = 1 .. Len(s) + 1 /\ \A i \in 1 .. Len(s) : t[i] = s[i]
      /\ t[Len(s) + 1] = fr /\ Len(s) \in Nat /\ DOMAIN s = 1 .. Len(s)
      /\ Len(t) = Len(s) + 1
  BY AppendIs
<1>0. fr.kind = "case" => Len(s) > 0 /\ s[Len(s)].kind = "switch"
  <2>1. ASSUME s # <<>> PROVE Last(s) = s[Len(s)] /\ Len(s) > 0
    <3>1. Last(s) = s[Len(s)] /\ Len(s) \in Nat \ {0}
      BY <2>1, FrontIs
    <3> QED BY <3>1
  <2> QED BY <2>1
<1> HIDE DEF t
<1>2. ASSUME NEW j \in DOMAIN t, t[j].kind \in LoopKinds
      PROVE  /\ t[j].slot < j /\ (j < Len(t) => t[j].body)
             /\ \A k \in DOMAIN t : k # j /\ t[k].kind \in LoopKinds => t[k].slot # t[j].slot
  <2>0. fr.kind \in LoopKinds => fr.slot \in Nat
    BY FrameFields
  <2>1. CASE j = Len(s) + 1
    BY <1>1, <1>2, <2>0, <2>1
  <2>2. CASE j \in DOMAIN s
    <3>1. s[j].slot < j /\ s[j].body /\ t[j] = s[j] /\ j < Len(s) + 1
      BY <1>1, <1>2, <2>2 DEF Shape
    <3>2. ASSUME NEW k \in DOMAIN t, k # j, t[k].kind \in LoopKinds
          PROVE  t[k].slot # t[j].slot
      <4>1. CASE k = Len(s) + 1
        BY <4>1, <3>1, <1>1, <1>2, <2>2, <3>2
      <4>2. CASE k \in DOMAIN s
        BY <4>2, <3>1, <1>1, <1>2, <2>2, <3>2 DEF Shape
      <4> QED BY <4>1, <4>2, <1>1
    <3> QED BY <3>1, <3>2
  <2> QED BY <2>1, <2>2, <1>1
<1>3. ASSUME NEW j \in DOMAIN t, t[j].kind = "case"
      PROVE  j > 1 /\ t[j - 1].kind = "switch"
  BY <1>0, <1>1, <1>3 DEF Shape
<1>4. ASSUME NEW j \in DOMAIN t, t[j].kind = "call"
      PROVE  \A k \in DOMAIN t : k # j /\ t[k].kind = "call" => t[k].f # t[j].f
  BY <1>1, <1>4 DEF Shape
<1>5. ASSUME NEW j \in DOMAIN t, t[j].kind = "call", t[j].f = Anon
      PROVE  \E k \in 1 .. j - 1 :
               t[k].kind = "call" /\ t[k].f = t[j].of /\ t[j].then = t[k].node
  <2>1. CASE j = Len(s) + 1
    BY <1>1, <1>5, <2>1
  <2>2. CASE j \in DOMAIN s
    <3>1. PICK k \in 1 .. j - 1 :
            s[k].kind = "call" /\ s[k].f = s[j].of /\ s[j].then = s[k].node
      BY <1>1, <1>5, <2>2 DEF Shape
    <3> QED BY <3>1, <1>1, <2>2
  <2> QED BY <2>1, <2>2, <1>1
<1> QED BY <1>2, <1>3, <1>4, <1>5 DEF Shape, t

(* Names of different frames differ. *)
LEMMA OwnDisjoint ==
    ASSUME NEW s \in Seq(Frames), Shape(s), NEW j \in DOMAIN s, NEW k \in DOMAIN s, j # k
    PROVE  Own(s[j]) \cap Own(s[k]) = {}
<1>1. s[j] \in Frames /\ s[k] \in Frames
  OBVIOUS
<1>2. CASE s[j].kind \in LoopKinds /\ s[k].kind \in LoopKinds
  <2>1. s[j].slot # s[k].slot
    BY <1>2 DEF Shape
  <2>2. {Num(s[j].slot), Value(s[j].slot)} \cap {Num(s[k].slot), Value(s[k].slot)} = {}
    BY <2>1 DEF Num, Value
  <2> QED BY <1>1, <1>2, <2>2, OwnOf
<1>3. CASE s[j].kind = "call" /\ s[k].kind = "call"
  <2>1. s[j].f # s[k].f
    BY <1>3 DEF Shape
  <2>2. {ArgOf(s[j].f), CBID(s[j].f)} \cap {ArgOf(s[k].f), CBID(s[k].f)} = {}
    BY <2>1 DEF ArgOf, CBID
  <2> QED BY <1>1, <1>3, <2>2, OwnOf
<1>4. CASE s[j].kind \in LoopKinds /\ s[k].kind = "call"
  <2>1. {Num(s[j].slot), Value(s[j].slot)} \cap {ArgOf(s[k].f), CBID(s[k].f)} = {}
    BY DEF Num, Value, ArgOf, CBID
  <2> QED BY <1>1, <1>4, <2>1, OwnOf
<1>5. CASE s[j].kind = "call" /\ s[k].kind \in LoopKinds
  <2>1. {Num(s[k].slot), Value(s[k].slot)} \cap {ArgOf(s[j].f), CBID(s[j].f)} = {}
    BY DEF Num, Value, ArgOf, CBID
  <2> QED BY <1>1, <1>5, <2>1, OwnOf
<1>6. CASE s[j].kind \notin LoopKinds \cup {"call"} \/ s[k].kind \notin LoopKinds \cup {"call"}
  BY <1>1, <1>6, OwnOf
<1> QED BY <1>2, <1>3, <1>4, <1>5, <1>6

-----------------------------------------------------------------------------
(* The type invariant of the interpreter *)

LEMMA TopIs ==
    ASSUME FramesOK, Running
    PROVE  /\ stack \in Seq(Frames) /\ stack # <<>> /\ Len(stack) \in Nat \ {0}
           /\ Top = stack[Len(stack)] /\ Top \in Frames /\ Top = Last(stack)
           /\ Below = Front(stack) /\ Below \in Seq(Frames) /\ Len(Below) = Len(stack) - 1
           /\ DOMAIN stack = 1 .. Len(stack) /\ DOMAIN Below = 1 .. Len(stack) - 1
           /\ \A i \in 1 .. Len(stack) - 1 : Below[i] = stack[i]
<1>1. stack \in Seq(Frames) /\ stack # <<>>
  BY DEF FramesOK, Running
<1>2. DOMAIN stack = 1 .. Len(stack)
  BY <1>1
<1>3. Top = Last(stack) /\ Below = Front(stack)
  BY DEF Top, Below
<1> HIDE DEF Top, Below
<1> QED BY <1>1, <1>2, <1>3, FrontIs

(* The stack keeps its type through the four ways to change it. *)
StackOK(s) == s \in Seq(Frames) /\ Len(s) <= MaxDepth

LEMMA StackPush ==
    ASSUME FramesOK, NEW fr \in Frames, Enter(fr)
    PROVE  StackOK(stack') /\ stack' = Append(stack, fr) /\ Len(stack) < MaxDepth
<1>1. stack \in Seq(Frames) /\ stack' = Append(stack, fr) /\ Len(stack) < MaxDepth
  BY DEF FramesOK, Enter
<1> QED BY <1>1, ScriptAssumption, AppendIs DEF StackOK

LEMMA StackPop ==
    ASSUME FramesOK, Running
    PROVE  /\ StackOK(Below)
           /\ \A fr \in Frames : StackOK(Append(Below, fr))
           /\ Below # <<>> => StackOK(Front(Below))
<1>1. Below \in Seq(Frames) /\ Len(Below) = Len(stack) - 1 /\ Len(stack) <= MaxDepth
      /\ Len(stack) \in Nat \ {0} /\ MaxDepth \in Nat
  BY TopIs, ScriptAssumption DEF FramesOK
<1> HIDE DEF Below
<1>2. StackOK(Below)
  BY <1>1 DEF StackOK
<1>3. ASSUME NEW fr \in Frames PROVE StackOK(Append(Below, fr))
  BY <1>1, AppendIs DEF StackOK
<1>4. ASSUME Below # <<>> PROVE StackOK(Front(Below))
  BY <1>1, <1>4, FrontIs DEF StackOK
<1> QED BY <1>2, <1>3, <1>4

LEMMA LoopFrame ==
    ASSUME NEW fr \in Frames, fr.kind \in {"range", "list"}, NEW b \in BOOLEAN, NEW i \in Nat
    PROVE  LET g == [fr EXCEPT !.body = b]
               h == [fr EXCEPT !.body = b, !.i = i]
           IN  /\ g \in Frames /\ g.kind = fr.kind /\ g.slot = fr.slot /\ g.body = b
               /\ g.i = fr.i
               /\ h \in Frames /\ h.kind = fr.kind /\ h.slot = fr.slot /\ h.body = b
<1>1. fr \in [kind : {"range", "list"}, slot : 0 .. MaxDepth, i : Nat, to : 0 .. MaxTo,
              step : Steps \cup {1}, body : BOOLEAN]
  BY DEF Frames
<1> QED BY <1>1 DEF Frames

(* The next packet of a buffer, and the bytes behind it. *)
LEMMA FrontPacket ==
    ASSUME NEW buff \in Seq(Range(Stream)), IsWhole(buff)
    PROVE  /\ Head(buff)[1] \in DOMAIN Packets /\ Head(buff)[1] \in 0 .. Len(Packets)
           /\ SubSeq(buff, FrontLen(buff) + 1, Len(buff)) \in Seq(Range(Stream))
<1>1. Len(buff) \in Nat /\ Len(buff) > 1 /\ Head(buff) = buff[1] /\ buff[1] \in Range(Stream)
  BY DEF IsWhole
<1>2. PICK n \in DOMAIN Packets, i \in Nat : Head(buff) = <<n, i>>
  <2>1. Head(buff) \in Sent
    BY <1>1, StreamIs
  <2> QED BY <2>1 DEF Sent
<1>3. Packets[n] \in Nat /\ FrontLen(buff) = Packets[n] /\ n \in 0 .. Len(Packets)
  BY <1>2, BytesIs, StreamIs DEF FrontLen
<1>4. PICK m \in Int : m = FrontLen(buff) + 1 /\ m >= 1
  BY <1>3
<1>5. \A j \in m .. Len(buff) : buff[j] \in Range(Stream)
  BY <1>1, <1>4
<1>6. SubSeq(buff, m, Len(buff)) \in Seq(Range(Stream))
  BY <1>1, <1>5, SubSeqProperties
<1> QED BY <1>2, <1>3, <1>4, <1>6

(* The first free counter: there is one, since a counter is smaller than   *)
(* the place of its loop.                                                  *)
LEMMA SlotFree ==
    ASSUME FramesOK, Fits(stack, paras), Shape(stack), Len(stack) < MaxDepth
    PROVE  Slot \in 0 .. Len(stack) /\ Num(Slot) \notin DOMAIN paras
<1> DEFINE F == {k \in 0 .. MaxDepth : Num(k) \notin DOMAIN paras}
<1>1. Len(stack) \in Nat /\ stack \in Seq(Frames) /\ MaxDepth \in Nat
  BY ScriptAssumption DEF FramesOK
<1>2. Num(Len(stack)) \notin DOMAIN paras
  <2> SUFFICES ASSUME NEW j \in DOMAIN stack, Num(Len(stack)) \in Own(stack[j]) PROVE FALSE
    BY DEF Fits
  <2>1. stack[j] \in Frames /\ j \in 1 .. Len(stack)
    BY <1>1
  <2>2. stack[j].kind \in LoopKinds
    <3>1. Own(stack[j]) # {}
      OBVIOUS
    <3>2. stack[j].kind # "call"
      <4> SUFFICES ASSUME stack[j].kind = "call" PROVE FALSE
        OBVIOUS
      <4>1. Own(stack[j]) = {ArgOf(stack[j].f), CBID(stack[j].f)}
        BY <2>1, OwnOf
      <4> QED BY <4>1 DEF Num, ArgOf, CBID
    <3> QED BY <2>1, <3>1, <3>2, OwnOf
  <2>3. stack[j].slot < j /\ stack[j].slot \in 0 .. MaxDepth
    BY <2>1, <2>2, FrameFields DEF Shape
  <2>4. Own(stack[j]) \subseteq {Num(stack[j].slot), Value(stack[j].slot)}
    BY <2>1, <2>2, OwnOf
  <2>5. Len(stack) = stack[j].slot
    BY <2>4 DEF Num, Value
  <2> QED BY <2>1, <2>3, <2>5
<1>3. Len(stack) \in F /\ F \subseteq Nat
  BY <1>1, <1>2
<1>4. Slot = Min(F)
  BY DEF Slot
<1> HIDE DEF F
<1>5. Slot \in F /\ Slot <= Len(stack)
  BY <1>3, <1>4, MinIs
<1> QED BY <1>1, <1>5 DEF F

LEMMA InitFrames == ScriptInit => FramesOK
<1> SUFFICES ASSUME ScriptInit PROVE FramesOK
  OBVIOUS
<1>1. stack \in Seq(Frames) /\ Len(stack) <= MaxDepth
  BY ScriptAssumption, EmptySeq DEF ScriptInit
<1>2. input \in Seq(Range(Stream))
  BY StreamIs, SeqOfRange DEF ScriptInit
<1>3. kept \in Seq(Range(Stream)) /\ handled \in Seq(DOMAIN Packets)
  BY EmptySeq DEF ScriptInit
<1>4. acts \in 0 .. MaxActs
  BY ScriptAssumption DEF ScriptInit
<1> QED BY <1>1, <1>2, <1>3, <1>4 DEF FramesOK

LEMMA ActsOK ==
    ASSUME FramesOK, acts < MaxActs, acts' = acts + 1
    PROVE  acts' \in 0 .. MaxActs
  BY ScriptAssumption DEF FramesOK

(* Frames that nodes are entered with. *)
LEMMA NewFrames ==
    /\ [kind |-> "block"] \in Frames /\ [kind |-> "case"] \in Frames
    /\ \A deep \in BOOLEAN : [kind |-> "switch", deep |-> deep] \in Frames
    /\ \A n \in Calls, f \in Names, g \in Names, arg \in Args, m \in Calls :
         [kind |-> "call", node |-> n, f |-> f, arg |-> arg, of |-> g, then |-> m] \in Frames
    /\ \A k \in 0 .. MaxDepth, to \in 0 .. MaxTo, step \in Steps \cup {1},
          kind \in {"range", "list"} :
         [kind |-> kind, slot |-> k, i |-> 1, to |-> to, step |-> step, body |-> FALSE]
            \in Frames
    /\ \A k \in 0 .. MaxDepth, buff \in Seq(Range(Stream)) :
         [kind |-> "cut", slot |-> k, i |-> 0, buff |-> buff, packet |-> 0, body |-> FALSE]
            \in Frames
<1>1. 0 \in 0 .. Len(Packets)
  BY StreamIs
<1> QED BY <1>1 DEF Frames

(* The stack and the map belong together. *)
Walked == Fits(stack, paras) /\ Shape(stack)

LEMMA ChangedBuffers ==
    ASSUME FramesOK, StackOK(stack'), acts' \in 0 .. MaxActs,
           UNCHANGED <<input, kept, handled>>
    PROVE  FramesOK'
  BY DEF FramesOK, StackOK

LEMMA BodiesRun ==
    ASSUME FramesOK, Walked, InBody \/ (Running /\ Top.kind = "switch")
    PROVE  \A j \in DOMAIN stack : stack[j].kind \in LoopKinds => stack[j].body
<1> SUFFICES ASSUME NEW j \in DOMAIN stack, stack[j].kind \in LoopKinds PROVE stack[j].body
  OBVIOUS
<1>1. /\ Len(stack) \in Nat \ {0} /\ Top = stack[Len(stack)] /\ j \in 1 .. Len(stack)
  BY TopIs DEF InBody
<1> HIDE DEF Top
<1>2. CASE j = Len(stack)
  BY <1>1, <1>2 DEF InBody, LoopKinds
<1>3. CASE j < Len(stack)
  BY <1>1, <1>3 DEF Walked, Shape
<1> QED BY <1>1, <1>2, <1>3

LEMMA PushPlain ==
    ASSUME FramesOK, Walked, InBody, NEW fr \in Frames, fr.kind \in {"block", "switch"},
           stack' = Append(stack, fr), UNCHANGED paras
    PROVE  Walked'
<1>1. stack \in Seq(Frames) /\ Own(fr) = {}
  BY OwnOf DEF FramesOK, LoopKinds
<1>2. Fits(stack', paras')
  BY <1>1, FitsPush DEF Walked
<1>3. Shape(stack')
  <2>1. fr.kind \notin LoopKinds /\ fr.kind # "case" /\ fr.kind # "call"
    BY DEF LoopKinds
  <2> QED BY <1>1, <2>1, BodiesRun, ShapeAppend DEF Walked
<1> QED BY <1>2, <1>3 DEF Walked

LEMMA PushLoop ==
    ASSUME FramesOK, Walked, InBody, NEW fr \in Frames, fr.kind \in LoopKinds,
           ~fr.body, fr.slot = Slot, Len(stack) < MaxDepth,
           stack' = Append(stack, fr), UNCHANGED paras
    PROVE  Walked'
<1>1. stack \in Seq(Frames) /\ Own(fr) = {}
  BY OwnOf DEF FramesOK
<1>2. Fits(stack', paras')
  BY <1>1, FitsPush DEF Walked
<1>3. Slot \in 0 .. Len(stack) /\ Num(Slot) \notin DOMAIN paras /\ Len(stack) \in Nat
  BY <1>1, SlotFree DEF Walked
<1>4. ASSUME NEW k \in DOMAIN stack, stack[k].kind \in LoopKinds
      PROVE  stack[k].body /\ stack[k].slot # Slot
  <2>1. stack[k].body /\ stack[k] \in Frames
    BY <1>1, <1>4, BodiesRun
  <2>2. Num(stack[k].slot) \in Own(stack[k])
    BY <2>1, <1>4, OwnOf
  <2>3. Num(stack[k].slot) \in DOMAIN paras
    BY <2>2 DEF Walked, Fits
  <2> QED BY <2>1, <2>3, <1>3
<1>5. fr.slot <= Len(stack) /\ fr.kind # "case" /\ fr.kind # "call"
  BY <1>3 DEF LoopKinds
<1>6. Shape(stack')
  BY <1>1, <1>4, <1>5, ShapeAppend DEF Walked
<1> QED BY <1>2, <1>6 DEF Walked

LEMMA PushCase ==
    ASSUME FramesOK, Walked, Running, Top.kind = "switch", NEW fr \in Frames, fr.kind = "case",
           stack' = Append(stack, fr), UNCHANGED paras
    PROVE  Walked'
<1>1. stack \in Seq(Frames) /\ Own(fr) = {}
  BY OwnOf DEF FramesOK, LoopKinds
<1>2. Fits(stack', paras')
  BY <1>1, FitsPush DEF Walked
<1>3. stack # <<>> /\ Last(stack).kind = "switch"
  BY DEF Running, Top
<1>4. fr.kind \notin LoopKinds /\ fr.kind # "call"
  BY DEF LoopKinds
<1>5. Shape(stack')
  BY <1>1, <1>3, <1>4, BodiesRun, ShapeAppend DEF Walked
<1> QED BY <1>2, <1>5 DEF Walked

LEMMA PopPlain ==
    ASSUME FramesOK, Walked, Running, Own(Top) = {}, stack' = Below, UNCHANGED paras
    PROVE  Walked'
<1>1. stack \in Seq(Frames) /\ stack # <<>> /\ Top = Last(stack) /\ Below = Front(stack)
  BY TopIs
<1> HIDE DEF Top, Below
<1>2. Fits(stack', paras')
  BY <1>1, FitsPop DEF Walked
<1>3. Shape(stack')
  BY <1>1, ShapeFront DEF Walked
<1> QED BY <1>2, <1>3 DEF Walked

(* Another frame in the place of the topmost. *)
LEMMA ReplaceShape ==
    ASSUME FramesOK, Walked, Running, NEW fr \in Frames,
           fr.kind \in LoopKinds => Top.kind \in LoopKinds /\ fr.slot = Top.slot,
           fr.kind \notin {"case", "call"}
    PROVE  Shape(Append(Below, fr))
<1>1. /\ stack \in Seq(Frames) /\ stack # <<>> /\ Below = Front(stack)
      /\ Below \in Seq(Frames) /\ Len(Below) = Len(stack) - 1 /\ Len(stack) \in Nat \ {0}
      /\ Top = stack[Len(stack)] /\ DOMAIN stack = 1 .. Len(stack)
      /\ DOMAIN Below = 1 .. Len(stack) - 1
      /\ \A i \in 1 .. Len(stack) - 1 : Below[i] = stack[i]
  BY TopIs
<1> HIDE DEF Top, Below
<1>2. Shape(Below)
  BY <1>1, ShapeFront DEF Walked
<1>3. \A j \in DOMAIN Below : Below[j].kind \in LoopKinds => Below[j].body
  BY <1>1 DEF Walked, Shape
<1>4. ASSUME fr.kind \in LoopKinds
      PROVE  /\ fr.slot <= Len(Below)
             /\ \A k \in DOMAIN Below : Below[k].kind \in LoopKinds => Below[k].slot # fr.slot
  <2>1. Len(stack) \in DOMAIN stack /\ Top.kind \in LoopKinds
    BY <1>1, <1>4
  <2>2. Top.slot < Len(stack) /\ fr.slot = Top.slot
    BY <1>1, <1>4, <2>1 DEF Walked, Shape
  <2>3. fr.slot \in Nat
    BY <1>4, FrameFields
  <2>4. ASSUME NEW k \in DOMAIN Below, Below[k].kind \in LoopKinds
        PROVE  Below[k].slot # fr.slot
    <3>1. k \in DOMAIN stack /\ k # Len(stack) /\ stack[k].kind \in LoopKinds
      BY <1>1, <2>4
    <3> QED BY <1>1, <2>1, <2>2, <3>1 DEF Walked, Shape
  <2> QED BY <1>1, <2>2, <2>3, <2>4
<1> QED BY <1>1, <1>2, <1>3, <1>4, ShapeAppend

(* What is added with a frame is not in the map yet. *)
LEMMA AddedFree ==
    ASSUME NEW s \in Seq(Frames), NEW fr \in Frames, NEW p, Fits(s, p), Shape(Append(s, fr))
    PROVE  Own(fr) \cap DOMAIN p = {}
<1> DEFINE t == Append(s, fr)
<1>1. /\ t \in Seq(Frames) /\ DOMAIN t = 1 .. Len(s) + 1 /\ \A i \in 1 .. Len(s) : t[i] = s[i]
      /\ t[Len(s) + 1] = fr /\ Len(s) \in Nat /\ DOMAIN s = 1 .. Len(s)
  BY AppendIs
<1>0. Shape(t)
  OBVIOUS
<1> HIDE DEF t
<1>2. ASSUME NEW j \in 1 .. Len(s) PROVE Own(t[j]) \cap Own(t[Len(s) + 1]) = {}
  <2>1. j \in DOMAIN t /\ Len(s) + 1 \in DOMAIN t /\ j # Len(s) + 1
    BY <1>1
  <2> QED BY <1>0, <1>1, <2>1, OwnDisjoint
<1> QED BY <1>1, <1>2 DEF Fits

(* The map gets what a frame needs. *)
Added(fr, p, q) ==
    /\ Own(fr) \cap DOMAIN p = {} /\ DOMAIN q = DOMAIN p \cup Own(fr)
    /\ \A x \in DOMAIN p : q[x] = p[x]
    /\ \A e \in Entries(fr) : q[e[1]] = e[2]

LEMMA FitsAdded ==
    ASSUME NEW s \in Seq(Frames), NEW p, NEW fr \in Frames, NEW q, Fits(s, p), Added(fr, p, q)
    PROVE  Fits(Append(s, fr), q)
<1>1. Own(fr) \cap DOMAIN p = {} /\ DOMAIN q = DOMAIN p \cup Own(fr)
  BY DEF Added
<1>2. \A x \in DOMAIN p : q[x] = p[x]
  BY DEF Added
<1>3. \A e \in Entries(fr) : q[e[1]] = e[2]
  BY DEF Added
<1> QED BY <1>1, <1>2, <1>3, FitsAdd

(* A loop comes to its body: its names go into the map. *)
LEMMA TurnBegins ==
    ASSUME FramesOK, Walked, Running, Top.kind \in LoopKinds, ~Top.body,
           NEW fr \in Frames, fr.kind = Top.kind, fr.slot = Top.slot, fr.body, NEW v,
           Entries(fr) = IF fr.kind = "range" THEN {<<Num(fr.slot), fr.i>>}
                         ELSE {<<Num(fr.slot), fr.i>>, <<Value(fr.slot), v>>},
           stack' = Append(Below, fr),
           paras' = IF fr.kind = "range" THEN Insert(paras, Num(fr.slot), fr.i)
                    ELSE Insert(Insert(paras, Value(fr.slot), v), Num(fr.slot), fr.i)
    PROVE  Walked'
<1>1. /\ stack \in Seq(Frames) /\ stack # <<>> /\ Top = Last(stack) /\ Below = Front(stack)
      /\ Below \in Seq(Frames) /\ Top \in Frames
  BY TopIs
<1> HIDE DEF Top, Below
<1>2. Own(Top) = {}
  BY <1>1, OwnOf
<1>3. Fits(Below, paras)
  BY <1>1, <1>2, FitsPop DEF Walked
<1>4. Shape(Append(Below, fr))
  BY ReplaceShape DEF LoopKinds
<1>5. Own(fr) \cap DOMAIN paras = {}
  BY <1>1, <1>3, <1>4, AddedFree
<1>6. /\ DOMAIN paras' = DOMAIN paras \cup Own(fr)
      /\ \A x \in DOMAIN paras : paras'[x] = paras[x]
      /\ \A e \in Entries(fr) : paras'[e[1]] = e[2]
  <2>1. CASE fr.kind = "range"
    <3>1. Own(fr) = {Num(fr.slot)} /\ Entries(fr) = {<<Num(fr.slot), fr.i>>}
      BY <2>1, OwnOf
    <3>2. paras' = Insert(paras, Num(fr.slot), fr.i) /\ Num(fr.slot) \notin DOMAIN paras
      BY <2>1, <1>5, <3>1
    <3>3. /\ DOMAIN paras' = DOMAIN paras \cup {Num(fr.slot)} /\ paras'[Num(fr.slot)] = fr.i
          /\ \A x \in DOMAIN paras : paras'[x] = paras[x]
      BY <3>2 DEF Insert
    <3> QED BY <3>1, <3>3
  <2>2. CASE fr.kind # "range"
    <3>0. PICK mid : mid = Insert(paras, Value(fr.slot), v)
      OBVIOUS
    <3>1. /\ Own(fr) = {Num(fr.slot), Value(fr.slot)}
          /\ Entries(fr) = {<<Num(fr.slot), fr.i>>, <<Value(fr.slot), v>>}
      BY <2>2, OwnOf DEF LoopKinds
    <3>2. Num(fr.slot) # Value(fr.slot)
      BY DEF Num, Value
    <3>3. Num(fr.slot) \notin DOMAIN paras /\ Value(fr.slot) \notin DOMAIN paras
      BY <1>5, <3>1
    <3>4. /\ DOMAIN mid = DOMAIN paras \cup {Value(fr.slot)} /\ mid[Value(fr.slot)] = v
          /\ \A x \in DOMAIN paras : mid[x] = paras[x]
      BY <3>0, <3>3 DEF Insert
    <3>5. paras' = Insert(mid, Num(fr.slot), fr.i)
      BY <2>2, <3>0
    <3>6. Num(fr.slot) \notin DOMAIN mid
      BY <3>2, <3>3, <3>4
    <3>7. /\ DOMAIN paras' = DOMAIN mid \cup {Num(fr.slot)} /\ paras'[Num(fr.slot)] = fr.i
          /\ \A x \in DOMAIN mid : paras'[x] = mid[x]
      BY <3>5, <3>6 DEF Insert
    <3>8. paras'[Value(fr.slot)] = v
      BY <3>4, <3>7
    <3> QED BY <3>1, <3>4, <3>7, <3>8
  <2> QED BY <2>1, <2>2
<1>7. Fits(stack', paras')
  <2>1. stack' = Append(Below, fr)
    OBVIOUS
  <2>2. Added(fr, paras, paras')
    BY <1>5, <1>6 DEF Added
  <2>3. Fits(Append(Below, fr), paras')
    BY <1>1, <1>3, <2>2, FitsAdded
  <2> QED BY <2>1, <2>3
<1> QED BY <1>4, <1>7 DEF Walked

(* The names of a loop are no other's. *)
LEMMA LoopNamesFree ==
    ASSUME FramesOK, Walked, Running, Top.kind \in LoopKinds
    PROVE  {Num(Top.slot), Value(Top.slot)} \cap OwnBelow(stack) = {}
<1>1. /\ stack \in Seq(Frames) /\ Top = stack[Len(stack)] /\ Len(stack) \in Nat \ {0}
      /\ DOMAIN stack = 1 .. Len(stack)
  BY TopIs
<1> HIDE DEF Top
<1> SUFFICES ASSUME NEW j \in 1 .. Len(stack) - 1
             PROVE  {Num(Top.slot), Value(Top.slot)} \cap Own(stack[j]) = {}
  BY DEF OwnBelow
<1>2. /\ j \in DOMAIN stack /\ j # Len(stack) /\ stack[j] \in Frames
      /\ Len(stack) \in DOMAIN stack
  <2>1. PICK n \in Nat \ {0} : n = Len(stack)
    BY <1>1
  <2>2. j \in 1 .. n /\ j # n /\ n \in 1 .. n
    BY <2>1
  <2>3. j \in DOMAIN stack /\ Len(stack) \in DOMAIN stack /\ j # Len(stack)
    BY <1>1, <2>1, <2>2
  <2> QED BY <1>1, <2>3
<1>3. CASE stack[j].kind \in LoopKinds
  <2>1. stack[j].slot # Top.slot
    BY <1>1, <1>2, <1>3 DEF Walked, Shape
  <2>2. Own(stack[j]) \subseteq {Num(stack[j].slot), Value(stack[j].slot)}
    BY <1>2, <1>3, OwnOf
  <2> QED BY <2>1, <2>2 DEF Num, Value
<1>4. CASE stack[j].kind = "call"
  <2>1. Own(stack[j]) = {ArgOf(stack[j].f), CBID(stack[j].f)}
    BY <1>2, <1>4, OwnOf
  <2> QED BY <2>1 DEF Num, Value, ArgOf, CBID
<1>5. CASE stack[j].kind \notin LoopKinds \cup {"call"}
  BY <1>2, <1>5, OwnOf
<1> QED BY <1>3, <1>4, <1>5

(* A turn ends: its names leave the map. *)
LEMMA TurnEnds ==
    ASSUME FramesOK, Walked, Running, Top.kind \in LoopKinds,
           NEW fr \in Frames, fr.kind = Top.kind, fr.slot = Top.slot, ~fr.body,
           stack' = Append(Below, fr),
           paras' = Erase(paras, {Num(Top.slot), Value(Top.slot)})
    PROVE  Walked'
<1>1. /\ stack \in Seq(Frames) /\ stack # <<>> /\ Top = Last(stack) /\ Below = Front(stack)
      /\ Below \in Seq(Frames) /\ Top \in Frames
  BY TopIs
<1>2. {Num(Top.slot), Value(Top.slot)} \cap OwnBelow(stack) = {}
  BY LoopNamesFree
<1>3. Shape(Append(Below, fr))
  BY ReplaceShape DEF LoopKinds
<1> HIDE DEF Top, Below
<1>4. Own(Top) \subseteq {Num(Top.slot), Value(Top.slot)} /\ Own(fr) = {}
  BY <1>1, OwnOf
<1>5. Fits(Below, paras')
  BY <1>1, <1>2, <1>4, FitsDrop DEF Walked
<1>6. Fits(stack', paras')
  BY <1>1, <1>4, <1>5, FitsPush
<1> QED BY <1>3, <1>6 DEF Walked

(* A call: a function that is not running gets its parameters. *)
LEMMA CallBegins ==
    ASSUME FramesOK, Walked, InBody, NEW n \in Calls, NEW arg \in Args, NEW g \in Names,
           NEW m \in Calls, CallsOf(FuncOf[n]) = {},
           FuncOf[n] = Anon => \E k \in DOMAIN stack :
               stack[k].kind = "call" /\ stack[k].f = g /\ stack[k].node = m,
           stack' = Append(stack, [kind |-> "call", node |-> n, f |-> FuncOf[n], arg |-> arg,
                                   of |-> g, then |-> m]),
           paras' = WithCall(n, arg)
    PROVE  Walked'
<1> DEFINE f == FuncOf[n]
           fr == [kind |-> "call", node |-> n, f |-> f, arg |-> arg, of |-> g, then |-> m]
<1>1. f \in Names
  BY ScriptAssumption DEF Names, Range
<1>2. fr \in Frames /\ stack \in Seq(Frames) /\ stack' = Append(stack, fr)
  BY <1>1, NewFrames DEF FramesOK
<1>3. /\ fr.kind = "call" /\ fr.f = f /\ fr.of = g /\ fr.then = m /\ fr.arg = arg
      /\ fr.node = n
  OBVIOUS
<1>4. paras' = Insert(Erase(Insert(paras, ArgOf(f), arg), {CBID(f)}), CBID(f), n)
  BY DEF WithCall
<1>5. \A k \in DOMAIN stack : stack[k].kind = "call" => stack[k].f # f
  BY DEF CallsOf, Open
<1>6. f = Anon => \E k \in DOMAIN stack :
        stack[k].kind = "call" /\ stack[k].f = g /\ m = stack[k].node
  OBVIOUS
<1> HIDE DEF f, fr
<1>7. Shape(Append(stack, fr))
  <2>1. fr.kind \notin LoopKinds /\ fr.kind # "case"
    BY <1>3 DEF LoopKinds
  <2>2. \A j \in DOMAIN stack : stack[j].kind \in LoopKinds => stack[j].body
    BY BodiesRun
  <2>3. Shape(stack)
    BY DEF Walked
  <2> QED BY <1>2, <1>3, <1>5, <1>6, <2>1, <2>2, <2>3, ShapeAppend
<1>8. Own(fr) = {ArgOf(f), CBID(f)}
  BY <1>2, <1>3, OwnOf
<1>9. Own(fr) \cap DOMAIN paras = {}
  BY <1>2, <1>7, AddedFree DEF Walked
<1>p. PICK p1 : p1 = Insert(paras, ArgOf(f), arg)
  OBVIOUS
<1>q. PICK p2 : p2 = Erase(p1, {CBID(f)})
  OBVIOUS
<1>10. ArgOf(f) # CBID(f) /\ ArgOf(f) \notin DOMAIN paras /\ CBID(f) \notin DOMAIN paras
  BY <1>8, <1>9 DEF ArgOf, CBID
<1>11. /\ DOMAIN p1 = DOMAIN paras \cup {ArgOf(f)} /\ p1[ArgOf(f)] = arg
       /\ \A x \in DOMAIN paras : p1[x] = paras[x]
  BY <1>10, <1>p DEF Insert
<1>13. paras' = Insert(p2, CBID(f), n)
  BY <1>4, <1>p, <1>q
<1>12. DOMAIN p2 = DOMAIN p1 /\ \A x \in DOMAIN p1 : p2[x] = p1[x]
  <2>1. DOMAIN p1 \ {CBID(f)} = DOMAIN p1
    BY <1>10, <1>11
  <2> QED BY <2>1, <1>q DEF Erase, Restrict
<1>14. /\ DOMAIN paras' = DOMAIN p2 \cup {CBID(f)} /\ paras'[CBID(f)] = n
       /\ \A x \in DOMAIN p2 : paras'[x] = p2[x]
  <2>1. CBID(f) \notin DOMAIN p2
    BY <1>10, <1>11, <1>12
  <2> QED BY <1>13, <2>1 DEF Insert
<1>15. Entries(fr) = {<<ArgOf(f), arg>>, <<CBID(f), n>>}
  BY <1>3 DEF Entries
<1>16. Fits(Append(stack, fr), paras')
  <2>1. DOMAIN paras' = DOMAIN paras \cup Own(fr)
    BY <1>8, <1>11, <1>12, <1>14
  <2>2. \A x \in DOMAIN paras : paras'[x] = paras[x]
    BY <1>11, <1>12, <1>14
  <2>3. paras'[ArgOf(f)] = arg /\ paras'[CBID(f)] = n
    BY <1>11, <1>12, <1>14
  <2>4. \A e \in Entries(fr) : paras'[e[1]] = e[2]
    BY <1>15, <2>3
  <2>5. Fits(stack, paras)
    BY DEF Walked
  <2>6. stack \in Seq(Frames) /\ fr \in Frames
    BY <1>2
  <2>7. Added(fr, paras, paras')
    BY <1>9, <2>1, <2>2, <2>4 DEF Added
  <2> QED BY <2>5, <2>6, <2>7, FitsAdded
<1> QED BY <1>2, <1>7, <1>16 DEF Walked

LEMMA CallEnds ==
    ASSUME FramesOK, Walked, CallEnd
    PROVE  Walked'
<1>0. Running /\ Top.kind = "call"
  BY DEF CallEnd, InBody
<1>1. /\ stack \in Seq(Frames) /\ stack # <<>> /\ Top = Last(stack) /\ Below = Front(stack)
      /\ Top \in Frames /\ Top = stack[Len(stack)] /\ Len(stack) \in Nat \ {0}
      /\ DOMAIN stack = 1 .. Len(stack)
  BY <1>0, TopIs
<1>2. stack' = Below /\ paras' = Erase(paras, {ArgOf(Top.f), CBID(Top.f)})
  BY DEF CallEnd
<1> HIDE DEF Top, Below
<1>3. Own(Top) = {ArgOf(Top.f), CBID(Top.f)}
  BY <1>0, <1>1, OwnOf
<1>4. Own(Top) \cap OwnBelow(stack) = {}
  <2>1. ASSUME NEW j \in 1 .. Len(stack) - 1 PROVE Own(Top) \cap Own(stack[j]) = {}
    <3>0. PICK n \in Nat \ {0} : n = Len(stack) /\ DOMAIN stack = 1 .. n
      BY <1>1
    <3>1. j \in DOMAIN stack /\ Len(stack) \in DOMAIN stack /\ j # Len(stack)
      BY <3>0
    <3> QED BY <1>1, <3>1, OwnDisjoint DEF Walked
  <2> QED BY <2>1 DEF OwnBelow
<1>5. Fits(stack', paras')
  BY <1>1, <1>2, <1>3, <1>4, FitsDrop DEF Walked
<1>6. Shape(stack')
  BY <1>1, <1>2, ShapeFront DEF Walked
<1> QED BY <1>5, <1>6 DEF Walked

(* BREAK takes a CASE and its SWITCH. *)
LEMMA BreakEnds ==
    ASSUME FramesOK, Walked, Break
    PROVE  Walked' /\ Below # <<>> /\ Last(Below).kind = "switch" /\ stack' = Front(Below)
<1>0. Running /\ Top.kind = "case" /\ stack' = Front(Below) /\ UNCHANGED paras
  BY DEF Break, InBody
<1>1. /\ stack \in Seq(Frames) /\ stack # <<>> /\ Top = Last(stack) /\ Below = Front(stack)
      /\ Top \in Frames /\ Top = stack[Len(stack)] /\ Len(stack) \in Nat \ {0}
      /\ DOMAIN stack = 1 .. Len(stack) /\ Below \in Seq(Frames)
      /\ Len(Below) = Len(stack) - 1 /\ DOMAIN Below = 1 .. Len(stack) - 1
      /\ \A i \in 1 .. Len(stack) - 1 : Below[i] = stack[i]
  BY <1>0, TopIs
<1> HIDE DEF Top, Below
<1>2. Len(stack) > 1 /\ stack[Len(stack) - 1].kind = "switch"
  <2>1. Len(stack) \in DOMAIN stack
    BY <1>1
  <2> QED BY <2>1, <1>0, <1>1 DEF Walked, Shape
<1>3. Below # <<>> /\ Len(Below) > 0
  BY <1>1, <1>2
<1>4. Last(Below) = Below[Len(Below)] /\ Last(Below) \in Frames
  BY <1>1, <1>3, FrontIs
<1>5. Last(Below).kind = "switch"
  BY <1>1, <1>2, <1>3, <1>4
<1>6. Own(Top) = {} /\ Own(Last(Below)) = {}
  BY <1>0, <1>1, <1>4, <1>5, OwnOf DEF LoopKinds
<1>7. Fits(Below, paras) /\ Shape(Below)
  BY <1>1, <1>6, FitsPop, ShapeFront DEF Walked
<1>8. Fits(stack', paras') /\ Shape(stack')
  BY <1>0, <1>1, <1>3, <1>6, <1>7, FitsPop, ShapeFront
<1> QED BY <1>0, <1>3, <1>5, <1>8 DEF Walked

-----------------------------------------------------------------------------
(* One lemma for the actions of a kind *)

Same == UNCHANGED <<input, kept, handled>>
Counted == acts < MaxActs /\ acts' = acts + 1
Sound == FramesOK /\ Walked

LEMMA CountKept ==
    ASSUME FramesOK, Counted \/ acts' = acts
    PROVE  acts' \in 0 .. MaxActs
<1>1. CASE Counted
  BY <1>1, ActsOK DEF Counted
<1>2. CASE acts' = acts
  BY <1>2 DEF FramesOK
<1> QED BY <1>1, <1>2

(* ACTIONS and SWITCH. *)
LEMMA PlainStep ==
    ASSUME Sound, InBody, NEW fr \in Frames, fr.kind \in {"block", "switch"},
           Enter(fr), Counted, Same, UNCHANGED paras
    PROVE  Sound'
<1>1. FramesOK /\ Walked
  BY DEF Sound
<1>2. StackOK(stack') /\ stack' = Append(stack, fr)
  BY <1>1, StackPush
<1>3. Walked'
  BY <1>1, <1>2, PushPlain
<1>4. FramesOK'
  BY <1>1, <1>2, CountKept, ChangedBuffers DEF Same
<1> QED BY <1>3, <1>4 DEF Sound

(* The three FOR. *)
LEMMA LoopStep ==
    ASSUME Sound, InBody, NEW fr, Len(stack) < MaxDepth => fr \in Frames,
           fr.kind \in LoopKinds, ~fr.body, fr.slot = Slot,
           Enter(fr), Counted, Same, UNCHANGED paras
    PROVE  Sound'
<1>1. FramesOK /\ Walked /\ Len(stack) < MaxDepth
  BY DEF Sound, Enter
<1>2. StackOK(stack') /\ stack' = Append(stack, fr)
  BY <1>1, StackPush
<1>3. Walked'
  BY <1>1, <1>2, PushLoop
<1>4. FramesOK'
  BY <1>1, <1>2, CountKept, ChangedBuffers DEF Same
<1> QED BY <1>3, <1>4 DEF Sound

(* The first free stack_num is one. *)
LEMMA SlotIs ==
    ASSUME Sound, Len(stack) < MaxDepth
    PROVE  Slot \in 0 .. MaxDepth
<1>1. Slot \in 0 .. Len(stack) /\ Len(stack) \in Nat /\ MaxDepth \in Nat
  BY SlotFree, ScriptAssumption DEF Sound, Walked, FramesOK
<1> QED BY <1>1

(* A node ends that has nothing in the map. *)
LEMMA EndStep ==
    ASSUME Sound, Running, Own(Top) = {}, stack' = Below, UNCHANGED <<paras, acts>>, Same
    PROVE  Sound'
<1>1. FramesOK /\ Walked
  BY DEF Sound
<1>2. Walked'
  BY <1>1, PopPlain
<1>3. StackOK(stack')
  BY <1>1, StackPop
<1>4. FramesOK'
  BY <1>1, <1>3, CountKept, ChangedBuffers DEF Same
<1> QED BY <1>2, <1>4 DEF Sound

LEMMA TopOwnsNothing ==
    ASSUME Sound, Running, Top.kind \in {"block", "case", "switch"}
                           \/ (Top.kind \in LoopKinds /\ ~Top.body)
    PROVE  Own(Top) = {}
<1>1. Top \in Frames
  BY TopIs DEF Sound
<1> QED BY <1>1, OwnOf DEF LoopKinds

LEMMA DefaultStep ==
    ASSUME Sound, Default
    PROVE  Sound'
<1> DEFINE fr == [kind |-> "block"]
<1>1. FramesOK /\ Walked /\ Running /\ Top.kind = "switch" /\ UNCHANGED paras /\ Same /\ Counted
  BY DEF Sound, Default, AtCase, Same, Counted
<1>2. fr \in Frames /\ fr.kind = "block"
  BY NewFrames
<1>3. stack' = Append(Below, fr)
  BY DEF Default
<1> HIDE DEF fr
<1>4. Shape(stack')
  BY <1>1, <1>2, <1>3, ReplaceShape DEF LoopKinds
<1>5. Own(Top) = {} /\ Own(fr) = {}
  BY <1>1, <1>2, TopOwnsNothing, OwnOf DEF LoopKinds
<1>6. /\ stack \in Seq(Frames) /\ stack # <<>> /\ Top = Last(stack) /\ Below = Front(stack)
      /\ Below \in Seq(Frames)
  BY <1>1, TopIs
<1>7. Fits(Below, paras)
  <2> HIDE DEF Top, Below
  <2> QED BY <1>1, <1>5, <1>6, FitsPop DEF Walked
<1>8. Fits(stack', paras')
  <2> HIDE DEF Top, Below
  <2> QED BY <1>1, <1>2, <1>3, <1>5, <1>6, <1>7, FitsPush
<1>9. FramesOK'
  <2>1. StackOK(stack')
    BY <1>1, <1>2, <1>3, StackPop
  <2> QED BY <1>1, <2>1, CountKept, ChangedBuffers DEF Same
<1> QED BY <1>4, <1>8, <1>9 DEF Sound, Walked

LEMMA BreakStep ==
    ASSUME Sound, Break
    PROVE  Sound'
<1>1. FramesOK /\ Walked /\ Running /\ acts' = acts /\ Same
  BY DEF Sound, Break, InBody, Same
<1>2. Walked' /\ Below # <<>> /\ stack' = Front(Below)
  BY <1>1, BreakEnds
<1>3. StackOK(stack')
  BY <1>1, <1>2, StackPop
<1>4. FramesOK'
  BY <1>1, <1>3, CountKept, ChangedBuffers DEF Same
<1> QED BY <1>2, <1>4 DEF Sound

LEMMA CaseStep ==
    ASSUME Sound, CaseTrue
    PROVE  Sound'
<1> DEFINE fr == [kind |-> "case"]
<1>1. /\ FramesOK /\ Walked /\ Running /\ Top.kind = "switch" /\ UNCHANGED paras /\ Same
      /\ Counted /\ Enter(fr)
  BY DEF Sound, CaseTrue, AtCase, Same, Counted
<1>2. fr \in Frames /\ fr.kind = "case"
  BY NewFrames
<1> HIDE DEF fr
<1>3. StackOK(stack') /\ stack' = Append(stack, fr)
  BY <1>1, <1>2, StackPush
<1>4. Walked'
  BY <1>1, <1>2, <1>3, PushCase
<1>5. FramesOK'
  BY <1>1, <1>3, CountKept, ChangedBuffers DEF Same
<1> QED BY <1>4, <1>5 DEF Sound

-----------------------------------------------------------------------------
(* Calls *)

LEMMA CallEndStep ==
    ASSUME Sound, CallEnd
    PROVE  Sound'
<1>1. FramesOK /\ Walked /\ Running /\ acts' = acts /\ Same /\ stack' = Below
  BY DEF Sound, CallEnd, InBody, Same
<1>2. Walked'
  BY <1>1, CallEnds
<1>3. StackOK(stack')
  BY <1>1, StackPop
<1>4. FramesOK'
  BY <1>1, <1>3, CountKept, ChangedBuffers DEF Same
<1> QED BY <1>2, <1>4 DEF Sound

LEMMA CallStep ==
    ASSUME Sound, InBody, NEW n \in Calls, NEW arg \in Args, NEW g \in Names,
           NEW m \in Calls, CallsOf(FuncOf[n]) = {},
           FuncOf[n] = Anon => \E k \in DOMAIN stack :
               stack[k].kind = "call" /\ stack[k].f = g /\ stack[k].node = m,
           Enter([kind |-> "call", node |-> n, f |-> FuncOf[n], arg |-> arg,
                  of |-> g, then |-> m]),
           Counted, Same, paras' = WithCall(n, arg)
    PROVE  Sound'
<1> DEFINE fr == [kind |-> "call", node |-> n, f |-> FuncOf[n], arg |-> arg,
                  of |-> g, then |-> m]
<1>1. FramesOK /\ Walked
  BY DEF Sound
<1>2. fr \in Frames
  <2>1. FuncOf[n] \in Names
    BY ScriptAssumption DEF Names, Range
  <2> QED BY <2>1, NewFrames
<1>3. StackOK(stack') /\ stack' = Append(stack, fr)
  BY <1>1, <1>2, StackPush
<1>4. Walked'
  BY <1>1, <1>3, CallBegins
<1>5. FramesOK'
  BY <1>1, <1>3, CountKept, ChangedBuffers DEF Same
<1> QED BY <1>4, <1>5 DEF Sound

(* The CBID of a function is that of the call that runs. *)
LEMMA CallBehind ==
    ASSUME Sound, NEW g, CBID(g) \in DOMAIN paras
    PROVE  /\ paras[CBID(g)] \in Calls
           /\ \E k \in DOMAIN stack :
                stack[k].kind = "call" /\ stack[k].f = g /\ stack[k].node = paras[CBID(g)]
<1>1. Fits(stack, paras) /\ stack \in Seq(Frames)
  BY DEF Sound, Walked, FramesOK
<1>2. PICK k \in DOMAIN stack : CBID(g) \in Own(stack[k])
  BY <1>1 DEF Fits
<1>3. PICK fr \in Frames : fr = stack[k]
  BY <1>1, <1>2
<1>4. CBID(g) \in Own(fr)
  BY <1>2, <1>3
<1>5. fr.kind = "call"
  <2>1. fr.kind \in LoopKinds => Own(fr) \subseteq {Num(fr.slot), Value(fr.slot)}
    BY OwnOf
  <2>2. fr.kind \notin LoopKinds
    BY <1>4, <2>1 DEF CBID, Num, Value
  <2> QED BY <1>4, <2>2, OwnOf
<1>6. fr.f = g
  <2>1. Own(fr) = {ArgOf(fr.f), CBID(fr.f)}
    BY <1>5, OwnOf
  <2> QED BY <1>4, <2>1 DEF ArgOf, CBID
<1>7. <<CBID(g), fr.node>> \in Entries(fr)
  <2>1. Entries(fr) = {<<ArgOf(fr.f), fr.arg>>, <<CBID(fr.f), fr.node>>}
    BY <1>5 DEF Entries
  <2> QED BY <2>1, <1>6
<1>8. paras[CBID(g)] = fr.node
  <2>1. \A e \in Entries(fr) : paras[e[1]] = e[2]
    BY <1>1, <1>3 DEF Fits
  <2> QED BY <2>1, <1>7
<1>9. fr.node \in Calls
  BY <1>5, FrameFields
<1> QED BY <1>3, <1>5, <1>6, <1>8, <1>9

-----------------------------------------------------------------------------
(* Loops *)

LEMMA TurnBeginsStep ==
    ASSUME Sound, Running, Top.kind \in LoopKinds, ~Top.body,
           NEW fr \in Frames, fr.kind = Top.kind, fr.slot = Top.slot, fr.body, NEW v,
           Entries(fr) = IF fr.kind = "range" THEN {<<Num(fr.slot), fr.i>>}
                         ELSE {<<Num(fr.slot), fr.i>>, <<Value(fr.slot), v>>},
           stack' = Append(Below, fr),
           paras' = IF fr.kind = "range" THEN Insert(paras, Num(fr.slot), fr.i)
                    ELSE Insert(Insert(paras, Value(fr.slot), v), Num(fr.slot), fr.i)
    PROVE  Walked' /\ StackOK(stack')
<1>1. FramesOK /\ Walked
  BY DEF Sound
<1>2. StackOK(stack')
  BY <1>1, StackPop
<1>3. Walked'
  BY <1>1, TurnBegins
<1> QED BY <1>2, <1>3

LEMMA ForNextStep ==
    ASSUME Sound, ForNext
    PROVE  Sound'
<1> DEFINE fr == [Top EXCEPT !.body = TRUE]
<1>1. /\ FramesOK /\ Running /\ Top.kind \in {"range", "list"} /\ ~Top.body
      /\ Same /\ acts' = acts
  BY DEF Sound, ForNext, AtTest, Same
<1>2. Top \in Frames
  BY <1>1, TopIs
<1>3. /\ fr \in Frames /\ fr.kind = Top.kind /\ fr.slot = Top.slot /\ fr.body
      /\ fr.i = Top.i
  <2>1. Top.i \in Nat
    BY <1>1, <1>2, FrameFields DEF LoopKinds
  <2> HIDE DEF Top
  <2> QED BY <1>1, <1>2, <2>1, LoopFrame
<1>4. stack' = Append(Below, fr)
  BY DEF ForNext
<1> HIDE DEF fr
<1>5. paras' = IF fr.kind = "range" THEN Insert(paras, Num(fr.slot), fr.i)
               ELSE Insert(Insert(paras, Value(fr.slot), fr.i), Num(fr.slot), fr.i)
  BY <1>3 DEF ForNext
<1>6. Entries(fr) = IF fr.kind = "range" THEN {<<Num(fr.slot), fr.i>>}
                    ELSE {<<Num(fr.slot), fr.i>>, <<Value(fr.slot), fr.i>>}
  <2>1. CASE fr.kind = "range"
    BY <1>3, <2>1 DEF Entries
  <2>2. CASE fr.kind = "list"
    BY <1>3, <2>2 DEF Entries
  <2> QED BY <1>1, <1>3, <2>1, <2>2
<1>7. Walked' /\ StackOK(stack')
  <2>1. Top.kind \in LoopKinds
    BY <1>1 DEF LoopKinds
  <2> HIDE DEF Top, Below
  <2> QED BY <1>1, <1>3, <1>4, <1>5, <1>6, <2>1, TurnBeginsStep
<1>8. FramesOK'
  BY <1>1, <1>7, CountKept, ChangedBuffers DEF Same
<1> QED BY <1>7, <1>8 DEF Sound

(* A turn of any loop ends. *)
LEMMA TurnEndStep ==
    ASSUME Sound, InBody, Top.kind \in LoopKinds, NEW fr \in Frames,
           fr.kind = Top.kind, fr.slot = Top.slot, ~fr.body,
           stack' = Append(Below, fr),
           paras' = Erase(paras, {Num(Top.slot), Value(Top.slot)}),
           Same, acts' = acts
    PROVE  Sound'
<1>1. FramesOK /\ Walked /\ Running
  BY DEF Sound, InBody
<1>2. Walked'
  BY <1>1, TurnEnds
<1>3. StackOK(stack')
  BY <1>1, StackPop
<1>4. FramesOK'
  BY <1>1, <1>3, CountKept, ChangedBuffers DEF Same
<1> QED BY <1>2, <1>4 DEF Sound

LEMMA ForTurnEndStep ==
    ASSUME Sound, ForTurnEnd
    PROVE  Sound'
<1> DEFINE fr == [Top EXCEPT !.body = FALSE, !.i = @ + Top.step]
<1>1. /\ FramesOK /\ Running /\ Top.kind \in {"range", "list"} /\ InBody
      /\ Same /\ acts' = acts /\ paras' = Erase(paras, {Num(Top.slot), Value(Top.slot)})
  BY DEF Sound, ForTurnEnd, InBody, Same
<1>2. Top \in Frames /\ Top.kind \in LoopKinds
  BY <1>1, TopIs DEF LoopKinds
<1>3. fr \in Frames /\ fr.kind = Top.kind /\ fr.slot = Top.slot /\ ~fr.body
  <2>0. Top.i \in Nat /\ Top.step \in Steps \cup {1}
    BY <1>1, <1>2, FrameFields
  <2>1. Top.i \in Nat /\ Top.step \in Nat
    <3>1. \A k \in Steps \cup {1} : k \in Nat
      BY ScriptAssumption
    <3> QED BY <2>0, <3>1, Zenon
  <2>2. Top.i + Top.step \in Nat
    BY <2>1
  <2> HIDE DEF Top
  <2> QED BY <1>1, <1>2, <2>2, LoopFrame
<1>4. stack' = Append(Below, fr)
  BY DEF ForTurnEnd
<1> HIDE DEF fr, Top, Below
<1> QED BY <1>1, <1>2, <1>3, <1>4, TurnEndStep

LEMMA CutTurns ==
    ASSUME NEW fr \in Frames, fr.kind = "cut", NEW i \in Nat,
           NEW g, g = [fr EXCEPT !.body = FALSE, !.i = i]
    PROVE  /\ g \in Frames /\ g.kind = "cut" /\ g.slot = fr.slot /\ ~g.body
           /\ g.buff = fr.buff
<1>1. fr \in [kind : {"cut"}, slot : 0 .. MaxDepth, i : Nat, buff : Seq(Range(Stream)),
              packet : 0 .. Len(Packets), body : BOOLEAN]
  BY DEF Frames
<1> QED BY <1>1 DEF Frames

LEMMA CutTurnEndStep ==
    ASSUME Sound, CutTurnEnd
    PROVE  /\ Sound'
           /\ \E fr \in Frames : fr.kind = "cut" /\ fr.buff = Top.buff
                                 /\ stack' = Append(Below, fr)
<1> DEFINE fr == [Top EXCEPT !.body = FALSE, !.i = @ + 1]
<1>1. /\ FramesOK /\ Running /\ Top.kind = "cut" /\ InBody
      /\ Same /\ acts' = acts /\ paras' = Erase(paras, {Num(Top.slot), Value(Top.slot)})
  BY DEF Sound, CutTurnEnd, InBody, Same
<1>2. Top \in Frames /\ Top.kind \in LoopKinds
  BY <1>1, TopIs DEF LoopKinds
<1>3. fr \in Frames /\ fr.kind = Top.kind /\ fr.slot = Top.slot /\ ~fr.body /\ fr.buff = Top.buff
  <2>1. Top.i \in Nat
    BY <1>2, FrameFields
  <2>2. PICK i \in Nat : i = Top.i + 1
    BY <2>1
  <2>3. fr = [Top EXCEPT !.body = FALSE, !.i = i]
    BY <2>2
  <2> HIDE DEF Top, fr
  <2> QED BY <1>1, <1>2, <2>3, CutTurns
<1>4. stack' = Append(Below, fr)
  BY DEF CutTurnEnd
<1> HIDE DEF fr, Top, Below
<1> QED BY <1>1, <1>2, <1>3, <1>4, TurnEndStep

LEMMA CutNextStep ==
    ASSUME Sound, CutNext
    PROVE  /\ Sound'
           /\ \E fr \in Frames :
                 /\ fr.kind = "cut" /\ stack' = Append(Below, fr)
                 /\ fr.buff = SubSeq(Top.buff, FrontLen(Top.buff) + 1, Len(Top.buff))
<1> DEFINE packet == Head(Top.buff)[1]
           rest == SubSeq(Top.buff, FrontLen(Top.buff) + 1, Len(Top.buff))
           fr == [Top EXCEPT !.body = TRUE, !.buff = rest, !.packet = packet]
<1>1. /\ FramesOK /\ Running /\ Top.kind = "cut" /\ ~Top.body /\ IsWhole(Top.buff)
      /\ acts' = acts /\ UNCHANGED <<input, kept>>
  BY DEF Sound, CutNext, AtTest
<1>2. Top \in Frames /\ Top.kind \in LoopKinds
  BY <1>1, TopIs DEF LoopKinds
<1>3. /\ stack' = Append(Below, fr) /\ handled' = Append(handled, packet)
      /\ paras' = Insert(Insert(paras, Value(Top.slot), packet), Num(Top.slot), Top.i)
  BY DEF CutNext
<1>4. Top.buff \in Seq(Range(Stream)) /\ Top.i \in Nat
  BY <1>1, <1>2, FrameFields
<1>5. packet \in DOMAIN Packets /\ packet \in 0 .. Len(Packets) /\ rest \in Seq(Range(Stream))
  BY <1>1, <1>4, FrontPacket
<1>6. /\ fr \in Frames /\ fr.kind = "cut" /\ fr.slot = Top.slot /\ fr.body
      /\ fr.i = Top.i /\ fr.packet = packet /\ fr.buff = rest
  <2>1. PICK top \in Frames : top = Top /\ top.kind = "cut"
    BY <1>1, <1>2
  <2>2. PICK bytes \in Seq(Range(Stream)) : bytes = rest
    BY <1>5
  <2>3. PICK n \in 0 .. Len(Packets) : n = packet
    BY <1>5
  <2>4. fr = [top EXCEPT !.body = TRUE, !.buff = bytes, !.packet = n]
    BY <2>1, <2>2, <2>3
  <2> HIDE DEF Top, packet, rest, fr
  <2>5. /\ fr \in Frames /\ fr.kind = "cut" /\ fr.slot = top.slot /\ fr.body
        /\ fr.i = top.i /\ fr.packet = n /\ fr.buff = bytes
    <3>1. top \in [kind : {"cut"}, slot : 0 .. MaxDepth, i : Nat, buff : Seq(Range(Stream)),
                   packet : 0 .. Len(Packets), body : BOOLEAN]
      BY <2>1 DEF Frames
    <3> QED BY <2>4, <3>1 DEF Frames
  <2> QED BY <2>1, <2>2, <2>3, <2>5
<1> HIDE DEF fr, packet, rest
<1>7. Entries(fr) = {<<Num(fr.slot), fr.i>>, <<Value(fr.slot), packet>>}
  BY <1>6 DEF Entries
<1>8. Walked' /\ StackOK(stack')
  <2>1. Entries(fr) = IF fr.kind = "range" THEN {<<Num(fr.slot), fr.i>>}
                      ELSE {<<Num(fr.slot), fr.i>>, <<Value(fr.slot), packet>>}
    BY <1>6, <1>7
  <2>2. paras' = IF fr.kind = "range" THEN Insert(paras, Num(fr.slot), fr.i)
                 ELSE Insert(Insert(paras, Value(fr.slot), packet), Num(fr.slot), fr.i)
    BY <1>3, <1>6
  <2>3. fr.kind = Top.kind
    BY <1>1, <1>6
  <2> HIDE DEF Top, Below
  <2> QED BY <1>1, <1>2, <1>3, <1>6, <2>1, <2>2, <2>3, TurnBeginsStep
<1>9. FramesOK'
  <2>1. handled' \in Seq(DOMAIN Packets)
    BY <1>1, <1>3, <1>5, AppendProperties DEF FramesOK
  <2> QED BY <1>1, <1>8, <2>1 DEF FramesOK, StackOK
<1> QED BY <1>3, <1>6, <1>8, <1>9 DEF Sound, rest

LEMMA InputSplit ==
    ASSUME NEW S, NEW s \in Seq(S), NEW n \in 1 .. Len(s)
    PROVE  /\ SubSeq(s, 1, n) \in Seq(S) /\ SubSeq(s, n + 1, Len(s)) \in Seq(S)
           /\ SubSeq(s, 1, n) \o SubSeq(s, n + 1, Len(s)) = s
<1>1. Len(s) \in Nat /\ n \in Int /\ n + 1 \in Int /\ 1 <= n /\ n <= Len(s)
  OBVIOUS
<1>2. \A i \in 1 .. n : s[i] \in S
  BY <1>1
<1>3. \A i \in n + 1 .. Len(s) : s[i] \in S
  BY <1>1
<1>4. SubSeq(s, 1, n) \in Seq(S)
  BY <1>1, <1>2, SubSeqProperties
<1>5. SubSeq(s, n + 1, Len(s)) \in Seq(S)
  BY <1>1, <1>3, SubSeqProperties
<1>6. 1 \in 1 .. Len(s) + 1 /\ n \in 1 - 1 .. Len(s) /\ Len(s) \in n .. Len(s)
  BY <1>1
<1>7. SubSeq(s, 1, n) \o SubSeq(s, n + 1, Len(s)) = SubSeq(s, 1, Len(s))
  BY <1>6, ConcatAdjacentSubSeq
<1> QED BY <1>4, <1>5, <1>7, SubSeqFull

LEMMA CollectStep ==
    ASSUME Sound, NEW n \in 1 .. Len(input), Collect(n)
    PROVE  Sound'
<1>1. /\ FramesOK /\ Walked /\ UNCHANGED <<stack, paras, handled>> /\ Counted
      /\ kept' = kept \o SubSeq(input, 1, n) /\ input' = SubSeq(input, n + 1, Len(input))
  BY DEF Sound, Collect, Node, Counted
<1>2. input \in Seq(Range(Stream)) /\ kept \in Seq(Range(Stream))
  BY <1>1 DEF FramesOK
<1>3. input' \in Seq(Range(Stream)) /\ kept' \in Seq(Range(Stream))
  BY <1>1, <1>2, InputSplit, ConcatProperties
<1>4. acts' \in 0 .. MaxActs
  BY <1>1, CountKept
<1>5. FramesOK'
  BY <1>1, <1>3, <1>4 DEF FramesOK
<1>6. Walked'
  BY <1>1 DEF Walked
<1> QED BY <1>5, <1>6 DEF Sound

LEMMA GoStep ==
    ASSUME Sound, GoAction
    PROVE  Sound'
<1> DEFINE fr == [kind |-> "block"]
<1>1. /\ FramesOK /\ Walked /\ stack = <<>> /\ stack' = <<fr>> /\ acts' = 0 /\ UNCHANGED paras
      /\ Same
  BY DEF Sound, GoAction, Running, Same
<1>2. fr \in Frames /\ fr.kind = "block"
  BY NewFrames
<1> HIDE DEF fr
<1>3. stack \in Seq(Frames) /\ stack' = Append(stack, fr)
  BY <1>1 DEF FramesOK
<1>4. Own(fr) = {}
  BY <1>2, OwnOf DEF LoopKinds
<1>5. Fits(stack', paras')
  BY <1>1, <1>2, <1>3, <1>4, FitsPush DEF Walked
<1>6. Shape(stack')
  <2>1. fr.kind \notin LoopKinds /\ fr.kind # "case" /\ fr.kind # "call"
    BY <1>2 DEF LoopKinds
  <2>2. \A j \in DOMAIN stack : stack[j].kind \in LoopKinds => stack[j].body
    BY <1>1
  <2> QED BY <1>1, <1>2, <1>3, <2>1, <2>2, ShapeAppend DEF Walked
<1>7. FramesOK'
  <2>1. stack' \in Seq(Frames) /\ Len(stack') = 1
    BY <1>1, <1>2
  <2>2. MaxDepth >= 1 /\ acts' \in 0 .. MaxActs
    BY <1>1, ScriptAssumption
  <2>3. StackOK(stack')
    BY <2>1, <2>2, ScriptAssumption DEF StackOK
  <2> QED BY <1>1, <2>2, <2>3, ChangedBuffers DEF Same
<1> QED BY <1>5, <1>6, <1>7 DEF Sound, Walked

(* A step of the next-state relation keeps stack and map together. *)
LEMMA SoundStep ==
    ASSUME ~Careless, Sound, [ScriptNext]_scriptVars
    PROVE  Sound'
<1>1. CASE UNCHANGED scriptVars
  BY <1>1 DEF scriptVars, Sound, FramesOK, Walked
<1>2. CASE GoAction
  BY <1>2, GoStep
<1>3. CASE \E n \in 1 .. Len(input) : Collect(n)
  BY <1>3, CollectStep
<1>4. ASSUME NEW n \in Calls, NEW arg \in Args, Call(n, arg) PROVE Sound'
  <2>1. FuncOf[n] # Anon /\ CallsOf(FuncOf[n]) = {} /\ paras' = WithCall(n, arg) /\ Same
    BY <1>4 DEF Call, Callbacks, Same
  <2>2. /\ InBody /\ Counted
        /\ Enter([kind |-> "call", node |-> n, f |-> FuncOf[n], arg |-> arg,
                  of |-> FuncOf[n], then |-> n])
    BY <1>4 DEF Call, Node, Counted
  <2>3. FuncOf[n] \in Names
    BY ScriptAssumption DEF Names, Range
  <2> QED BY <2>1, <2>2, <2>3, CallStep
<1>5. ASSUME NEW n \in Calls, NEW g \in Range(FuncOf), NEW arg \in Args, Callback(n, g, arg)
      PROVE  Sound'
  <2>1. /\ FuncOf[n] = Anon /\ CallsOf(Anon) = {} /\ paras' = WithCall(n, arg) /\ Same
        /\ CBID(g) \in DOMAIN paras
    BY <1>5 DEF Callback, Callbacks, Same
  <2>2. /\ InBody /\ Counted
        /\ Enter([kind |-> "call", node |-> n, f |-> Anon, arg |-> arg,
                  of |-> g, then |-> paras[CBID(g)]])
    BY <1>5 DEF Callback, Node, Counted
  <2>3. PICK m \in Calls : m = paras[CBID(g)] /\ \E k \in DOMAIN stack :
            stack[k].kind = "call" /\ stack[k].f = g /\ stack[k].node = m
    BY <2>1, CallBehind
  <2>4. Enter([kind |-> "call", node |-> n, f |-> FuncOf[n], arg |-> arg,
               of |-> g, then |-> m])
    BY <2>1, <2>2, <2>3
  <2>5. g \in Names /\ CallsOf(FuncOf[n]) = {}
    BY <2>1 DEF Names
  <2> QED BY <2>1, <2>2, <2>3, <2>4, <2>5, CallStep
<1>6. ASSUME NEW deep \in BOOLEAN, Switch(deep) PROVE Sound'
  <2> DEFINE fr == [kind |-> "switch", deep |-> deep]
  <2>1. InBody /\ Counted /\ Enter(fr) /\ UNCHANGED paras /\ Same
    BY <1>6 DEF Switch, Node, Counted, Same
  <2>2. fr \in Frames /\ fr.kind = "switch"
    BY NewFrames
  <2> HIDE DEF fr
  <2> QED BY <2>1, <2>2, PlainStep
<1>7. ASSUME NEW kind \in {"range", "list"}, NEW to \in 0 .. MaxTo, NEW step \in Steps \cup {1},
             For(kind, to, step)
      PROVE  Sound'
  <2> DEFINE fr == [kind |-> kind, slot |-> Slot, i |-> 1, to |-> to, step |-> step,
                    body |-> FALSE]
  <2>1. InBody /\ Counted /\ Enter(fr) /\ UNCHANGED paras /\ Same
    BY <1>7 DEF For, Node, Counted, Same
  <2>2. fr.kind = kind /\ ~fr.body /\ fr.slot = Slot
    OBVIOUS
  <2>3. Len(stack) < MaxDepth => fr \in Frames
    <3> SUFFICES ASSUME Len(stack) < MaxDepth PROVE fr \in Frames
      OBVIOUS
    <3>1. PICK k \in 0 .. MaxDepth : k = Slot
      BY SlotIs
    <3> HIDE DEF Slot
    <3> QED BY <3>1, NewFrames
  <2> HIDE DEF fr
  <2>4. fr.kind \in LoopKinds
    BY <2>2 DEF LoopKinds
  <2> QED BY <2>1, <2>2, <2>3, <2>4, LoopStep
<1>8. CASE ForCut
  <2> DEFINE fr == [kind |-> "cut", slot |-> Slot, i |-> 0, buff |-> kept, packet |-> 0,
                    body |-> FALSE]
  <2>1. InBody /\ Counted /\ Enter(fr) /\ UNCHANGED paras /\ Same
    BY <1>8 DEF ForCut, Node, Counted, Same
  <2>2. fr.kind = "cut" /\ ~fr.body /\ fr.slot = Slot
    OBVIOUS
  <2>3. Len(stack) < MaxDepth => fr \in Frames
    <3> SUFFICES ASSUME Len(stack) < MaxDepth PROVE fr \in Frames
      OBVIOUS
    <3>1. PICK k \in 0 .. MaxDepth : k = Slot
      BY SlotIs
    <3>2. PICK buff \in Seq(Range(Stream)) : buff = kept
      BY DEF Sound, FramesOK
    <3> HIDE DEF Slot
    <3> QED BY <3>1, <3>2, NewFrames
  <2> HIDE DEF fr
  <2>4. fr.kind \in LoopKinds
    BY <2>2 DEF LoopKinds
  <2> QED BY <2>1, <2>2, <2>3, <2>4, LoopStep
<1>9. CASE Actions
  <2> DEFINE fr == [kind |-> "block"]
  <2>1. InBody /\ Counted /\ Enter(fr) /\ UNCHANGED paras /\ Same
    BY <1>9 DEF Actions, Node, Counted, Same
  <2>2. fr \in Frames /\ fr.kind = "block"
    BY NewFrames
  <2> HIDE DEF fr
  <2> QED BY <2>1, <2>2, PlainStep
<1>10. CASE BlockEnd \/ SwitchEnd \/ ForEnd \/ CutEnd
  <2>1. /\ Running /\ stack' = Below /\ UNCHANGED <<paras, input, handled, acts>>
        /\ Top.kind \in {"block", "case", "switch"} \/ (Top.kind \in LoopKinds /\ ~Top.body)
    BY <1>10 DEF BlockEnd, SwitchEnd, ForEnd, CutEnd, InBody, AtTest, LoopKinds
  <2>2. Own(Top) = {}
    BY <2>1, TopOwnsNothing
  <2>3. CASE UNCHANGED kept
    BY <2>1, <2>2, <2>3, EndStep DEF Same
  <2>4. CASE CutEnd
    <3>1. FramesOK /\ Walked
      BY DEF Sound
    <3>2. Walked'
      BY <2>1, <2>2, <3>1, PopPlain
    <3>3. StackOK(stack')
      BY <2>1, <3>1, StackPop
    <3>4. Top \in Frames /\ Top.kind = "cut" /\ kept' = Top.buff
      BY <2>1, <2>4, <3>1, TopIs DEF CutEnd, AtTest
    <3>5. kept' \in Seq(Range(Stream))
      BY <3>4, FrameFields
    <3>6. FramesOK'
      BY <2>1, <3>1, <3>3, <3>5 DEF FramesOK, StackOK
    <3> QED BY <3>2, <3>6 DEF Sound
  <2> QED BY <1>10, <2>3, <2>4 DEF BlockEnd, SwitchEnd, ForEnd
<1>11. CASE CallEnd \/ CaseTrue \/ Default \/ Break
  BY <1>11, CallEndStep, CaseStep, DefaultStep, BreakStep
<1>12. CASE ForNext \/ ForTurnEnd \/ CutNext \/ CutTurnEnd
  BY <1>12, ForNextStep, ForTurnEndStep, CutNextStep, CutTurnEndStep
<1>13. ASSUME NEW to \in 0 .. MaxTo, NEW step \in Steps, ForRange(to, step) PROVE Sound'
  BY <1>7, <1>13 DEF ForRange
<1>14. ASSUME NEW to \in 0 .. MaxTo, ForList(to) PROVE Sound'
  BY <1>7, <1>14 DEF ForList
<1> QED BY <1>1, <1>2, <1>3, <1>4, <1>5, <1>6, <1>8, <1>9, <1>10, <1>11, <1>12, <1>13, <1>14
        DEF ScriptNext, Continue

LEMMA SoundInit == ScriptInit => Sound
<1> SUFFICES ASSUME ScriptInit PROVE Sound
  OBVIOUS
<1>1. FramesOK
  BY InitFrames
<1>2. Walked
  BY DEF ScriptInit, Walked, Fits, Shape
<1> QED BY <1>1, <1>2 DEF Sound

(* However nodes nest, their frames keep to their kinds, the slot of a     *)
(* loop stays in bounds, a callback finds a CALL, and what is collected    *)
(* and cut are bytes of the packets.                                       *)
THEOREM ScriptInvariant ==
    ASSUME ~Careless
    PROVE  ScriptSpec => []FramesOK
<1>1. ScriptInit => Sound
  BY SoundInit
<1>2. Sound /\ [ScriptNext]_scriptVars => Sound'
  BY SoundStep
<1>3. Sound => FramesOK
  BY DEF Sound
<1> QED BY <1>1, <1>2, <1>3, PTL DEF ScriptSpec

(* OwnParas, for all configurations of calls, steps and depths: AddParas   *)
(* holds the names of the nodes whose bodies run, with their values, and   *)
(* nothing else, if no call runs within a call of the same name.           *)
THEOREM OwnParasHolds ==
    ASSUME ~Careless
    PROVE  ScriptSpec => []OwnParas
<1>1. Sound => OwnParas
  <2> SUFFICES ASSUME Sound PROVE OwnParas
    OBVIOUS
  <2>1. FramesOK /\ Fits(stack, paras) /\ Shape(stack) /\ stack \in Seq(Frames)
    BY DEF Sound, Walked, FramesOK
  <2>2. DOMAIN paras = UNION {Own(stack[j]) : j \in DOMAIN stack}
    BY <2>1 DEF Fits
  <2>3. ASSUME NEW j \in DOMAIN stack
        PROVE  /\ \A e \in Entries(stack[j]) : paras[e[1]] = e[2]
               /\ \A k \in DOMAIN stack \ {j} : Own(stack[j]) \cap Own(stack[k]) = {}
               /\ stack[j].kind = "call" /\ stack[j].f = Anon =>
                   \E k \in CallsOf(stack[j].of) : k < j /\ stack[j].then = stack[k].node
    <3>1. \A e \in Entries(stack[j]) : paras[e[1]] = e[2]
      BY <2>1 DEF Fits
    <3>2. \A k \in DOMAIN stack \ {j} : Own(stack[j]) \cap Own(stack[k]) = {}
      BY <2>1, OwnDisjoint
    <3>3. stack[j].kind = "call" /\ stack[j].f = Anon =>
            \E k \in CallsOf(stack[j].of) : k < j /\ stack[j].then = stack[k].node
      BY <2>1 DEF Shape, CallsOf, Open
    <3> QED BY <3>1, <3>2, <3>3
  <2> QED BY <2>1, <2>2, <2>3 DEF OwnParas
<1>2. ScriptInit => Sound
  BY SoundInit
<1>3. Sound /\ [ScriptNext]_scriptVars => Sound'
  BY SoundStep
<1> QED BY <1>1, <1>2, <1>3, PTL DEF ScriptSpec

(* The bytes w wait to be cut; at most one cut is open. *)
Held(s, k, w) ==
    \/ (\A j \in DOMAIN s : s[j].kind # "cut") /\ w = k
    \/ \E j \in DOMAIN s : /\ s[j].kind = "cut" /\ w = s[j].buff
                           /\ \A i \in DOMAIN s : s[i].kind = "cut" => i = j

LEMMA HeldPush ==
    ASSUME NEW s \in Seq(Frames), NEW fr \in Frames, NEW k, NEW w, Held(s, k, w),
           fr.kind # "cut"
    PROVE  Held(Append(s, fr), k, w)
<1> DEFINE t == Append(s, fr)
<1>1. /\ DOMAIN t = 1 .. Len(s) + 1 /\ \A i \in 1 .. Len(s) : t[i] = s[i]
      /\ t[Len(s) + 1] = fr /\ Len(s) \in Nat /\ DOMAIN s = 1 .. Len(s)
  BY AppendIs
<1> HIDE DEF t
<1>2. CASE (\A j \in DOMAIN s : s[j].kind # "cut") /\ w = k
  BY <1>1, <1>2 DEF Held, t
<1>3. CASE \E j \in DOMAIN s : /\ s[j].kind = "cut" /\ w = s[j].buff
                               /\ \A i \in DOMAIN s : s[i].kind = "cut" => i = j
  <2>1. PICK j \in DOMAIN s : /\ s[j].kind = "cut" /\ w = s[j].buff
                              /\ \A i \in DOMAIN s : s[i].kind = "cut" => i = j
    BY <1>3
  <2>2. j \in DOMAIN t /\ t[j].kind = "cut" /\ w = t[j].buff
    BY <1>1, <2>1
  <2>3. \A i \in DOMAIN t : t[i].kind = "cut" => i = j
    BY <1>1, <2>1
  <2> QED BY <2>2, <2>3 DEF Held, t
<1> QED BY <1>2, <1>3 DEF Held

LEMMA HeldPop ==
    ASSUME NEW s \in Seq(Frames), s # <<>>, NEW k, NEW w, Held(s, k, w),
           Last(s).kind # "cut"
    PROVE  Held(Front(s), k, w)
<1> DEFINE t == Front(s)
<1>1. /\ DOMAIN t = 1 .. Len(s) - 1 /\ \A i \in 1 .. Len(s) - 1 : t[i] = s[i]
      /\ Last(s) = s[Len(s)] /\ Len(s) \in Nat \ {0} /\ DOMAIN s = 1 .. Len(s)
  <2>1. DOMAIN s = 1 .. Len(s)
    OBVIOUS
  <2> QED BY <2>1, FrontIs
<1> HIDE DEF t
<1>2. CASE (\A j \in DOMAIN s : s[j].kind # "cut") /\ w = k
  BY <1>1, <1>2 DEF Held, t
<1>3. CASE \E j \in DOMAIN s : /\ s[j].kind = "cut" /\ w = s[j].buff
                               /\ \A i \in DOMAIN s : s[i].kind = "cut" => i = j
  <2>1. PICK j \in DOMAIN s : /\ s[j].kind = "cut" /\ w = s[j].buff
                              /\ \A i \in DOMAIN s : s[i].kind = "cut" => i = j
    BY <1>3
  <2>2. j # Len(s)
    BY <1>1, <2>1
  <2>3. j \in DOMAIN t /\ t[j].kind = "cut" /\ w = t[j].buff
    BY <1>1, <2>1, <2>2
  <2>4. \A i \in DOMAIN t : t[i].kind = "cut" => i = j
    BY <1>1, <2>1
  <2> QED BY <2>3, <2>4 DEF Held, t
<1> QED BY <1>2, <1>3 DEF Held

(* The topmost node is the one cut: what waits is its buffer. *)
LEMMA HeldTop ==
    ASSUME NEW s \in Seq(Frames), s # <<>>, NEW k, NEW w, Held(s, k, w),
           Last(s).kind = "cut"
    PROVE  w = Last(s).buff /\ \A j \in DOMAIN Front(s) : Front(s)[j].kind # "cut"
<1> DEFINE t == Front(s)
<1>1. /\ DOMAIN t = 1 .. Len(s) - 1 /\ \A i \in 1 .. Len(s) - 1 : t[i] = s[i]
      /\ Last(s) = s[Len(s)] /\ Len(s) \in Nat \ {0} /\ DOMAIN s = 1 .. Len(s)
  <2>1. DOMAIN s = 1 .. Len(s)
    OBVIOUS
  <2> QED BY <2>1, FrontIs
<1> HIDE DEF t
<1>2. Len(s) \in DOMAIN s /\ s[Len(s)].kind = "cut"
  BY <1>1
<1>3. PICK j \in DOMAIN s : /\ s[j].kind = "cut" /\ w = s[j].buff
                            /\ \A i \in DOMAIN s : s[i].kind = "cut" => i = j
  BY <1>2 DEF Held
<1>4. j = Len(s)
  BY <1>2, <1>3
<1>5. ASSUME NEW i \in DOMAIN t PROVE t[i].kind # "cut"
  BY <1>1, <1>3, <1>4, <1>5
<1> QED BY <1>1, <1>3, <1>4, <1>5 DEF t

LEMMA HeldOpen ==
    ASSUME NEW s \in Seq(Frames), NEW fr \in Frames, fr.kind = "cut",
           \A j \in DOMAIN s : s[j].kind # "cut", NEW k
    PROVE  Held(Append(s, fr), k, fr.buff)
<1> DEFINE t == Append(s, fr)
<1>1. /\ DOMAIN t = 1 .. Len(s) + 1 /\ \A i \in 1 .. Len(s) : t[i] = s[i]
      /\ t[Len(s) + 1] = fr /\ Len(s) \in Nat /\ DOMAIN s = 1 .. Len(s)
  BY AppendIs
<1> HIDE DEF t
<1>2. Len(s) + 1 \in DOMAIN t /\ \A i \in DOMAIN t : t[i].kind = "cut" => i = Len(s) + 1
  BY <1>1
<1> QED BY <1>1, <1>2 DEF Held, t

LEMMA HeldIs ==
    ASSUME NEW w, Held(stack, kept, w)
    PROVE  Waiting = w
<1>1. CASE (\A j \in DOMAIN stack : stack[j].kind # "cut") /\ w = kept
  BY <1>1 DEF Waiting, Open
<1>2. CASE \E j \in DOMAIN stack : /\ stack[j].kind = "cut" /\ w = stack[j].buff
                                   /\ \A i \in DOMAIN stack : stack[i].kind = "cut" => i = j
  <2>1. PICK j \in DOMAIN stack : /\ stack[j].kind = "cut" /\ w = stack[j].buff
                                  /\ \A i \in DOMAIN stack : stack[i].kind = "cut" => i = j
    BY <1>2
  <2>2. Open("cut") = {j}
    BY <2>1 DEF Open
  <2>3. Max({j}) = j
    <3>1. Max({j}) \in {j}
      BY DEF Max
    <3> QED BY <3>1
  <2> QED BY <2>1, <2>2, <2>3 DEF Waiting
<1> QED BY <1>1, <1>2 DEF Held

(* The packets handled are the first ones; what waits and what comes are   *)
(* the rest of the stream.                                                 *)
Follows(n, w, rest) == n \in 0 .. Len(Packets) /\ Done(n) \o w \o rest = Stream
InTurn == \A h \in DOMAIN handled : handled[h] = h
CutInv ==
    /\ InTurn
    /\ \E w \in Seq(Sent) : Held(stack, kept, w) /\ Follows(Len(handled), w, input)

LEMMA CutStays ==
    ASSUME CutInv, UNCHANGED <<input, handled>>,
           \A w \in Seq(Sent) : Held(stack, kept, w) => Held(stack', kept', w)
    PROVE  CutInv'
<1>1. PICK w \in Seq(Sent) : Held(stack, kept, w) /\ Follows(Len(handled), w, input)
  BY DEF CutInv
<1>2. Held(stack', kept', w) /\ Follows(Len(handled'), w, input')
  BY <1>1
<1>3. InTurn'
  BY DEF CutInv, InTurn
<1> QED BY <1>2, <1>3 DEF CutInv

LEMMA SentSeq ==
    ASSUME NEW s \in Seq(Range(Stream))
    PROVE  s \in Seq(Sent)
  BY StreamIs, SeqMonotonic

LEMMA CutCollect ==
    ASSUME ~Careless, Sound, CutInv, NEW n \in 1 .. Len(input), Collect(n)
    PROVE  CutInv'
<1> DEFINE a == SubSeq(input, 1, n)
           b == SubSeq(input, n + 1, Len(input))
<1>1. /\ Open("cut") = {} /\ UNCHANGED <<stack, handled>> /\ kept' = kept \o a /\ input' = b
  BY DEF Collect
<1>2. PICK w \in Seq(Sent) : Held(stack, kept, w) /\ Follows(Len(handled), w, input)
  BY DEF CutInv
<1>3. input \in Seq(Sent) /\ kept \in Seq(Sent)
  BY SentSeq DEF Sound, FramesOK
<1>4. a \in Seq(Sent) /\ b \in Seq(Sent) /\ a \o b = input
  BY <1>3, InputSplit
<1> HIDE DEF a, b
<1>5. \A j \in DOMAIN stack : stack[j].kind # "cut"
  BY <1>1 DEF Open
<1>6. w = kept
  BY <1>2, <1>5 DEF Held
<1>7. Held(stack', kept', kept \o a) /\ kept \o a \in Seq(Sent)
  BY <1>1, <1>3, <1>4, <1>5, ConcatProperties DEF Held
<1>8. PICK k \in 0 .. Len(Packets) : k = Len(handled) /\ Done(k) \o kept \o input = Stream
  BY <1>2, <1>6 DEF Follows
<1>9. Done(k) \o (kept \o a) \o b = Stream
  <2>1. PICK d \in Seq(Sent) : d = Done(k)
    BY DoneIs
  <2>2. PICK q \in Seq(Sent) : q = kept
    BY <1>3
  <2>3. PICK x \in Seq(Sent), y \in Seq(Sent) : x = a /\ y = b
    BY <1>4
  <2>4. d \o (q \o x) \o y = d \o q \o (x \o y)
    <3>1. d \o (q \o x) = (d \o q) \o x
      BY Assoc, Zenon
    <3>2. d \o q \in Seq(Sent)
      BY ConcatProperties
    <3>3. ((d \o q) \o x) \o y = (d \o q) \o (x \o y)
      BY <3>2, Assoc, Zenon
    <3> QED BY <3>1, <3>3
  <2> QED BY <1>4, <1>8, <2>1, <2>2, <2>3, <2>4
<1>10. Follows(Len(handled'), kept \o a, input')
  BY <1>1, <1>8, <1>9 DEF Follows
<1>11. InTurn'
  BY <1>1 DEF CutInv, InTurn
<1> QED BY <1>7, <1>10, <1>11 DEF CutInv

LEMMA CutCutNext ==
    ASSUME Sound, CutInv, CutNext
    PROVE  CutInv'
<1> DEFINE packet == Head(Top.buff)[1]
           rest == SubSeq(Top.buff, FrontLen(Top.buff) + 1, Len(Top.buff))
<1>1. /\ FramesOK /\ Running /\ Top.kind = "cut" /\ IsWhole(Top.buff)
      /\ UNCHANGED <<input, kept>> /\ handled' = Append(handled, packet)
  BY DEF Sound, CutNext, AtTest
<1>2. PICK fr \in Frames : fr.kind = "cut" /\ stack' = Append(Below, fr) /\ fr.buff = rest
  BY CutNextStep
<1>3. /\ stack \in Seq(Frames) /\ stack # <<>> /\ Top = Last(stack) /\ Below = Front(stack)
      /\ Below \in Seq(Frames)
  BY <1>1, TopIs
<1>4. PICK w \in Seq(Sent) : Held(stack, kept, w) /\ Follows(Len(handled), w, input)
  BY DEF CutInv
<1>5. w = Top.buff /\ \A j \in DOMAIN Below : Below[j].kind # "cut"
  <2> HIDE DEF Top, Below
  <2> QED BY <1>1, <1>3, <1>4, HeldTop
<1>6. PICK k \in 0 .. Len(Packets) : k = Len(handled) /\ Done(k) \o w \o input = Stream
  BY <1>4 DEF Follows
<1>7. PICK r : r = SubSeq(w, FrontLen(w) + 1, Len(w))
  OBVIOUS
<1>8. /\ k + 1 \in 1 .. Len(Packets) /\ Head(w)[1] = k + 1 /\ r \in Seq(Sent)
      /\ Done(k + 1) \o r \o input = Stream
  <2>1. input \in Seq(Sent)
    BY <1>1, SentSeq DEF FramesOK
  <2>2. IsWhole(w)
    BY <1>1, <1>5
  <2> QED BY <1>6, <1>7, <2>1, <2>2, NextPacket
<1>9. packet = k + 1 /\ rest = r
  BY <1>5, <1>7, <1>8
<1> HIDE DEF packet, rest
<1>10. /\ handled' = Append(handled, k + 1) /\ handled \in Seq(Nat) /\ Len(handled) = k
  <2>1. handled \in Seq(DOMAIN Packets) /\ DOMAIN Packets \subseteq Nat
    BY <1>1, StreamIs DEF FramesOK
  <2> QED BY <1>1, <1>6, <1>9, <2>1, SeqMonotonic
<1>11. InTurn' /\ Len(handled') = k + 1
  <2>1. \A h \in 1 .. k : handled[h] = h
    BY <1>10 DEF CutInv, InTurn
  <2> QED BY <1>10, <2>1 DEF InTurn
<1>12. Held(stack', kept', r)
  <2> HIDE DEF Below
  <2> QED BY <1>2, <1>3, <1>5, <1>9, HeldOpen
<1>13. Follows(Len(handled'), r, input')
  <2>1. k + 1 \in 0 .. Len(Packets)
    BY <1>8
  <2> QED BY <1>1, <1>8, <1>11, <2>1 DEF Follows
<1> QED BY <1>8, <1>11, <1>12, <1>13 DEF CutInv

LEMMA CutFor ==
    ASSUME ~Careless, Sound, CutInv, ForCut
    PROVE  CutInv'
<1> DEFINE fr == [kind |-> "cut", slot |-> Slot, i |-> 0, buff |-> kept, packet |-> 0,
                  body |-> FALSE]
<1>1. /\ Open("cut") = {} /\ Enter(fr) /\ UNCHANGED <<input, kept, handled>>
      /\ stack' = Append(stack, fr) /\ Len(stack) < MaxDepth
  BY DEF ForCut, Enter
<1>2. \A j \in DOMAIN stack : stack[j].kind # "cut"
  BY <1>1 DEF Open
<1>3. fr.kind = "cut" /\ fr.buff = kept
  OBVIOUS
<1>4. fr \in Frames /\ stack \in Seq(Frames)
  <2>1. PICK k \in 0 .. MaxDepth : k = Slot
    BY <1>1, SlotIs
  <2>2. PICK buff \in Seq(Range(Stream)) : buff = kept
    BY DEF Sound, FramesOK
  <2>3. stack \in Seq(Frames)
    BY DEF Sound, FramesOK
  <2> HIDE DEF Slot
  <2> QED BY <2>1, <2>2, <2>3, NewFrames
<1> HIDE DEF fr
<1>5. ASSUME NEW w \in Seq(Sent), Held(stack, kept, w) PROVE Held(stack', kept', w)
  <2>1. w = kept
    BY <1>2, <1>5 DEF Held
  <2>2. Held(Append(stack, fr), kept, fr.buff)
    BY <1>2, <1>3, <1>4, HeldOpen
  <2> QED BY <1>1, <1>3, <2>1, <2>2
<1> QED BY <1>1, <1>5, CutStays

(* A node that is no cut is entered. *)
LEMMA CutEnter ==
    ASSUME Sound, CutInv, NEW fr, fr.kind # "cut", Enter(fr),
           Len(stack) < MaxDepth => fr \in Frames,
           UNCHANGED <<input, kept, handled>>
    PROVE  CutInv'
<1>1. stack \in Seq(Frames) /\ fr \in Frames /\ stack' = Append(stack, fr)
  BY DEF Sound, FramesOK, Enter
<1>2. ASSUME NEW w \in Seq(Sent), Held(stack, kept, w) PROVE Held(stack', kept', w)
  BY <1>1, <1>2, HeldPush
<1> QED BY <1>2, CutStays

(* A node that is no cut ends, or another takes its place. *)
LEMMA CutLeave ==
    ASSUME Sound, CutInv, Running, Top.kind # "cut", UNCHANGED <<input, kept, handled>>,
           stack' = Below \/ \E fr \in Frames : fr.kind # "cut" /\ stack' = Append(Below, fr)
    PROVE  CutInv'
<1>1. /\ stack \in Seq(Frames) /\ stack # <<>> /\ Top = Last(stack) /\ Below = Front(stack)
      /\ Below \in Seq(Frames)
  BY TopIs DEF Sound
<1> HIDE DEF Top, Below
<1>2. ASSUME NEW w \in Seq(Sent), Held(stack, kept, w) PROVE Held(stack', kept', w)
  <2>1. Held(Below, kept, w)
    BY <1>1, <1>2, HeldPop
  <2>2. CASE stack' = Below
    BY <2>1, <2>2
  <2>3. ASSUME NEW fr \in Frames, fr.kind # "cut", stack' = Append(Below, fr)
        PROVE  Held(stack', kept', w)
    <3>1. Held(Append(Below, fr), kept, w)
      BY <1>1, <2>1, <2>3, HeldPush
    <3> QED BY <2>3, <3>1
  <2> QED BY <2>2, <2>3
<1> QED BY <1>2, CutStays

LEMMA CutBreak ==
    ASSUME Sound, CutInv, Break
    PROVE  CutInv'
<1>1. Running /\ Top.kind = "case" /\ UNCHANGED <<input, kept, handled>> /\ FramesOK
  BY DEF Break, InBody, Sound
<1>2. Below # <<>> /\ Last(Below).kind = "switch" /\ stack' = Front(Below)
  BY BreakEnds DEF Sound
<1>3. /\ stack \in Seq(Frames) /\ stack # <<>> /\ Top = Last(stack) /\ Below = Front(stack)
      /\ Below \in Seq(Frames)
  BY <1>1, TopIs
<1> HIDE DEF Top, Below
<1>4. ASSUME NEW w \in Seq(Sent), Held(stack, kept, w) PROVE Held(stack', kept', w)
  <2>1. Held(Below, kept, w)
    BY <1>1, <1>3, <1>4, HeldPop
  <2>2. Held(Front(Below), kept, w)
    BY <1>2, <1>3, <2>1, HeldPop
  <2> QED BY <1>1, <1>2, <2>2
<1> QED BY <1>1, <1>4, CutStays

LEMMA CutCutEnd ==
    ASSUME Sound, CutInv, CutEnd
    PROVE  CutInv'
<1>1. /\ Running /\ Top.kind = "cut" /\ UNCHANGED <<input, handled>> /\ FramesOK
      /\ kept' = Top.buff /\ stack' = Below
  BY DEF CutEnd, AtTest, Sound
<1>2. /\ stack \in Seq(Frames) /\ stack # <<>> /\ Top = Last(stack) /\ Below = Front(stack)
  BY <1>1, TopIs
<1> HIDE DEF Top, Below
<1>3. ASSUME NEW w \in Seq(Sent), Held(stack, kept, w) PROVE Held(stack', kept', w)
  <2>1. w = Top.buff /\ \A j \in DOMAIN Below : Below[j].kind # "cut"
    BY <1>1, <1>2, <1>3, HeldTop
  <2> QED BY <1>1, <2>1 DEF Held
<1> QED BY <1>1, <1>3, CutStays

LEMMA CutTurn ==
    ASSUME Sound, CutInv, CutTurnEnd
    PROVE  CutInv'
<1>1. Running /\ Top.kind = "cut" /\ UNCHANGED <<input, kept, handled>> /\ FramesOK
  BY DEF CutTurnEnd, InBody, Sound
<1>2. PICK fr \in Frames : fr.kind = "cut" /\ fr.buff = Top.buff /\ stack' = Append(Below, fr)
  BY CutTurnEndStep
<1>3. /\ stack \in Seq(Frames) /\ stack # <<>> /\ Top = Last(stack) /\ Below = Front(stack)
      /\ Below \in Seq(Frames)
  BY <1>1, TopIs
<1> HIDE DEF Top, Below
<1>4. ASSUME NEW w \in Seq(Sent), Held(stack, kept, w) PROVE Held(stack', kept', w)
  <2>1. w = Top.buff /\ \A j \in DOMAIN Below : Below[j].kind # "cut"
    BY <1>1, <1>3, <1>4, HeldTop
  <2>2. Held(Append(Below, fr), kept, fr.buff)
    BY <1>2, <1>3, <2>1, HeldOpen
  <2> QED BY <1>1, <1>2, <2>1, <2>2
<1> QED BY <1>1, <1>4, CutStays

LEMMA CutStep ==
    ASSUME ~Careless, Sound, CutInv, [ScriptNext]_scriptVars
    PROVE  CutInv'
<1>0. FramesOK
  BY DEF Sound
<1>1. CASE UNCHANGED scriptVars
  BY <1>1, CutStays DEF scriptVars
<1>2. CASE GoAction
  <2> DEFINE fr == [kind |-> "block"]
  <2>1. stack = <<>> /\ stack' = Append(stack, fr) /\ UNCHANGED <<input, kept, handled>>
    BY <1>2 DEF GoAction, Running
  <2>2. fr \in Frames /\ fr.kind # "cut" /\ stack \in Seq(Frames)
    BY <1>0, NewFrames DEF FramesOK
  <2> HIDE DEF fr
  <2>3. \A w \in Seq(Sent) : Held(stack, kept, w) => Held(stack', kept', w)
    BY <2>1, <2>2, HeldPush
  <2> QED BY <2>1, <2>3, CutStays
<1>3. CASE \E n \in 1 .. Len(input) : Collect(n)
  BY <1>3, CutCollect
<1>4. ASSUME NEW n \in Calls, NEW arg \in Args, Call(n, arg) PROVE CutInv'
  <2> DEFINE fr == [kind |-> "call", node |-> n, f |-> FuncOf[n], arg |-> arg,
                    of |-> FuncOf[n], then |-> n]
  <2>1. Enter(fr) /\ UNCHANGED <<input, kept, handled>>
    BY <1>4 DEF Call
  <2>2. fr.kind # "cut" /\ fr \in Frames
    <3>1. FuncOf[n] \in Names
      BY ScriptAssumption DEF Names, Range
    <3> QED BY <3>1, NewFrames
  <2> HIDE DEF fr
  <2> QED BY <2>1, <2>2, CutEnter
<1>5. ASSUME NEW n \in Calls, NEW g \in Range(FuncOf), NEW arg \in Args, Callback(n, g, arg)
      PROVE  CutInv'
  <2> DEFINE fr == [kind |-> "call", node |-> n, f |-> Anon, arg |-> arg,
                    of |-> g, then |-> paras[CBID(g)]]
  <2>1. Enter(fr) /\ UNCHANGED <<input, kept, handled>>
    BY <1>5 DEF Callback
  <2>2. fr.kind # "cut" /\ fr \in Frames
    <3>1. FuncOf[n] = Anon /\ CBID(g) \in DOMAIN paras
      BY <1>5 DEF Callback, Callbacks
    <3>2. Anon \in Names /\ g \in Names
      BY <3>1, ScriptAssumption DEF Names, Range
    <3>3. PICK m \in Calls : m = paras[CBID(g)]
      BY <3>1, CallBehind
    <3> QED BY <3>2, <3>3, NewFrames
  <2> HIDE DEF fr
  <2> QED BY <2>1, <2>2, CutEnter
<1>6. ASSUME NEW deep \in BOOLEAN, Switch(deep) PROVE CutInv'
  <2> DEFINE fr == [kind |-> "switch", deep |-> deep]
  <2>1. Enter(fr) /\ UNCHANGED <<input, kept, handled>>
    BY <1>6 DEF Switch
  <2>2. fr.kind # "cut" /\ fr \in Frames
    BY NewFrames
  <2> HIDE DEF fr
  <2> QED BY <2>1, <2>2, CutEnter
<1>7. ASSUME NEW kind \in {"range", "list"}, NEW to \in 0 .. MaxTo, NEW step \in Steps \cup {1},
             For(kind, to, step)
      PROVE  CutInv'
  <2> DEFINE fr == [kind |-> kind, slot |-> Slot, i |-> 1, to |-> to, step |-> step,
                    body |-> FALSE]
  <2>1. Enter(fr) /\ UNCHANGED <<input, kept, handled>>
    BY <1>7 DEF For
  <2>2. fr.kind # "cut"
    OBVIOUS
  <2>3. Len(stack) < MaxDepth => fr \in Frames
    <3> SUFFICES ASSUME Len(stack) < MaxDepth PROVE fr \in Frames
      OBVIOUS
    <3>1. PICK k \in 0 .. MaxDepth : k = Slot
      BY SlotIs
    <3> HIDE DEF Slot
    <3> QED BY <3>1, NewFrames
  <2> HIDE DEF fr
  <2> QED BY <2>1, <2>2, <2>3, CutEnter
<1>8. CASE Actions \/ CaseTrue
  <2>1. PICK kind \in {"block", "case"} : Enter([kind |-> kind])
    BY <1>8 DEF Actions, CaseTrue
  <2> DEFINE fr == [kind |-> kind]
  <2>2. Enter(fr) /\ UNCHANGED <<input, kept, handled>>
    BY <1>8, <2>1 DEF Actions, CaseTrue
  <2>3. fr.kind # "cut" /\ fr \in Frames
    BY <2>1, NewFrames
  <2> HIDE DEF fr
  <2> QED BY <2>2, <2>3, CutEnter
<1>9. CASE CallEnd \/ BlockEnd \/ SwitchEnd \/ ForEnd
  <2>1. Running /\ Top.kind # "cut" /\ UNCHANGED <<input, kept, handled>> /\ stack' = Below
    BY <1>9 DEF CallEnd, BlockEnd, SwitchEnd, ForEnd, InBody, AtTest
  <2> QED BY <2>1, CutLeave
<1>10. CASE Default
  <2> DEFINE fr == [kind |-> "block"]
  <2>1. /\ Running /\ Top.kind # "cut" /\ UNCHANGED <<input, kept, handled>>
        /\ stack' = Append(Below, fr)
    BY <1>10 DEF Default, AtCase
  <2>2. fr.kind # "cut" /\ fr \in Frames
    BY NewFrames
  <2> HIDE DEF fr
  <2> QED BY <2>1, <2>2, CutLeave
<1>11. CASE ForNext \/ ForTurnEnd
  <2>1. Running /\ Top.kind \in {"range", "list"} /\ UNCHANGED <<input, kept, handled>>
    BY <1>11 DEF ForNext, ForTurnEnd, InBody, AtTest
  <2>2. Top \in Frames
    BY <1>0, <2>1, TopIs
  <2>3. PICK fr : stack' = Append(Below, fr) /\
            \/ fr = [Top EXCEPT !.body = TRUE]
            \/ fr = [Top EXCEPT !.body = FALSE, !.i = @ + Top.step]
    BY <1>11 DEF ForNext, ForTurnEnd
  <2>4. fr \in Frames /\ fr.kind # "cut"
    <3>0. PICK top \in Frames : top = Top /\ top.kind \in {"range", "list"}
      BY <2>1, <2>2
    <3>1. PICK i \in Nat : i = top.i + top.step
      <4>1. top.i \in Nat /\ top.step \in Steps \cup {1}
        BY <3>0, FrameFields DEF LoopKinds
      <4>2. \A k \in Steps \cup {1} : k \in Nat
        BY ScriptAssumption
      <4>3. top.step \in Nat
        BY <4>1, <4>2, Zenon
      <4> QED BY <4>1, <4>3
    <3>2. fr = [top EXCEPT !.body = TRUE] \/ fr = [top EXCEPT !.body = FALSE, !.i = i]
      BY <2>3, <3>0, <3>1
    <3>3. top \in [kind : {"range", "list"}, slot : 0 .. MaxDepth, i : Nat, to : 0 .. MaxTo,
                   step : Steps \cup {1}, body : BOOLEAN]
      BY <3>0 DEF Frames
    <3> QED BY <3>2, <3>3 DEF Frames
  <2>5. Top.kind # "cut"
    BY <2>1
  <2> QED BY <2>1, <2>3, <2>4, <2>5, CutLeave
<1>12. CASE Break
  BY <1>12, CutBreak
<1>13. CASE ForCut \/ CutNext \/ CutTurnEnd \/ CutEnd
  BY <1>13, CutFor, CutCutNext, CutTurn, CutCutEnd
<1>14. ASSUME NEW to \in 0 .. MaxTo, NEW step \in Steps, ForRange(to, step) PROVE CutInv'
  BY <1>7, <1>14 DEF ForRange
<1>15. ASSUME NEW to \in 0 .. MaxTo, ForList(to) PROVE CutInv'
  BY <1>7, <1>15 DEF ForList
<1> QED BY <1>1, <1>2, <1>3, <1>4, <1>5, <1>6, <1>8, <1>9, <1>10, <1>11, <1>12, <1>13, <1>14,
           <1>15 DEF ScriptNext, Continue

LEMMA CutStart == ScriptInit => CutInv
<1> SUFFICES ASSUME ScriptInit PROVE CutInv
  OBVIOUS
<1>1. stack = <<>> /\ kept = <<>> /\ handled = <<>> /\ input = Stream
  BY DEF ScriptInit
<1>2. Held(stack, kept, <<>>) /\ <<>> \in Seq(Sent) /\ InTurn /\ Len(handled) = 0
  BY <1>1, EmptySeq DEF Held, InTurn
<1>3. 0 \in 0 .. Len(Packets)
  BY StreamIs
<1>4. Done(0) = <<>>
  <2> DEFINE none == [n \in 1 .. 0 |-> Bytes(n)]
  <2>1. none = <<>>
    OBVIOUS
  <2> QED BY <2>1 DEF Done, FlattenSeq
<1>5. Done(0) \o <<>> \o input = Stream
  BY <1>1, <1>4, StreamIs, ConcatEmptySeq, EmptySeq
<1>6. Follows(0, <<>>, input)
  BY <1>3, <1>5 DEF Follows
<1> QED BY <1>2, <1>6 DEF CutInv

LEMMA CutIs ==
    ASSUME Sound, CutInv
    PROVE  CutOnce
<1>1. PICK w \in Seq(Sent) : Held(stack, kept, w) /\ Follows(Len(handled), w, input)
  BY DEF CutInv
<1>2. Waiting = w
  BY <1>1, HeldIs
<1>3. [h \in DOMAIN handled |-> Bytes(handled[h])] = [n \in 1 .. Len(handled) |-> Bytes(n)]
  <2>1. DOMAIN handled = 1 .. Len(handled)
    BY DEF Sound, FramesOK
  <2>2. \A h \in DOMAIN handled : Bytes(handled[h]) = Bytes(h)
    BY DEF CutInv, InTurn
  <2> QED BY <2>1, <2>2
<1>4. FlattenSeq([h \in DOMAIN handled |-> Bytes(handled[h])]) = Done(Len(handled))
  BY <1>3 DEF Done
<1> QED BY <1>1, <1>2, <1>4 DEF CutOnce, Follows

(* CutOnce, for packets of any number and lengths that arrive in pieces of *)
(* any size: FOR CUT_LEN handles each once, whole and in order, if no cut  *)
(* runs within a cut and none collects while one runs.                     *)
THEOREM CutOnceHolds ==
    ASSUME ~Careless
    PROVE  ScriptSpec => []CutOnce
<1>1. ScriptInit => Sound /\ CutInv
  BY SoundInit, CutStart
<1>2. (Sound /\ CutInv) /\ [ScriptNext]_scriptVars => (Sound /\ CutInv)'
  BY SoundStep, CutStep
<1>3. Sound /\ CutInv => CutOnce
  BY CutIs
<1> QED BY <1>1, <1>2, <1>3, PTL DEF ScriptSpec
=============================================================================
