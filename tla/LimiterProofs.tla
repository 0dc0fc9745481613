---------------------------- MODULE LimiterProofs ----------------------------
(***************************************************************************)
(* The limiter's invariants for every set of requests and keys and every   *)
(* setting, and that it implements AdmissionControl.                       *)
(***************************************************************************)
EXTENDS Limiter, FiniteSetTheorems, TLAPS

(* The two limits in force are positive whatever the arguments. *)
LEMMA CapPositive == \A c \in Channels : Cap(c) \in Nat /\ Cap(c) > 0
  BY SettingsAssumption DEF Cap, GlobalCap, KeyCap

LEMMA OwnersFinite ==
  ASSUME NEW S \in SUBSET Requests
  PROVE  IsFiniteSet(S) /\ Cardinality(S) \in Nat
  BY RequestsAssumption, FS_Subset, FS_CardinalityType

(* Replacing one owner by another keeps the count: a slot handed over. *)
LEMMA SwapOwner ==
  ASSUME NEW S \in SUBSET Requests, NEW r \in S, NEW h \in Requests \ S
  PROVE  Cardinality((S \ {r}) \cup {h}) = Cardinality(S)
<1>1. IsFiniteSet(S) /\ Cardinality(S) \in Nat
  BY OwnersFinite
<1>2. IsFiniteSet(S \ {r}) /\ Cardinality(S \ {r}) = Cardinality(S) - 1
  BY <1>1, FS_RemoveElement
<1>3. Cardinality((S \ {r}) \cup {h}) = Cardinality(S \ {r}) + 1
  BY <1>2, FS_AddElement
<1> QED BY <1>1, <1>2, <1>3

-----------------------------------------------------------------------------
(* A waiting queue of exactly the requests in W, each once.                *)
IsQueueOf(q, W) ==
  /\ q \in Seq(Requests)
  /\ \A i, j \in 1..Len(q) : q[i] = q[j] => i = j
  /\ \A r \in Requests : (\E i \in 1..Len(q) : q[i] = r) <=> r \in W

(* Parking appends a request that was not in the queue. *)
LEMMA AppendToQueue ==
  ASSUME NEW W, NEW q, IsQueueOf(q, W), NEW r \in Requests, r \notin W
  PROVE  IsQueueOf(Append(q, r), W \cup {r})
<1> DEFINE a == Append(q, r)
<1>1. /\ a \in Seq(Requests) /\ Len(a) = Len(q) + 1 /\ a[Len(q) + 1] = r
      /\ \A i \in 1..Len(q) : a[i] = q[i]
      /\ Len(q) \in Nat
  BY DEF IsQueueOf
<1>2. \A i \in 1..Len(q) : q[i] # r
  BY DEF IsQueueOf
<1>3. \A i, j \in 1..Len(a) : a[i] = a[j] => i = j
  BY <1>1, <1>2 DEF IsQueueOf
<1>4. ASSUME NEW s \in Requests
      PROVE  (\E i \in 1..Len(a) : a[i] = s) <=> s \in W \cup {r}
  BY <1>1, <1>4 DEF IsQueueOf
<1> HIDE DEF a
<1> QED BY <1>1, <1>3, <1>4 DEF IsQueueOf, a

(* A hand-over takes the head off. *)
LEMMA TailOfQueue ==
  ASSUME NEW W, NEW q, IsQueueOf(q, W), q # <<>>
  PROVE  /\ Head(q) \in Requests /\ Head(q) \in W
         /\ IsQueueOf(Tail(q), W \ {Head(q)})
<1> DEFINE t == Tail(q)
<1>1. /\ t \in Seq(Requests) /\ Len(t) = Len(q) - 1 /\ Head(q) = q[1]
      /\ Len(q) \in Nat \ {0}
      /\ \A i \in 1..Len(t) : t[i] = q[i + 1]
  BY DEF IsQueueOf
<1>2. Head(q) \in Requests /\ Head(q) \in W
  BY <1>1 DEF IsQueueOf
<1>3. \A i, j \in 1..Len(t) : t[i] = t[j] => i = j
  BY <1>1 DEF IsQueueOf
<1>4. ASSUME NEW s \in Requests
      PROVE  (\E i \in 1..Len(t) : t[i] = s) <=> s \in W \ {Head(q)}
  <2>1. ASSUME NEW i \in 1..Len(t), t[i] = s  PROVE s \in W \ {Head(q)}
    BY <1>1, <2>1 DEF IsQueueOf
  <2>2. ASSUME s \in W, s # Head(q)  PROVE \E i \in 1..Len(t) : t[i] = s
    <3>1. PICK j \in 1..Len(q) : q[j] = s
      BY <2>2 DEF IsQueueOf
    <3>2. j # 1 /\ j - 1 \in 1..Len(t) /\ t[j - 1] = s
      BY <1>1, <2>2, <3>1
    <3> QED BY <3>2
  <2> QED BY <2>1, <2>2
<1> HIDE DEF t
<1> QED BY <1>1, <1>2, <1>3, <1>4 DEF IsQueueOf, t

(* A timer or a cancellation takes a request out of the middle. *)
LEMMA RemoveFromQueue ==
  ASSUME NEW W, NEW q, IsQueueOf(q, W), NEW r \in Requests, r \in W
  PROVE  IsQueueOf(Without(q, r), W \ {r})
<1> DEFINE k == CHOOSE j \in 1..Len(q) : q[j] = r
           w == [j \in 1..Len(q) - 1 |-> IF j < k THEN q[j] ELSE q[j + 1]]
<1>1. k \in 1..Len(q) /\ q[k] = r
  BY DEF IsQueueOf
<1>2. Len(q) \in Nat /\ \A i \in 1..Len(q) : q[i] \in Requests
  BY DEF IsQueueOf
<1> HIDE DEF k
<1>3. /\ w \in Seq(Requests) /\ Len(w) = Len(q) - 1
      /\ \A i \in 1..Len(w) : w[i] = IF i < k THEN q[i] ELSE q[i + 1]
  BY <1>1, <1>2
<1> HIDE DEF w
<1>4. ASSUME NEW i \in 1..Len(w), NEW j \in 1..Len(w), w[i] = w[j]
      PROVE  i = j
  <2> DEFINE from(x) == IF x < k THEN x ELSE x + 1
  <2>1. \A x \in 1..Len(w) : from(x) \in 1..Len(q) /\ w[x] = q[from(x)]
    BY <1>1, <1>2, <1>3
  <2>2. from(i) = from(j)
    BY <1>4, <2>1 DEF IsQueueOf
  <2> QED BY <1>1, <1>2, <1>3, <2>2
<1>5. ASSUME NEW s \in Requests
      PROVE  (\E i \in 1..Len(w) : w[i] = s) <=> s \in W \ {r}
  <2>1. ASSUME NEW i \in 1..Len(w), w[i] = s  PROVE s \in W \ {r}
    BY <1>1, <1>2, <1>3, <2>1 DEF IsQueueOf
  <2>2. ASSUME s \in W, s # r  PROVE \E i \in 1..Len(w) : w[i] = s
    <3>1. PICK j \in 1..Len(q) : q[j] = s
      BY <2>2 DEF IsQueueOf
    <3>2. CASE j < k
      BY <1>1, <1>2, <1>3, <3>1, <3>2
    <3>3. CASE j > k
      <4>1. j - 1 \in 1..Len(w) /\ w[j - 1] = s
        BY <1>1, <1>2, <1>3, <3>1, <3>3
      <4> QED BY <4>1
    <3>4. j # k
      BY <1>1, <2>2, <3>1
    <3> QED BY <1>1, <1>2, <3>2, <3>3, <3>4
  <2> QED BY <2>1, <2>2
<1>6. w = Without(q, r)
  BY DEF w, k, Without
<1> QED BY <1>3, <1>4, <1>5, <1>6 DEF IsQueueOf

-----------------------------------------------------------------------------
ParkedAt(c) == {r \in Requests : pc[r] = "parked" /\ at[r] = c}

(* The queue part of the invariant in terms of IsQueueOf. *)
LEMMA QueueInvariant ==
  ASSUME queue \in [Channels -> Seq(Requests)]
  PROVE  QueueIsParked <=> \A c \in Channels : IsQueueOf(queue[c], ParkedAt(c))
  BY DEF QueueIsParked, IsQueueOf, ParkedAt

(* A slot taken by a request that had none of that channel. *)
LEMMA OneMoreOwner ==
  ASSUME NEW S \in SUBSET Requests, NEW r \in Requests \ S
  PROVE  Cardinality(S \cup {r}) = Cardinality(S) + 1
  BY OwnersFinite, FS_AddElement

(* A slot given back: there was at least one. *)
LEMMA OneLessOwner ==
  ASSUME NEW S \in SUBSET Requests, NEW r \in S
  PROVE  /\ Cardinality(S \ {r}) = Cardinality(S) - 1
         /\ Cardinality(S) > 0
  BY OwnersFinite, FS_RemoveElement, FS_EmptySet

(* A step that leaves the semaphores, and everyone's slots, as they are. *)
LEMMA SameOwners ==
  ASSUME StateOK, SlotsAccounted, UNCHANGED sem,
         \A c \in Channels : Owners(c)' = Owners(c)
  PROVE  SlotsAccounted'
  BY DEF SlotsAccounted, Cap, GlobalCap, KeyCap

LEMMA InitInvariant == Init => IInv
<1> SUFFICES ASSUME Init PROVE IInv
  OBVIOUS
<1>1. StateOK
  BY KeyOfAssumption DEF Init, StateOK, Steps, Errors, Channels
<1>2. \A c \in Channels : Owners(c) = {}
  BY KeyOfAssumption DEF Init, Owners, Owns, InAcquire
<1>3. SlotsAccounted
  <2> SUFFICES ASSUME NEW c \in Channels
               PROVE  sem[c] = Cardinality(Owners(c)) /\ sem[c] <= Cap(c)
    BY DEF SlotsAccounted
  <2>1. Cardinality(Owners(c)) = 0
    BY <1>2, FS_EmptySet
  <2> QED BY <2>1, CapPositive DEF Init
<1>4. KeyLimiterExists /\ AtOwnChannel
  BY DEF Init, KeyLimiterExists, AtOwnChannel
<1>5. QueueIsParked /\ NoLostWakeup
  BY DEF Init, QueueIsParked, NoLostWakeup
<1> QED BY <1>1, <1>3, <1>4, <1>5 DEF IInv

(* Acquire is entered: a key's channel is only created when nobody uses it. *)
LEMMA CallStep ==
  ASSUME IInv, NEW r \in Requests, Call(r)
  PROVE  IInv'
<1> USE DEF IInv
<1>1. StateOK'
  <2>1. HasKey(r) => KeyOf[r] \in Keys
    BY KeyOfAssumption DEF HasKey
  <2>2. keyLimiters' \in SUBSET Keys /\ sem' \in [Channels -> Nat]
    <3>1. CASE HasKey(r)
      <4>1. /\ keyLimiters' = keyLimiters \cup {KeyOf[r]}
            /\ sem' = sem \/ sem' = [sem EXCEPT ![KeyOf[r]] = 0]
        BY <3>1 DEF Call, GetKeyLimiter
      <4> QED BY <2>1, <3>1, <4>1 DEF StateOK, Channels
    <3>2. CASE ~HasKey(r)
      BY <3>2 DEF StateOK, Call
    <3> QED BY <3>1, <3>2
  <2>3. /\ pc' \in [Requests -> Steps] /\ at' \in [Requests -> Channels]
        /\ ctxDone' \in [Requests -> BOOLEAN] /\ err' \in [Requests -> Errors]
        /\ queue' \in [Channels -> Seq(Requests)]
    BY <2>1 DEF StateOK, Call, Steps, Errors, Channels
  <2> QED BY <2>2, <2>3 DEF StateOK
<1>2. \A c \in Channels : Owners(c)' = Owners(c)
  BY KeyOfAssumption, KeysAssumption
  DEF StateOK, Call, HasKey, Owners, Owns, InAcquire, Channels
<1>3. sem' = sem
  <2>1. CASE HasKey(r) /\ KeyOf[r] \notin keyLimiters
    <3>1. KeyOf[r] \in Channels /\ KeyOf[r] # Global
      BY <2>1, KeyOfAssumption, KeysAssumption DEF HasKey, Channels
    <3>2. Owners(KeyOf[r]) = {}
      BY <2>1, <3>1, KeyOfAssumption
      DEF KeyLimiterExists, Owners, Owns, InAcquire, HasKey
    <3>3. sem[KeyOf[r]] = 0
      BY <3>1, <3>2, FS_EmptySet DEF SlotsAccounted
    <3> QED BY <2>1, <3>1, <3>3 DEF Call, GetKeyLimiter, StateOK
  <2> QED BY <2>1 DEF Call, GetKeyLimiter
<1>4. SlotsAccounted'
  BY <1>2, <1>3, SameOwners
<1>5. KeyLimiterExists' /\ AtOwnChannel'
  BY KeyOfAssumption DEF StateOK, Call, GetKeyLimiter, HasKey, KeyLimiterExists, AtOwnChannel
<1>6. QueueIsParked' /\ NoLostWakeup'
  BY <1>3 DEF StateOK, Call, QueueIsParked, NoLostWakeup, Full, Cap, GlobalCap, KeyCap
<1> QED BY <1>1, <1>4, <1>5, <1>6

(* A send into a channel with room, in the attempt or in the timed select. *)
LEMMA GrantStep ==
  ASSUME IInv, NEW r \in Requests, pc[r] \in {"try", "select"}, Grant(r),
         UNCHANGED <<keyLimiters, ctxDone>>
  PROVE  IInv'
<1> USE DEF IInv
<1>1. /\ at[r] \in Channels /\ at[r] \in {Global, KeyOf[r]}
      /\ Global \in Channels
  BY DEF StateOK, AtOwnChannel, Channels
<1>2. StateOK'
  BY <1>1 DEF StateOK, Grant, AfterGrant, Steps, Channels
<1>3. PICK c \in Channels : c = at[r]
  BY <1>1
<1>4. r \notin Owners(c) /\ Owners(c)' = Owners(c) \cup {r}
  <2>1. ~Owns(r, c) /\ Owns(r, c)'
    BY <1>1, <1>3, KeyOfAssumption, KeysAssumption
    DEF StateOK, Grant, AfterGrant, Owns, InAcquire, Channels
  <2>2. \A s \in Requests \ {r} : Owns(s, c)' <=> Owns(s, c)
    BY DEF StateOK, Grant, Owns, InAcquire
  <2> QED BY <2>1, <2>2 DEF Owners
<1>5. ASSUME NEW d \in Channels, d # c
      PROVE  Owners(d)' = Owners(d)
  BY <1>1, <1>3, <1>5, KeyOfAssumption, KeysAssumption
  DEF StateOK, Grant, AfterGrant, Owners, Owns, InAcquire, Channels
<1>6. Cardinality(Owners(c)') = Cardinality(Owners(c)) + 1
  BY <1>4, OneMoreOwner DEF Owners
<1>7. SlotsAccounted'
  <2> SUFFICES ASSUME NEW d \in Channels
               PROVE  sem'[d] = Cardinality(Owners(d)') /\ sem'[d] <= Cap(d)
    BY DEF SlotsAccounted, Cap, GlobalCap, KeyCap
  <2>1. CASE d = c
    <3>1. sem[c] < Cap(c) /\ sem[c] \in Nat /\ sem'[c] = sem[c] + 1
      BY <1>1, <1>3 DEF Grant, StateOK
    <3>2. sem[c] = Cardinality(Owners(c))
      BY <1>1, <1>3 DEF SlotsAccounted
    <3> QED BY <1>1, <1>3, <1>6, <2>1, <3>1, <3>2, CapPositive
  <2>2. CASE d # c
    BY <1>1, <1>3, <1>5, <2>2 DEF Grant, SlotsAccounted, StateOK
  <2> QED BY <2>1, <2>2
<1>8. KeyLimiterExists' /\ AtOwnChannel'
  BY <1>1, <1>3 DEF StateOK, Grant, AfterGrant, KeyLimiterExists, AtOwnChannel
<1>9. QueueIsParked'
  <2>1. \A s \in Requests, d \in Channels :
            (pc[s] = "parked" /\ at[s] = d) <=> (pc[s] = "parked" /\ at[s] = d)'
    BY DEF StateOK, Grant, AfterGrant
  <2> QED BY <2>1 DEF Grant, QueueIsParked
<1>10. NoLostWakeup'
  <2>1. queue[c] = <<>>
    BY <1>1, <1>3, CapPositive DEF Grant, NoLostWakeup, Full, StateOK
  <2> QED BY <1>1, <1>3, <2>1 DEF StateOK, Grant, NoLostWakeup, Full, Cap, GlobalCap, KeyCap
<1> QED BY <1>2, <1>7, <1>8, <1>9, <1>10

(* Acquire gives up, whether parked or not: a key's slot already taken is  *)
(* still owned until it is given back, and nothing else changes hands.     *)
LEMMA FailStep ==
  ASSUME IInv, NEW r \in Requests, InAcquire(r), NEW e \in Errors, Fail(r, e),
         UNCHANGED <<keyLimiters, sem>>, ctxDone' \in [Requests -> BOOLEAN],
         queue' = IF pc[r] = "parked"
                  THEN [queue EXCEPT ![at[r]] = Without(@, r)] ELSE queue
  PROVE  IInv'
<1> USE DEF IInv
<1>1. /\ at[r] \in Channels /\ at[r] \in {Global, KeyOf[r]}
      /\ Global \in Channels /\ pc[r] \in {"try", "select", "parked"}
  BY DEF StateOK, AtOwnChannel, Channels, InAcquire
<1>2. HasKey(r) => KeyOf[r] \in Channels /\ KeyOf[r] # Global
  BY KeyOfAssumption, KeysAssumption DEF HasKey, Channels
<1>3. PICK c \in Channels : c = at[r]
  BY <1>1
<1>4. \A d \in Channels : IsQueueOf(queue[d], ParkedAt(d))
  BY QueueInvariant DEF StateOK
<1>5. \A d \in Channels : IsQueueOf(queue'[d], ParkedAt(d)')
  <2> SUFFICES ASSUME NEW d \in Channels PROVE IsQueueOf(queue'[d], ParkedAt(d)')
    OBVIOUS
  <2>1. CASE pc[r] = "parked" /\ d = c
    <3>1. r \in ParkedAt(d)
      BY <1>3, <2>1 DEF ParkedAt
    <3>2. ParkedAt(d)' = ParkedAt(d) \ {r}
      BY <1>1, <1>3, <2>1 DEF ParkedAt, Fail, StateOK
    <3>3. queue'[d] = Without(queue[d], r)
      BY <1>3, <2>1 DEF StateOK
    <3> QED BY <1>4, <3>1, <3>2, <3>3, RemoveFromQueue
  <2>2. CASE ~(pc[r] = "parked" /\ d = c)
    <3>1. ParkedAt(d)' = ParkedAt(d)
      BY <1>1, <1>3, <2>2 DEF ParkedAt, Fail, StateOK
    <3>2. queue'[d] = queue[d]
      BY <1>3, <2>2 DEF StateOK
    <3> QED BY <1>4, <3>1, <3>2
  <2> QED BY <2>1, <2>2
<1>6. StateOK'
  <2>1. queue' \in [Channels -> Seq(Requests)]
    <3>1. \A d \in Channels : queue'[d] \in Seq(Requests)
      BY <1>5 DEF IsQueueOf
    <3>2. queue' = [d \in Channels |-> queue'[d]]
      BY DEF StateOK
    <3> QED BY <3>1, <3>2
  <2>2. /\ pc' \in [Requests -> Steps] /\ at' \in [Requests -> Channels]
        /\ err' \in [Requests -> Errors]
    BY <1>1, <1>2 DEF StateOK, Fail, Steps
  <2> QED BY <2>1, <2>2 DEF StateOK
<1>7. SlotsAccounted'
  <2>1. \A s \in Requests, d \in Channels : Owns(s, d)' <=> Owns(s, d)
    BY <1>1, <1>2, KeyOfAssumption, KeysAssumption
    DEF StateOK, Fail, HasKey, Owns, InAcquire, Channels
  <2>2. \A d \in Channels : Owners(d)' = Owners(d)
    BY <2>1 DEF Owners
  <2> QED BY <2>2, SameOwners
<1>8. KeyLimiterExists' /\ AtOwnChannel'
  BY <1>1 DEF StateOK, Fail, KeyLimiterExists, AtOwnChannel
<1>9. QueueIsParked'
  <2> SUFFICES ASSUME NEW d \in Channels
               PROVE  /\ \A i, j \in 1..Len(queue'[d]) : queue'[d][i] = queue'[d][j] => i = j
                      /\ \A s \in Requests : (\E i \in 1..Len(queue'[d]) : queue'[d][i] = s)
                                             <=> s \in ParkedAt(d)'
    BY DEF QueueIsParked, ParkedAt
  <2> QED BY <1>5 DEF IsQueueOf
<1>10. NoLostWakeup'
  <2> SUFFICES ASSUME NEW d \in Channels, queue'[d] # <<>> PROVE Full(d)'
    BY DEF NoLostWakeup
  <2>1. queue[d] # <<>>
    <3>1. CASE pc[r] = "parked" /\ d = c
      BY <1>3, <1>4, <3>1 DEF IsQueueOf, ParkedAt
    <3>2. CASE ~(pc[r] = "parked" /\ d = c)
      BY <1>3, <3>2 DEF StateOK
    <3> QED BY <3>1, <3>2
  <2> QED BY <2>1 DEF NoLostWakeup, Full, Cap, GlobalCap, KeyCap
<1> QED BY <1>6, <1>7, <1>8, <1>9, <1>10

(* The timed select finds nothing ready: the request joins the queue. *)
LEMMA ParkStep ==
  ASSUME IInv, NEW r \in Requests, pc[r] = "select", Full(at[r]),
         pc' = [pc EXCEPT ![r] = "parked"],
         queue' = [queue EXCEPT ![at[r]] = Append(@, r)],
         UNCHANGED <<keyLimiters, sem, at, ctxDone, err>>
  PROVE  IInv'
<1> USE DEF IInv
<1>1. PICK c \in Channels : c = at[r]
  BY DEF StateOK
<1>2. \A d \in Channels : IsQueueOf(queue[d], ParkedAt(d))
  BY QueueInvariant DEF StateOK
<1>3. \A d \in Channels : IsQueueOf(queue'[d], ParkedAt(d)')
  <2> SUFFICES ASSUME NEW d \in Channels PROVE IsQueueOf(queue'[d], ParkedAt(d)')
    OBVIOUS
  <2>1. CASE d = c
    <3>1. r \notin ParkedAt(d) /\ ParkedAt(d)' = ParkedAt(d) \cup {r}
      BY <1>1, <2>1 DEF ParkedAt, StateOK
    <3>2. queue'[d] = Append(queue[d], r)
      BY <1>1, <2>1 DEF StateOK
    <3> QED BY <1>2, <3>1, <3>2, AppendToQueue
  <2>2. CASE d # c
    <3>1. ParkedAt(d)' = ParkedAt(d) /\ queue'[d] = queue[d]
      BY <1>1, <2>2 DEF ParkedAt, StateOK
    <3> QED BY <1>2, <3>1
  <2> QED BY <2>1, <2>2
<1>4. StateOK'
  <2>1. queue' \in [Channels -> Seq(Requests)]
    BY DEF StateOK
  <2> QED BY <2>1 DEF StateOK, Steps
<1>5. SlotsAccounted'
  <2>1. \A s \in Requests, d \in Channels : Owns(s, d)' <=> Owns(s, d)
    BY DEF StateOK, Owns, InAcquire
  <2>2. \A d \in Channels : Owners(d)' = Owners(d)
    BY <2>1 DEF Owners
  <2> QED BY <2>2, SameOwners
<1>6. KeyLimiterExists' /\ AtOwnChannel'
  BY DEF StateOK, KeyLimiterExists, AtOwnChannel
<1>7. QueueIsParked'
  <2> SUFFICES ASSUME NEW d \in Channels
               PROVE  /\ \A i, j \in 1..Len(queue'[d]) : queue'[d][i] = queue'[d][j] => i = j
                      /\ \A s \in Requests : (\E i \in 1..Len(queue'[d]) : queue'[d][i] = s)
                                             <=> s \in ParkedAt(d)'
    BY DEF QueueIsParked, ParkedAt
  <2> QED BY <1>3 DEF IsQueueOf
<1>8. NoLostWakeup'
  <2>1. Full(c)' /\ \A d \in Channels : Full(d) => Full(d)'
    BY <1>1 DEF Full, Cap, GlobalCap, KeyCap
  <2>2. \A d \in Channels : d # c => queue'[d] = queue[d]
    BY <1>1 DEF StateOK
  <2> QED BY <2>1, <2>2 DEF NoLostWakeup
<1> QED BY <1>4, <1>5, <1>6, <1>7, <1>8

(* Steps that move r without touching a channel or the set of parked ones. *)
LEMMA QuietStep ==
  ASSUME IInv, NEW r \in Requests, NEW p \in Steps,
         pc' = [pc EXCEPT ![r] = p], pc[r] # "parked", p # "parked",
         \/ pc[r] = "try" /\ p = "select"
         \/ pc[r] = "active" /\ p = "release" /\ at[r] = Global
         \/ p = pc[r],
         ctxDone' \in [Requests -> BOOLEAN],
         UNCHANGED <<keyLimiters, sem, queue, at, err>>
  PROVE  IInv'
<1> USE DEF IInv
<1>1. StateOK'
  BY DEF StateOK
<1>2. SlotsAccounted'
  <2>1. \A s \in Requests, d \in Channels : Owns(s, d)' <=> Owns(s, d)
    BY DEF StateOK, Owns, InAcquire
  <2>2. \A d \in Channels : Owners(d)' = Owners(d)
    BY <2>1 DEF Owners
  <2> QED BY <2>2, SameOwners
<1>3. KeyLimiterExists' /\ AtOwnChannel'
  BY DEF StateOK, KeyLimiterExists, AtOwnChannel
<1>4. QueueIsParked'
  <2>1. \A s \in Requests : (pc[s] = "parked") <=> (pc'[s] = "parked")
    BY DEF StateOK
  <2> QED BY <2>1 DEF QueueIsParked
<1>5. NoLostWakeup'
  BY DEF NoLostWakeup, Full, Cap, GlobalCap, KeyCap
<1> QED BY <1>1, <1>2, <1>3, <1>4, <1>5

(* A slot is given back, or handed to the head of the queue. *)
LEMMA ReleaseStep ==
  ASSUME IInv, NEW r \in Requests, Release(r)
  PROVE  IInv'
<1> USE DEF IInv
<1>1. /\ at[r] \in Channels /\ at[r] \in {Global, KeyOf[r]}
      /\ Global \in Channels /\ pc[r] = "release"
  BY DEF StateOK, AtOwnChannel, Channels, Release
<1>2. /\ HasKey(r) <=> KeyOf[r] \in Channels /\ KeyOf[r] # Global
      /\ HasKey(r) => KeyOf[r] \in Channels
  BY KeyOfAssumption, KeysAssumption DEF HasKey, Channels
<1>3. PICK c \in Channels : c = at[r]
  BY <1>1
<1>4. \A d \in Channels : IsQueueOf(queue[d], ParkedAt(d))
  BY QueueInvariant DEF StateOK
<1>5. r \in Owners(c) /\ sem[c] = Cardinality(Owners(c)) /\ sem[c] > 0
  <2>1. r \in Owners(c)
    BY <1>1, <1>3, KeyOfAssumption, KeysAssumption DEF Owners, Owns, Channels
  <2> QED BY <2>1, OneLessOwner DEF SlotsAccounted, Owners
<1>6. CASE queue[c] = <<>>
  <2>1. /\ sem' = [sem EXCEPT ![c] = @ - 1] /\ queue' = queue
        /\ pc' = [pc EXCEPT ![r] = AfterRelease(r, c)]
        /\ at' = [at EXCEPT ![r] = IF HasKey(r) THEN KeyOf[r] ELSE Global]
        /\ UNCHANGED <<keyLimiters, ctxDone, err>>
    BY <1>3, <1>6 DEF Release
  <2>2. StateOK'
    <3>1. sem' \in [Channels -> Nat]
      BY <1>5, <2>1 DEF StateOK
    <3> QED BY <1>1, <1>2, <2>1, <3>1 DEF StateOK, AfterRelease, Steps
  <2>3. Owners(c)' = Owners(c) \ {r}
    <3>1. ~Owns(r, c)'
      BY <1>1, <1>2, <1>3, <2>1, KeyOfAssumption, KeysAssumption
      DEF StateOK, AfterRelease, HasKey, Owns, InAcquire, Channels
    <3>2. \A s \in Requests \ {r} : Owns(s, c)' <=> Owns(s, c)
      BY <2>1 DEF StateOK, Owns, InAcquire
    <3> QED BY <3>1, <3>2 DEF Owners
  <2>4. ASSUME NEW d \in Channels, d # c  PROVE Owners(d)' = Owners(d)
    <3>1. Owns(r, d)' <=> Owns(r, d)
      BY <1>1, <1>2, <1>3, <2>1, <2>4, KeyOfAssumption, KeysAssumption
      DEF StateOK, AfterRelease, HasKey, Owns, InAcquire, Channels
    <3>2. \A s \in Requests \ {r} : Owns(s, d)' <=> Owns(s, d)
      BY <2>1 DEF StateOK, Owns, InAcquire
    <3> QED BY <3>1, <3>2 DEF Owners
  <2>5. SlotsAccounted'
    <3> SUFFICES ASSUME NEW d \in Channels
                 PROVE  sem'[d] = Cardinality(Owners(d)') /\ sem'[d] <= Cap(d)
      BY DEF SlotsAccounted, Cap, GlobalCap, KeyCap
    <3>1. CASE d = c
      <4>1. Cardinality(Owners(c)') = sem[c] - 1
        BY <1>5, <2>3, OneLessOwner DEF Owners
      <4>2. sem'[c] = sem[c] - 1 /\ sem[c] \in Nat /\ sem[c] <= Cap(c) /\ Cap(c) \in Nat
        BY <2>1, CapPositive DEF StateOK, SlotsAccounted
      <4> QED BY <3>1, <4>1, <4>2
    <3>2. CASE d # c
      BY <2>1, <2>4, <3>2 DEF StateOK, SlotsAccounted
    <3> QED BY <3>1, <3>2
  <2>6. KeyLimiterExists' /\ AtOwnChannel'
    BY <1>1, <1>2, <2>1 DEF StateOK, AfterRelease, KeyLimiterExists, AtOwnChannel
  <2>7. QueueIsParked'
    <3>1. \A s \in Requests, d \in Channels :
              (pc[s] = "parked" /\ at[s] = d) <=> (pc[s] = "parked" /\ at[s] = d)'
      BY <1>1, <2>1 DEF StateOK, AfterRelease
    <3> QED BY <2>1, <3>1 DEF QueueIsParked
  <2>8. NoLostWakeup'
    <3>1. queue'[c] = <<>> /\ \A d \in Channels : d # c => sem'[d] = sem[d]
      BY <1>6, <2>1 DEF StateOK
    <3> QED BY <2>1, <3>1 DEF NoLostWakeup, Full, Cap, GlobalCap, KeyCap
  <2> QED BY <2>2, <2>5, <2>6, <2>7, <2>8
<1>7. CASE queue[c] # <<>>
  <2>1. PICK h \in Requests : h = Head(queue[c])
    BY <1>4, <1>7, TailOfQueue
  <2>2. pc[h] = "parked" /\ at[h] = c /\ h # r /\ IsQueueOf(Tail(queue[c]), ParkedAt(c) \ {h})
    <3>1. h \in ParkedAt(c) /\ IsQueueOf(Tail(queue[c]), ParkedAt(c) \ {h})
      BY <1>4, <1>7, <2>1, TailOfQueue
    <3> QED BY <1>1, <3>1 DEF ParkedAt
  <2>3. /\ queue' = [queue EXCEPT ![c] = Tail(@)]
        /\ pc' = [pc EXCEPT ![r] = AfterRelease(r, c), ![h] = AfterGrant(c)]
        /\ at' = [at EXCEPT ![r] = IF HasKey(r) THEN KeyOf[r] ELSE Global, ![h] = Global]
        /\ UNCHANGED <<sem, keyLimiters, ctxDone, err>>
    BY <1>3, <1>7, <2>1 DEF Release
  <2>4. c \in {Global, KeyOf[h]}
    BY <2>2 DEF AtOwnChannel
  <2>5. \A d \in Channels : IsQueueOf(queue'[d], ParkedAt(d)')
    <3> SUFFICES ASSUME NEW d \in Channels PROVE IsQueueOf(queue'[d], ParkedAt(d)')
      OBVIOUS
    <3>1. CASE d = c
      <4>1. ParkedAt(c)' = ParkedAt(c) \ {h} /\ queue'[c] = Tail(queue[c])
        BY <1>1, <2>2, <2>3 DEF StateOK, ParkedAt, AfterRelease, AfterGrant
      <4> QED BY <2>2, <3>1, <4>1
    <3>2. CASE d # c
      <4>1. ParkedAt(d)' = ParkedAt(d) /\ queue'[d] = queue[d]
        BY <1>1, <2>2, <2>3, <3>2 DEF StateOK, ParkedAt, AfterRelease, AfterGrant
      <4> QED BY <1>4, <4>1
    <3> QED BY <3>1, <3>2
  <2>6. StateOK'
    <3>1. queue' \in [Channels -> Seq(Requests)]
      BY <2>2, <2>3 DEF StateOK, IsQueueOf
    <3> QED BY <1>1, <1>2, <2>3, <3>1 DEF StateOK, AfterRelease, AfterGrant, Steps
  <2>7. Owners(c)' = (Owners(c) \ {r}) \cup {h} /\ h \notin Owners(c)
    <3>1. ~Owns(r, c)' /\ Owns(h, c)' /\ ~Owns(h, c)
      BY <1>1, <1>2, <1>3, <2>2, <2>3, <2>4, KeyOfAssumption, KeysAssumption
      DEF StateOK, AfterRelease, AfterGrant, HasKey, Owns, InAcquire, Channels
    <3>2. \A s \in Requests \ {r, h} : Owns(s, c)' <=> Owns(s, c)
      BY <2>3 DEF StateOK, Owns, InAcquire
    <3> QED BY <3>1, <3>2 DEF Owners
  <2>8. ASSUME NEW d \in Channels, d # c  PROVE Owners(d)' = Owners(d)
    <3>1. Owns(r, d)' <=> Owns(r, d)
      BY <1>1, <1>2, <1>3, <2>2, <2>3, <2>8, KeyOfAssumption, KeysAssumption
      DEF StateOK, AfterRelease, HasKey, Owns, InAcquire, Channels
    <3>2. Owns(h, d)' <=> Owns(h, d)
      BY <2>2, <2>3, <2>4, <2>8, KeyOfAssumption, KeysAssumption
      DEF StateOK, AfterGrant, Owns, InAcquire, Channels
    <3>3. \A s \in Requests \ {r, h} : Owns(s, d)' <=> Owns(s, d)
      BY <2>3 DEF StateOK, Owns, InAcquire
    <3> QED BY <3>1, <3>2, <3>3 DEF Owners
  <2>9. SlotsAccounted'
    <3>1. Cardinality(Owners(c)') = Cardinality(Owners(c))
      <4>1. Owners(c) \in SUBSET Requests /\ r \in Owners(c) /\ h \in Requests \ Owners(c)
        BY <1>5, <2>1, <2>7 DEF Owners
      <4>2. Cardinality((Owners(c) \ {r}) \cup {h}) = Cardinality(Owners(c))
        BY <4>1, SwapOwner
      <4> QED BY <2>7, <4>2
    <3>2. \A d \in Channels : Cardinality(Owners(d)') = Cardinality(Owners(d))
      BY <2>8, <3>1
    <3> QED BY <2>3, <3>2 DEF SlotsAccounted, Cap, GlobalCap, KeyCap
  <2>10. KeyLimiterExists' /\ AtOwnChannel'
    BY <1>1, <1>2, <2>2, <2>3 DEF StateOK, AfterRelease, AfterGrant, KeyLimiterExists, AtOwnChannel
  <2>11. QueueIsParked'
    <3> SUFFICES ASSUME NEW d \in Channels
                 PROVE  /\ \A i, j \in 1..Len(queue'[d]) : queue'[d][i] = queue'[d][j] => i = j
                        /\ \A s \in Requests : (\E i \in 1..Len(queue'[d]) : queue'[d][i] = s)
                                               <=> s \in ParkedAt(d)'
      BY DEF QueueIsParked, ParkedAt
    <3> QED BY <2>5 DEF IsQueueOf
  <2>12. NoLostWakeup'
    <3>1. Full(c)
      BY <1>7 DEF NoLostWakeup
    <3>2. \A d \in Channels : d # c => queue'[d] = queue[d]
      BY <2>3 DEF StateOK
    <3>3. \A d \in Channels : Full(d) => Full(d)'
      BY <2>3 DEF Full, Cap, GlobalCap, KeyCap
    <3> QED BY <3>1, <3>2, <3>3 DEF NoLostWakeup
  <2> QED BY <2>6, <2>9, <2>10, <2>11, <2>12
<1> QED BY <1>6, <1>7

(* Every step of the limiter preserves the invariant. *)
LEMMA NextInvariant == IInv /\ [Next]_vars => IInv'
<1> SUFFICES ASSUME IInv, [Next]_vars PROVE IInv'
  OBVIOUS
<1>1. CASE UNCHANGED vars
  <2>1. StateOK' /\ KeyLimiterExists' /\ AtOwnChannel'
    BY <1>1 DEF vars, IInv, StateOK, KeyLimiterExists, AtOwnChannel
  <2>2. SlotsAccounted'
    <3>1. \A c \in Channels : Owners(c)' = Owners(c)
      BY <1>1 DEF vars, Owners, Owns, InAcquire
    <3> QED BY <1>1, <3>1, SameOwners DEF vars, IInv
  <2>3. QueueIsParked' /\ NoLostWakeup'
    BY <1>1 DEF vars, IInv, QueueIsParked, NoLostWakeup, Full, Cap, GlobalCap, KeyCap
  <2> QED BY <2>1, <2>2, <2>3 DEF IInv
<1>2. ASSUME NEW r \in Requests,
             Call(r) \/ Run(r) \/ TimerFires(r) \/ Cancel(r)
      PROVE  IInv'
  <2> USE DEF IInv
  <2>1. CASE Call(r)
    BY <2>1, CallStep
  <2>2. CASE Try(r)
    <3>1. pc[r] = "try" /\ InAcquire(r) /\ ctxDone' \in [Requests -> BOOLEAN]
          /\ UNCHANGED <<keyLimiters, ctxDone>>
      BY <2>2 DEF Try, InAcquire, StateOK
    <3>2. CASE Grant(r)
      BY <3>1, <3>2, GrantStep
    <3>3. CASE Fail(r, LimitError(at[r])) /\ UNCHANGED <<sem, queue>>
      <4>1. LimitError(at[r]) \in Errors
        BY DEF LimitError, Errors
      <4> QED BY <3>1, <3>3, <4>1, FailStep
    <3>4. CASE pc' = [pc EXCEPT ![r] = "select"] /\ UNCHANGED <<sem, queue, at, err>>
      BY <3>1, <3>4, QuietStep DEF Steps
    <3> QED BY <2>2, <3>2, <3>3, <3>4 DEF Try
  <2>3. CASE Select(r)
    <3>1. pc[r] = "select" /\ InAcquire(r) /\ ctxDone' \in [Requests -> BOOLEAN]
          /\ UNCHANGED <<keyLimiters, ctxDone>>
      BY <2>3 DEF Select, InAcquire, StateOK
    <3>2. CASE Grant(r)
      BY <3>1, <3>2, GrantStep
    <3>3. CASE /\ Fail(r, LimitError(at[r])) \/ Fail(r, "ctx.Err")
               /\ UNCHANGED <<sem, queue>>
      <4>1. LimitError(at[r]) \in Errors /\ "ctx.Err" \in Errors
        BY DEF LimitError, Errors
      <4> QED BY <3>1, <3>3, <4>1, FailStep
    <3>4. CASE /\ Full(at[r]) /\ pc' = [pc EXCEPT ![r] = "parked"]
               /\ queue' = [queue EXCEPT ![at[r]] = Append(@, r)]
               /\ UNCHANGED <<sem, at, err>>
      BY <3>1, <3>4, ParkStep
    <3> QED BY <2>3, <3>2, <3>3, <3>4 DEF Select
  <2>4. CASE Finish(r)
    <3>1. at[r] = Global /\ pc[r] = "active"
      BY <2>4 DEF Finish, AtOwnChannel
    <3>2. UNCHANGED at
      BY <2>4, <3>1 DEF Finish, StateOK
    <3> QED BY <2>4, <3>1, <3>2, QuietStep DEF Finish, StateOK, Steps
  <2>5. CASE Release(r)
    BY <2>5, ReleaseStep
  <2>6. CASE TimerFires(r)
    <3>1. LimitError(at[r]) \in Errors /\ InAcquire(r)
      BY <2>6 DEF LimitError, Errors, TimerFires, InAcquire
    <3> QED BY <2>6, <3>1, FailStep DEF TimerFires, StateOK
  <2>7. CASE Cancel(r)
    <3>1. ctxDone' \in [Requests -> BOOLEAN]
      BY <2>7 DEF Cancel, StateOK
    <3>2. CASE pc[r] = "parked"
      <4>1. "ctx.Err" \in Errors /\ InAcquire(r)
        BY <3>2 DEF Errors, InAcquire
      <4> QED BY <2>7, <3>1, <3>2, <4>1, FailStep DEF Cancel
    <3>3. CASE pc[r] # "parked"
      <4>1. pc' = [pc EXCEPT ![r] = pc[r]] /\ pc[r] \in Steps
        BY <2>7, <3>3 DEF Cancel, StateOK
      <4> QED BY <2>7, <3>1, <3>3, <4>1, QuietStep DEF Cancel
    <3> QED BY <3>2, <3>3
  <2> QED BY <1>2, <2>1, <2>2, <2>3, <2>4, <2>5, <2>6, <2>7 DEF Run
<1> QED BY <1>1, <1>2 DEF Next

(* The inductive invariant holds in every reachable state of the limiter. *)
THEOREM Invariant == Spec => []IInv
  BY InitInvariant, NextInvariant, PTL DEF Spec

(* Types: the limiter's state is what the code's declarations say.         *)
THEOREM TypeCorrect == Spec => []TypeOK
<1>1. Init => queueTimeout \in QueueTimeouts
  BY DEF Init
<1>2. queueTimeout \in QueueTimeouts /\ [Next]_vars => (queueTimeout \in QueueTimeouts)'
  BY DEF Next, Call, Run, Try, Select, Finish, Release, TimerFires, Cancel, vars
<1>3. Spec => [](queueTimeout \in QueueTimeouts)
  BY <1>1, <1>2, PTL DEF Spec
<1>4. IInv => StateOK
  BY DEF IInv
<1>5. StateOK /\ queueTimeout \in QueueTimeouts => TypeOK
  BY DEF TypeOK
<1> QED BY <1>3, <1>4, <1>5, Invariant, PTL

(* No slot is ever leaked or freed twice, for any number of requests and   *)
(* keys, any limits, and whichever timers fire or clients go away.         *)
THEOREM SlotsNeverLeak == Spec => []SlotsAccounted
<1>1. IInv => SlotsAccounted
  BY DEF IInv
<1> QED BY <1>1, Invariant, PTL

(* A request never sleeps in front of a free slot. *)
THEOREM WakeupsNeverLost == Spec => []NoLostWakeup
<1>1. IInv => NoLostWakeup
  BY DEF IInv
<1> QED BY <1>1, Invariant, PTL

(* Whoever works on the global channel owns a slot of its key, so a key    *)
(* never takes more of the global channel and its queue than its own limit. *)
THEOREM KeyShareRespected == Spec => []KeyShareBounded
<1>1. ASSUME IInv, NEW k \in Keys
      PROVE  Cardinality(AtGlobal(k)) <= KeyCap
  <2>1. k \in Channels /\ Cap(k) = KeyCap /\ k # Global
    BY KeysAssumption DEF Channels, Cap
  <2>2. AtGlobal(k) \in SUBSET Owners(k)
    <3> SUFFICES ASSUME NEW r \in AtGlobal(k) PROVE r \in Owners(k)
      OBVIOUS
    <3>1. r \in Requests /\ KeyOf[r] = k /\ at[r] = Global /\ pc[r] # "idle"
      BY DEF AtGlobal
    <3>2. pc[r] \in Steps
      BY <1>1, <3>1 DEF IInv, StateOK
    <3>3. pc[r] \in {"active", "release"} \/ InAcquire(r)
      BY <3>1, <3>2 DEF Steps, InAcquire
    <3> QED BY <2>1, <3>1, <3>3 DEF Owners, Owns
  <2>3. IsFiniteSet(Owners(k)) /\ Cardinality(Owners(k)) \in Nat
    BY OwnersFinite DEF Owners
  <2>4. /\ Cardinality(AtGlobal(k)) <= Cardinality(Owners(k))
        /\ Cardinality(AtGlobal(k)) \in Nat
    BY <2>2, <2>3, FS_Subset, FS_CardinalityType
  <2>5. Cardinality(Owners(k)) <= KeyCap
    BY <1>1, <2>1 DEF IInv, SlotsAccounted
  <2> QED BY <2>1, <2>3, <2>4, <2>5, CapPositive
<1>2. IInv => KeyShareBounded
  BY <1>1 DEF KeyShareBounded
<1> QED BY <1>2, Invariant, PTL

-----------------------------------------------------------------------------
(* AdmissionControl counts with its own instance of Cardinality. *)
LEMMA SameCardinality ==
  ASSUME NEW S
  PROVE  Admission!Cardinality(S) = Cardinality(S)
  BY DEF Admission!Cardinality, Cardinality

(* Only a holder of a slot is served. *)
LEMMA ServedOwn ==
  ASSUME IInv
  PROVE  /\ Admission!Serving = {r \in Requests : pc[r] = "active"}
         /\ Admission!Serving \in SUBSET Owners(Global)
         /\ \A k \in Keys : /\ Admission!ServingKey(k) \in SUBSET Owners(k)
                            /\ \A s \in Admission!ServingKey(k) : pc[s] = "active"
<1>1. Admission!Serving = {r \in Requests : pc[r] = "active"}
  BY DEF Admission!Serving, Status, InAcquire
<1>2. Admission!Serving \in SUBSET Owners(Global)
  BY <1>1 DEF Owners, Owns
<1>3. \A k \in Keys : Admission!ServingKey(k) \in SUBSET Owners(k)
  BY <1>1, KeysAssumption DEF Admission!ServingKey, Owners, Owns
<1>4. \A k \in Keys : \A s \in Admission!ServingKey(k) : pc[s] = "active"
  BY <1>1 DEF Admission!ServingKey
<1> QED BY <1>1, <1>2, <1>3, <1>4

(* Served requests are among the owners of slots, so they are within the   *)
(* limits; this is AdmissionControl's invariant.                           *)
THEOREM LimitsRespected == Spec => []WithinLimits
<1>1. IInv => WithinLimits
  <2> SUFFICES ASSUME IInv PROVE WithinLimits
    OBVIOUS
  <2>1. ASSUME NEW c \in Channels, NEW S \in SUBSET Owners(c)
        PROVE  Cardinality(S) <= Cap(c)
    <3>1. IsFiniteSet(Owners(c)) /\ Cardinality(Owners(c)) \in Nat
      BY OwnersFinite DEF Owners
    <3>2. Cardinality(S) <= Cardinality(Owners(c)) /\ Cardinality(S) \in Nat
      BY <3>1, FS_Subset, FS_CardinalityType
    <3> QED BY <3>1, <3>2, CapPositive DEF IInv, SlotsAccounted
  <2>2. Cardinality(Admission!Serving) <= GlobalCap
    BY <2>1, ServedOwn DEF Channels, Cap
  <2>3. ASSUME NEW k \in Keys
        PROVE  Cardinality(Admission!ServingKey(k)) <= KeyCap
    BY <2>1, ServedOwn, KeysAssumption DEF Channels, Cap
  <2> QED BY <2>2, <2>3, SameCardinality DEF WithinLimits, Admission!WithinLimits
<1> QED BY <1>1, Invariant, PTL

(* One owner of a slot that is not in S leaves room for one more in S. *)
LEMMA RoomForOne ==
  ASSUME IInv, NEW c \in Channels, NEW S \in SUBSET Owners(c),
         sem[c] < Cap(c) \/ \E s \in Owners(c) : s \notin S
  PROVE  Cardinality(S) < Cap(c)
<1>1. IsFiniteSet(Owners(c)) /\ Cardinality(Owners(c)) \in Nat
  BY OwnersFinite DEF Owners
<1>2. /\ Cardinality(S) <= Cardinality(Owners(c)) /\ Cardinality(S) \in Nat
      /\ Cardinality(S) = Cardinality(Owners(c)) => Owners(c) = S
  BY <1>1, FS_Subset, FS_CardinalityType
<1> QED BY <1>1, <1>2, CapPositive DEF IInv, SlotsAccounted

(* A request that is granted a global slot may be admitted. *)
LEMMA GrantAdmits ==
  ASSUME IInv, NEW r \in Requests, InAcquire(r), at[r] = Global,
         sem[Global] < Cap(Global) \/ \E s \in Owners(Global) : pc[s] = "release"
  PROVE  /\ Cardinality(Admission!Serving) < GlobalCap
         /\ KeyOf[r] \in Keys => Cardinality(Admission!ServingKey(KeyOf[r])) < KeyCap
<1>1. Global \in Channels /\ Cap(Global) = GlobalCap
  BY DEF Channels, Cap
<1>2. Cardinality(Admission!Serving) < Cap(Global)
  BY <1>1, ServedOwn, RoomForOne
<1>3. ASSUME KeyOf[r] \in Keys
      PROVE  Cardinality(Admission!ServingKey(KeyOf[r])) < KeyCap
  <2>1. KeyOf[r] \in Channels /\ Cap(KeyOf[r]) = KeyCap
    BY <1>3, KeysAssumption DEF Channels, Cap
  <2>2. r \in Owners(KeyOf[r]) /\ pc[r] # "active"
    BY <1>3, KeysAssumption DEF Owners, Owns, InAcquire
  <2> QED BY <1>3, <2>1, <2>2, ServedOwn, RoomForOne
<1> QED BY <1>1, <1>2, <1>3

(* Each step of the limiter is a step of AdmissionControl, or none. *)
LEMMA StepImplements ==
  ASSUME IInv, [Next]_vars
  PROVE  [Admission!Next]_([r \in Requests |-> Status(r)])
<1> DEFINE st == [r \in Requests |-> Status(r)]
<1>1. CASE UNCHANGED vars
  BY <1>1 DEF vars, Status, InAcquire
<1>2. ASSUME NEW r \in Requests, Call(r)
      PROVE  Admission!Ask(r)
  BY <1>2 DEF IInv, StateOK, Call, Admission!Ask, Admission!Move, Status, InAcquire
<1>3. ASSUME NEW r \in Requests, InAcquire(r), Grant(r)
      PROVE  Admission!Admit(r) \/ UNCHANGED st
  <2>1. CASE at[r] = Global
    <3>1. sem[Global] < Cap(Global) /\ pc' = [pc EXCEPT ![r] = "active"]
      BY <1>3, <2>1 DEF Grant, AfterGrant
    <3>2. Admission!Move(r, "asking", "serving")
      BY <1>3, <3>1 DEF IInv, StateOK, Admission!Move, Status, InAcquire
    <3> QED BY <1>3, <2>1, <3>1, <3>2, GrantAdmits, SameCardinality DEF Admission!Admit
  <2>2. CASE at[r] # Global
    BY <1>3, <2>2 DEF IInv, StateOK, Grant, AfterGrant, Status, InAcquire
  <2> QED BY <2>1, <2>2
<1>4. ASSUME NEW r \in Requests, NEW e, InAcquire(r), Fail(r, e)
      PROVE  Admission!Refuse(r)
  BY <1>4 DEF IInv, StateOK, Fail, Admission!Refuse, Admission!Move, Status, InAcquire
<1>5. ASSUME NEW r \in Requests, Finish(r)
      PROVE  Admission!Leave(r)
  BY <1>5 DEF IInv, StateOK, Finish, Admission!Leave, Admission!Move, Status, InAcquire
<1>6. ASSUME NEW r \in Requests, Release(r)
      PROVE  UNCHANGED st \/ \E h \in Requests : Admission!Admit(h)
  <2>1. PICK c \in Channels : c = at[r]
    BY DEF IInv, StateOK
  <2>2. CASE queue[c] = <<>>
    BY <1>6, <2>1, <2>2 DEF IInv, StateOK, Release, AfterRelease, Status, InAcquire
  <2>3. CASE queue[c] # <<>>
    <3>1. PICK h \in Requests : h = Head(queue[c]) /\ pc[h] = "parked" /\ at[h] = c
      <4>1. IsQueueOf(queue[c], ParkedAt(c))
        BY QueueInvariant DEF IInv, StateOK
      <4>2. Head(queue[c]) \in Requests /\ Head(queue[c]) \in ParkedAt(c)
        BY <2>3, <4>1, TailOfQueue
      <4> QED BY <4>2 DEF ParkedAt
    <3>2. /\ pc[r] = "release" /\ h # r
          /\ pc' = [pc EXCEPT ![r] = AfterRelease(r, c), ![h] = AfterGrant(c)]
      BY <1>6, <2>1, <2>3, <3>1 DEF Release
    <3>3. CASE c # Global
      BY <3>1, <3>2, <3>3 DEF IInv, StateOK, AfterRelease, AfterGrant, Status, InAcquire
    <3>4. CASE c = Global
      <4>1. r \in Owners(Global)
        BY <2>1, <3>2, <3>4 DEF Owners, Owns
      <4>2. Admission!Move(h, "asking", "serving")
        BY <3>1, <3>2, <3>4
        DEF IInv, StateOK, AfterRelease, AfterGrant, Admission!Move, Status, InAcquire
      <4> QED BY <3>1, <3>2, <3>4, <4>1, <4>2, GrantAdmits, SameCardinality DEF Admission!Admit, InAcquire
    <3> QED BY <3>3, <3>4
  <2> QED BY <2>2, <2>3
<1>7. ASSUME NEW r \in Requests, Try(r) \/ Select(r) \/ TimerFires(r) \/ Cancel(r)
      PROVE  Admission!Admit(r) \/ Admission!Refuse(r) \/ UNCHANGED st
  <2>1. \/ InAcquire(r) /\ Grant(r)
        \/ InAcquire(r) /\ \E e \in Errors : Fail(r, e)
        \/ pc[r] = "try" /\ pc' = [pc EXCEPT ![r] = "select"]
        \/ pc[r] = "select" /\ pc' = [pc EXCEPT ![r] = "parked"]
        \/ pc' = pc
    BY <1>7 DEF Try, Select, TimerFires, Cancel, InAcquire, LimitError, Errors
  <2>2. CASE \/ pc[r] = "try" /\ pc' = [pc EXCEPT ![r] = "select"]
             \/ pc[r] = "select" /\ pc' = [pc EXCEPT ![r] = "parked"]
             \/ pc' = pc
    BY <2>2 DEF IInv, StateOK, Status, InAcquire
  <2> QED BY <1>3, <1>4, <2>1, <2>2
<1> QED BY <1>1, <1>2, <1>5, <1>6, <1>7 DEF Next, Run, Admission!Next

(* The limiter implements AdmissionControl. *)
THEOREM Implementation == Spec => ImplementsAdmission
<1>1. Init => Admission!Init
  BY DEF Init, Admission!Init, Status, InAcquire
<1>2. IInv /\ [Next]_vars => [Admission!Next]_([r \in Requests |-> Status(r)])
  BY StepImplements
<1> QED BY <1>1, <1>2, Invariant, PTL DEF Spec, ImplementsAdmission, Admission!Spec

(* Whoever gets a slot it asked for moves past its channel. *)
LEMMA OwnsMoves ==
  ASSUME NEW r \in Requests, NEW c \in Channels, InAcquire(r), at[r] = c,
         Owns(r, c)'
  PROVE  \/ c = Global /\ pc'[r] = "active"
         \/ c = Global /\ pc'[r] = "release" /\ at'[r] = Global
         \/ c # Global /\ KeyOf[r] = c /\ pc'[r] \in {"active", "release"}
         \/ c # Global /\ KeyOf[r] = c /\ at'[r] = Global
  BY DEF Owns, InAcquire

(* Slots are handed out first come, first served. *)
THEOREM ArrivalOrder == Spec => FirstComeFirstServed
<1>1. ASSUME IInv, [Next]_vars, NEW r \in Requests, NEW c \in Channels,
             InAcquire(r), at[r] = c, Owns(r, c)'
      PROVE  IF pc[r] = "parked" THEN r = Head(queue[c]) ELSE queue[c] = <<>>
  <2>1. c \in {Global, KeyOf[r]} /\ pc[r] \in {"try", "select", "parked"}
    BY <1>1 DEF IInv, AtOwnChannel, InAcquire
  <2>2. pc'[r] # pc[r] \/ at'[r] # at[r]
    BY <1>1, <2>1, OwnsMoves
  <2>3. PICK s \in Requests : Call(s) \/ Run(s) \/ TimerFires(s) \/ Cancel(s)
    BY <1>1, <2>2 DEF Next, vars
  <2>4. CASE s = r
    <3>1. CASE Grant(r) /\ pc[r] \in {"try", "select"}
      <4>1. sem[c] < Cap(c) /\ sem[c] \in Nat
        BY <1>1, <3>1 DEF IInv, StateOK, Grant
      <4> QED BY <1>1, <3>1, <4>1, CapPositive DEF IInv, NoLostWakeup, Full
    <3>2. ASSUME NEW e, Fail(r, e)
          PROVE  FALSE
      <4>1. CASE c = Global /\ HasKey(r)
        <5>1. pc'[r] = "release" /\ at'[r] = KeyOf[r] /\ KeyOf[r] # Global
          BY <1>1, <3>2, <4>1, KeyOfAssumption, KeysAssumption
          DEF IInv, StateOK, Fail, HasKey
        <5> QED BY <1>1, <4>1, <5>1, OwnsMoves
      <4>2. CASE ~(c = Global /\ HasKey(r))
        <5>1. pc'[r] = "idle" /\ at'[r] = c
          BY <1>1, <3>2, <4>2 DEF IInv, StateOK, Fail
        <5> QED BY <1>1, <5>1, OwnsMoves
      <4> QED BY <4>1, <4>2
    <3>3. CASE /\ pc' = [pc EXCEPT ![r] = "select"] \/ pc' = [pc EXCEPT ![r] = "parked"]
               /\ at' = at
      <4>1. pc'[r] \in {"select", "parked"} /\ at'[r] = c
        BY <1>1, <3>3 DEF IInv, StateOK
      <4> QED BY <1>1, <4>1, OwnsMoves
    <3>4. \/ Grant(r) /\ pc[r] \in {"try", "select"}
          \/ \E e \in Errors : Fail(r, e)
          \/ /\ pc' = [pc EXCEPT ![r] = "select"] \/ pc' = [pc EXCEPT ![r] = "parked"]
             /\ at' = at
          \/ UNCHANGED <<pc, at>>
      BY <2>1, <2>3, <2>4
      DEF Run, Call, Try, Select, Finish, Release, TimerFires, Cancel, LimitError, Errors
    <3> QED BY <2>2, <3>1, <3>2, <3>3, <3>4
  <2>5. CASE s # r
    <3>1. Release(s)
      <4>1. pc \in [Requests -> Steps] /\ at \in [Requests -> Channels]
        BY <1>1 DEF IInv, StateOK
      <4> QED BY <2>2, <2>3, <2>5, <4>1
          DEF Run, Call, Try, Select, Grant, Fail, Finish, TimerFires, Cancel
    <3>2. PICK d \in Channels : d = at[s]
      BY <1>1 DEF IInv, StateOK
    <3>3. queue[d] # <<>> /\ r = Head(queue[d])
      <4>1. pc \in [Requests -> Steps] /\ at \in [Requests -> Channels]
        BY <1>1 DEF IInv, StateOK
      <4> QED BY <2>2, <2>5, <3>1, <3>2, <4>1 DEF Release
    <3>4. pc[r] = "parked" /\ at[r] = d
      <4>1. IsQueueOf(queue[d], ParkedAt(d))
        BY <1>1, QueueInvariant DEF IInv, StateOK
      <4>2. r \in ParkedAt(d)
        BY <3>3, <4>1, TailOfQueue
      <4> QED BY <4>2 DEF ParkedAt
    <3> QED BY <1>1, <3>3, <3>4
  <2> QED BY <2>4, <2>5
<1>2. IInv /\ [Next]_vars
      => [\A r \in Requests, c \in Channels :
            (InAcquire(r) /\ at[r] = c /\ Owns(r, c)')
            => IF pc[r] = "parked" THEN r = Head(queue[c]) ELSE queue[c] = <<>>]_vars
  BY <1>1
<1> QED BY <1>2, Invariant, PTL DEF Spec, FirstComeFirstServed
=============================================================================
