---------------------------- MODULE RuntimeProofs -----------------------------
(***************************************************************************)
(* Proofs about what runs beside the queue, for every value of the         *)
(* constants: each component keeps an invariant of its own, and a step of  *)
(* one leaves the others as they are.                                      *)
(***************************************************************************)
EXTENDS MCRuntime, TLAPS, FiniteSetTheorems

------------------------------------------------------------------------------
(* The semaphore of the renders.  Whoever waits is the end of the line of  *)
(* those who have come; whoever runs, or is woken, comes before them.      *)

LEMMA GateCounts ==
    ASSUME NEW S
    PROVE  Gate!Cardinality(S) = Cardinality(S) /\ (Gate!IsFiniteSet(S) <=> IsFiniteSet(S))
BY DEF Gate!Cardinality, Gate!IsFiniteSet, Cardinality, IsFiniteSet

Served == Len(arrived) - Len(waiting)

Came(c) == \E n \in 1 .. Served : arrived[n] = c

LineIsOrdered ==
    /\ \A m, n \in DOMAIN arrived : arrived[m] = arrived[n] => m = n
    /\ Len(waiting) <= Len(arrived)
    /\ \A k \in DOMAIN waiting : waiting[k] = arrived[Served + k]
    /\ \A c \in running : Came(c)
    /\ \A k \in DOMAIN woken : Came(woken[k]) /\ woken[k] \notin running

GateInv ==
    /\ Gate!TypeOK /\ Gate!Counted /\ Gate!NobodyWaitsInVain
    /\ Len(woken) \in {0, 1} /\ LineIsOrdered

LEMMA GateConstants ==
    /\ Places \in Nat \ {0}
    /\ \A S \in SUBSET Callers :
         IsFiniteSet(S) /\ Gate!Cardinality(S) = Cardinality(S) /\ Cardinality(S) \in Nat
<1>1. Places \in Nat \ {0} /\ IsFiniteSet(Callers)
  BY RuntimeAssumption, GateCounts DEF Gate!SemaphoreAssumption
<1> QED
  BY <1>1, GateCounts, FS_Subset, FS_CardinalityType

LEMMA GateInit == Gate!Init => GateInv
<1> SUFFICES ASSUME Gate!Init PROVE GateInv
  OBVIOUS
<1>1. Gate!Cardinality({}) = 0
  BY FS_EmptySet, GateCounts
<1>2. active = 0 /\ waiting = <<>> /\ woken = <<>> /\ running = {} /\ arrived = <<>>
  BY DEF Gate!Init
<1>3. Gate!TypeOK /\ Gate!Counted /\ Gate!NobodyWaitsInVain
  BY <1>1, <1>2, GateConstants DEF Gate!TypeOK, Gate!Counted, Gate!NobodyWaitsInVain
<1>4. LineIsOrdered
  BY <1>2 DEF LineIsOrdered
<1> QED
  BY <1>2, <1>3, <1>4 DEF GateInv

\* What a step finds: the lengths, and the counts.
LEMMA GateFacts ==
    ASSUME GateInv
    PROVE  /\ Len(arrived) \in Nat /\ Len(waiting) \in Nat /\ Len(woken) \in Nat
           /\ DOMAIN arrived = 1 .. Len(arrived) /\ DOMAIN waiting = 1 .. Len(waiting)
           /\ arrived \in Seq(Callers) /\ waiting \in Seq(Callers) /\ woken \in Seq(Callers)
           /\ Len(waiting) <= Len(arrived) /\ Served \in Nat
           /\ Served = Len(arrived) - Len(waiting)
           /\ running \subseteq Callers /\ IsFiniteSet(running)
           /\ Gate!Cardinality(running) = Cardinality(running)
           /\ active = Cardinality(running) /\ active \in Nat /\ active + Len(woken) <= Places
<1>1. running \subseteq Callers /\ active \in Nat
  BY DEF GateInv, Gate!TypeOK
<1>2. /\ Len(arrived) \in Nat /\ Len(waiting) \in Nat /\ Len(woken) \in Nat
      /\ DOMAIN arrived = 1 .. Len(arrived) /\ DOMAIN waiting = 1 .. Len(waiting)
      /\ arrived \in Seq(Callers) /\ waiting \in Seq(Callers) /\ woken \in Seq(Callers)
  BY DEF GateInv, Gate!TypeOK
<1>3. active = Cardinality(running) /\ active + Len(woken) <= Places
  BY <1>1, <1>2, GateConstants DEF GateInv, Gate!Counted
<1> QED
  BY <1>1, <1>2, <1>3, GateConstants DEF GateInv, LineIsOrdered, Served

LEMMA GateRun ==
    ASSUME GateInv, NEW c \in Callers, Gate!Run(c)
    PROVE  GateInv'
<1> DEFINE L == Len(arrived)
           W == Len(waiting)
<1>1. Places \in Nat \ {0}
  BY GateConstants
<1>2. woken = <<>> /\ woken' = <<>> /\ Len(woken) = 0 /\ Len(woken') = 0 /\ DOMAIN woken' = {}
  BY DEF Gate!Run, Gate!Settled
<1>3. /\ L \in Nat /\ W \in Nat /\ W <= L /\ DOMAIN arrived = 1 .. L /\ DOMAIN waiting = 1 .. W
      /\ arrived \in Seq(Callers) /\ waiting \in Seq(Callers) /\ Served = L - W
  BY GateFacts
<1>4. /\ arrived' = Append(arrived, c) /\ arrived' \in Seq(Callers)
      /\ Len(arrived') = L + 1 /\ DOMAIN arrived' = 1 .. L + 1
      /\ arrived'[L + 1] = c /\ \A n \in 1 .. L : arrived'[n] = arrived[n]
  BY <1>3 DEF Gate!Run
<1>5. \A n \in 1 .. L : arrived[n] # c
  BY <1>3 DEF Gate!Run, Gate!Seen
<1>6. \A m, n \in DOMAIN arrived' : arrived'[m] = arrived'[n] => m = n
  BY <1>3, <1>4, <1>5 DEF GateInv, LineIsOrdered
<1>7. CASE active >= Places
  <2>1. /\ waiting' = Append(waiting, c) /\ active' = active /\ running' = running
        /\ waiting' \in Seq(Callers) /\ Len(waiting') = W + 1 /\ DOMAIN waiting' = 1 .. W + 1
        /\ waiting'[W + 1] = c /\ \A k \in 1 .. W : waiting'[k] = waiting[k]
    <3>1. waiting' = Append(waiting, c) /\ active' = active /\ running' = running
      BY <1>7 DEF Gate!Run
    <3> QED
      BY <1>3, <3>1
  <2>2. Served' = L - W
    BY <1>3, <1>4, <2>1 DEF Served
  <2>3. \A k \in DOMAIN waiting' : waiting'[k] = arrived'[Served' + k]
    <3> SUFFICES ASSUME NEW k \in 1 .. W + 1 PROVE waiting'[k] = arrived'[L - W + k]
      BY <2>1, <2>2
    <3>1. CASE k = W + 1
      BY <3>1, <2>1, <1>3, <1>4
    <3>2. CASE k \in 1 .. W
      <4>1. waiting[k] = arrived[L - W + k]
        BY <3>2, <1>3 DEF GateInv, LineIsOrdered
      <4> QED
        BY <4>1, <3>2, <2>1, <1>3, <1>4
    <3> QED
      BY <3>1, <3>2, <1>3
  <2>4. \A d \in running' : Came(d)'
    <3>1. \A d \in running : \E n \in 1 .. L - W : arrived[n] = d
      BY <1>3 DEF GateInv, LineIsOrdered, Came
    <3> QED
      BY <3>1, <2>1, <2>2, <1>3, <1>4 DEF Came
  <2>5. LineIsOrdered'
    <3>1. Len(waiting') <= Len(arrived')
      BY <1>3, <1>4, <2>1
    <3> QED
      BY <3>1, <1>2, <1>6, <2>3, <2>4 DEF LineIsOrdered
  <2>6. Gate!TypeOK' /\ Gate!Counted' /\ Gate!NobodyWaitsInVain'
    BY <1>1, <1>2, <1>3, <1>4, <1>7, <2>1, GateFacts
       DEF GateInv, Gate!TypeOK, Gate!Counted, Gate!NobodyWaitsInVain
  <2> QED
    BY <2>5, <2>6, <1>2 DEF GateInv
<1>8. CASE ~(active >= Places)
  <2>1. active' = active + 1 /\ running' = running \cup {c} /\ waiting' = waiting
    BY <1>8 DEF Gate!Run
  <2>2. active \in Nat /\ active < Places
    BY <1>1, <1>8, GateFacts
  <2>3. waiting = <<>> /\ W = 0
    BY <1>1, <1>2, <1>3, <2>2 DEF GateInv, Gate!NobodyWaitsInVain
  <2>4. Served' = L + 1 /\ Served = L
    BY <1>3, <1>4, <2>1, <2>3 DEF Served
  <2>5. \A d \in running : \E n \in 1 .. L : arrived[n] = d
    BY <2>4 DEF GateInv, LineIsOrdered, Came
  <2>6. c \notin running
    BY <2>5, <1>5
  <2>7. running' \subseteq Callers /\ Cardinality(running') = Cardinality(running) + 1
    BY <2>1, <2>6, GateFacts, FS_AddElement
  <2>8. \A d \in running' : Came(d)'
    <3>1. \A d \in running : \E n \in 1 .. L + 1 : arrived'[n] = d
      BY <2>5, <1>3, <1>4
    <3>2. L + 1 \in 1 .. L + 1
      BY <1>3
    <3> QED
      BY <3>1, <3>2, <2>1, <2>4, <1>4 DEF Came
  <2>9. LineIsOrdered'
    BY <1>2, <1>3, <1>4, <1>6, <2>1, <2>3, <2>8 DEF LineIsOrdered
  <2>10. Gate!Counted'
    BY <1>1, <1>2, <2>1, <2>2, <2>7, GateFacts, GateCounts DEF Gate!Counted
  <2>11. Gate!TypeOK' /\ Gate!NobodyWaitsInVain'
    BY <1>2, <1>4, <2>1, <2>2, <2>3, <2>7, GateFacts
       DEF GateInv, Gate!TypeOK, Gate!NobodyWaitsInVain
  <2> QED
    BY <2>9, <2>10, <2>11, <1>2 DEF GateInv
<1> QED
  BY <1>7, <1>8

LEMMA GateResume == GateInv /\ Gate!Resume => GateInv'
<1> SUFFICES ASSUME GateInv, Gate!Resume PROVE GateInv'
  OBVIOUS
<1> DEFINE c == woken[1]
<1>1. Len(woken) = 1 /\ woken \in Seq(Callers) /\ c \in Callers
  <2>1. woken # <<>> /\ Len(woken) \in {0, 1}
    BY DEF GateInv, Gate!Resume
  <2>2. woken \in Seq(Callers)
    BY GateFacts
  <2>3. Len(woken) # 0
    BY <2>1, <2>2
  <2>4. Len(woken) = 1
    BY <2>1, <2>3
  <2> QED
    BY <2>2, <2>4
<1>2. /\ active' = active + 1 /\ running' = running \cup {c} /\ woken' = <<>>
      /\ waiting' = waiting /\ arrived' = arrived /\ Len(woken') = 0 /\ DOMAIN woken' = {}
  BY <1>1 DEF Gate!Resume
<1>3. c \notin running /\ Came(c)
  BY <1>1 DEF GateInv, LineIsOrdered
<1>4. running' \subseteq Callers /\ Cardinality(running') = Cardinality(running) + 1
  BY <1>1, <1>2, <1>3, GateFacts, FS_AddElement
<1>5. Served' = Served /\ \A d : Came(d)' <=> Came(d)
  BY <1>2 DEF Served, Came
<1>6. LineIsOrdered'
  BY <1>2, <1>3, <1>5 DEF GateInv, LineIsOrdered
<1>7. Gate!Counted'
  BY <1>1, <1>2, <1>4, GateFacts, GateCounts, GateConstants DEF Gate!Counted
<1>8. Gate!TypeOK' /\ Gate!NobodyWaitsInVain'
  BY <1>1, <1>2, <1>4, GateFacts, GateConstants DEF GateInv, Gate!TypeOK, Gate!NobodyWaitsInVain
<1> QED
  BY <1>2, <1>6, <1>7, <1>8 DEF GateInv

LEMMA GateLeave ==
    ASSUME GateInv, NEW c \in Callers, Gate!Leave(c)
    PROVE  GateInv'
<1> DEFINE L == Len(arrived)
           W == Len(waiting)
<1>1. Places \in Nat \ {0}
  BY GateConstants
<1>2. woken = <<>> /\ Len(woken) = 0 /\ c \in running /\ arrived' = arrived
  BY DEF Gate!Leave, Gate!Settled
<1>3. /\ L \in Nat /\ W \in Nat /\ W <= L /\ DOMAIN arrived = 1 .. L /\ DOMAIN waiting = 1 .. W
      /\ arrived \in Seq(Callers) /\ waiting \in Seq(Callers) /\ Served = L - W
  BY GateFacts
<1>4. /\ running' = running \ {c} /\ running' \subseteq Callers /\ active' = active - 1
      /\ Cardinality(running') = Cardinality(running) - 1 /\ active' \in Nat /\ active \in Nat
      /\ Cardinality(running') \in Nat
  <2>1. running' = running \ {c} /\ active' = active - 1 /\ running' \subseteq Callers
    BY GateFacts DEF Gate!Leave
  <2>2. Cardinality(running') = Cardinality(running) - 1
    BY <1>2, <2>1, GateFacts, FS_RemoveElement
  <2>3. Cardinality(running') \in Nat
    BY <2>1, GateConstants
  <2> QED
    BY <2>1, <2>2, <2>3, GateFacts
<1>5. \A k \in DOMAIN waiting : waiting[k] = arrived[L - W + k]
  BY <1>3 DEF GateInv, LineIsOrdered
<1>6. \A d \in running : \E n \in 1 .. L - W : arrived[n] = d
  BY <1>3 DEF GateInv, LineIsOrdered, Came
<1>7. CASE waiting = <<>>
  <2>1. waiting' = <<>> /\ woken' = <<>> /\ Len(woken') = 0 /\ DOMAIN woken' = {}
    BY <1>2, <1>7 DEF Gate!Leave, Gate!Wake
  <2>2. LineIsOrdered'
    BY <1>2, <1>3, <1>4, <1>6, <1>7, <2>1 DEF GateInv, LineIsOrdered, Served, Came
  <2>3. Gate!Counted'
    BY <1>4, <2>1, GateFacts, GateCounts, GateConstants DEF Gate!Counted
  <2>4. Gate!TypeOK' /\ Gate!NobodyWaitsInVain'
    BY <1>2, <1>4, <2>1, GateFacts DEF Gate!TypeOK, Gate!NobodyWaitsInVain
  <2> QED
    BY <2>1, <2>2, <2>3, <2>4 DEF GateInv
<1>8. CASE waiting # <<>>
  <2> DEFINE d == waiting[1]
  <2>1. W >= 1 /\ d \in Callers /\ 1 \in 1 .. W
    BY <1>3, <1>8
  <2>2. /\ waiting' = Tail(waiting) /\ woken' = <<d>> /\ Len(woken') = 1 /\ DOMAIN woken' = {1}
        /\ woken'[1] = d
    BY <1>2, <1>8, <1>3, <2>1 DEF Gate!Leave, Gate!Wake
  <2>3. /\ waiting' \in Seq(Callers) /\ Len(waiting') = W - 1 /\ DOMAIN waiting' = 1 .. W - 1
        /\ \A k \in 1 .. W - 1 : waiting'[k] = waiting[k + 1]
    BY <1>3, <1>8, <2>1, <2>2
  <2>4. Served' = L - W + 1
    BY <1>2, <1>3, <2>3 DEF Served
  <2>5. \A k \in DOMAIN waiting' : waiting'[k] = arrived'[Served' + k]
    <3> SUFFICES ASSUME NEW k \in 1 .. W - 1 PROVE waiting'[k] = arrived[L - W + 1 + k]
      BY <1>2, <2>3, <2>4
    <3>1. k + 1 \in 1 .. W /\ waiting'[k] = waiting[k + 1] /\ L - W + (k + 1) = L - W + 1 + k
      BY <2>3, <1>3
    <3> QED
      BY <3>1, <1>3, <1>5
  <2>6. d = arrived[L - W + 1] /\ L - W + 1 \in 1 .. L
    BY <1>3, <1>5, <2>1
  <2>7. d \notin running
    BY <2>6, <1>3, <1>6 DEF GateInv, LineIsOrdered
  <2>8. (\A k \in DOMAIN woken' : Came(woken[k])') /\ \A e \in running' : Came(e)'
    <3>1. 1 .. L - W \subseteq 1 .. L - W + 1 /\ L - W + 1 \in 1 .. L - W + 1
      BY <1>3
    <3> QED
      <4>1. \E n \in 1 .. Served' : arrived'[n] = d
        BY <3>1, <1>2, <2>4, <2>6
      <4>2. \A e \in running' : \E n \in 1 .. Served' : arrived'[n] = e
        BY <3>1, <1>2, <1>4, <1>6, <2>4
      <4> QED
        BY <4>1, <4>2, <2>2 DEF Came
  <2>9. LineIsOrdered'
    <3>1. \A m, n \in DOMAIN arrived' : arrived'[m] = arrived'[n] => m = n
      BY <1>2 DEF GateInv, LineIsOrdered
    <3>2. Len(waiting') <= Len(arrived')
      BY <1>2, <1>3, <2>3
    <3>3. \A k \in DOMAIN woken' : Came(woken[k])' /\ woken'[k] \notin running'
      BY <1>4, <2>2, <2>7, <2>8, Zenon
    <3> QED
      BY <3>1, <3>2, <3>3, <2>5, <2>8 DEF LineIsOrdered
  <2>10. Gate!Counted'
    BY <1>2, <1>4, <2>2, GateFacts, GateCounts, GateConstants DEF Gate!Counted
  <2>11. active + Len(woken) >= Places
    BY <1>8 DEF GateInv, Gate!NobodyWaitsInVain
  <2>12. Gate!TypeOK'
    BY <1>2, <1>4, <2>1, <2>2, <2>3, GateFacts DEF Gate!TypeOK
  <2>13. Gate!NobodyWaitsInVain'
    BY <1>1, <1>2, <1>4, <2>2, <2>11 DEF Gate!NobodyWaitsInVain
  <2> QED
    BY <2>2, <2>9, <2>10, <2>12, <2>13 DEF GateInv
<1> QED
  BY <1>7, <1>8

LEMMA GateStep == GateInv /\ [Gate!Next]_places => GateInv'
<1>1. ASSUME GateInv, UNCHANGED places PROVE GateInv'
  BY <1>1 DEF places, GateInv, Gate!TypeOK, Gate!Counted, Gate!NobodyWaitsInVain, LineIsOrdered,
              Served, Came
<1> QED
  BY <1>1, GateRun, GateResume, GateLeave DEF Gate!Next

LEMMA GateHolds ==
    ASSUME GateInv
    PROVE  Gate!AtMostLimit /\ Gate!NobodyWaitsInVain /\ Gate!InOrder
<1>1. Gate!AtMostLimit
  BY GateFacts, GateConstants DEF Gate!AtMostLimit
<1>2. Gate!InOrder
  <2> SUFFICES ASSUME NEW m \in DOMAIN arrived, NEW n \in DOMAIN arrived, m < n,
                      arrived[n] \in running \/ \E k \in DOMAIN woken : woken[k] = arrived[n],
                      NEW k \in DOMAIN waiting
               PROVE  waiting[k] # arrived[m]
    BY DEF Gate!InOrder
  <2>1. Came(arrived[n])
    BY DEF GateInv, LineIsOrdered
  <2>2. n \in 1 .. Served
    <3>1. PICK i \in 1 .. Served : arrived[i] = arrived[n]
      BY <2>1 DEF Came
    <3>2. i \in DOMAIN arrived
      BY GateFacts
    <3> QED
      BY <3>1, <3>2 DEF GateInv, LineIsOrdered
  <2>3. waiting[k] = arrived[Served + k] /\ Served + k \in DOMAIN arrived
    <3>1. Served + k \in DOMAIN arrived
      BY GateFacts
    <3> QED
      BY <3>1 DEF GateInv, LineIsOrdered
  <2>4. Served + k # m
    BY <2>2, GateFacts
  <2> QED
    BY <2>3, <2>4 DEF GateInv, LineIsOrdered
<1> QED
  BY <1>1, <1>2 DEF GateInv

------------------------------------------------------------------------------
(* The locks of the accounts.  The tasks of an account have a place each   *)
(* in its line, and those before one that has started are over.            *)

AccountOf == [t \in Tasks |-> IF t = CHOOSE first \in Tasks : TRUE THEN "reddit" ELSE "linkedin"]

Over(t) == phase[t] \in {"done", "thrown"}

LockTypes ==
    /\ after \in [Tasks -> Tasks \cup {None}]
    /\ last \in [{AccountOf[t] : t \in Tasks} -> Tasks \cup {None}]
    /\ phase \in [Tasks -> {"new", "waiting", "running", "done", "thrown"}]

\* Each task comes after the one it found under its account, at its head when
\* it found none.
Placed(place) ==
    \A t \in Tasks : IF phase[t] = "new" THEN place[t] = 0
                     ELSE IF after[t] = None THEN place[t] = 1
                     ELSE /\ AccountOf[after[t]] = AccountOf[t]
                          /\ place[after[t]] > 0 /\ place[t] = place[after[t]] + 1

OnePlaceEach(place) ==
    \A s, t \in Tasks : AccountOf[s] = AccountOf[t] /\ place[s] = place[t] /\ place[s] > 0 => s = t

\* The map holds the end of each line.
EndsWithLast(place) ==
    \A t \in Tasks :
        LET end == last[AccountOf[t]]
        IN /\ end # None => AccountOf[end] = AccountOf[t] /\ place[end] > 0
           /\ place[t] > 0 => end # None /\ place[t] <= place[end]

InTurn(place) ==
    \A s, t \in Tasks :
        AccountOf[s] = AccountOf[t] /\ place[s] > 0 /\ place[s] < place[t] /\ phase[t] # "waiting"
            => Over(s)

Line(place) == Placed(place) /\ OnePlaceEach(place) /\ EndsWithLast(place) /\ InTurn(place)

LocksInv == LockTypes /\ \E place \in [Tasks -> Nat] : Line(place)

LEMMA LocksInit == Locks!Init => LocksInv
<1> SUFFICES ASSUME Locks!Init PROVE LocksInv
  OBVIOUS
<1>1. LockTypes
  BY DEF Locks!Init, Locks!Accounts, LockTypes, AccountOf
<1> DEFINE place == [t \in Tasks |-> 0]
<1>2. place \in [Tasks -> Nat] /\ \A t \in Tasks : place[t] = 0 /\ phase[t] = "new"
  BY DEF Locks!Init
<1>3. \A t \in Tasks : last[AccountOf[t]] = None
  BY DEF Locks!Init, Locks!Accounts, AccountOf
<1> HIDE DEF place
<1>4. Line(place)
  BY <1>2, <1>3 DEF Line, Placed, OnePlaceEach, EndsWithLast, InTurn
<1> QED
  BY <1>1, <1>2, <1>4 DEF LocksInv

LEMMA LocksRun ==
    ASSUME LocksInv, NEW t \in Tasks, Locks!Run(t)
    PROVE  LocksInv'
<1> DEFINE a == AccountOf[t]
           end == last[a]
<1>1. /\ phase[t] = "new" /\ after' = [after EXCEPT ![t] = end]
      /\ last' = [last EXCEPT ![a] = t] /\ phase' = [phase EXCEPT ![t] = "waiting"]
  BY DEF Locks!Run, Locks!Previous, AccountOf
<1>2. None \notin Tasks /\ end \in Tasks \cup {None} /\ a \in {AccountOf[s] : s \in Tasks} /\ LockTypes
  BY RuntimeAssumption DEF Locks!LocksAssumption, LocksInv, LockTypes
<1>3. LockTypes'
  BY <1>1, <1>2 DEF LockTypes
<1>4. PICK place \in [Tasks -> Nat] : Line(place)
  BY DEF LocksInv
<1>o. PICK own \in Nat \ {0} : own = IF end = None THEN 1 ELSE place[end] + 1
  BY <1>2
<1>n. PICK next \in [Tasks -> Nat] : next = [place EXCEPT ![t] = own]
  BY <1>4
<1>5. /\ place[t] = 0
      /\ next[t] = own /\ \A s \in Tasks \ {t} : next[s] = place[s]
  BY <1>1, <1>2, <1>4, <1>n DEF Line, Placed
<1>6. \A s \in Tasks : AccountOf[s] = a => place[s] < own
  BY <1>2, <1>4, <1>o DEF Line, EndsWithLast
<1>7. end # None => end \in Tasks \ {t} /\ AccountOf[end] = a /\ place[end] > 0
  BY <1>2, <1>4, <1>5 DEF Line, EndsWithLast
<1>8. /\ \A s \in Tasks \ {t} : phase'[s] = phase[s] /\ after'[s] = after[s]
      /\ phase'[t] = "waiting" /\ after'[t] = end
      /\ \A s \in Tasks : last'[AccountOf[s]] = IF AccountOf[s] = a THEN t ELSE last[AccountOf[s]]
  BY <1>1, <1>2 DEF LockTypes
<1>9. \A s \in Tasks \ {t} : after[s] # t \/ phase[s] = "new"
  BY <1>2, <1>4, <1>5 DEF Line, Placed
<1> HIDE DEF end, a
<1>10. \A s \in Tasks : after[s] \in Tasks \cup {None} /\ place[s] \in Nat
  BY <1>2, <1>4 DEF LockTypes
<1>11. Placed(next)'
  <2> SUFFICES ASSUME NEW s \in Tasks
               PROVE  IF phase'[s] = "new" THEN next[s] = 0
                      ELSE IF after'[s] = None THEN next[s] = 1
                      ELSE /\ AccountOf[after'[s]] = AccountOf[s]
                           /\ next[after'[s]] > 0 /\ next[s] = next[after'[s]] + 1
    BY DEF Placed
  <2>1. CASE s = t
    BY <2>1, <1>2, <1>5, <1>7, <1>8, <1>o DEF a
  <2>2. CASE s # t
    BY <2>2, <1>2, <1>4, <1>5, <1>8, <1>9, <1>10 DEF Line, Placed
  <2> QED
    BY <2>1, <2>2
<1>12. OnePlaceEach(next)'
  BY <1>4, <1>5, <1>6, <1>10 DEF Line, OnePlaceEach, a
<1>13. EndsWithLast(next)'
  <2> SUFFICES ASSUME NEW s \in Tasks
               PROVE  LET e == last'[AccountOf[s]]
                      IN /\ e # None => AccountOf[e] = AccountOf[s] /\ next[e] > 0
                         /\ next[s] > 0 => e # None /\ next[s] <= next[e]
    BY DEF EndsWithLast
  <2>1. CASE AccountOf[s] = a
    <3>1. last'[AccountOf[s]] = t /\ AccountOf[t] = AccountOf[s]
      BY <2>1, <1>8 DEF a
    <3>2. next[s] <= own
      BY <2>1, <1>5, <1>6, <1>10
    <3> QED
      BY <3>1, <3>2, <1>2, <1>5
  <2>2. CASE AccountOf[s] # a
    <3>1. last'[AccountOf[s]] = last[AccountOf[s]] /\ s # t /\ next[s] = place[s]
      BY <2>2, <1>5, <1>8 DEF a
    <3>2. last[AccountOf[s]] \in Tasks \cup {None}
      BY <1>2 DEF LockTypes
    <3>3. /\ last[AccountOf[s]] # None => /\ AccountOf[last[AccountOf[s]]] = AccountOf[s]
                                          /\ place[last[AccountOf[s]]] > 0
          /\ place[s] > 0 => last[AccountOf[s]] # None /\ place[s] <= place[last[AccountOf[s]]]
      BY <1>4 DEF Line, EndsWithLast
    <3>4. last[AccountOf[s]] # None => last[AccountOf[s]] \in Tasks \ {t}
      BY <2>2, <3>2, <3>3 DEF a
    <3> QED
      BY <3>1, <3>3, <3>4, <1>5
  <2> QED
    BY <2>1, <2>2
<1>14. InTurn(next)'
  BY <1>2, <1>4, <1>5, <1>6, <1>8, <1>10 DEF Line, InTurn, Over, a
<1> QED
  BY <1>3, <1>11, <1>12, <1>13, <1>14 DEF LocksInv, Line

\* A step that moves no task into the line or out of its place.
LEMMA LocksKeep ==
    ASSUME LocksInv, NEW t \in Tasks, UNCHANGED <<last, after>>, NEW to \in {"running", "done", "thrown"},
           phase' = [phase EXCEPT ![t] = to], phase[t] \in {"waiting", "running"},
           phase[t] = "waiting" => to = "running" /\ (after[t] # None => Over(after[t]))
    PROVE  LocksInv'
<1>1. None \notin Tasks /\ LockTypes
  BY RuntimeAssumption DEF Locks!LocksAssumption, LocksInv
<1>2. LockTypes'
  BY <1>1 DEF LockTypes
<1>3. PICK place \in [Tasks -> Nat] : Line(place)
  BY DEF LocksInv
<1>4. /\ \A s \in Tasks \ {t} : phase'[s] = phase[s]
      /\ phase'[t] = to /\ \A s \in Tasks : phase'[s] = "new" <=> phase[s] = "new"
      /\ \A s \in Tasks : Over(s) => Over(s)' \/ s = t
  BY <1>1 DEF LockTypes, Over
<1>5. \A s \in Tasks : after[s] \in Tasks \cup {None} /\ place[s] \in Nat
  BY <1>1, <1>3 DEF LockTypes
<1>6. Placed(place)' /\ OnePlaceEach(place)' /\ EndsWithLast(place)'
  BY <1>3, <1>4 DEF Line, Placed, OnePlaceEach, EndsWithLast
<1>7. \A s \in Tasks : AccountOf[s] = AccountOf[t] /\ place[s] > 0 /\ place[s] < place[t] => Over(s)
  <2> SUFFICES ASSUME NEW s \in Tasks, AccountOf[s] = AccountOf[t], place[s] > 0, place[s] < place[t]
               PROVE  Over(s)
    OBVIOUS
  <2>1. CASE phase[t] # "waiting"
    BY <2>1, <1>3 DEF Line, InTurn
  <2>2. CASE phase[t] = "waiting"
    <3>1. /\ after[t] # None /\ AccountOf[after[t]] = AccountOf[t] /\ place[after[t]] > 0
          /\ place[t] = place[after[t]] + 1 /\ after[t] \in Tasks
      BY <2>2, <1>3, <1>5 DEF Line, Placed
    <3>2. CASE place[s] = place[after[t]]
      BY <3>1, <3>2, <2>2, <1>3 DEF Line, OnePlaceEach
    <3>3. CASE place[s] < place[after[t]]
      BY <3>1, <3>3, <2>2, <1>3 DEF Line, InTurn, Over
    <3> QED
      BY <3>1, <3>2, <3>3, <1>5
  <2> QED
    BY <2>1, <2>2
<1>8. InTurn(place)'
  <2> SUFFICES ASSUME NEW s \in Tasks, NEW u \in Tasks, AccountOf[s] = AccountOf[u],
                      place[s] > 0, place[s] < place[u], phase'[u] # "waiting"
               PROVE  Over(s)'
    BY DEF InTurn
  <2>1. Over(s)
    BY <1>3, <1>4, <1>7 DEF Line, InTurn
  <2>2. s # t
    BY <2>1 DEF Over
  <2> QED
    BY <2>1, <2>2, <1>4
<1> QED
  BY <1>2, <1>3, <1>6, <1>8 DEF LocksInv, Line

LEMMA LocksStep == LocksInv /\ [Locks!Next]_locks => LocksInv'
<1>1. ASSUME LocksInv, UNCHANGED locks PROVE LocksInv'
  BY <1>1 DEF locks, LocksInv, LockTypes, Line, Placed, OnePlaceEach, EndsWithLast, InTurn, Over
<1>2. ASSUME LocksInv, NEW t \in Tasks, Locks!Start(t) PROVE LocksInv'
  BY <1>2, LocksKeep DEF Locks!Start, Locks!MayStart, Locks!Settled, Over
<1>3. ASSUME LocksInv, NEW t \in Tasks, NEW how \in {"done", "thrown"}, Locks!End(t, how)
      PROVE  LocksInv'
  BY <1>3, LocksKeep DEF Locks!End
<1> QED
  BY <1>1, <1>2, <1>3, LocksRun DEF Locks!Next

LEMMA LocksHold == LocksInv => Locks!TypeOK /\ Locks!OneTaskPerAccount
<1> SUFFICES ASSUME LocksInv PROVE Locks!TypeOK /\ Locks!OneTaskPerAccount
  OBVIOUS
<1>1. Locks!TypeOK
  BY DEF LocksInv, LockTypes, Locks!TypeOK, Locks!Accounts, AccountOf
<1>2. PICK place \in [Tasks -> Nat] : Line(place)
  BY DEF LocksInv
<1>3. ASSUME NEW s \in Tasks, NEW t \in Tasks, phase[s] = "running", phase[t] = "running",
             AccountOf[s] = AccountOf[t]
      PROVE  s = t
  <2>1. place[s] \in Nat \ {0} /\ place[t] \in Nat \ {0}
    <3>1. \A u \in Tasks : phase[u] = "running" => place[u] # 0
      <4> SUFFICES ASSUME NEW u \in Tasks, phase[u] = "running" PROVE place[u] # 0
        OBVIOUS
      <4>1. after[u] \in Tasks \cup {None}
        BY DEF LocksInv, LockTypes
      <4> QED
        BY <4>1, <1>2 DEF Line, Placed
    <3> QED
      BY <3>1, <1>2, <1>3
  <2>2. ~(place[s] < place[t]) /\ ~(place[t] < place[s])
    BY <2>1, <1>2, <1>3 DEF Line, InTurn, Over
  <2> QED
    BY <2>1, <2>2, <1>2, <1>3 DEF Line, OnePlaceEach
<1> QED
  BY <1>1, <1>3 DEF Locks!OneTaskPerAccount, AccountOf

------------------------------------------------------------------------------
(* The programs.  A signal has a cause that the answer looks at, and each  *)
(* cause starts one timer of SIGKILL.                                      *)

ProcessTypes ==
    /\ child \in {"none", "running", "exited", "closed"}
    /\ exit \in {"none", "ok", "failed", "killed"}
    /\ signal \in {"none", "SIGTERM", "SIGKILL"} /\ kills \in Nat
    /\ limit \in {"off", "armed", "fired", "cleared"} /\ abort \in {"no", "heard", "ignored"}
    /\ outcome \in {"pending", "done", "internal", "transient"}

Cause == limit = "fired" \/ abort = "heard"

ProcessInv ==
    /\ ProcessTypes
    /\ outcome # "pending" <=> child = "closed"
    /\ child = "none" => limit = "off" /\ abort = "no" /\ kills = 0 /\ signal = "none"
    /\ child = "closed" => limit # "armed"
    /\ kills > 0 => Cause
    /\ kills > 1 => limit = "fired" /\ abort = "heard"
    /\ kills <= 2
    /\ signal # "none" => Cause
    /\ outcome # "pending" /\ Cause => outcome = "transient"

LEMMA ProcessInit == Process!Init => ProcessInv
BY DEF Process!Init, ProcessInv, ProcessTypes, Cause

LEMMA ProcessStep == ProcessInv /\ [Process!Next]_process => ProcessInv'
<1> SUFFICES ASSUME ProcessInv, [Process!Next]_process PROVE ProcessInv'
  OBVIOUS
<1> USE DEF ProcessInv, ProcessTypes, Cause
<1>1. CASE UNCHANGED process
  BY <1>1 DEF process
<1>2. ASSUME NEW heedless \in BOOLEAN, Process!Spawn(heedless) PROVE ProcessInv'
  BY <1>2 DEF Process!Spawn
<1>3. CASE Process!TimeOut
  BY <1>3 DEF Process!TimeOut, Process!Stop
<1>4. CASE Process!Abort
  BY <1>4 DEF Process!Abort, Process!Stop
<1>5. CASE Process!Insist
  BY <1>5 DEF Process!Insist, Process!Stop
<1>6. CASE Process!Close
  <2>1. /\ outcome' \in {"done", "internal", "transient"}
        /\ Cause => outcome' = "transient"
    BY <1>6 DEF Process!Close, Process!Meaning
  <2>2. /\ child = "exited" /\ child' = "closed" /\ limit' \in {"fired", "cleared"}
        /\ limit' = "fired" <=> limit = "fired"
        /\ UNCHANGED <<exit, stubborn, killed, signal, abort, kills>>
    BY <1>6 DEF Process!Close
  <2> QED
    BY <2>1, <2>2
<1>7. ASSUME NEW how \in {"ok", "failed", "killed"}, Process!Exit(how) PROVE ProcessInv'
  BY <1>7 DEF Process!Exit
<1> QED
  BY <1>1, <1>2, <1>3, <1>4, <1>5, <1>6, <1>7 DEF Process!Next

LEMMA ProcessHolds == ProcessInv => Process!TypeOK /\ Process!InterruptedIsRetried
BY DEF ProcessInv, ProcessTypes, Cause, Process!TypeOK, Process!InterruptedIsRetried

------------------------------------------------------------------------------
(* The client of the platforms.  Only a request that may be replayed leaves *)
(* twice.                                                                  *)

ClientInv ==
    /\ Client!TypeOK
    /\ doing \in {"ready", "waiting", "sleeping", "done"}
    /\ doing = "ready" => sends = 0
    /\ doing = "sleeping" => replayable /\ sends < MaxSends
    /\ ~replayable => sends <= 1

LEMMA ClientInit == Client!Init => ClientInv
<1>1. 0 \in 0 .. MaxSends /\ 0 \in 0 .. 0
  BY RuntimeAssumption DEF Client!ClientAssumption
<1>2. Client!Init => sends <= 1
  BY DEF Client!Init
<1> QED
  BY <1>1, <1>2, Zenon DEF Client!Init, ClientInv, Client!TypeOK

LEMMA ClientStep == ClientInv /\ [Client!Next]_client => ClientInv'
<1> SUFFICES ASSUME ClientInv, [Client!Next]_client PROVE ClientInv'
  OBVIOUS
<1> MaxSends \in Nat \ {0}
  BY RuntimeAssumption DEF Client!ClientAssumption
<1> USE DEF ClientInv, Client!TypeOK
<1>1. CASE UNCHANGED client
  BY <1>1 DEF client
<1>2. CASE Client!Send
  BY <1>2 DEF Client!Send
<1>3. CASE Client!Arrive
  BY <1>3 DEF Client!Arrive
<1>4. ASSUME NEW event \in Client!Events, Client!Hear(event) PROVE ClientInv'
  <2>1. Client!HttpOutcome(event, replayable) \in {"response", "ambiguous", "network_error"}
    BY DEF Client!HttpOutcome
  <2> QED
    BY <1>4, <2>1 DEF Client!Hear, Client!MayRetry
<1> QED
  BY <1>1, <1>2, <1>3, <1>4 DEF Client!Next, Client!Hears

LEMMA ClientHolds == ClientInv => Client!TypeOK /\ Client!PostedOnce
BY DEF ClientInv, Client!TypeOK, Client!PostedOnce

------------------------------------------------------------------------------
(* The journal of a job.  A run may only insert a number up to the next    *)
(* one, and a stream has the first numbers of the journal.                 *)

RunRow == [pc : {"idle", "work", "read", "insert"}, kind : Events!Kinds, number : Nat, left : BOOLEAN]

StreamRow == [pc : {"new", "open", "look", "done"}, fresh : Nat, sent : Seq(Nat)]

EventsTypes ==
    /\ status \in {"queued", "running", "completed", "failed"} /\ attempt \in Nat /\ expiries \in Nat
    /\ log \in Seq(Nat) /\ writing \in [Writers -> RunRow] /\ streams \in [Clients -> StreamRow]

\* A sequence that counts from one.
Counts(seq) == \A n \in 1 .. Len(seq) : seq[n] = n

ClaimsAreCounted ==
    /\ expiries <= MaxExpiries /\ attempt <= MaxAttempts + expiries
    /\ status = "queued" => attempt < MaxAttempts + expiries

NumbersFollow == \A w \in Writers : writing[w].pc = "insert" => writing[w].number \in 1 .. Len(log) + 1

StreamsFollow ==
    \A s \in Clients : Len(streams[s].sent) <= Len(log) /\ Counts(streams[s].sent)

Working(w) ==
    \/ writing[w].pc = "work"
    \/ writing[w].pc \in {"read", "insert"} /\ writing[w].kind = "log"

\* The handlers that go on when the job is completed have lost it.
OthersHaveLeft ==
    status = "completed" /\ ~collided => \A w \in Writers : Working(w) => writing[w].left

EventsInv ==
    EventsTypes /\ Counts(log) /\ ClaimsAreCounted /\ NumbersFollow /\ StreamsFollow /\ OthersHaveLeft

LEMMA EventsConstants ==
    /\ FirstPage \in Nat \ {0} /\ Page \in Nat \ {0} /\ MaxLog \in Nat
    /\ MaxAttempts \in Nat \ {0} /\ MaxExpiries \in Nat
BY RuntimeAssumption DEF Events!EventsAssumption

LEMMA EventsInit == Events!Init => EventsInv
<1> SUFFICES ASSUME Events!Init PROVE EventsInv
  OBVIOUS
<1>1. <<>> \in Seq(Nat) /\ Len(<<>>) = 0
  OBVIOUS
<1> QED
  BY <1>1, EventsConstants
     DEF Events!Init, Events!Idle, Events!Kinds, EventsInv, EventsTypes, RunRow, StreamRow, Counts,
         ClaimsAreCounted, NumbersFollow, StreamsFollow, OthersHaveLeft

LEMMA LeavesRows ==
    ASSUME EventsTypes, NEW w \in Writers, NEW kind \in Events!Kinds, Events!Leaves(w, kind)
    PROVE  /\ writing' \in [Writers -> RunRow]
           /\ writing'[w].pc = "read" /\ writing'[w].kind = kind
           /\ \A v \in Writers \ {w} : /\ writing'[v].pc = writing[v].pc
                                       /\ writing'[v].kind = writing[v].kind
                                       /\ writing'[v].number = writing[v].number
                                       /\ writing'[v].left = (writing[v].pc # "idle")
BY DEF EventsTypes, RunRow, Events!Leaves

LEMMA AppendsRows ==
    ASSUME EventsTypes, NEW w \in Writers, NEW kind \in Events!Kinds, Events!Appends(w, kind)
    PROVE  /\ writing' \in [Writers -> RunRow]
           /\ writing'[w].pc = "read" /\ writing'[w].kind = kind
           /\ writing'[w].left = writing[w].left
           /\ \A v \in Writers \ {w} : writing'[v] = writing[v]
BY DEF EventsTypes, RunRow, Events!Appends

LEMMA EventsClaim ==
    ASSUME EventsInv, NEW w \in Writers, Events!Claim(w)
    PROVE  EventsInv'
<1>1. writing' \in [Writers -> RunRow] /\ writing'[w].pc = "work"
      /\ \A v \in Writers \ {w} : writing'[v] = writing[v]
  BY DEF EventsInv, EventsTypes, RunRow, Events!Claim
<1>2. EventsTypes' /\ ClaimsAreCounted' /\ OthersHaveLeft'
  BY <1>1, EventsConstants
     DEF EventsInv, EventsTypes, ClaimsAreCounted, OthersHaveLeft, Events!Claim
<1>3. NumbersFollow' /\ StreamsFollow' /\ Counts(log)'
  BY <1>1 DEF EventsInv, NumbersFollow, StreamsFollow, Counts, Events!Claim
<1> QED
  BY <1>2, <1>3 DEF EventsInv

LEMMA EventsLog ==
    ASSUME EventsInv, NEW w \in Writers, Events!Log(w)
    PROVE  EventsInv'
<1>1. /\ EventsTypes /\ "log" \in Events!Kinds /\ Events!Appends(w, "log")
      /\ writing[w].pc = "work" /\ UNCHANGED <<status, attempt, log, streams, expiries, collided>>
  BY DEF EventsInv, Events!Kinds, Events!Log, Events!At
<1>2. /\ writing' \in [Writers -> RunRow] /\ writing'[w].pc = "read"
      /\ writing'[w].left = writing[w].left
      /\ \A v \in Writers \ {w} : writing'[v] = writing[v]
  BY <1>1, AppendsRows
<1>3. EventsTypes' /\ ClaimsAreCounted'
  BY <1>1, <1>2 DEF EventsInv, EventsTypes, ClaimsAreCounted
<1>4. OthersHaveLeft'
  BY <1>1, <1>2 DEF EventsInv, OthersHaveLeft, Working
<1>5. NumbersFollow' /\ StreamsFollow' /\ Counts(log)'
  BY <1>1, <1>2 DEF EventsInv, NumbersFollow, StreamsFollow, Counts
<1> QED
  BY <1>3, <1>4, <1>5 DEF EventsInv

LEMMA EventsComplete ==
    ASSUME EventsInv, NEW w \in Writers, Events!Complete(w)
    PROVE  EventsInv'
<1>1. /\ EventsTypes /\ "done" \in Events!Kinds /\ "done" # "log" /\ Events!Leaves(w, "done")
      /\ status' = "completed" /\ UNCHANGED <<attempt, log, streams, expiries, collided>>
  BY DEF EventsInv, Events!Kinds, Events!Complete
<1>2. /\ writing' \in [Writers -> RunRow] /\ writing'[w].pc = "read" /\ writing'[w].kind = "done"
      /\ \A v \in Writers \ {w} : /\ writing'[v].pc = writing[v].pc
                                  /\ writing'[v].kind = writing[v].kind
                                  /\ writing'[v].number = writing[v].number
                                  /\ writing'[v].left = (writing[v].pc # "idle")
  BY <1>1, LeavesRows
<1>3. EventsTypes' /\ ClaimsAreCounted'
  BY <1>1, <1>2 DEF EventsInv, EventsTypes, ClaimsAreCounted
<1>4. OthersHaveLeft'
  BY <1>1, <1>2 DEF OthersHaveLeft, Working
<1>5. NumbersFollow' /\ StreamsFollow' /\ Counts(log)'
  BY <1>1, <1>2 DEF EventsInv, NumbersFollow, StreamsFollow, Counts
<1> QED
  BY <1>3, <1>4, <1>5 DEF EventsInv

LEMMA EventsReclaim ==
    ASSUME EventsInv, NEW w \in Writers, Events!Reclaim(w)
    PROVE  EventsInv'
<1>1. /\ EventsTypes /\ "reclaim" \in Events!Kinds /\ Events!Leaves(w, "reclaim")
      /\ status' = "queued" /\ expiries' = expiries + 1 /\ expiries < MaxExpiries
      /\ UNCHANGED <<attempt, log, streams, collided>>
  BY DEF EventsInv, Events!Kinds, Events!Reclaim
<1>2. /\ writing' \in [Writers -> RunRow] /\ writing'[w].pc = "read"
      /\ \A v \in Writers \ {w} : /\ writing'[v].pc = writing[v].pc
                                  /\ writing'[v].number = writing[v].number
  BY <1>1, LeavesRows
<1>3. EventsTypes' /\ ClaimsAreCounted'
  BY <1>1, <1>2, EventsConstants DEF EventsInv, EventsTypes, ClaimsAreCounted
<1>4. OthersHaveLeft'
  BY <1>1 DEF OthersHaveLeft
<1>5. NumbersFollow' /\ StreamsFollow' /\ Counts(log)'
  BY <1>1, <1>2 DEF EventsInv, NumbersFollow, StreamsFollow, Counts
<1> QED
  BY <1>3, <1>4, <1>5 DEF EventsInv

\* The failure of a run, whatever it was about to write.
LEMMA EventsFails ==
    ASSUME EventsInv, NEW w \in Writers, Events!Fails(w),
           UNCHANGED <<attempt, log, streams, expiries>>
    PROVE  EventsInv'
<1>1. PICK kind \in {"retry", "failed"} :
        /\ Events!Appends(w, kind) /\ status' \in {"queued", "failed"}
        /\ status' = "queued" => attempt < MaxAttempts
  BY DEF Events!Fails
<1>2. EventsTypes /\ kind \in Events!Kinds
  BY DEF EventsInv, Events!Kinds
<1>3. /\ writing' \in [Writers -> RunRow] /\ writing'[w].pc = "read"
      /\ \A v \in Writers \ {w} : writing'[v] = writing[v]
  BY <1>1, <1>2, AppendsRows
<1>4. EventsTypes' /\ ClaimsAreCounted'
  BY <1>1, <1>3, EventsConstants DEF EventsInv, EventsTypes, ClaimsAreCounted
<1>5. OthersHaveLeft'
  BY <1>1 DEF OthersHaveLeft
<1>6. NumbersFollow' /\ StreamsFollow' /\ Counts(log)'
  BY <1>3 DEF EventsInv, NumbersFollow, StreamsFollow, Counts
<1> QED
  BY <1>4, <1>5, <1>6 DEF EventsInv

LEMMA EventsRead ==
    ASSUME EventsInv, NEW w \in Writers, Events!Read(w)
    PROVE  EventsInv'
<1>1. /\ writing' \in [Writers -> RunRow] /\ writing'[w].number = Len(log) + 1 /\ Len(log) \in Nat
      /\ writing'[w].kind = writing[w].kind /\ writing'[w].left = writing[w].left
      /\ writing[w].pc = "read" /\ writing'[w].pc = "insert"
      /\ \A v \in Writers \ {w} : writing'[v] = writing[v]
      /\ UNCHANGED <<status, attempt, log, streams, expiries, collided>>
  <2>1. Len(log) \in Nat /\ Len(log) + 1 \in Nat /\ writing \in [Writers -> RunRow]
    BY DEF EventsInv, EventsTypes
  <2> QED
    BY <2>1 DEF RunRow, Events!Read, Events!At
<1>2. EventsTypes' /\ ClaimsAreCounted' /\ StreamsFollow' /\ Counts(log)'
  BY <1>1 DEF EventsInv, EventsTypes, ClaimsAreCounted, StreamsFollow, Counts
<1>3. NumbersFollow'
  BY <1>1 DEF EventsInv, NumbersFollow
<1>4. OthersHaveLeft'
  BY <1>1 DEF EventsInv, OthersHaveLeft, Working
<1> QED
  BY <1>2, <1>3, <1>4 DEF EventsInv

LEMMA EventsInsert ==
    ASSUME EventsInv, NEW w \in Writers, Events!Insert(w)
    PROVE  EventsInv'
<1> DEFINE number == writing[w].number
<1>1. /\ writing[w].pc = "insert" /\ \A n \in DOMAIN log : log[n] # number
      /\ log' = Append(log, number)
      /\ writing' = [writing EXCEPT ![w] = IF writing[w].kind = "log" THEN [@ EXCEPT !.pc = "work"]
                                           ELSE Events!Idle]
      /\ UNCHANGED <<status, attempt, streams, expiries, collided>>
  BY DEF Events!Insert, Events!At, Events!Free
<1>2. log \in Seq(Nat) /\ Len(log) \in Nat /\ Counts(log) /\ writing \in [Writers -> RunRow]
  BY DEF EventsInv, EventsTypes
<1>3. number = Len(log) + 1
  <2>1. number \in 1 .. Len(log) + 1
    BY <1>1 DEF EventsInv, NumbersFollow
  <2> QED
    BY <1>1, <1>2, <2>1 DEF Counts
<1>4. log' \in Seq(Nat) /\ Len(log') = Len(log) + 1 /\ Counts(log)'
  BY <1>1, <1>2, <1>3 DEF Counts
<1>5. /\ writing' \in [Writers -> RunRow]
      /\ \A v \in Writers \ {w} : writing'[v] = writing[v]
      /\ \/ writing'[w].pc = "idle"
         \/ writing'[w].pc = "work" /\ writing[w].kind = "log" /\ writing'[w].left = writing[w].left
  BY <1>1, <1>2 DEF RunRow, Events!Idle, Events!Kinds
<1>6. EventsTypes' /\ ClaimsAreCounted'
  BY <1>1, <1>4, <1>5 DEF EventsInv, EventsTypes, ClaimsAreCounted
<1>7. StreamsFollow'
  BY <1>1, <1>2, <1>4 DEF EventsInv, EventsTypes, StreamRow, StreamsFollow
<1>8. NumbersFollow'
  BY <1>2, <1>4, <1>5 DEF EventsInv, NumbersFollow
<1>9. OthersHaveLeft'
  BY <1>1, <1>5 DEF EventsInv, OthersHaveLeft, Working
<1> QED
  BY <1>4, <1>6, <1>7, <1>8, <1>9 DEF EventsInv

LEMMA EventsRefused ==
    ASSUME EventsInv, NEW w \in Writers, Events!Refused(w)
    PROVE  EventsInv'
<1>1. CASE Events!Fails(w)
  BY <1>1, EventsFails DEF Events!Refused
<1>2. CASE ~Events!Fails(w)
  <2>1. /\ writing' = [writing EXCEPT ![w] = Events!Idle]
        /\ UNCHANGED <<status, attempt, log, streams, expiries>> /\ collided' = TRUE
    BY <1>2 DEF Events!Refused
  <2>2. /\ writing' \in [Writers -> RunRow] /\ writing'[w].pc = "idle"
        /\ \A v \in Writers \ {w} : writing'[v] = writing[v]
    BY <2>1 DEF EventsInv, EventsTypes, RunRow, Events!Idle, Events!Kinds
  <2>3. EventsTypes' /\ ClaimsAreCounted' /\ StreamsFollow' /\ Counts(log)'
    BY <2>1, <2>2 DEF EventsInv, EventsTypes, ClaimsAreCounted, StreamsFollow, Counts
  <2>4. NumbersFollow' /\ OthersHaveLeft'
    BY <2>1, <2>2 DEF EventsInv, NumbersFollow, OthersHaveLeft
  <2> QED
    BY <2>3, <2>4 DEF EventsInv
<1> QED
  BY <1>1, <1>2

LEMMA EventsCounts ==
    ASSUME NEW S
    PROVE  Events!Cardinality(S) = Cardinality(S)
BY DEF Events!Cardinality, Cardinality

LEMMA IntervalSize ==
    ASSUME NEW a \in Nat, NEW b \in Nat, a <= b
    PROVE  Events!Cardinality(a + 1 .. b) = b - a
<1>1. a + 1 \in Int /\ b \in Int
  OBVIOUS
<1>2. Cardinality(a + 1 .. b) = IF a + 1 > b THEN 0 ELSE b - (a + 1) + 1
  BY <1>1, FS_Interval, Zenon
<1>3. (IF a + 1 > b THEN 0 ELSE b - (a + 1) + 1) = b - a
  OBVIOUS
<1> QED
  BY <1>2, <1>3, EventsCounts

\* A page of the journal counts on from the number it follows.
LEMMA PageCounts ==
    ASSUME NEW journal \in Seq(Nat), Counts(journal), NEW past \in 0 .. Len(journal),
           NEW size \in Nat
    PROVE  LET page == Events!Listed(journal, past, size)
           IN /\ page \in Seq(Nat) /\ Len(page) + past <= Len(journal)
              /\ \A k \in 1 .. Len(page) : page[k] = past + k
<1> DEFINE L == Len(journal)
           next == past + 1 .. L
           count == Events!PageOf(next, size)
<1>1. L \in Nat /\ past \in Nat /\ past <= L /\ DOMAIN journal = 1 .. L
  OBVIOUS
<1>2. Events!Later(journal, past) = next
  <2>1. \A n \in 1 .. L : journal[n] = n
    BY DEF Counts
  <2> QED
    BY <1>1, <2>1 DEF Events!Later
<1>3. Events!Cardinality(next) = L - past
  BY <1>1, IntervalSize
<1>4. count \in Nat /\ past + count <= L
  BY <1>1, <1>3 DEF Events!PageOf
<1>5. \A k \in 1 .. count : Events!Nth(next, k) = past + k
  <2> SUFFICES ASSUME NEW k \in 1 .. count PROVE Events!Nth(next, k) = past + k
    OBVIOUS
  <2>1. ASSUME NEW number \in next
        PROVE  Events!Cardinality({m \in next : m < number}) = number - 1 - past
    <3>1. number - 1 \in Nat /\ past <= number - 1
      BY <1>1, <2>1
    <3>2. {m \in next : m < number} = past + 1 .. number - 1
      BY <1>1, <2>1
    <3> QED
      BY <1>1, <3>1, <3>2, IntervalSize
  <2>2. past + k \in next /\ k \in Nat
    BY <1>1, <1>4
  <2>3. \A number \in next :
          Events!Cardinality({m \in next : m < number}) = k - 1 <=> number = past + k
    <3> SUFFICES ASSUME NEW number \in next
                 PROVE  Events!Cardinality({m \in next : m < number}) = k - 1 <=> number = past + k
      OBVIOUS
    <3>1. Events!Cardinality({m \in next : m < number}) = number - 1 - past /\ number \in Nat
      BY <1>1, <2>1
    <3> QED
      BY <1>1, <2>2, <3>1
  <2> HIDE DEF next, count
  <2> QED
    BY <2>2, <2>3 DEF Events!Nth
<1> HIDE DEF next, count
<1>6. Events!Listed(journal, past, size) = [k \in 1 .. count |-> Events!Nth(next, k)]
  BY <1>2 DEF Events!Listed, count
<1>7. Events!Listed(journal, past, size) = [k \in 1 .. count |-> past + k]
  BY <1>5, <1>6
<1>8. [k \in 1 .. count |-> past + k] \in Seq(Nat)
  BY <1>1, <1>4
<1> QED
  BY <1>1, <1>4, <1>7, <1>8

LEMMA JoinedSequences ==
    ASSUME NEW a \in Seq(Nat), NEW b \in Seq(Nat)
    PROVE  /\ a \o b \in Seq(Nat) /\ Len(a \o b) = Len(a) + Len(b)
           /\ \A k \in 1 .. Len(a) : (a \o b)[k] = a[k]
           /\ \A k \in Len(a) + 1 .. Len(a) + Len(b) : (a \o b)[k] = b[k - Len(a)]
OBVIOUS

LEMMA EventsSends ==
    ASSUME EventsInv, NEW s \in Clients, NEW pc \in {"new", "open", "look", "done"},
           NEW size \in Nat, Events!Sends(s, pc, size),
           UNCHANGED <<status, attempt, log, writing, expiries, collided>>
    PROVE  EventsInv'
<1> DEFINE old == streams[s].sent
           next == Events!Listed(log, Events!Last(s), size)
<1>1. /\ log \in Seq(Nat) /\ Counts(log) /\ streams \in [Clients -> StreamRow]
      /\ old \in Seq(Nat) /\ Len(old) \in Nat /\ Len(old) <= Len(log) /\ Counts(old) /\ Len(log) \in Nat
  BY DEF EventsInv, EventsTypes, StreamRow, StreamsFollow
<1>2. Events!Last(s) = Len(old)
  <2>1. CASE old = <<>>
    BY <2>1 DEF Events!Last
  <2>2. CASE old # <<>>
    <3>1. Len(old) # 0
      BY <1>1, <2>2
    <3> QED
      BY <1>1, <2>2, <3>1 DEF Events!Last, Counts
  <2> QED
    BY <2>1, <2>2
<1>3. Len(old) \in 0 .. Len(log)
  BY <1>1
<1>4. /\ next \in Seq(Nat) /\ Len(next) + Len(old) <= Len(log)
      /\ \A k \in 1 .. Len(next) : next[k] = Len(old) + k
  <2>1. next = Events!Listed(log, Len(old), size)
    BY <1>2
  <2> HIDE DEF next, old
  <2> QED
    BY <1>1, <1>3, <2>1, PageCounts
<1>5. streams' = [streams EXCEPT ![s] = [pc |-> pc, fresh |-> Len(next), sent |-> old \o next]]
  BY DEF Events!Sends
<1> HIDE DEF next, old
<1>6. /\ old \o next \in Seq(Nat) /\ Len(old \o next) = Len(old) + Len(next) /\ Len(next) \in Nat
      /\ \A k \in 1 .. Len(old) : (old \o next)[k] = old[k]
      /\ \A k \in Len(old) + 1 .. Len(old) + Len(next) : (old \o next)[k] = next[k - Len(old)]
  <2>1. Len(next) \in Nat
    BY <1>4
  <2> QED
    BY <1>1, <1>4, <2>1, JoinedSequences
<1>7. Counts(old \o next)
  <2> SUFFICES ASSUME NEW k \in 1 .. Len(old) + Len(next) PROVE (old \o next)[k] = k
    BY <1>6 DEF Counts
  <2>1. CASE k \in 1 .. Len(old)
    BY <2>1, <1>1, <1>6 DEF Counts
  <2>2. CASE k \in Len(old) + 1 .. Len(old) + Len(next)
    <3>1. k - Len(old) \in 1 .. Len(next)
      BY <2>2, <1>1, <1>6
    <3> QED
      BY <2>2, <3>1, <1>1, <1>4, <1>6
  <2> QED
    BY <2>1, <2>2, <1>1, <1>6
<1>8. streams' \in [Clients -> StreamRow]
  BY <1>1, <1>5, <1>6 DEF StreamRow
<1>9. StreamsFollow'
  <2> SUFFICES ASSUME NEW t \in Clients
               PROVE  Len(streams'[t].sent) <= Len(log) /\ Counts(streams'[t].sent)
    BY DEF StreamsFollow
  <2>1. CASE t = s
    <3>1. streams'[t].sent = old \o next
      BY <2>1, <1>1, <1>5
    <3> QED
      BY <3>1, <1>1, <1>4, <1>6, <1>7
  <2>2. CASE t # s
    <3>1. streams'[t] = streams[t]
      BY <2>2, <1>1, <1>5
    <3> QED
      BY <3>1 DEF EventsInv, StreamsFollow
  <2> QED
    BY <2>1, <2>2
<1>10. EventsTypes' /\ ClaimsAreCounted' /\ NumbersFollow' /\ OthersHaveLeft' /\ Counts(log)'
  BY <1>8 DEF EventsInv, EventsTypes, ClaimsAreCounted, NumbersFollow, OthersHaveLeft, Working, Counts
<1> QED
  BY <1>9, <1>10 DEF EventsInv

\* A stream that looks at the status, or drops, has what it had.
LEMMA EventsLooks ==
    ASSUME EventsInv, NEW s \in Clients, Events!Look(s) \/ Events!Drop(s)
    PROVE  EventsInv'
<1>1. UNCHANGED <<status, attempt, log, writing, expiries, collided>>
  BY DEF Events!Look, Events!Drop
<1>2. streams' \in [Clients -> StreamRow] /\ \A t \in Clients : streams'[t].sent = streams[t].sent
  <2>1. streams \in [Clients -> StreamRow]
    BY DEF EventsInv, EventsTypes
  <2>2. CASE Events!Look(s)
    <3>1. PICK pc \in {"done", "open"} : streams' = [streams EXCEPT ![s].pc = pc]
      BY <2>2 DEF Events!Look
    <3> QED
      BY <2>1, <3>1 DEF StreamRow
  <2>3. CASE Events!Drop(s)
    <3>1. streams' = [streams EXCEPT ![s].pc = "new", ![s].fresh = 0]
      BY <2>3 DEF Events!Drop
    <3> QED
      BY <2>1, <3>1 DEF StreamRow
  <2> QED
    BY <2>2, <2>3
<1>3. StreamsFollow'
  BY <1>1, <1>2 DEF EventsInv, StreamsFollow
<1> QED
  BY <1>1, <1>2, <1>3
     DEF EventsInv, EventsTypes, ClaimsAreCounted, NumbersFollow, OthersHaveLeft, Working, Counts

LEMMA EventsStep == EventsInv /\ [Events!Next]_events => EventsInv'
<1> SUFFICES ASSUME EventsInv, [Events!Next]_events PROVE EventsInv'
  OBVIOUS
<1>1. CASE UNCHANGED events
  BY <1>1 DEF events, EventsInv, EventsTypes, ClaimsAreCounted, NumbersFollow, StreamsFollow,
              OthersHaveLeft, Working, Counts
<1>2. ASSUME NEW w \in Writers, Events!Throw(w) PROVE EventsInv'
  BY <1>2, EventsFails DEF Events!Throw
<1>3. ASSUME NEW s \in Clients, Events!Open(s) \/ Events!Poll(s) PROVE EventsInv'
  <2>1. FirstPage \in Nat /\ Page \in Nat
    BY EventsConstants
  <2> QED
    BY <1>3, <2>1, EventsSends DEF Events!Open, Events!Poll
<1> QED
  BY <1>1, <1>2, <1>3, EventsClaim, EventsLog, EventsComplete, EventsReclaim, EventsRead,
     EventsInsert, EventsRefused, EventsLooks
     DEF Events!Next, Events!Writes, Events!Follows

LEMMA EventsHold == EventsInv => Events!TypeOK /\ Events!JournalCounts /\ Events!StreamIsPrefix
<1> SUFFICES ASSUME EventsInv PROVE Events!TypeOK /\ Events!JournalCounts /\ Events!StreamIsPrefix
  OBVIOUS
<1>1. Events!TypeOK
  <2>1. /\ status \in {"queued", "running"} \cup Events!Terminal
        /\ \A w \in Writers : writing[w].pc \in {"idle", "work", "read", "insert"}
                              /\ writing[w].kind \in Events!Kinds
        /\ \A s \in Clients : streams[s].pc \in {"new", "open", "look", "done"}
    BY DEF EventsInv, EventsTypes, RunRow, StreamRow, Events!Terminal
  <2>2. attempt \in 0 .. MaxAttempts + MaxExpiries
    BY EventsConstants DEF EventsInv, EventsTypes, ClaimsAreCounted
  <2> QED
    BY <2>1, <2>2 DEF Events!TypeOK
<1>2. Events!JournalCounts
  BY DEF EventsInv, EventsTypes, Counts, Events!JournalCounts
<1>3. ASSUME NEW s \in Clients
      PROVE  streams[s].sent = SubSeq(log, 1, Len(streams[s].sent))
  <2> DEFINE sent == streams[s].sent
  <2>1. /\ sent \in Seq(Nat) /\ Len(sent) \in Nat /\ Counts(sent) /\ Len(sent) <= Len(log)
        /\ log \in Seq(Nat) /\ Len(log) \in Nat /\ Counts(log)
    BY DEF EventsInv, EventsTypes, StreamRow, StreamsFollow
  <2> HIDE DEF sent
  <2>2. /\ SubSeq(log, 1, Len(sent)) \in Seq(Nat) /\ Len(SubSeq(log, 1, Len(sent))) = Len(sent)
        /\ \A k \in 1 .. Len(sent) : SubSeq(log, 1, Len(sent))[k] = k
    BY <2>1 DEF Counts
  <2>3. sent = SubSeq(log, 1, Len(sent))
    BY <2>1, <2>2 DEF Counts
  <2> QED
    BY <2>3 DEF sent
<1> QED
  BY <1>1, <1>2, <1>3 DEF Events!StreamIsPrefix

\* Only a refused event, or a run that has lost the job, may undo its completion.
LEMMA CompletedJobStays ==
    EventsInv /\ [Events!Next]_events =>
        (status = "completed" =>
           status' = "completed" \/ collided' \/ \E w \in Writers : writing[w].left)
<1> SUFFICES ASSUME EventsInv, [Events!Next]_events, status = "completed", ~collided',
                    status' # "completed"
             PROVE  \E w \in Writers : writing[w].left
  OBVIOUS
<1>1. PICK w \in Writers : Events!Throw(w)
  BY DEF events, Events!Next, Events!Writes, Events!Follows, Events!Claim, Events!Log, Events!Reclaim,
         Events!Expirable, Events!Complete, Events!Read, Events!Insert, Events!Refused,
         Events!Open, Events!Drop, Events!Poll, Events!Look
<1>2. writing[w].pc = "work" /\ ~collided
  BY <1>1 DEF Events!Throw, Events!At
<1> QED
  BY <1>2 DEF EventsInv, OthersHaveLeft, Working

------------------------------------------------------------------------------
(* The rendering of videos.  A run that is about to complete its row has   *)
(* its file in place and its asset recorded; a render in progress is       *)
(* carried by a run that goes on, or by an active job of which no run has  *)
(* ended.  A step concerns one render.                                     *)

JobRow == [render : Renders, status : {"queued", "running", "done", "failed"}, attempt : Nat,
           by : Runners \cup {"none"}]

ExecutionRow ==
    [pc : {"idle", "load", "prepare", "mark", "encode", "rename", "record", "complete", "done", "raise"},
     job : Nat, bytes : Outputs \cup {"none"}, error : Render!Categories \cup {"none"}]

VideoTypes ==
    /\ renders \in [Renders -> Render!RenderRow]
    /\ videos \subseteq [render : Renders, bytes : Outputs]
    /\ files \in [Renders -> Outputs \cup {"none"}]
    /\ jobs \in Seq(JobRow) /\ runs \in [Runners -> ExecutionRow]
    /\ unqueued \subseteq Renders /\ untold \subseteq Renders

Made(w) == jobs[runs[w].job].render

RunSound(w) ==
    /\ runs[w].pc # "idle" => runs[w].job \in DOMAIN jobs
    /\ runs[w].pc = "raise" => runs[w].error \in Render!Categories
    /\ runs[w].pc = "rename" => runs[w].bytes \in Outputs
    /\ runs[w].pc \in {"record", "complete"} => files[Made(w)] # "none"
    /\ runs[w].pc = "complete" => [render |-> Made(w), bytes |-> runs[w].bytes] \in videos

Watchable(r) ==
    /\ renders[r].status = "completed" => renders[r].asset \in videos /\ files[r] # "none"
    /\ renders[r].validated => renders[r].status = "completed"

\* A job that may still bring something to its render, and such a run.
Carries(j) == Render!Active(j) /\ ~Render!Ending(j)
Goes(w) == runs[w].pc \notin {"idle", "raise", "done"}

Carried(r) ==
    renders[r].status \in {"queued", "preparing", "rendering"} =>
        \/ r \in unqueued \cup untold
        \/ \E j \in DOMAIN jobs : jobs[j].render = r /\ Carries(j)
        \/ \E w \in Runners : Goes(w) /\ Made(w) = r

VideoInv ==
    /\ VideoTypes
    /\ \A w \in Runners : RunSound(w)
    /\ \A r \in Renders : Watchable(r) /\ Carried(r)

LEMMA VideoConstants ==
    /\ MaxJobs \in Nat /\ MaxFaults \in Nat /\ MaxAttempts \in Nat \ {0, 1} /\ "none" \notin Outputs
BY RuntimeAssumption DEF Render!RenderAssumption

LEMMA VideoInit == Render!Init => VideoInv
<1> SUFFICES ASSUME Render!Init PROVE VideoInv
  OBVIOUS
<1>1. /\ <<>> \in Seq(JobRow) /\ Render!Idle \in ExecutionRow /\ Render!Absent \in Render!RenderRow
      /\ Render!Absent.status = "absent" /\ Render!Absent.validated = FALSE /\ Render!Idle.pc = "idle"
  BY DEF Render!Idle, ExecutionRow, Render!Absent, Render!RenderRow, Render!Statuses, Render!NoAsset
<1>2. VideoTypes
  BY <1>1 DEF Render!Init, VideoTypes
<1>4. \A w \in Runners : RunSound(w)
  BY <1>1 DEF Render!Init, RunSound
<1>5. \A r \in Renders : Watchable(r) /\ Carried(r)
  BY <1>1 DEF Render!Init, Watchable, Carried
<1> QED
  BY <1>2, <1>4, <1>5 DEF VideoInv

LEMMA JobRows ==
    ASSUME VideoInv, NEW j \in DOMAIN jobs
    PROVE  jobs[j] \in JobRow /\ jobs[j].render \in Renders
<1>1. jobs \in Seq(JobRow)
  BY DEF VideoInv, VideoTypes
<1>2. jobs[j] \in JobRow
  BY <1>1
<1> QED
  BY <1>2 DEF JobRow

JobsKept ==
    /\ DOMAIN jobs \subseteq DOMAIN jobs'
    /\ \A j \in DOMAIN jobs : jobs'[j].render = jobs[j].render

\* A step that concerns one render: what it must see to.
LEMMA VideoMoves ==
    ASSUME VideoInv, NEW r0 \in Renders, VideoTypes', JobsKept,
           videos \subseteq videos', \A r \in Renders : files[r] # "none" => files'[r] # "none",
           \A v \in Runners : runs'[v] = runs[v] \/ RunSound(v)',
           \A v \in Runners : runs'[v] = runs[v] \/ runs[v].pc = "idle" \/ Made(v) = r0,
           \A r \in Renders \ {r0} : renders'[r] = renders[r],
           \A j \in DOMAIN jobs : jobs[j].render # r0 /\ Carries(j) => Carries(j)',
           (unqueued \cup untold) \ {r0} \subseteq (unqueued \cup untold)', Watchable(r0)', Carried(r0)'
    PROVE  VideoInv'
<1>1. ASSUME NEW v \in Runners, runs'[v] = runs[v], runs[v].pc # "idle"
      PROVE  Made(v)' = Made(v) /\ Made(v) \in Renders
  <2>1. runs[v].job \in DOMAIN jobs
    BY <1>1 DEF VideoInv, RunSound
  <2> QED
    BY <1>1, <2>1, JobRows DEF JobsKept, Made
<1>2. ASSUME NEW v \in Runners PROVE RunSound(v)'
  <2>1. CASE runs'[v] = runs[v] /\ runs[v].pc = "idle"
    BY <2>1 DEF RunSound
  <2>2. CASE runs'[v] = runs[v] /\ runs[v].pc # "idle"
    <3>1. Made(v)' = Made(v) /\ Made(v) \in Renders
      BY <1>1, <2>2
    <3>2. RunSound(v) /\ DOMAIN jobs \subseteq DOMAIN jobs'
      BY DEF VideoInv, JobsKept
    <3> QED
      BY <2>2, <3>1, <3>2 DEF RunSound
  <2> QED
    BY <2>1, <2>2
<1>3. ASSUME NEW r \in Renders PROVE Watchable(r)' /\ Carried(r)'
  <2>1. CASE r = r0
    BY <2>1
  <2>2. CASE r # r0
    <3>1. Watchable(r) /\ Carried(r) /\ renders'[r] = renders[r]
      BY <2>2 DEF VideoInv
    <3>2. Watchable(r)'
      BY <3>1 DEF Watchable
    <3>3. ASSUME NEW j \in DOMAIN jobs, jobs[j].render = r, Carries(j) PROVE Carried(r)'
      BY <2>2, <3>3 DEF Carried, JobsKept
    <3>4. ASSUME NEW v \in Runners, Goes(v), Made(v) = r PROVE Carried(r)'
      <4>1. runs'[v] = runs[v] /\ runs[v].pc # "idle"
        BY <2>2, <3>4 DEF Goes
      <4>2. Goes(v)' /\ Made(v)' = r
        BY <3>4, <4>1, <1>1 DEF Goes
      <4> QED
        BY <4>2 DEF Carried
    <3>5. ASSUME r \in unqueued \cup untold PROVE Carried(r)'
      BY <2>2, <3>5 DEF Carried
    <3>6. ASSUME renders[r].status \notin {"queued", "preparing", "rendering"} PROVE Carried(r)'
      BY <3>1, <3>6 DEF Carried
    <3>7. Carried(r)'
      BY <3>1, <3>3, <3>4, <3>5, <3>6 DEF Carried
    <3> QED
      BY <3>2, <3>7
  <2> QED
    BY <2>1, <2>2
<1> QED
  BY <1>2, <1>3 DEF VideoInv

\* The job of a run is written: its end, its retry, its claim.
LEMMA JobWritten ==
    ASSUME VideoInv, NEW j \in DOMAIN jobs, NEW row \in JobRow, row.render = jobs[j].render,
           jobs' = [jobs EXCEPT ![j] = row]
    PROVE  /\ jobs' \in Seq(JobRow) /\ DOMAIN jobs' = DOMAIN jobs /\ JobsKept
           /\ jobs'[j] = row /\ \A i \in DOMAIN jobs \ {j} : jobs'[i] = jobs[i]
<1>1. jobs \in Seq(JobRow)
  BY DEF VideoInv, VideoTypes
<1>2. /\ jobs' \in Seq(JobRow) /\ DOMAIN jobs' = DOMAIN jobs
      /\ jobs'[j] = row /\ \A i \in DOMAIN jobs \ {j} : jobs'[i] = jobs[i]
  BY <1>1
<1> QED
  BY <1>2 DEF JobsKept

\* The jobs after the run of a worker has ended, or its lease.
Ended(w) ==
    /\ jobs' \in Seq(JobRow) /\ DOMAIN jobs' = DOMAIN jobs /\ JobsKept
    /\ \A i \in DOMAIN jobs : i # runs[w].job => jobs'[i] = jobs[i]

LEMMA JobsSame ==
    ASSUME VideoInv, UNCHANGED jobs, NEW w \in Runners
    PROVE  Ended(w)
BY DEF VideoInv, VideoTypes, JobsKept, Ended

LEMMA JobEnded ==
    ASSUME VideoInv, NEW w \in Runners, runs[w].pc # "idle", NEW final \in {"queued", "done", "failed"},
           jobs' = [jobs EXCEPT ![runs[w].job].status = final, ![runs[w].job].by = "none"]
    PROVE  Ended(w) /\ jobs'[runs[w].job].status = final
<1> DEFINE j == runs[w].job
           row == [jobs[j] EXCEPT !.status = final, !.by = "none"]
<1>1. j \in DOMAIN jobs
  BY DEF VideoInv, RunSound
<1>2. jobs[j] \in JobRow
  BY <1>1, JobRows
<1>3. row \in JobRow /\ row.render = jobs[j].render /\ row.status = final
  BY <1>2 DEF JobRow
<1>4. jobs' = [jobs EXCEPT ![j] = row]
  BY <1>1, <1>2 DEF JobRow
<1> HIDE DEF j, row
<1> QED
  BY <1>1, <1>3, <1>4, JobWritten DEF Ended, j

\* The loop writes the end of a job that the run of a worker has left.
LEMMA RunEnded ==
    ASSUME VideoInv, NEW w \in Runners, Render!Done(w) \/ Render!Raise(w)
    PROVE  /\ Ended(w) /\ runs' = [runs EXCEPT ![w] = Render!Idle] /\ runs[w].pc \in {"raise", "done"}
           /\ UNCHANGED <<renders, videos, files, unqueued, untold>>
<1>1. /\ runs' = [runs EXCEPT ![w] = Render!Idle] /\ runs[w].pc \in {"raise", "done"}
      /\ UNCHANGED <<renders, videos, files, unqueued, untold>>
  BY DEF Render!Done, Render!Raise, Render!Over, Render!At
<1>2. runs[w].pc # "idle"
  BY <1>1
<1>3. ASSUME Render!Done(w) PROVE Ended(w)
  BY <1>2, <1>3, JobEnded DEF Render!Done
<1>4. ASSUME Render!Raise(w) PROVE Ended(w)
  <2> DEFINE to == Render!After(runs[w].job, runs[w].error)
  <2>1. to \in {"queued", "failed"}
    BY DEF Render!After
  <2>2. \/ UNCHANGED jobs
        \/ jobs' = [jobs EXCEPT ![runs[w].job].status = to, ![runs[w].job].by = "none"]
    BY <1>4 DEF Render!Raise
  <2> HIDE DEF to
  <2> QED
    BY <1>2, <2>1, <2>2, JobEnded, JobsSame
<1> QED
  BY <1>1, <1>3, <1>4

LEMMA RunFacts ==
    ASSUME VideoInv, NEW w \in Runners, runs[w].pc # "idle"
    PROVE  /\ runs[w].job \in DOMAIN jobs /\ Made(w) \in Renders /\ Render!Render(w) = Made(w)
           /\ renders[Made(w)] \in Render!RenderRow /\ runs[w] \in ExecutionRow
           /\ Watchable(Made(w)) /\ Carried(Made(w)) /\ RunSound(w)
<1>1. runs[w].job \in DOMAIN jobs /\ RunSound(w)
  BY DEF VideoInv, RunSound
<1>2. Made(w) \in Renders
  BY <1>1, JobRows DEF Made
<1> QED
  BY <1>1, <1>2 DEF VideoInv, VideoTypes, Made, Render!Render

\* The run of a worker ends, or loses its job.
LEMMA RunLeaves ==
    ASSUME VideoInv, NEW w \in Runners, runs[w].pc # "idle", Ended(w),
           runs' = [runs EXCEPT ![w] = Render!Idle] \/ UNCHANGED runs,
           UNCHANGED <<renders, videos, files, unqueued>>,
           NEW r0 \in Renders, r0 = Made(w),
           untold \ {r0} \subseteq untold', untold' \subseteq Renders, Carried(r0)'
    PROVE  VideoInv'
<1>1. runs[w].job \in DOMAIN jobs /\ jobs[runs[w].job].render = r0 /\ Watchable(r0)
  BY RunFacts DEF Made
<1>2. /\ runs' \in [Runners -> ExecutionRow] /\ \A v \in Runners \ {w} : runs'[v] = runs[v]
      /\ runs'[w] = runs[w] \/ runs'[w].pc = "idle"
  BY DEF VideoInv, VideoTypes, ExecutionRow, Render!Idle
<1>3. VideoTypes' /\ JobsKept
  BY <1>2 DEF VideoInv, VideoTypes, Ended
<1>4. \A v \in Runners : runs'[v] = runs[v] \/ RunSound(v)'
  BY <1>2 DEF RunSound
<1>5. \A v \in Runners : runs'[v] = runs[v] \/ runs[v].pc = "idle" \/ Made(v) = r0
  BY <1>2
<1>6. \A j \in DOMAIN jobs : jobs[j].render # r0 /\ Carries(j) => Carries(j)'
  <2> SUFFICES ASSUME NEW j \in DOMAIN jobs, jobs[j].render # r0, Carries(j) PROVE Carries(j)'
    OBVIOUS
  <2>1. jobs'[j] = jobs[j]
    BY <1>1 DEF Ended
  <2>2. ~Render!Ending(j)'
    BY <1>2 DEF Render!Ending, Carries
  <2> QED
    BY <2>1, <2>2 DEF Carries, Render!Active
<1>7. videos \subseteq videos' /\ \A r \in Renders : files[r] # "none" => files'[r] # "none"
  OBVIOUS
<1>8. Watchable(r0)' /\ (unqueued \cup untold) \ {r0} \subseteq (unqueued \cup untold)'
  BY <1>1 DEF Watchable
<1> QED
  BY <1>3, <1>4, <1>5, <1>6, <1>7, <1>8, VideoMoves

LEMMA VideoOver ==
    ASSUME VideoInv, NEW w \in Runners, Render!Done(w) \/ Render!Raise(w)
    PROVE  VideoInv'
<1>1. /\ Ended(w) /\ runs' = [runs EXCEPT ![w] = Render!Idle] /\ runs[w].pc \in {"raise", "done"}
      /\ UNCHANGED <<renders, videos, files, unqueued, untold>> /\ runs[w].pc # "idle"
  BY RunEnded
<1>2. PICK r0 \in Renders : r0 = Made(w)
  BY <1>1, RunFacts
<1>3. /\ \A v \in Runners \ {w} : runs'[v] = runs[v]
      /\ runs'[w].pc = "idle"
  BY <1>1 DEF VideoInv, VideoTypes, Render!Idle
<1>4. ASSUME NEW j \in DOMAIN jobs, jobs[j].render = r0, Carries(j) PROVE Carried(r0)'
  <2>1. j # runs[w].job
    BY <1>1, <1>4 DEF Carries, Render!Ending
  <2>2. jobs'[j] = jobs[j] /\ j \in DOMAIN jobs'
    BY <1>1, <2>1 DEF Ended
  <2>3. Carries(j)'
    BY <1>3, <1>4, <2>2 DEF Carries, Render!Ending, Render!Active
  <2> QED
    BY <1>4, <2>2, <2>3 DEF Carried
<1>5. ASSUME NEW v \in Runners, Goes(v), Made(v) = r0 PROVE Carried(r0)'
  <2>1. v # w /\ runs'[v] = runs[v]
    BY <1>1, <1>3, <1>5 DEF Goes
  <2>2. runs[v].job \in DOMAIN jobs
    BY <1>5, RunFacts DEF Goes
  <2>3. Goes(v)' /\ Made(v)' = r0
    BY <1>1, <1>5, <2>1, <2>2 DEF Goes, Made, Ended, JobsKept
  <2> QED
    BY <2>3 DEF Carried
<1>6. Carried(r0)
  BY DEF VideoInv
<1>7. Carried(r0)'
  BY <1>1, <1>4, <1>5, <1>6 DEF Carried
<1>8. untold' \subseteq Renders /\ untold \ {r0} \subseteq untold'
  BY <1>1 DEF VideoInv, VideoTypes
<1> QED
  BY <1>1, <1>2, <1>7, <1>8, RunLeaves

LEMMA RowWritten ==
    ASSUME VideoInv, NEW r0 \in Renders, NEW row \in Render!RenderRow,
           renders' = [renders EXCEPT ![r0] = row]
    PROVE  /\ renders' \in [Renders -> Render!RenderRow] /\ renders'[r0] = row
           /\ \A r \in Renders \ {r0} : renders'[r] = renders[r]
BY DEF VideoInv, VideoTypes

LEMMA RowMoved ==
    ASSUME VideoInv, NEW r0 \in Renders, NEW to \in Render!Statuses, Render!Move(r0, to)
    PROVE  /\ renders' \in [Renders -> Render!RenderRow]
           /\ renders'[r0].status = to /\ renders'[r0].validated = renders[r0].validated
           /\ renders'[r0].asset = renders[r0].asset
           /\ \A r \in Renders \ {r0} : renders'[r] = renders[r]
<1> DEFINE row == [renders[r0] EXCEPT !.status = to]
<1>1. renders[r0] \in Render!RenderRow
  BY DEF VideoInv, VideoTypes
<1>2. /\ row \in Render!RenderRow /\ row.status = to /\ row.validated = renders[r0].validated
      /\ row.asset = renders[r0].asset
  BY <1>1 DEF Render!RenderRow
<1>3. renders' = [renders EXCEPT ![r0] = row]
  BY DEF Render!Move
<1> HIDE DEF row
<1> QED
  BY <1>2, <1>3, RowWritten

\* The run of a worker goes on, which is enough to carry its render until it
\* throws or returns.
LEMMA RunGoesOn ==
    ASSUME VideoInv, NEW w \in Runners, runs[w].pc # "idle",
           NEW run \in ExecutionRow, run.pc # "idle", run.job = runs[w].job,
           runs' = [runs EXCEPT ![w] = run], UNCHANGED <<jobs, unqueued>>,
           NEW r0 \in Renders, r0 = Made(w), renders' \in [Renders -> Render!RenderRow],
           \A r \in Renders \ {r0} : renders'[r] = renders[r],
           videos \subseteq videos', videos' \subseteq [render : Renders, bytes : Outputs],
           files' \in [Renders -> Outputs \cup {"none"}],
           \A r \in Renders : files[r] # "none" => files'[r] # "none",
           untold \ {r0} \subseteq untold', untold' \subseteq Renders, Watchable(r0)',
           run.pc = "raise" => run.error \in Render!Categories,
           run.pc = "rename" => run.bytes \in Outputs,
           run.pc \in {"record", "complete"} => files'[r0] # "none",
           run.pc = "complete" => [render |-> r0, bytes |-> run.bytes] \in videos',
           \/ run.pc \notin {"raise", "done"} \/ r0 \in untold'
           \/ renders'[r0].status \notin {"queued", "preparing", "rendering"}
    PROVE  VideoInv'
<1>1. runs[w].job \in DOMAIN jobs /\ jobs[runs[w].job].render = r0
  BY RunFacts DEF Made
<1>2. /\ runs' \in [Runners -> ExecutionRow] /\ runs'[w] = run
      /\ \A v \in Runners \ {w} : runs'[v] = runs[v]
  BY DEF VideoInv, VideoTypes
<1>3. VideoTypes' /\ JobsKept
  BY <1>2 DEF VideoInv, VideoTypes, JobsKept
<1>4. Made(w)' = r0
  BY <1>1, <1>2 DEF Made
<1>5. RunSound(w)'
  BY <1>1, <1>2, <1>4 DEF RunSound
<1>6. \A v \in Runners : runs'[v] = runs[v] \/ RunSound(v)'
  BY <1>2, <1>5
<1>7. \A v \in Runners : runs'[v] = runs[v] \/ runs[v].pc = "idle" \/ Made(v) = r0
  BY <1>2
<1>8. \A j \in DOMAIN jobs : jobs[j].render # r0 /\ Carries(j) => Carries(j)'
  <2> SUFFICES ASSUME NEW j \in DOMAIN jobs, jobs[j].render # r0, Carries(j) PROVE Carries(j)'
    OBVIOUS
  <2>1. \A v \in Runners : runs'[v].job = j => runs'[v] = runs[v]
    BY <1>1, <1>2
  <2> QED
    BY <2>1 DEF Carries, Render!Ending, Render!Active
<1>9. Carried(r0)'
  BY <1>2, <1>4 DEF Carried, Goes
<1>10. (unqueued \cup untold) \ {r0} \subseteq (unqueued \cup untold)'
  OBVIOUS
<1> QED
  BY <1>3, <1>6, <1>7, <1>8, <1>9, <1>10, VideoMoves

\* A step that only moves its run on, and perhaps its row.
LEMMA RunSteps ==
    ASSUME VideoInv, NEW w \in Runners, runs[w].pc # "idle",
           NEW pc \in {"load", "prepare", "mark", "encode", "done", "raise"},
           NEW why \in Render!Categories \cup {"none"}, pc = "raise" => why \in Render!Categories,
           runs' = [runs EXCEPT ![w].pc = pc, ![w].error = why],
           UNCHANGED <<jobs, videos, files, unqueued>>,
           NEW r0 \in Renders, r0 = Made(w), renders' \in [Renders -> Render!RenderRow],
           \A r \in Renders \ {r0} : renders'[r] = renders[r],
           untold \ {r0} \subseteq untold', untold' \subseteq Renders, Watchable(r0)',
           \/ pc \notin {"raise", "done"} \/ r0 \in untold'
           \/ renders'[r0].status \notin {"queued", "preparing", "rendering"}
    PROVE  VideoInv'
<1> DEFINE run == [runs[w] EXCEPT !.pc = pc, !.error = why]
<1>1. runs[w] \in ExecutionRow
  BY RunFacts
<1>2. run \in ExecutionRow /\ run.pc = pc /\ run.job = runs[w].job /\ run.error = why
  BY <1>1 DEF ExecutionRow
<1>3. runs' = [runs EXCEPT ![w] = run]
  BY <1>1 DEF ExecutionRow
<1>4. videos' \subseteq [render : Renders, bytes : Outputs] /\ files' \in [Renders -> Outputs \cup {"none"}]
  BY DEF VideoInv, VideoTypes
<1> HIDE DEF run
<1> QED
  BY <1>2, <1>3, <1>4, RunGoesOn

\* A step to a place of the run leaves its error alone.
LEMMA StepKeeps ==
    ASSUME VideoInv, NEW w \in Runners, runs[w].pc # "idle", NEW pc, Render!Step(w, pc)
    PROVE  /\ runs' = [runs EXCEPT ![w].pc = pc, ![w].error = runs[w].error]
           /\ runs[w].error \in Render!Categories \cup {"none"}
<1>1. runs[w] \in ExecutionRow
  BY RunFacts
<1> QED
  BY <1>1 DEF Render!Step, ExecutionRow

LEMMA RunFails ==
    ASSUME VideoInv, NEW w \in Runners, runs[w].pc # "idle", NEW category \in Render!Categories,
           Render!Fail(w, category), UNCHANGED <<jobs, videos, files, unqueued, untold>>
    PROVE  VideoInv'
<1>1. PICK r0 \in Renders : r0 = Made(w) /\ r0 = Render!Render(w)
  BY RunFacts
<1>2. /\ Watchable(r0) /\ renders[r0] \in Render!RenderRow /\ renders \in [Renders -> Render!RenderRow]
      /\ untold' \subseteq Renders
  BY <1>1 DEF VideoInv, VideoTypes
<1>3. runs' = [runs EXCEPT ![w].pc = "raise", ![w].error = category]
  BY DEF Render!Fail, Render!Throws
<1>4. CASE Render!Accepts(r0, "failed")
  <2>1. renders[r0].status \in {"queued", "preparing", "rendering", "failed"}
    BY <1>4 DEF Render!Accepts, Render!From
  <2>2. Render!Move(r0, "failed") /\ "failed" \in Render!Statuses
    BY <1>1, <1>4 DEF Render!Fail, Render!Statuses
  <2>3. /\ renders' \in [Renders -> Render!RenderRow] /\ renders'[r0].status = "failed"
        /\ renders'[r0].validated = renders[r0].validated
        /\ \A r \in Renders \ {r0} : renders'[r] = renders[r]
    BY <2>2, RowMoved
  <2>4. Watchable(r0)'
    BY <1>2, <2>1, <2>3 DEF Watchable
  <2> QED
    BY <1>1, <1>2, <1>3, <2>3, <2>4, RunSteps
<1>5. CASE ~Render!Accepts(r0, "failed")
  <2>1. renders[r0].status \notin {"queued", "preparing", "rendering", "failed"}
    BY <1>5 DEF Render!Accepts, Render!From
  <2>2. renders' = renders
    BY <1>1, <1>5 DEF Render!Fail
  <2>3. Watchable(r0)'
    BY <1>2, <2>2 DEF Watchable
  <2> QED
    BY <1>1, <1>2, <1>3, <2>1, <2>2, <2>3, RunSteps
<1> QED
  BY <1>4, <1>5

LEMMA RunRefused ==
    ASSUME VideoInv, NEW w \in Runners, runs[w].pc # "idle", NEW category \in Render!Categories,
           Render!Refuse(w, category), UNCHANGED <<jobs, videos, files, unqueued>>
    PROVE  VideoInv'
<1>1. PICK r0 \in Renders : r0 = Made(w) /\ r0 = Render!Render(w)
  BY RunFacts
<1>2. Watchable(r0) /\ renders \in [Renders -> Render!RenderRow] /\ untold \subseteq Renders
  BY <1>1 DEF VideoInv, VideoTypes
<1>3. /\ runs' = [runs EXCEPT ![w].pc = "raise", ![w].error = category]
      /\ renders' = renders /\ untold' = untold \cup {r0}
  BY <1>1 DEF Render!Refuse, Render!Throws
<1>4. Watchable(r0)'
  BY <1>2, <1>3 DEF Watchable
<1> QED
  BY <1>1, <1>2, <1>3, <1>4, RunSteps

LEMMA VideoLoad ==
    ASSUME VideoInv, NEW w \in Runners, Render!Load(w) \/ Render!LoadDone(w)
    PROVE  VideoInv'
<1>1. runs[w].pc # "idle"
  BY DEF Render!Load, Render!LoadDone, Render!At
<1>2. PICK r0 \in Renders : r0 = Made(w) /\ r0 = Render!Render(w)
  BY <1>1, RunFacts
<1>3. Watchable(r0) /\ renders \in [Renders -> Render!RenderRow] /\ untold \subseteq Renders
  BY <1>2 DEF VideoInv, VideoTypes
<1>4. CASE Render!LoadDone(w)
  <2>1. /\ Render!Step(w, "done") /\ renders[r0].status = "completed"
        /\ UNCHANGED <<renders, videos, files, jobs, unqueued, untold>>
    BY <1>2, <1>4 DEF Render!LoadDone
  <2>2. /\ runs' = [runs EXCEPT ![w].pc = "done", ![w].error = runs[w].error]
        /\ runs[w].error \in Render!Categories \cup {"none"}
    BY <1>1, <2>1, StepKeeps
  <2>3. Watchable(r0)' /\ untold' \subseteq Renders
    BY <1>3, <2>1 DEF Watchable
  <2> QED
    BY <1>1, <1>2, <1>3, <2>1, <2>2, <2>3, RunSteps
<1>5. CASE Render!Load(w) /\ Render!Refuse(w, "validation")
  BY <1>1, <1>5, RunRefused DEF Render!Load, Render!Categories
<1>6. CASE Render!Load(w) /\ ~Render!Refuse(w, "validation")
  <2>1. Render!Step(w, "prepare") /\ UNCHANGED <<renders, jobs, unqueued, untold, videos, files>>
    BY <1>6 DEF Render!Load
  <2>2. /\ runs' = [runs EXCEPT ![w].pc = "prepare", ![w].error = runs[w].error]
        /\ runs[w].error \in Render!Categories \cup {"none"}
    BY <1>1, <2>1, StepKeeps
  <2>3. Watchable(r0)' /\ untold' \subseteq Renders
    BY <1>3, <2>1 DEF Watchable
  <2> QED
    BY <1>1, <1>2, <1>3, <2>1, <2>2, <2>3, RunSteps
<1> QED
  BY <1>4, <1>5, <1>6

LEMMA VideoPrepare ==
    ASSUME VideoInv, NEW w \in Runners, Render!Prepare(w)
    PROVE  VideoInv'
<1>1. runs[w].pc # "idle"
  BY DEF Render!Prepare, Render!At
<1>2. PICK r0 \in Renders : r0 = Made(w) /\ r0 = Render!Render(w)
  BY <1>1, RunFacts
<1>3. CASE Render!Accepts(r0, "preparing")
  <2>1. renders[r0].status # "completed"
    BY <1>3 DEF Render!Accepts, Render!From
  <2>2. /\ Render!Move(r0, "preparing") /\ "preparing" \in Render!Statuses
        /\ untold' = untold \ {r0} /\ Render!Step(w, "mark")
        /\ UNCHANGED <<jobs, unqueued, videos, files>>
    BY <1>2, <1>3 DEF Render!Prepare, Render!Statuses
  <2>3. /\ renders' \in [Renders -> Render!RenderRow] /\ renders'[r0].status = "preparing"
        /\ renders'[r0].validated = renders[r0].validated
        /\ \A r \in Renders \ {r0} : renders'[r] = renders[r]
    BY <2>2, RowMoved
  <2>4. Watchable(r0)' /\ untold' \subseteq Renders
    BY <2>1, <2>2, <2>3 DEF VideoInv, VideoTypes, Watchable
  <2>5. /\ runs' = [runs EXCEPT ![w].pc = "mark", ![w].error = runs[w].error]
        /\ runs[w].error \in Render!Categories \cup {"none"}
    BY <1>1, <2>2, StepKeeps
  <2> QED
    BY <1>1, <1>2, <2>2, <2>3, <2>4, <2>5, RunSteps
<1>4. CASE ~Render!Accepts(r0, "preparing")
  BY <1>1, <1>2, <1>4, RunRefused DEF Render!Prepare, Render!Categories
<1> QED
  BY <1>3, <1>4

LEMMA VideoMark ==
    ASSUME VideoInv, NEW w \in Runners, Render!Mark(w)
    PROVE  VideoInv'
<1>1. runs[w].pc # "idle"
  BY DEF Render!Mark, Render!At
<1>2. PICK r0 \in Renders : r0 = Made(w) /\ r0 = Render!Render(w)
  BY <1>1, RunFacts
<1>3. ASSUME NEW category \in {"conflict", "validation"}, Render!Fail(w, category), UNCHANGED untold
      PROVE  VideoInv'
  BY <1>1, <1>3, RunFails DEF Render!Mark, Render!Categories
<1>4. ASSUME Render!Refuse(w, "internal") PROVE VideoInv'
  BY <1>1, <1>4, RunRefused DEF Render!Mark, Render!Categories
<1>5. ASSUME Render!Accepts(r0, "rendering"), Render!Move(r0, "rendering"), Render!Step(w, "encode"),
             UNCHANGED untold
      PROVE  VideoInv'
  <2>1. renders[r0].status # "completed"
    BY <1>5 DEF Render!Accepts, Render!From
  <2>2. "rendering" \in Render!Statuses /\ UNCHANGED <<jobs, unqueued, videos, files>>
    BY DEF Render!Mark, Render!Statuses
  <2>3. /\ renders' \in [Renders -> Render!RenderRow] /\ renders'[r0].status = "rendering"
        /\ renders'[r0].validated = renders[r0].validated
        /\ \A r \in Renders \ {r0} : renders'[r] = renders[r]
    BY <1>5, <2>2, RowMoved
  <2>4. Watchable(r0)' /\ untold' \subseteq Renders
    BY <1>5, <2>1, <2>3 DEF VideoInv, VideoTypes, Watchable
  <2>5. /\ runs' = [runs EXCEPT ![w].pc = "encode", ![w].error = runs[w].error]
        /\ runs[w].error \in Render!Categories \cup {"none"}
    BY <1>1, <1>5, StepKeeps
  <2> QED
    BY <1>1, <1>2, <1>5, <2>2, <2>3, <2>4, <2>5, RunSteps
<1> QED
  BY <1>2, <1>3, <1>4, <1>5 DEF Render!Mark

LEMMA VideoOutputs == \A r \in Renders : [q \in Renders |-> Outputs][r] = Outputs
  OBVIOUS

LEMMA VideoEncode ==
    ASSUME VideoInv, NEW w \in Runners, Render!Encode(w)
    PROVE  VideoInv'
<1>1. runs[w].pc # "idle"
  BY DEF Render!Encode, Render!At
<1>2. PICK r0 \in Renders : r0 = Made(w) /\ r0 = Render!Render(w)
  BY <1>1, RunFacts
<1>3. ASSUME NEW category \in {"transient", "capability"}, Render!Fail(w, category) PROVE VideoInv'
  BY <1>1, <1>3, RunFails DEF Render!Encode, Render!Categories
<1>4. ASSUME NEW bytes \in Outputs, runs' = [runs EXCEPT ![w].pc = "rename", ![w].bytes = bytes],
             UNCHANGED <<renders, jobs, unqueued, untold, videos, files>>
      PROVE  VideoInv'
  <2> DEFINE run == [runs[w] EXCEPT !.pc = "rename", !.bytes = bytes]
  <2>1. run \in ExecutionRow /\ run.pc = "rename" /\ run.job = runs[w].job /\ run.bytes = bytes
    <3>1. runs[w] \in ExecutionRow
      BY <1>1, RunFacts
    <3> QED
      BY <3>1 DEF ExecutionRow
  <2>2. runs' = [runs EXCEPT ![w] = run]
    BY <1>4 DEF VideoInv, VideoTypes, ExecutionRow
  <2>3. /\ Watchable(r0)' /\ renders' \in [Renders -> Render!RenderRow]
        /\ videos' \subseteq [render : Renders, bytes : Outputs]
        /\ files' \in [Renders -> Outputs \cup {"none"}] /\ untold' \subseteq Renders
    BY <1>4 DEF VideoInv, VideoTypes, Watchable
  <2> HIDE DEF run
  <2> QED
    BY <1>1, <1>2, <1>4, <2>1, <2>2, <2>3, RunGoesOn
<1> QED
  BY <1>2, <1>3, <1>4, VideoOutputs DEF Render!Encode

LEMMA VideoRename ==
    ASSUME VideoInv, NEW w \in Runners, Render!Rename(w)
    PROVE  VideoInv'
<1>1. runs[w].pc = "rename" /\ runs[w].pc # "idle"
  BY DEF Render!Rename, Render!At
<1>2. PICK r0 \in Renders : r0 = Made(w) /\ r0 = Render!Render(w)
  BY <1>1, RunFacts
<1> DEFINE run == [runs[w] EXCEPT !.pc = "record"]
<1>3. runs[w] \in ExecutionRow /\ runs[w].bytes \in Outputs
  BY <1>1, RunFacts DEF VideoInv, RunSound
<1>4. run \in ExecutionRow /\ run.pc = "record" /\ run.job = runs[w].job
  BY <1>3 DEF ExecutionRow
<1>5. /\ runs' = [runs EXCEPT ![w] = run] /\ files' = [files EXCEPT ![r0] = runs[w].bytes]
      /\ UNCHANGED <<renders, videos, jobs, unqueued, untold>>
  BY <1>2 DEF Render!Rename, Render!Step
<1>6. /\ files' \in [Renders -> Outputs \cup {"none"}] /\ files'[r0] # "none"
      /\ \A r \in Renders : files[r] # "none" => files'[r] # "none"
  BY <1>3, <1>5, VideoConstants DEF VideoInv, VideoTypes
<1>7. /\ Watchable(r0)' /\ renders' \in [Renders -> Render!RenderRow]
      /\ videos' \subseteq [render : Renders, bytes : Outputs] /\ untold' \subseteq Renders
  BY <1>5, <1>6 DEF VideoInv, VideoTypes, Watchable
<1> HIDE DEF run
<1> QED
  BY <1>1, <1>2, <1>4, <1>5, <1>6, <1>7, RunGoesOn

LEMMA VideoRecord ==
    ASSUME VideoInv, NEW w \in Runners, Render!Record(w)
    PROVE  VideoInv'
<1>1. runs[w].pc = "record" /\ runs[w].pc # "idle"
  BY DEF Render!Record, Render!At
<1>2. PICK r0 \in Renders : r0 = Made(w) /\ r0 = Render!Render(w)
  BY <1>1, RunFacts
<1>3. CASE Render!Recorded(files[r0])
  BY <1>1, <1>2, <1>3, RunFails DEF Render!Record, Render!Categories
<1>4. CASE ~Render!Recorded(files[r0])
  <2> DEFINE run == [runs[w] EXCEPT !.pc = "complete", !.bytes = files[r0]]
             asset == [render |-> r0, bytes |-> files[r0]]
  <2>1. runs[w] \in ExecutionRow /\ files[r0] \in Outputs
    <3>1. files[r0] # "none"
      BY <1>1, <1>2 DEF VideoInv, RunSound
    <3> QED
      BY <1>1, <3>1, RunFacts DEF VideoInv, VideoTypes
  <2>2. /\ run \in ExecutionRow /\ run.pc = "complete" /\ run.job = runs[w].job
        /\ run.bytes = files[r0] /\ asset \in [render : Renders, bytes : Outputs]
    BY <2>1 DEF ExecutionRow
  <2>3. /\ runs' = [runs EXCEPT ![w].pc = "complete", ![w].bytes = files[r0]]
        /\ videos' = videos \cup {asset} /\ UNCHANGED <<renders, files, jobs, unqueued, untold>>
    BY <1>2, <1>4 DEF Render!Record
  <2>4. runs' = [runs EXCEPT ![w] = run]
    BY <2>3 DEF VideoInv, VideoTypes, ExecutionRow
  <2>5. /\ Watchable(r0)' /\ renders' \in [Renders -> Render!RenderRow]
        /\ videos' \subseteq [render : Renders, bytes : Outputs] /\ videos \subseteq videos'
        /\ files' \in [Renders -> Outputs \cup {"none"}] /\ files'[r0] # "none"
        /\ untold' \subseteq Renders
    BY <2>1, <2>2, <2>3, VideoConstants DEF VideoInv, VideoTypes, Watchable
  <2>6. [render |-> r0, bytes |-> run.bytes] \in videos'
    BY <2>2, <2>3
  <2> HIDE DEF run, asset
  <2> QED
    BY <1>1, <1>2, <2>2, <2>3, <2>4, <2>5, <2>6, RunGoesOn
<1> QED
  BY <1>3, <1>4

LEMMA VideoComplete ==
    ASSUME VideoInv, NEW w \in Runners, Render!Complete(w)
    PROVE  VideoInv'
<1>1. runs[w].pc = "complete" /\ runs[w].pc # "idle"
  BY DEF Render!Complete, Render!At
<1>2. PICK r0 \in Renders : r0 = Made(w) /\ r0 = Render!Render(w)
  BY <1>1, RunFacts
<1>3. CASE Render!Accepts(r0, "completed")
  <2> DEFINE asset == [render |-> r0, bytes |-> runs[w].bytes]
             row == [renders[r0] EXCEPT !.status = "completed", !.asset = asset]
  <2>1. asset \in videos /\ files[r0] # "none" /\ asset \in [render : Renders, bytes : Outputs]
    BY <1>1, <1>2 DEF VideoInv, VideoTypes, RunSound
  <2>2. renders[r0] \in Render!RenderRow
    BY DEF VideoInv, VideoTypes
  <2>3. row \in Render!RenderRow /\ row.status = "completed" /\ row.asset = asset
    BY <2>1, <2>2 DEF Render!RenderRow, Render!Statuses
  <2>4. /\ renders' = [renders EXCEPT ![r0].status = "completed", ![r0].asset = asset]
        /\ Render!Step(w, "done") /\ UNCHANGED <<videos, files, jobs, unqueued, untold>>
    BY <1>2, <1>3 DEF Render!Complete
  <2>5. renders' = [renders EXCEPT ![r0] = row]
    BY <2>4 DEF VideoInv, VideoTypes, Render!RenderRow
  <2> HIDE DEF row
  <2>6. /\ renders' \in [Renders -> Render!RenderRow] /\ renders'[r0] = row
        /\ \A r \in Renders \ {r0} : renders'[r] = renders[r]
    BY <2>3, <2>5, RowWritten
  <2>7. Watchable(r0)' /\ untold' \subseteq Renders
    BY <2>1, <2>3, <2>4, <2>6 DEF VideoInv, VideoTypes, Watchable
  <2>8. /\ runs' = [runs EXCEPT ![w].pc = "done", ![w].error = runs[w].error]
        /\ runs[w].error \in Render!Categories \cup {"none"}
    BY <1>1, <2>4, StepKeeps
  <2>9. renders'[r0].status \notin {"queued", "preparing", "rendering"}
    BY <2>3, <2>6
  <2> QED
    BY <1>1, <1>2, <2>4, <2>6, <2>7, <2>8, <2>9, RunSteps
<1>4. CASE ~Render!Accepts(r0, "completed")
  BY <1>1, <1>2, <1>4, RunFails DEF Render!Complete, Render!Categories
<1> QED
  BY <1>3, <1>4

LEMMA LeaseEnded ==
    ASSUME VideoInv, NEW w \in Runners, runs[w].pc # "idle", jobs' = Render!Expired(runs[w].job)
    PROVE  Ended(w) /\ jobs'[runs[w].job].status = "queued"
<1>1. runs[w].job \in DOMAIN jobs /\ jobs[runs[w].job] \in JobRow
  BY RunFacts, JobRows
<1>2. jobs' = [jobs EXCEPT ![runs[w].job].status = "queued", ![runs[w].job].by = "none"]
  BY <1>1 DEF Render!Expired, JobRow
<1> QED
  BY <1>2, JobEnded

LEMMA VideoCrash ==
    ASSUME VideoInv, NEW w \in Runners, Render!Crash(w)
    PROVE  VideoInv'
<1>1. runs[w].pc # "idle"
  BY DEF Render!Crash, Render!At
<1>2. PICK r0 \in Renders : r0 = Made(w) /\ r0 = Render!Render(w)
  BY <1>1, RunFacts
<1>3. Ended(w)
  BY <1>1, LeaseEnded, JobsSame DEF Render!Crash
<1>4. /\ runs' = [runs EXCEPT ![w] = Render!Idle] /\ untold' \in {untold, untold \cup {r0}}
      /\ UNCHANGED <<renders, videos, files, unqueued>>
  BY <1>2 DEF Render!Crash
<1>5. untold' \subseteq Renders /\ untold \ {r0} \subseteq untold'
  BY <1>4 DEF VideoInv, VideoTypes
<1>6. CASE Render!Holds(w, runs[w].job) /\ Render!Alone(w)
  <2>a. PICK j \in DOMAIN jobs : j = runs[w].job
    BY <1>1, RunFacts
  <2>1. jobs'[j].status = "queued" /\ j \in DOMAIN jobs' /\ jobs'[j].render = r0
    <3>1. jobs' = Render!Expired(j) /\ j \in DOMAIN jobs /\ jobs[j].render = r0
      BY <1>1, <1>2, <1>6, <2>a, RunFacts DEF Render!Crash, Made
    <3> QED
      BY <1>1, <2>a, <3>1, LeaseEnded DEF Ended, JobsKept
  <2>2. runs'[w].pc = "idle" /\ \A v \in Runners \ {w} : runs'[v] = runs[v]
    BY <1>4 DEF VideoInv, VideoTypes, Render!Idle
  <2>3. \A v \in Runners \ {w} : runs[v].pc = "idle" \/ runs[v].job # j
    BY <1>6, <2>a DEF Render!Alone, Render!At
  <2>4. ~Render!Ending(j)'
    BY <2>2, <2>3 DEF Render!Ending
  <2>5. Carries(j)'
    BY <2>1, <2>4 DEF Carries, Render!Active
  <2>6. Carried(r0)'
    BY <2>1, <2>5 DEF Carried
  <2> QED
    BY <1>1, <1>2, <1>3, <1>4, <1>5, <2>6, RunLeaves
<1>7. CASE ~(Render!Holds(w, runs[w].job) /\ Render!Alone(w))
  <2>1. r0 \in untold'
    BY <1>2, <1>7 DEF Render!Crash
  <2>2. Carried(r0)'
    BY <2>1 DEF Carried
  <2> QED
    BY <1>1, <1>2, <1>3, <1>4, <1>5, <2>2, RunLeaves
<1> QED
  BY <1>6, <1>7

LEMMA VideoExpire ==
    ASSUME VideoInv, NEW w \in Runners, Render!Expire(w)
    PROVE  VideoInv'
<1>1. runs[w].pc # "idle"
  BY DEF Render!Expire, Render!At
<1>2. PICK r0 \in Renders : r0 = Made(w)
  BY <1>1, RunFacts
<1>3. Ended(w) /\ jobs'[runs[w].job].status = "queued"
  BY <1>1, LeaseEnded DEF Render!Expire
<1>4. UNCHANGED <<renders, videos, files, runs, unqueued, untold>>
  BY DEF Render!Expire
<1>5. ASSUME NEW j \in DOMAIN jobs, jobs[j].render = r0, Carries(j) PROVE Carried(r0)'
  <2>1. jobs'[j].status \in {"queued", "running"} /\ jobs'[j].render = r0 /\ j \in DOMAIN jobs'
    BY <1>3, <1>5 DEF Carries, Render!Active, Ended, JobsKept
  <2>2. Carries(j)'
    BY <1>4, <1>5, <2>1 DEF Carries, Render!Active, Render!Ending
  <2> QED
    BY <2>1, <2>2 DEF Carried
<1>6. ASSUME NEW v \in Runners, Goes(v), Made(v) = r0 PROVE Carried(r0)'
  <2>1. runs[v].job \in DOMAIN jobs
    BY <1>6, RunFacts DEF Goes
  <2>2. Goes(v)' /\ Made(v)' = r0
    BY <1>3, <1>4, <1>6, <2>1 DEF Goes, Made, Ended, JobsKept
  <2> QED
    BY <2>2 DEF Carried
<1>7. Carried(r0)'
  <2>1. Carried(r0)
    BY DEF VideoInv
  <2> QED
    BY <1>4, <1>5, <1>6, <2>1 DEF Carried
<1>8. untold' \subseteq Renders
  BY <1>4 DEF VideoInv, VideoTypes
<1> QED
  BY <1>1, <1>2, <1>3, <1>4, <1>7, <1>8, RunLeaves

LEMMA VideoApiDies ==
    ASSUME VideoInv, Render!ApiDies
    PROVE  VideoInv'
<1>1. PICK r0 \in Renders : r0 \in unqueued
  BY DEF Render!ApiDies, VideoInv, VideoTypes
<1>2. /\ unqueued' = {} /\ untold' = untold \cup unqueued
      /\ UNCHANGED <<renders, videos, files, jobs, runs>>
  BY DEF Render!ApiDies
<1>3. VideoTypes' /\ JobsKept
  BY <1>2 DEF VideoInv, VideoTypes, JobsKept
<1>4. Watchable(r0)' /\ Carried(r0)'
  BY <1>1, <1>2 DEF VideoInv, Watchable, Carried
<1>5. \A j \in DOMAIN jobs : jobs[j].render # r0 /\ Carries(j) => Carries(j)'
  BY <1>2 DEF Carries, Render!Active, Render!Ending
<1>6. (unqueued \cup untold) \ {r0} \subseteq (unqueued \cup untold)'
  BY <1>2
<1> QED
  BY <1>2, <1>3, <1>4, <1>5, <1>6, VideoMoves

LEMMA VideoClaim ==
    ASSUME VideoInv, NEW w \in Runners, NEW j \in DOMAIN jobs, Render!Claim(w, j)
    PROVE  VideoInv'
<1> DEFINE run == [Render!Idle EXCEPT !.pc = "load", !.job = j]
<1>1. PICK r0 \in Renders : r0 = jobs[j].render
  BY JobRows
<1>2. runs[w].pc = "idle" /\ jobs[j].status = "queued" /\ UNCHANGED <<renders, videos, files, unqueued, untold>>
  BY DEF Render!Claim, Render!At
<1>3. jobs[j] \in JobRow
  BY JobRows
<1>a. PICK next \in Nat : next = jobs[j].attempt + 1
  BY <1>3 DEF JobRow
<1> DEFINE row == [jobs[j] EXCEPT !.status = "running", !.attempt = next, !.by = w]
<1>4. row \in JobRow /\ row.render = jobs[j].render /\ row.status = "running"
  BY <1>3, <1>a DEF JobRow
<1>5. jobs' = [jobs EXCEPT ![j] = row]
  <2>1. jobs' = [jobs EXCEPT ![j].status = "running", ![j].attempt = next, ![j].by = w]
    BY <1>a DEF Render!Claim
  <2>2. jobs \in Seq(JobRow)
    BY DEF VideoInv, VideoTypes
  <2> QED
    BY <1>3, <2>1, <2>2 DEF JobRow
<1>6. run \in ExecutionRow /\ run.pc = "load" /\ run.job = j
  <2>1. jobs \in Seq(JobRow)
    BY DEF VideoInv, VideoTypes
  <2>2. j \in Nat
    BY <2>1
  <2> QED
    BY <2>2 DEF ExecutionRow, Render!Idle
<1>7. runs' = [runs EXCEPT ![w] = run]
  BY DEF Render!Claim
<1> HIDE DEF row, run
<1>8. /\ jobs' \in Seq(JobRow) /\ DOMAIN jobs' = DOMAIN jobs /\ JobsKept
      /\ jobs'[j] = row /\ \A i \in DOMAIN jobs \ {j} : jobs'[i] = jobs[i]
  BY <1>4, <1>5, JobWritten
<1>9. /\ runs' \in [Runners -> ExecutionRow] /\ runs'[w] = run
      /\ \A v \in Runners \ {w} : runs'[v] = runs[v]
  BY <1>6, <1>7 DEF VideoInv, VideoTypes
<1>10. VideoTypes'
  BY <1>2, <1>8, <1>9 DEF VideoInv, VideoTypes
<1>11. RunSound(w)'
  BY <1>6, <1>8, <1>9 DEF RunSound
<1>12. \A v \in Runners : runs'[v] = runs[v] \/ RunSound(v)'
  BY <1>9, <1>11
<1>13. \A v \in Runners : runs'[v] = runs[v] \/ runs[v].pc = "idle" \/ Made(v) = r0
  BY <1>2, <1>9
<1>14. \A i \in DOMAIN jobs : jobs[i].render # r0 /\ Carries(i) => Carries(i)'
  <2> SUFFICES ASSUME NEW i \in DOMAIN jobs, jobs[i].render # r0, Carries(i) PROVE Carries(i)'
    OBVIOUS
  <2>1. jobs'[i] = jobs[i]
    BY <1>1, <1>8
  <2>2. ~Render!Ending(i)'
    BY <1>6, <1>9 DEF Render!Ending, Carries
  <2> QED
    BY <2>1, <2>2 DEF Carries, Render!Active
<1>15. Made(w)' = r0
  BY <1>1, <1>4, <1>6, <1>8, <1>9 DEF Made
<1>16. Watchable(r0)' /\ Carried(r0)'
  BY <1>2, <1>6, <1>9, <1>15 DEF VideoInv, Watchable, Carried, Goes
<1> QED
  BY <1>2, <1>8, <1>10, <1>12, <1>13, <1>14, <1>16, VideoMoves

\* A request writes the row of its render, and has still to enqueue its job.
LEMMA RequestAsks ==
    ASSUME VideoInv, NEW r0 \in Renders, Render!Asks(r0),
           NEW row \in Render!RenderRow, row.status = "queued", ~row.validated,
           renders' = [renders EXCEPT ![r0] = row], untold \ {r0} \subseteq untold', untold' \subseteq untold
    PROVE  VideoInv'
<1>1. unqueued = {} /\ unqueued' = {r0} /\ UNCHANGED <<videos, files, jobs, runs>>
  BY DEF Render!Asks
<1>2. /\ renders' \in [Renders -> Render!RenderRow] /\ renders'[r0] = row
      /\ \A r \in Renders \ {r0} : renders'[r] = renders[r]
  BY RowWritten
<1>3. VideoTypes' /\ JobsKept
  BY <1>1, <1>2 DEF VideoInv, VideoTypes, JobsKept
<1>4. Watchable(r0)' /\ Carried(r0)'
  BY <1>1, <1>2 DEF Watchable, Carried
<1>5. \A j \in DOMAIN jobs : jobs[j].render # r0 /\ Carries(j) => Carries(j)'
  BY <1>1 DEF Carries, Render!Active, Render!Ending
<1>6. (unqueued \cup untold) \ {r0} \subseteq (unqueued \cup untold)'
  BY <1>1
<1> QED
  BY <1>1, <1>2, <1>3, <1>4, <1>5, <1>6, VideoMoves

\* Its job is the active one of the render, or a new one.
LEMMA VideoAttach ==
    ASSUME VideoInv, NEW r0 \in Renders, Render!Attach(r0)
    PROVE  VideoInv'
<1>1. jobs \in Seq(JobRow) /\ \A w \in Runners : runs[w].pc # "idle" => runs[w].job \in DOMAIN jobs
  BY DEF VideoInv, VideoTypes, RunSound
<1>2. /\ UNCHANGED <<renders, videos, files, runs>> /\ unqueued' = unqueued \ {r0}
      /\ untold' \in {untold, untold \cup {r0}}
  BY DEF Render!Attach
<1>3. CASE Render!ActiveJobs(r0) # {}
  <2>1. UNCHANGED jobs
    BY <1>3 DEF Render!Attach
  <2>2. PICK j \in DOMAIN jobs : jobs[j].render = r0 /\ Render!Active(j)
    BY <1>3 DEF Render!ActiveJobs, Render!JobIds
  <2>3. r0 \in untold' \/ ~Render!Ending(j)
    BY <2>2 DEF Render!Attach, Render!ActiveJobs, Render!JobIds
  <2>4. r0 \in untold' \/ Carries(j)'
    BY <1>2, <2>1, <2>2, <2>3 DEF Carries, Render!Active, Render!Ending
  <2>5. VideoTypes' /\ JobsKept
    BY <1>2, <2>1 DEF VideoInv, VideoTypes, JobsKept
  <2>6. Watchable(r0)' /\ Carried(r0)'
    BY <1>2, <2>1, <2>2, <2>4 DEF VideoInv, Watchable, Carried
  <2>7. \A i \in DOMAIN jobs : jobs[i].render # r0 /\ Carries(i) => Carries(i)'
    BY <1>2, <2>1 DEF Carries, Render!Active, Render!Ending
  <2>8. (unqueued \cup untold) \ {r0} \subseteq (unqueued \cup untold)'
    BY <1>2
  <2> QED
    BY <1>2, <2>5, <2>6, <2>7, <2>8, VideoMoves
<1>4. CASE Render!ActiveJobs(r0) = {}
  <2> DEFINE job == [render |-> r0, status |-> "queued", attempt |-> 0, by |-> "none"]
  <2>a. PICK new \in Nat : new = Len(jobs) + 1
    BY <1>1
  <2>1. job \in JobRow /\ job.render = r0 /\ job.status = "queued"
    BY DEF JobRow
  <2>2. jobs' = Append(jobs, job)
    BY <1>4 DEF Render!Attach
  <2> HIDE DEF job
  <2>3. /\ jobs' \in Seq(JobRow) /\ DOMAIN jobs' = DOMAIN jobs \cup {new} /\ new \notin DOMAIN jobs
        /\ jobs'[new] = job /\ \A j \in DOMAIN jobs : jobs'[j] = jobs[j]
    BY <1>1, <2>a, <2>1, <2>2
  <2>4. VideoTypes' /\ JobsKept
    BY <1>2, <2>3 DEF VideoInv, VideoTypes, JobsKept
  <2>5. \A v \in Runners : runs[v].job = new => runs[v].pc = "idle"
    BY <1>1, <2>3
  <2>6. ~Render!Ending(new)'
    BY <1>2, <2>5 DEF Render!Ending
  <2>7. Carries(new)'
    BY <2>1, <2>3, <2>6 DEF Carries, Render!Active
  <2>8. Watchable(r0)' /\ Carried(r0)'
    BY <1>2, <2>1, <2>3, <2>7 DEF VideoInv, Watchable, Carried
  <2>9. \A i \in DOMAIN jobs : jobs[i].render # r0 /\ Carries(i) => Carries(i)'
    BY <1>2, <2>3 DEF Carries, Render!Active, Render!Ending
  <2>10. (unqueued \cup untold) \ {r0} \subseteq (unqueued \cup untold)'
    BY <1>2
  <2> QED
    BY <1>2, <2>4, <2>8, <2>9, <2>10, VideoMoves
<1> QED
  BY <1>3, <1>4

LEMMA VideoRequest ==
    ASSUME VideoInv, NEW r0 \in Renders, Render!Request(r0)
    PROVE  VideoInv'
<1>1. renders[r0] \in Render!RenderRow /\ Watchable(r0)
  BY DEF VideoInv, VideoTypes
<1>2. ASSUME Render!Create(r0) PROVE VideoInv'
  <2> DEFINE row == [Render!Absent EXCEPT !.status = "queued"]
  <2>1. row \in Render!RenderRow /\ row.status = "queued" /\ ~row.validated
    BY <1>1 DEF Render!RenderRow, Render!Absent, Render!Statuses, Render!NoAsset
  <2>2. /\ renders' = [renders EXCEPT ![r0] = row] /\ Render!Asks(r0)
        /\ untold \ {r0} \subseteq untold' /\ untold' \subseteq untold
    BY <1>2 DEF Render!Create
  <2> HIDE DEF row
  <2> QED
    BY <2>1, <2>2, RequestAsks
<1>3. ASSUME Render!Requeue(r0) PROVE VideoInv'
  <2> DEFINE row == [renders[r0] EXCEPT !.status = "queued"]
  <2>1. renders[r0].status # "completed"
    BY <1>3 DEF Render!Requeue
  <2>2. row \in Render!RenderRow /\ row.status = "queued" /\ ~row.validated
    BY <1>1, <2>1 DEF Render!RenderRow, Render!Statuses, Watchable
  <2>3. /\ renders' = [renders EXCEPT ![r0] = row] /\ Render!Asks(r0)
        /\ untold \ {r0} \subseteq untold' /\ untold' \subseteq untold
    BY <1>3 DEF Render!Requeue, Render!Move
  <2> HIDE DEF row
  <2> QED
    BY <2>2, <2>3, RequestAsks
<1>4. ASSUME Render!Validate(r0) PROVE VideoInv'
  <2> DEFINE row == [renders[r0] EXCEPT !.validated = TRUE]
  <2>1. renders[r0].status = "completed"
    BY <1>4 DEF Render!Validate
  <2>2. /\ row \in Render!RenderRow /\ row.status = "completed" /\ row.asset = renders[r0].asset
    BY <1>1, <2>1 DEF Render!RenderRow
  <2>3. /\ renders' = [renders EXCEPT ![r0] = row]
        /\ UNCHANGED <<videos, files, jobs, runs, unqueued, untold>>
    BY <1>4 DEF Render!Validate
  <2> HIDE DEF row
  <2>4. /\ renders' \in [Renders -> Render!RenderRow] /\ renders'[r0] = row
        /\ \A r \in Renders \ {r0} : renders'[r] = renders[r]
    BY <2>2, <2>3, RowWritten
  <2>5. VideoTypes' /\ JobsKept
    BY <2>3, <2>4 DEF VideoInv, VideoTypes, JobsKept
  <2>6. Watchable(r0)' /\ Carried(r0)'
    BY <1>1, <2>1, <2>2, <2>3, <2>4 DEF Watchable, Carried
  <2>7. \A j \in DOMAIN jobs : jobs[j].render # r0 /\ Carries(j) => Carries(j)'
    BY <2>3 DEF Carries, Render!Active, Render!Ending
  <2> QED
    BY <2>3, <2>4, <2>5, <2>6, <2>7, VideoMoves
<1> QED
  BY <1>2, <1>3, <1>4, VideoAttach DEF Render!Request

LEMMA VideoStep == VideoInv /\ [Render!Next]_video => VideoInv'
<1> SUFFICES ASSUME VideoInv, [Render!Next]_video PROVE VideoInv'
  OBVIOUS
<1>1. CASE UNCHANGED video
  BY <1>1 DEF video, VideoInv, VideoTypes, RunSound, Made, Watchable, Carried, Carries, Goes,
              Render!Active, Render!Ending
<1>2. ASSUME NEW r \in Renders, Render!Request(r) PROVE VideoInv'
  BY <1>2, VideoRequest
<1>3. ASSUME NEW w \in Runners, Render!Work(w) PROVE VideoInv'
  BY <1>3, VideoLoad, VideoPrepare, VideoMark, VideoEncode, VideoRename, VideoRecord, VideoComplete,
     VideoOver DEF Render!Work
<1>4. ASSUME NEW w \in Runners, NEW j \in Render!JobIds, Render!Claim(w, j) PROVE VideoInv'
  BY <1>4, VideoClaim DEF Render!JobIds
<1> QED
  BY <1>1, <1>2, <1>3, <1>4, VideoCrash, VideoExpire, VideoApiDies DEF Render!Next

LEMMA VideoHolds ==
    VideoInv => Render!TypeOK /\ Render!CompletedIsWatchable /\ Render!InProgressHasRun
<1> SUFFICES ASSUME VideoInv
             PROVE  Render!TypeOK /\ Render!CompletedIsWatchable /\ Render!InProgressHasRun
  OBVIOUS
<1>1. Render!TypeOK
  BY JobRows DEF Render!TypeOK, VideoInv, VideoTypes, JobRow, RunSound, Render!JobIds, Render!At
<1>2. Render!CompletedIsWatchable
  BY DEF Render!CompletedIsWatchable, VideoInv, Watchable
<1>3. Render!InProgressHasRun
  BY DEF Render!InProgressHasRun, Render!InProgress, VideoInv, Carried, Carries, Goes,
         Render!ActiveJobs, Render!JobIds, Render!Render, Made
<1> QED
  BY <1>1, <1>2, <1>3

LEMMA CompletedRenderStays ==
    VideoInv /\ [Render!Next]_video =>
        \A r \in Renders : renders[r].status = "completed" =>
            renders'[r].status = "completed" /\ renders'[r].asset = renders[r].asset
<1> SUFFICES ASSUME VideoInv, [Render!Next]_video, NEW r \in Renders, renders[r].status = "completed"
             PROVE  renders'[r].status = "completed" /\ renders'[r].asset = renders[r].asset
  OBVIOUS
<1>1. renders \in [Renders -> Render!RenderRow] /\ renders[r] \in Render!RenderRow
  BY DEF VideoInv, VideoTypes
<1> DEFINE Stays == renders'[r].status = "completed" /\ renders'[r].asset = renders[r].asset
<1>2. ASSUME UNCHANGED renders PROVE Stays
  BY <1>2
<1>3. ASSUME NEW q, NEW to \in {"preparing", "rendering", "failed"}, Render!Accepts(q, to),
             Render!Move(q, to)
      PROVE  Stays
  <2>1. q # r
    BY <1>3 DEF Render!Accepts, Render!From
  <2> QED
    BY <1>1, <1>3, <2>1 DEF Render!Move
<1>4. ASSUME NEW w \in Runners, NEW category, Render!Fail(w, category) PROVE Stays
  BY <1>2, <1>3, <1>4 DEF Render!Fail
<1>5. ASSUME NEW q \in Renders, Render!Request(q) PROVE Stays
  <2>1. ASSUME Render!Create(q) \/ Render!Requeue(q) PROVE Stays
    <3>1. q # r
      BY <2>1 DEF Render!Create, Render!Requeue
    <3> QED
      BY <1>1, <2>1, <3>1 DEF Render!Create, Render!Requeue, Render!Move
  <2>2. ASSUME Render!Validate(q) PROVE Stays
    <3>1. renders' = [renders EXCEPT ![q] = [renders[q] EXCEPT !.validated = TRUE]]
      BY <2>2 DEF Render!Validate
    <3> QED
      BY <1>1, <3>1 DEF Render!RenderRow
  <2> QED
    BY <1>2, <1>5, <2>1, <2>2 DEF Render!Request, Render!Attach
<1>6. ASSUME NEW w \in Runners, Render!Complete(w) PROVE Stays
  <2> DEFINE q == Render!Render(w)
  <2>1. ASSUME Render!Accepts(q, "completed") PROVE Stays
    <3>1. q # r
      BY <2>1 DEF Render!Accepts, Render!From
    <3>2. \E row : renders' = [renders EXCEPT ![q] = row]
      BY <1>6, <2>1 DEF Render!Complete
    <3> QED
      BY <1>1, <3>1, <3>2
  <2> QED
    BY <1>4, <1>6, <2>1 DEF Render!Complete
<1>7. ASSUME NEW w \in Runners, Render!Work(w) PROVE Stays
  BY <1>2, <1>3, <1>4, <1>6, <1>7
     DEF Render!Work, Render!LoadDone, Render!Load, Render!Prepare, Render!Mark, Render!Encode,
         Render!Rename, Render!Record, Render!Refuse, Render!Done, Render!Raise, Render!Over
<1> QED
  BY <1>2, <1>5, <1>7 DEF video, Render!Next, Render!Crash, Render!Expire, Render!Claim, Render!ApiDies

------------------------------------------------------------------------------
(* The screens that follow a job.  The end of a job is told once because   *)
(* what was told of it is remembered as long as it is followed.            *)

Launch ==
    [project : Projects, status : {"queued", "running", "completed", "failed"}, at : 0 .. Full,
     top : 0 .. Full]

Shown ==
    [job : Nat, status : {"queued", "running", "completed", "failed"}, bar : 0 .. Full,
     closed : BOOLEAN]

ScreenTypes ==
    /\ launched \in Seq(Launch) /\ answers \in [Projects -> [stale : BOOLEAN, seen : SUBSET Nat]]
    /\ project \in Projects \cup {None} /\ asking \in Projects \cup {None}
    /\ jobId \in 0 .. Len(launched) /\ source \in {"off", "opening", "open", "ended"}
    /\ progress \in Shown /\ settled \in Nat /\ ends \in {0, 1}

ScreenInv ==
    /\ ScreenTypes
    /\ source = "off" <=> jobId = 0
    /\ \A p \in Projects : answers[p].seen \subseteq DOMAIN launched
    /\ ends = 1 => jobId = 0 \/ settled = jobId

LEMMA ScreenConstants == None \notin Projects /\ Full \in Nat \ {0} /\ MaxLaunches \in Nat
BY RuntimeAssumption DEF Screen!ScreenAssumption

LEMMA ScreenInit == Screen!Init => ScreenInv
<1> SUFFICES ASSUME Screen!Init PROVE ScreenInv
  OBVIOUS
<1>1. Screen!NoProgress \in Shown /\ Screen!Absent \in [stale : BOOLEAN, seen : SUBSET Nat]
  BY ScreenConstants DEF Screen!NoProgress, Shown, Screen!Absent
<1>2. launched = <<>> /\ answers = [p \in Projects |-> Screen!Absent]
  BY DEF Screen!Init
<1>3. launched \in Seq(Launch) /\ Len(launched) = 0 /\ answers \in [Projects -> [stale : BOOLEAN, seen : SUBSET Nat]]
  BY <1>1, <1>2
<1>4. ScreenTypes
  BY <1>1, <1>3 DEF Screen!Init, ScreenTypes
<1>5. \A p \in Projects : answers[p].seen = {}
  BY <1>2 DEF Screen!Absent
<1> QED
  BY <1>4, <1>5 DEF Screen!Init, ScreenInv

\* The row of a job, as its handler writes it.
LEMMA LaunchWritten ==
    ASSUME ScreenInv, NEW j \in DOMAIN launched, NEW row \in Launch,
           launched' = [launched EXCEPT ![j] = row],
           UNCHANGED <<answers, project, asking, jobId, source, progress, settled, ends>>
    PROVE  ScreenInv'
<1>1. launched \in Seq(Launch)
  BY DEF ScreenInv, ScreenTypes
<1>2. launched' \in Seq(Launch) /\ Len(launched') = Len(launched) /\ DOMAIN launched' = DOMAIN launched
  BY <1>1
<1> QED
  BY <1>2 DEF ScreenInv, ScreenTypes

LEMMA ScreenWorks ==
    ASSUME ScreenInv, NEW j \in DOMAIN launched,
           Screen!Works(j) \/ \E reached \in 0 .. Full : Screen!Step(j, reached)
    PROVE  ScreenInv'
<1>1. launched \in Seq(Launch) /\ launched[j] \in Launch
  BY DEF ScreenInv, ScreenTypes
<1>2. ASSUME NEW how \in {"completed", "failed"}, Screen!Finish(j, how) PROVE ScreenInv'
  <2> DEFINE to == IF how = "completed" THEN Full ELSE launched[j].at
             row == [[launched[j] EXCEPT !.status = how] EXCEPT !.at = to]
  <2>1. to \in 0 .. Full
    BY <1>1, ScreenConstants DEF Launch
  <2> HIDE DEF to
  <2>2. row \in Launch
    BY <1>1, <2>1 DEF Launch
  <2>3. launched' = [launched EXCEPT ![j] = row]
    BY <1>1, <1>2 DEF Screen!Finish, Launch, to
  <2>4. UNCHANGED <<answers, project, asking, jobId, source, progress, settled, ends>>
    BY <1>2 DEF Screen!Finish
  <2> HIDE DEF row
  <2> QED
    BY <2>2, <2>3, <2>4, LaunchWritten
<1>3. ASSUME NEW reached \in 0 .. Full, Screen!Step(j, reached) PROVE ScreenInv'
  <2> DEFINE to == IF reached > launched[j].top THEN reached ELSE launched[j].top
             row == [[[launched[j] EXCEPT !.status = "running"] EXCEPT !.at = reached] EXCEPT !.top = to]
  <2>1. to \in 0 .. Full
    BY <1>1 DEF Launch
  <2> HIDE DEF to
  <2>2. row \in Launch
    BY <1>1, <2>1 DEF Launch
  <2>3. launched' = [launched EXCEPT ![j] = row]
    BY <1>1, <1>3 DEF Screen!Step, Launch, to
  <2>4. UNCHANGED <<answers, project, asking, jobId, source, progress, settled, ends>>
    BY <1>3 DEF Screen!Step
  <2> HIDE DEF row
  <2> QED
    BY <2>2, <2>3, <2>4, LaunchWritten
<1> QED
  BY <1>2, <1>3 DEF Screen!Works

LEMMA ScreenAsks ==
    ASSUME ScreenInv,
           \/ \E p \in Projects : Screen!Fetch(p) \/ \E aged \in BOOLEAN : Screen!Choose(p, aged)
           \/ Screen!Open \/ Screen!Ask \/ Screen!Refused
    PROVE  ScreenInv'
<1>1. launched \in Seq(Launch) /\ answers \in [Projects -> [stale : BOOLEAN, seen : SUBSET Nat]]
  BY DEF ScreenInv, ScreenTypes
<1>2. ASSUME NEW p \in Projects, Screen!Fetch(p) PROVE ScreenInv'
  <2> DEFINE answer == [stale |-> FALSE, seen |-> Screen!Written(p)]
  <2>1. answer.seen \subseteq DOMAIN launched /\ answer \in [stale : BOOLEAN, seen : SUBSET Nat]
    BY <1>1 DEF Screen!Written
  <2>2. /\ answers' = [answers EXCEPT ![p] = answer]
        /\ UNCHANGED <<project, launched, asking, jobId, source, progress, settled, ends>>
    BY <1>2 DEF Screen!Fetch
  <2> HIDE DEF answer
  <2>3. /\ answers' \in [Projects -> [stale : BOOLEAN, seen : SUBSET Nat]]
        /\ \A q \in Projects : answers'[q].seen \subseteq DOMAIN launched
    BY <1>1, <2>1, <2>2 DEF ScreenInv
  <2> QED
    BY <2>2, <2>3 DEF ScreenInv, ScreenTypes
<1>3. ASSUME NEW p \in Projects, NEW aged \in BOOLEAN, Screen!Choose(p, aged) PROVE ScreenInv'
  <2> DEFINE old == answers[p].stale \/ aged
             answer == [answers[p] EXCEPT !.stale = old]
  <2>1. old \in BOOLEAN
    OBVIOUS
  <2> HIDE DEF old
  <2>2. answer \in [stale : BOOLEAN, seen : SUBSET Nat] /\ answer.seen = answers[p].seen
    BY <1>1, <2>1
  <2>3. /\ answers' = [answers EXCEPT ![p] = answer] /\ project' = p
        /\ UNCHANGED <<launched, asking, jobId, source, progress, settled, ends>>
    BY <1>3 DEF Screen!Choose, old
  <2> HIDE DEF answer
  <2>4. /\ answers' \in [Projects -> [stale : BOOLEAN, seen : SUBSET Nat]]
        /\ \A q \in Projects : answers'[q].seen \subseteq DOMAIN launched
    BY <1>1, <2>2, <2>3 DEF ScreenInv
  <2> QED
    BY <2>3, <2>4 DEF ScreenInv, ScreenTypes
<1>4. ASSUME Screen!Open \/ Screen!Ask \/ Screen!Refused PROVE ScreenInv'
  BY <1>4 DEF ScreenInv, ScreenTypes, Screen!Open, Screen!Ask, Screen!Refused
<1> QED
  BY <1>2, <1>3, <1>4

\* The answers of a project are asked for again: what they show is still theirs.
LEMMA AnswersInvalidated ==
    ASSUME ScreenInv,
           \/ UNCHANGED answers
           \/ \E p \in Projects : answers' = Screen!Invalidated(p)
    PROVE  /\ answers' \in [Projects -> [stale : BOOLEAN, seen : SUBSET Nat]]
           /\ \A q \in Projects : answers'[q].seen \subseteq DOMAIN launched
<1>1. answers \in [Projects -> [stale : BOOLEAN, seen : SUBSET Nat]]
  BY DEF ScreenInv, ScreenTypes
<1>2. ASSUME NEW p \in Projects, answers' = Screen!Invalidated(p)
      PROVE  /\ answers' \in [Projects -> [stale : BOOLEAN, seen : SUBSET Nat]]
             /\ \A q \in Projects : answers'[q].seen = answers[q].seen
  BY <1>1, <1>2 DEF Screen!Invalidated
<1> QED
  BY <1>1, <1>2 DEF ScreenInv

\* The job now followed, whose end has not been told.
LEMMA JobFollowed ==
    ASSUME ScreenInv, NEW j \in Nat \ {0}, Screen!Follow(j)
    PROVE  /\ jobId' = j /\ source' \in {"opening", "open", "ended"} /\ progress' \in Shown
           /\ settled' \in Nat /\ ends' \in {0, 1} /\ (ends' = 1 => settled' = j)
<1>1. Screen!NoProgress \in Shown
  BY ScreenConstants DEF Screen!NoProgress, Shown
<1>2. CASE j = jobId
  BY <1>2 DEF Screen!Follow, ScreenInv, ScreenTypes
<1>3. CASE j # jobId
  BY <1>1, <1>3 DEF Screen!Follow
<1> QED
  BY <1>2, <1>3

LEMMA ScreenAnswer == ScreenInv /\ Screen!Answer => ScreenInv'
<1> SUFFICES ASSUME ScreenInv, Screen!Answer PROVE ScreenInv'
  OBVIOUS
<1>1. launched \in Seq(Launch) /\ project \in Projects \cup {None} /\ asking \in Projects
  BY DEF ScreenInv, ScreenTypes, Screen!Answer
<1>2. /\ answers' \in [Projects -> [stale : BOOLEAN, seen : SUBSET Nat]]
      /\ \A q \in Projects : answers'[q].seen \subseteq DOMAIN launched
  BY <1>1, AnswersInvalidated DEF Screen!Answer
<1>3. PICK j \in Nat \ {0} :
          /\ Screen!Follow(j) /\ j \in 1 .. Len(launched') /\ launched' \in Seq(Launch)
          /\ DOMAIN launched \subseteq DOMAIN launched'
  <2>1. CASE Screen!Running(asking) # {}
    BY <1>1, <2>1 DEF Screen!Answer, Screen!Running
  <2>2. CASE Screen!Running(asking) = {}
    <3> DEFINE job == [project |-> asking, status |-> "queued", at |-> 0, top |-> 0]
    <3>1. job \in Launch
      BY <1>1, ScreenConstants DEF Launch
    <3>2. launched' = Append(launched, job) /\ Screen!Follow(Len(launched) + 1)
      BY <2>2 DEF Screen!Answer
    <3> HIDE DEF job
    <3>3. /\ launched' \in Seq(Launch) /\ Len(launched') = Len(launched) + 1
          /\ DOMAIN launched \subseteq DOMAIN launched' /\ Len(launched) \in Nat
      BY <1>1, <3>1, <3>2
    <3> QED
      BY <3>2, <3>3
  <2> QED
    BY <2>1, <2>2
<1>4. /\ jobId' = j /\ source' \in {"opening", "open", "ended"} /\ progress' \in Shown
      /\ settled' \in Nat /\ ends' \in {0, 1} /\ (ends' = 1 => settled' = j)
  BY <1>3, JobFollowed
<1>5. project' = project /\ asking' = None
  BY DEF Screen!Answer
<1>6. ScreenTypes'
  BY <1>1, <1>2, <1>3, <1>4, <1>5 DEF ScreenTypes
<1> QED
  BY <1>2, <1>3, <1>4, <1>6 DEF ScreenInv

LEMMA FollowedJob ==
    ASSUME ScreenInv, jobId # 0
    PROVE  /\ jobId \in DOMAIN launched /\ jobId \in Nat /\ launched[jobId].at \in 0 .. Full
           /\ launched[jobId].status \in {"queued", "running", "completed", "failed"}
<1>1. launched \in Seq(Launch) /\ jobId \in 0 .. Len(launched)
  BY DEF ScreenInv, ScreenTypes
<1>2. jobId \in DOMAIN launched /\ jobId \in Nat /\ launched[jobId] \in Launch
  BY <1>1
<1> QED
  BY <1>2 DEF Launch

\* What a message of the stream makes of the bar.
LEMMA MessageApplied ==
    ASSUME ScreenInv, jobId # 0, NEW at \in 0 .. Full,
           NEW kind \in {"snapshot", "event", "done", "closed"}
    PROVE  /\ Screen!Applied(kind, at) \in Shown /\ Screen!Applied(kind, at).job = jobId
           /\ Screen!Applied(kind, at).bar >= progress.bar
<1> DEFINE bar == IF kind = "closed" THEN progress.bar ELSE Screen!Higher(progress.bar, at)
           state == IF kind \in {"snapshot", "done"} THEN launched[jobId].status ELSE progress.status
           closed == CASE kind = "snapshot" -> state \in Screen!Terminal
                       [] kind \in {"done", "closed"} -> TRUE
                       [] OTHER -> progress.closed
<1>1. progress \in Shown /\ jobId \in Nat
  BY FollowedJob DEF ScreenInv, ScreenTypes
<1>2. bar \in 0 .. Full /\ bar >= progress.bar
  BY <1>1 DEF Screen!Higher, Shown
<1>3. state \in {"queued", "running", "completed", "failed"}
  BY <1>1, FollowedJob DEF Shown
<1>4. closed \in BOOLEAN
  <2>1. progress.closed \in BOOLEAN
    BY <1>1 DEF Shown
  <2> HIDE DEF state
  <2>2. CASE kind = "snapshot"
    BY <2>2
  <2>3. CASE kind \in {"done", "closed"}
    BY <2>3
  <2>4. CASE kind = "event"
    BY <2>1, <2>4
  <2> QED
    BY <2>2, <2>3, <2>4
<1>5. Screen!Applied(kind, at) = [job |-> jobId, status |-> state, bar |-> bar, closed |-> closed]
  BY DEF Screen!Applied
<1> HIDE DEF bar, state, closed
<1> QED
  BY <1>1, <1>2, <1>3, <1>4, <1>5 DEF Shown

LEMMA ScreenReceives ==
    ASSUME ScreenInv, jobId # 0, NEW state \in Shown, state.job = jobId, Screen!Receive(state),
           NEW next \in {"open", "ended"}, Screen!Leaves(next), UNCHANGED <<project, launched, asking>>
    PROVE  ScreenInv'
<1>1. /\ answers' \in [Projects -> [stale : BOOLEAN, seen : SUBSET Nat]]
      /\ \A q \in Projects : answers'[q].seen \subseteq DOMAIN launched
  BY AnswersInvalidated DEF ScreenInv, ScreenTypes, Screen!Receive, Screen!Told
<1>2. Screen!NoProgress \in Shown
  BY ScreenConstants DEF Screen!NoProgress, Shown
<1>3. /\ progress' \in Shown /\ jobId' \in {0, jobId} /\ settled' \in Nat /\ ends' \in {0, 1}
      /\ ends' = 1 => jobId' = 0 \/ settled' = jobId'
  <2>1. CASE ~Screen!MustTell(state)
    BY <2>1 DEF Screen!Receive, ScreenInv, ScreenTypes
  <2>2. CASE Screen!MustTell(state)
    <3>1. ends = 0 /\ jobId \in Nat
      BY <2>2 DEF Screen!MustTell, ScreenInv, ScreenTypes
    <3> QED
      BY <1>2, <2>2, <3>1 DEF Screen!Receive
  <2> QED
    BY <2>1, <2>2
<1>4. source' \in {"off", "opening", "open", "ended"} /\ (source' = "off" <=> jobId' = 0)
  BY <1>3 DEF Screen!Leaves
<1>5. ScreenTypes'
  BY <1>1, <1>3, <1>4 DEF ScreenInv, ScreenTypes
<1> QED
  BY <1>1, <1>3, <1>4, <1>5 DEF ScreenInv

LEMMA ScreenStreams ==
    ASSUME ScreenInv,
           \/ Screen!Streams \/ Screen!Closed \/ Screen!Lose
           \/ \E at \in 0 .. Full : Screen!Event(at)
    PROVE  ScreenInv'
<1>1. source # "off" => jobId # 0 /\ launched[jobId].at \in 0 .. Full
  BY FollowedJob DEF ScreenInv
<1>2. 0 \in 0 .. Full
  BY ScreenConstants
<1>3. CASE Screen!Snapshot
  BY <1>1, <1>3, MessageApplied, ScreenReceives DEF Screen!Snapshot
<1>4. ASSUME NEW at \in 0 .. Full, Screen!Event(at) PROVE ScreenInv'
  BY <1>1, <1>4, MessageApplied, ScreenReceives DEF Screen!Event
<1>5. CASE Screen!Done
  BY <1>1, <1>5, MessageApplied, ScreenReceives DEF Screen!Done
<1>6. CASE Screen!Closed
  BY <1>1, <1>2, <1>6, MessageApplied, ScreenReceives DEF Screen!Closed
<1>7. CASE Screen!Reopen \/ Screen!Lose
  BY <1>1, <1>7 DEF Screen!Reopen, Screen!Lose, ScreenInv, ScreenTypes
<1> QED
  BY <1>3, <1>4, <1>5, <1>6, <1>7 DEF Screen!Streams

LEMMA ScreenStep == ScreenInv /\ [Screen!Next]_screen => ScreenInv'
<1> SUFFICES ASSUME ScreenInv, [Screen!Next]_screen PROVE ScreenInv'
  OBVIOUS
<1>1. CASE UNCHANGED screen
  BY <1>1 DEF screen, ScreenInv, ScreenTypes
<1> QED
  BY <1>1, ScreenWorks, ScreenAsks, ScreenAnswer, ScreenStreams DEF Screen!Next

LEMMA ScreenHolds == ScreenInv => Screen!TypeOK /\ Screen!ToldOnce
<1> SUFFICES ASSUME ScreenInv PROVE Screen!TypeOK /\ Screen!ToldOnce
  OBVIOUS
<1>1. Screen!TypeOK
  BY DEF ScreenInv, ScreenTypes, Screen!TypeOK, Shown
<1>2. Screen!ToldOnce
  BY DEF ScreenInv, ScreenTypes, Screen!ToldOnce
<1> QED
  BY <1>1, <1>2

LEMMA BarStays ==
    ScreenInv /\ [Screen!Next]_screen => (jobId' = jobId /\ jobId # 0 => progress'.bar >= progress.bar)
<1> SUFFICES ASSUME ScreenInv, [Screen!Next]_screen, jobId' = jobId, jobId # 0
             PROVE  progress'.bar >= progress.bar
  OBVIOUS
<1>1. progress \in Shown
  BY DEF ScreenInv, ScreenTypes
<1>2. progress.bar \in 0 .. Full /\ launched[jobId].at \in 0 .. Full /\ 0 \in 0 .. Full
  BY <1>1, FollowedJob, ScreenConstants DEF Shown
<1>3. CASE UNCHANGED progress
  BY <1>2, <1>3
<1>4. ASSUME NEW state, Screen!Receive(state) PROVE progress' = state
  BY <1>4 DEF Screen!Receive
<1>5. CASE Screen!Snapshot
  BY <1>2, <1>4, <1>5, MessageApplied DEF Screen!Snapshot
<1>6. ASSUME NEW at \in 0 .. Full, Screen!Event(at) PROVE progress'.bar >= progress.bar
  BY <1>4, <1>6, MessageApplied DEF Screen!Event
<1>7. CASE Screen!Done
  BY <1>2, <1>4, <1>7, MessageApplied DEF Screen!Done
<1>8. CASE Screen!Closed
  BY <1>2, <1>4, <1>8, MessageApplied DEF Screen!Closed
<1>9. CASE Screen!Answer
  <2>1. UNCHANGED progress
    BY <1>9 DEF Screen!Answer, Screen!Follow
  <2> QED
    BY <1>3, <2>1
<1> QED
  BY <1>3, <1>5, <1>6, <1>7, <1>8, <1>9
     DEF screen, Screen!Next, Screen!Works, Screen!Finish, Screen!Step, Screen!Fetch, Screen!Choose,
         Screen!Open, Screen!Ask, Screen!Refused, Screen!Streams, Screen!Reopen, Screen!Lose

------------------------------------------------------------------------------
(* The screen of an interview.  Whatever reaches it is a message that      *)
(* exists, so that a message being written does not change what it shows;  *)
(* each render ticks the plan that it shows.                               *)

TurnRow == [conv : Conversations, role : {"user", "assistant"}]
Pages == [stale : BOOLEAN, held : SUBSET Nat]
Sending ==
    [conv : Conversations \cup {None}, pc : {"idle", "sent", "written", "answered"}, user : Nat, answer : Nat]
Carriage == [kind : {"snapshot", "messages"}, carried : SUBSET Nat]

ChatTypes ==
    /\ turns \in Seq(TurnRow) /\ pages \in [Conversations -> Pages] /\ turn \in Sending
    /\ shown \in Conversations \cup {None} /\ stream \in {"off", "opening", "open"}
    /\ live \in SUBSET Nat /\ answered \in 0 .. Len(turns) /\ channel \in Seq(Carriage)

MessagesExist ==
    /\ live \subseteq DOMAIN turns
    /\ \A c \in Conversations : pages[c].held \subseteq Chat!Listed(c)
    /\ \A n \in DOMAIN channel : channel[n].carried \subseteq DOMAIN turns
    /\ turn.pc # "idle" => turn.conv \in Conversations
    /\ turn.pc \in {"written", "answered"} => turn.user \in DOMAIN turns
    /\ turn.pc = "answered" => turn.answer \in DOMAIN turns

ChatInv ==
    /\ ChatTypes /\ MessagesExist
    /\ (stream = "off") <=> (shown = None)
    /\ Chat!TicksAreOfThePlan

LEMMA ChatConstants == Conversations # {} /\ None \notin Conversations
BY RuntimeAssumption DEF Chat!ScreenAssumption

LEMMA ChatInit == Chat!Init => ChatInv
<1> SUFFICES ASSUME Chat!Init PROVE ChatInv
  OBVIOUS
<1>1. PICK c \in Conversations : turns = Chat!Turn(c)
  BY ChatConstants DEF Chat!Init
<1>2. [conv |-> c, role |-> "user"] \in TurnRow /\ [conv |-> c, role |-> "assistant"] \in TurnRow
  BY DEF TurnRow
<1>3. turns \in Seq(TurnRow) /\ Len(turns) \in Nat
  BY <1>1, <1>2 DEF Chat!Turn
<1>4. turn \in Sending /\ turn.pc = "idle"
  BY DEF Chat!Init, Chat!NoTurn, Sending
<1>5. pages \in [Conversations -> Pages] /\ \A k \in Conversations : pages[k].held = {}
  BY DEF Chat!Init, Pages
<1>6. ChatTypes
  BY <1>3, <1>4, <1>5 DEF Chat!Init, ChatTypes
<1>7. MessagesExist
  BY <1>4, <1>5 DEF Chat!Init, MessagesExist
<1>8. Chat!TicksAreOfThePlan
  BY DEF Chat!Init, Chat!TicksAreOfThePlan, Chat!Plan, Chat!Displayed
<1> QED
  BY <1>6, <1>7, <1>8 DEF Chat!Init, ChatInv

\* A render ticks what it shows.
LEMMA RenderTicks ==
    ASSUME UNCHANGED turns, Chat!Rendered
    PROVE  Chat!TicksAreOfThePlan'
BY DEF Chat!Rendered, Chat!TicksAreOfThePlan, Chat!Displayed, Chat!Plan, Chat!Selected

LEMMA ShownExist == ChatInv => Chat!Displayed \subseteq DOMAIN turns
BY DEF ChatInv, ChatTypes, MessagesExist, Chat!Displayed, Chat!Merged, Chat!Listed

\* The messages there are stay; what is on the screen does not change.
LEMMA TicksStay ==
    ASSUME ChatInv, UNCHANGED <<shown, live, pages, answered, selection>>,
           \A n \in DOMAIN turns : turns'[n] = turns[n]
    PROVE  Chat!TicksAreOfThePlan'
<1>1. Chat!Displayed' = Chat!Displayed /\ Chat!Displayed \subseteq DOMAIN turns
  BY ShownExist DEF Chat!Displayed
<1>2. {n \in Chat!Displayed : turns'[n].role = "assistant"}
        = {n \in Chat!Displayed : turns[n].role = "assistant"}
  BY <1>1
<1>3. Chat!Plan(Chat!Displayed, answered)' = Chat!Plan(Chat!Displayed, answered)
  <2> DEFINE Preferred(those, n) ==
               IF those = {} THEN 0
               ELSE IF n \in those THEN n
               ELSE CHOOSE m \in those : \A k \in those : k <= m
  <2>1. Chat!Plan(Chat!Displayed, answered)
          = Preferred({n \in Chat!Displayed : turns[n].role = "assistant"}, answered)
    BY DEF Chat!Plan
  <2>2. Chat!Plan(Chat!Displayed, answered)'
          = Preferred({n \in Chat!Displayed' : turns'[n].role = "assistant"}, answered')
    BY DEF Chat!Plan
  <2> HIDE DEF Preferred
  <2> QED
    BY <1>1, <1>2, <2>1, <2>2
<1> QED
  BY <1>3 DEF ChatInv, Chat!TicksAreOfThePlan

LEMMA ChatChoose ==
    ASSUME ChatInv, NEW c \in Conversations \cup {None}, NEW aged \in BOOLEAN, Chat!Choose(c, aged)
    PROVE  ChatInv'
<1>1. /\ shown' = c /\ channel' = <<>> /\ UNCHANGED <<turns, turn, answered>> /\ Chat!Rendered
      /\ live' \in {live, {}} /\ stream' = IF c = None THEN "off" ELSE "opening"
  BY DEF Chat!Choose
<1>2. pages \in [Conversations -> Pages]
  BY DEF ChatInv, ChatTypes
<1>3. pages' \in [Conversations -> Pages] /\ \A k \in Conversations : pages'[k].held = pages[k].held
  <2>1. CASE c = None
    BY <1>2, <2>1 DEF Chat!Choose
  <2>2. CASE c # None
    <3> DEFINE old == pages[c].stale \/ aged
               page == [pages[c] EXCEPT !.stale = old]
    <3>1. old \in BOOLEAN
      OBVIOUS
    <3> HIDE DEF old
    <3>2. c \in Conversations /\ page \in Pages /\ page.held = pages[c].held
      BY <1>2, <2>2, <3>1 DEF Pages
    <3>3. pages' = [pages EXCEPT ![c] = page]
      BY <2>2 DEF Chat!Choose, old
    <3> HIDE DEF page
    <3> QED
      BY <1>2, <3>2, <3>3
  <2> QED
    BY <2>1, <2>2
<1>4. ChatTypes'
  BY <1>1, <1>3 DEF ChatInv, ChatTypes
<1>5. MessagesExist'
  BY <1>1, <1>3 DEF ChatInv, MessagesExist, Chat!Listed
<1>6. Chat!TicksAreOfThePlan'
  BY <1>1, RenderTicks
<1>7. (stream' = "off") <=> (shown' = None)
  BY <1>1
<1> QED
  BY <1>4, <1>5, <1>6, <1>7 DEF ChatInv

\* A message is appended to its conversation, by a turn that goes on.
LEMMA ChatAppends ==
    ASSUME ChatInv, NEW role \in {"user", "assistant"}, Chat!Row(turn.conv, role),
           turn.conv \in Conversations, NEW next \in Sending, turn' = next,
           next.conv = turn.conv, next.pc \in {"written", "answered"}, next.user \in DOMAIN turns',
           next.pc = "answered" => next.answer \in DOMAIN turns',
           UNCHANGED <<shown, live, pages, answered, stream, seen, channel, selection, drops>>
    PROVE  ChatInv'
<1>1. turns \in Seq(TurnRow) /\ [conv |-> turn.conv, role |-> role] \in TurnRow
  BY DEF ChatInv, ChatTypes, TurnRow
<1>2. /\ turns' \in Seq(TurnRow) /\ Len(turns') = Len(turns) + 1 /\ DOMAIN turns \subseteq DOMAIN turns'
      /\ \A n \in DOMAIN turns : turns'[n] = turns[n]
  BY <1>1 DEF Chat!Row
<1>3. Len(turns) \in Nat
  BY <1>1
<1>4. ChatTypes'
  BY <1>2, <1>3 DEF ChatInv, ChatTypes
<1>5. \A c \in Conversations : Chat!Listed(c) \subseteq Chat!Listed(c)'
  BY <1>2 DEF Chat!Listed
<1>6. MessagesExist'
  BY <1>2, <1>5 DEF ChatInv, MessagesExist
<1>7. Chat!TicksAreOfThePlan'
  BY <1>2, TicksStay
<1> QED
  BY <1>4, <1>6, <1>7 DEF ChatInv

LEMMA ChatTurns == ChatInv /\ (Chat!Receive \/ Chat!Reply) => ChatInv'
<1> SUFFICES ASSUME ChatInv, Chat!Receive \/ Chat!Reply PROVE ChatInv'
  OBVIOUS
<1>1. turn \in Sending /\ turns \in Seq(TurnRow) /\ turn.conv \in Conversations
  BY DEF ChatInv, ChatTypes, MessagesExist, Chat!Receive, Chat!Reply
<1>2. PICK role \in {"user", "assistant"} : Chat!Row(turn.conv, role)
  BY DEF Chat!Receive, Chat!Reply
<1>3. PICK number \in Nat : /\ number = Len(turns') /\ number \in DOMAIN turns'
                            /\ DOMAIN turns \subseteq DOMAIN turns'
  BY <1>1, <1>2 DEF Chat!Row
<1>4. CASE Chat!Receive
  <2> DEFINE next == [turn EXCEPT !.pc = "written", !.user = number]
  <2>1. next \in Sending /\ next.conv = turn.conv /\ next.pc = "written" /\ next.user = number
    BY <1>1 DEF Sending
  <2>2. /\ turn' = next
        /\ UNCHANGED <<shown, live, pages, answered, stream, seen, channel, selection, drops>>
    BY <1>3, <1>4 DEF Chat!Receive
  <2> HIDE DEF next
  <2> QED
    BY <1>1, <1>2, <1>3, <2>1, <2>2, ChatAppends
<1>5. CASE Chat!Reply
  <2> DEFINE next == [turn EXCEPT !.pc = "answered", !.answer = number]
  <2>1. /\ next \in Sending /\ next.conv = turn.conv /\ next.pc = "answered" /\ next.answer = number
        /\ next.user = turn.user
    BY <1>1 DEF Sending
  <2>2. /\ turn' = next
        /\ UNCHANGED <<shown, live, pages, answered, stream, seen, channel, selection, drops>>
    BY <1>3, <1>5 DEF Chat!Reply
  <2>3. turn.user \in DOMAIN turns
    BY <1>5 DEF ChatInv, MessagesExist, Chat!Reply
  <2> HIDE DEF next
  <2> QED
    BY <1>1, <1>2, <1>3, <2>1, <2>2, <2>3, ChatAppends
<1> QED
  BY <1>4, <1>5

\* What does not touch the screen nor the messages.
LEMMA ChatBeside ==
    ASSUME ChatInv, Chat!Send \/ Chat!Fail \/ Chat!Open \/ Chat!Poll \/ Chat!Lose
    PROVE  ChatInv'
<1>1. UNCHANGED <<turns, shown, live, pages, answered, selection>>
  BY DEF Chat!Send, Chat!Fail, Chat!Open, Chat!Poll, Chat!Lose
<1>2. Chat!TicksAreOfThePlan'
  BY <1>1, TicksStay
<1>3. /\ turn' \in Sending
      /\ \/ turn'.pc = "idle" \/ turn' = turn
         \/ turn'.pc = "sent" /\ turn'.conv \in Conversations
  <2>1. CASE Chat!Send
    <3>1. turn' = [conv |-> shown, pc |-> "sent", user |-> 0, answer |-> 0] /\ shown \in Conversations
      BY <2>1 DEF Chat!Send, Chat!NoTurn, ChatInv, ChatTypes
    <3> QED
      BY <3>1 DEF Sending
  <2>2. CASE Chat!Fail
    BY <2>2 DEF Chat!Fail, Chat!NoTurn, Sending
  <2>3. CASE Chat!Open \/ Chat!Poll \/ Chat!Lose
    BY <2>3 DEF ChatInv, ChatTypes, Chat!Open, Chat!Poll, Chat!Lose
  <2> QED
    BY <2>1, <2>2, <2>3
<1>4. /\ channel' \in Seq(Carriage) /\ \A n \in DOMAIN channel' : channel'[n].carried \subseteq DOMAIN turns
      /\ stream' \in {"off", "opening", "open"} /\ ((stream' = "off") <=> (shown = None))
  <2>1. turns \in Seq(TurnRow) /\ channel \in Seq(Carriage)
    BY DEF ChatInv, ChatTypes
  <2>2. CASE Chat!Open
    <3> DEFINE entry == [kind |-> "snapshot", carried |-> Chat!Listed(shown)]
    <3>1. entry \in Carriage /\ entry.carried \subseteq DOMAIN turns
      BY <2>1 DEF Carriage, Chat!Listed
    <3>2. channel' = <<entry>> /\ stream' = "open" /\ stream = "opening"
      BY <2>2 DEF Chat!Open
    <3> HIDE DEF entry
    <3>3. channel' \in Seq(Carriage) /\ \A n \in DOMAIN channel' : channel'[n].carried \subseteq DOMAIN turns
      BY <3>1, <3>2
    <3> QED
      BY <3>2, <3>3 DEF ChatInv
  <2>3. CASE Chat!Poll
    <3> DEFINE entry == [kind |-> "messages", carried |-> Chat!Unseen(shown)]
    <3>1. entry \in Carriage /\ entry.carried \subseteq DOMAIN turns
      BY <2>1 DEF Carriage, Chat!Unseen, Chat!Listed
    <3>2. channel' = Append(channel, entry) /\ stream' = stream
      BY <2>3 DEF Chat!Poll
    <3> HIDE DEF entry
    <3>3. channel' \in Seq(Carriage) /\ \A n \in DOMAIN channel' : channel'[n].carried \subseteq DOMAIN turns
      BY <2>1, <3>1, <3>2 DEF ChatInv, MessagesExist
    <3> QED
      BY <3>2, <3>3 DEF ChatInv, ChatTypes
  <2>4. CASE Chat!Lose
    BY <2>4 DEF Chat!Lose, ChatInv
  <2>5. CASE Chat!Send \/ Chat!Fail
    BY <2>5 DEF Chat!Send, Chat!Fail, ChatInv, ChatTypes, MessagesExist
  <2> QED
    BY <2>2, <2>3, <2>4, <2>5
<1>5. ChatTypes'
  BY <1>1, <1>3, <1>4 DEF ChatInv, ChatTypes
<1>6. MessagesExist'
  BY <1>1, <1>3, <1>4 DEF ChatInv, MessagesExist, Chat!Listed
<1> QED
  BY <1>1, <1>2, <1>4, <1>5, <1>6 DEF ChatInv

\* What comes back: it is shown, and ticked.
LEMMA ChatShows ==
    ASSUME ChatInv,
           \/ Chat!Answered \/ Chat!Deliver
           \/ \E c \in Conversations : Chat!Fetch(c)
    PROVE  ChatInv'
<1>1. /\ turns \in Seq(TurnRow) /\ pages \in [Conversations -> Pages] /\ channel \in Seq(Carriage)
      /\ live \subseteq DOMAIN turns /\ turn \in Sending
  BY DEF ChatInv, ChatTypes, MessagesExist
<1>2. UNCHANGED <<turns, shown, stream>> /\ Chat!Rendered
  BY DEF Chat!Answered, Chat!Fetch, Chat!Deliver
<1>3. Chat!TicksAreOfThePlan'
  BY <1>2, RenderTicks
<1>4. /\ live' \subseteq DOMAIN turns /\ pages' \in [Conversations -> Pages] /\ turn' \in Sending
      /\ \A c \in Conversations : pages'[c].held \subseteq Chat!Listed(c)
      /\ channel' \in Seq(Carriage) /\ \A n \in DOMAIN channel' : channel'[n].carried \subseteq DOMAIN turns
      /\ answered' \in 0 .. Len(turns) /\ (turn' = turn \/ turn'.pc = "idle")
  <2>1. CASE Chat!Answered
    <3>1. turn.user \in DOMAIN turns /\ turn.answer \in DOMAIN turns
      BY <2>1 DEF ChatInv, MessagesExist, Chat!Answered
    <3>2. /\ live' = live \cup {turn.user, turn.answer} /\ answered' = turn.answer
          /\ turn' = Chat!NoTurn /\ channel' = channel
      BY <2>1 DEF Chat!Answered, Chat!Merged
    <3>3. Chat!NoTurn \in Sending /\ Chat!NoTurn.pc = "idle"
      BY DEF Chat!NoTurn, Sending
    <3>4. pages' \in [Conversations -> Pages] /\ \A c \in Conversations : pages'[c].held = pages[c].held
      BY <1>1, <2>1 DEF Chat!Answered, Pages, ChatInv, ChatTypes
    <3>5. answered' \in 0 .. Len(turns) /\ live' \subseteq DOMAIN turns
      BY <1>1, <3>1, <3>2
    <3> QED
      BY <3>2, <3>3, <3>4, <3>5 DEF ChatInv, ChatTypes, MessagesExist
  <2>2. ASSUME NEW c \in Conversations, Chat!Fetch(c)
        PROVE  /\ pages' \in [Conversations -> Pages] /\ UNCHANGED <<live, turn, channel, answered>>
               /\ \A k \in Conversations : pages'[k].held \subseteq Chat!Listed(k)
    <3> DEFINE page == [stale |-> FALSE, held |-> Chat!Listed(c)]
    <3>1. page \in Pages /\ page.held = Chat!Listed(c)
      BY <1>1 DEF Pages, Chat!Listed
    <3>2. pages' = [pages EXCEPT ![c] = page] /\ UNCHANGED <<live, turn, channel, answered>>
      BY <2>2 DEF Chat!Fetch
    <3> HIDE DEF page
    <3> QED
      BY <1>1, <3>1, <3>2 DEF ChatInv, MessagesExist
  <2>3. CASE Chat!Deliver
    <3>1. channel # <<>> /\ channel[1].carried \subseteq DOMAIN turns
      BY <1>1, <2>3 DEF Chat!Deliver, ChatInv, MessagesExist
    <3>2. live' \subseteq DOMAIN turns
      BY <1>1, <2>3, <3>1 DEF Chat!Deliver, Chat!Merged
    <3>3. channel' = Tail(channel)
      BY <1>1, <2>3, <3>1 DEF Chat!Deliver
    <3>4. channel' \in Seq(Carriage) /\ \A n \in DOMAIN channel' : n + 1 \in DOMAIN channel /\ channel'[n] = channel[n + 1]
      BY <1>1, <3>1, <3>3
    <3>5. UNCHANGED <<pages, turn, answered>>
      BY <2>3 DEF Chat!Deliver
    <3> QED
      BY <1>1, <3>2, <3>4, <3>5 DEF ChatInv, ChatTypes, MessagesExist
  <2> QED
    BY <2>1, <2>2, <2>3 DEF ChatInv, ChatTypes, MessagesExist
<1>5. live' \in SUBSET Nat
  BY <1>1, <1>4
<1>6. ChatTypes'
  BY <1>2, <1>4, <1>5 DEF ChatInv, ChatTypes
<1>7. MessagesExist'
  BY <1>2, <1>4 DEF ChatInv, MessagesExist, Chat!Listed
<1> QED
  BY <1>2, <1>3, <1>6, <1>7 DEF ChatInv

LEMMA ChatStep == ChatInv /\ [Chat!Next]_chat => ChatInv'
<1> SUFFICES ASSUME ChatInv, [Chat!Next]_chat PROVE ChatInv'
  OBVIOUS
<1>1. CASE UNCHANGED chat
  <2>1. UNCHANGED <<turns, pages, turn, shown, stream, live, answered, channel, selection>>
    BY <1>1 DEF chat
  <2>2. Chat!TicksAreOfThePlan'
    BY <2>1, TicksStay
  <2> QED
    BY <2>1, <2>2 DEF ChatInv, ChatTypes, MessagesExist, Chat!Listed
<1> QED
  BY <1>1, ChatChoose, ChatTurns, ChatBeside, ChatShows DEF Chat!Next, Chat!Streams

LEMMA ChatHolds == ChatInv => Chat!TypeOK /\ Chat!TicksAreOfThePlan
BY DEF ChatInv, ChatTypes, MessagesExist, Chat!TypeOK

------------------------------------------------------------------------------
(* The voice input.  A text is there for a recording only, and what was    *)
(* typed belongs to one: an answer, or a fresh start, finds no correction  *)
(* to overwrite.                                                           *)

Text == [of : 0 .. MaxRecordings, typed : BOOLEAN]

Hearings == {"none", "queued", "running", "written", "completed", "failed", "gone"}

InputTypes ==
    /\ recorded \in 0 .. MaxRecordings /\ uploading \subseteq 1 .. recorded
    /\ hearings \in [1 .. MaxRecordings -> Hearings] /\ mic \in {"off", "asking", "recording"}
    /\ take \in 0 .. recorded /\ removing \in 0 .. recorded
    /\ takeStatus \in {"none", "queued", "running", "completed", "failed"}
    /\ heard \in BOOLEAN /\ corrected \in Text

\* The jobs are those of recordings that were made; a place is kept for the next.
RecordingsMade ==
    /\ mic # "off" => recorded < MaxRecordings
    /\ \A r \in 1 .. MaxRecordings : hearings[r] # "none" => r \in 1 .. recorded
    /\ take # 0 => hearings[take] # "none"

\* The text belongs to a recording.
TextOwned ==
    /\ take = 0 => takeStatus = "none" /\ ~heard /\ corrected = Input!Blank
    /\ corrected.of = 0 => corrected = Input!Blank
    /\ heard => corrected.of # 0

InputInv == InputTypes /\ RecordingsMade /\ TextOwned

LEMMA InputConstants == MaxRecordings \in Nat /\ MaxFaults \in Nat
BY RuntimeAssumption DEF Input!VoiceAssumption

LEMMA BlankText == Input!Blank \in Text /\ Input!Blank.of = 0 /\ ~Input!Blank.typed
BY InputConstants DEF Input!Blank, Text

LEMMA InputInit == Input!Init => InputInv
<1> SUFFICES ASSUME Input!Init PROVE InputInv
  OBVIOUS
<1>1. hearings \in [1 .. MaxRecordings -> Hearings] /\ \A r \in 1 .. MaxRecordings : hearings[r] = "none"
  BY DEF Input!Init, Input!Recording, Hearings
<1>2. recorded = 0 /\ uploading = {} /\ take = 0 /\ removing = 0 /\ 0 \in 0 .. MaxRecordings /\ 0 \in 0 .. 0
  BY InputConstants DEF Input!Init
<1>3. mic = "off" /\ takeStatus = "none" /\ heard = FALSE /\ corrected = Input!Blank
  BY DEF Input!Init
<1> QED
  BY <1>1, <1>2, <1>3, BlankText DEF InputInv, InputTypes, RecordingsMade, TextOwned

\* The microphone.
LEMMA InputRecords ==
    ASSUME InputInv, Input!Start \/ Input!Granted \/ Input!Denied \/ Input!Stop
    PROVE  InputInv'
<1>1. UNCHANGED <<hearings, take, takeStatus, heard, corrected, removing>>
  BY DEF Input!Start, Input!Granted, Input!Denied, Input!Stop, Input!screenVars, Input!serverVars
<1>2. TextOwned'
  BY <1>1 DEF InputInv, TextOwned
<1>3. ASSUME Input!Start \/ Input!Granted \/ Input!Denied PROVE InputTypes' /\ RecordingsMade'
  BY <1>1, <1>3 DEF InputInv, InputTypes, RecordingsMade, Input!Start, Input!Granted, Input!Denied
<1>4. ASSUME Input!Stop PROVE InputTypes' /\ RecordingsMade'
  <2>1. /\ recorded' = recorded + 1 /\ recorded' \in 0 .. MaxRecordings /\ mic' = "off"
        /\ uploading' = uploading \cup {recorded'}
    BY <1>4, InputConstants DEF InputInv, InputTypes, RecordingsMade, Input!Stop
  <2>2. 1 .. recorded \subseteq 1 .. recorded' /\ 0 .. recorded \subseteq 0 .. recorded' /\ recorded' \in 1 .. recorded'
    BY <2>1, InputConstants DEF InputInv, InputTypes
  <2> QED
    BY <1>1, <2>1, <2>2 DEF InputInv, InputTypes, RecordingsMade
<1> QED
  BY <1>2, <1>3, <1>4 DEF InputInv

LEMMA InputUploads ==
    ASSUME InputInv, NEW r \in 1 .. MaxRecordings, Input!Uploaded(r) \/ Input!NotUploaded(r)
    PROVE  InputInv'
<1>1. r \in 1 .. recorded /\ r \in 0 .. recorded /\ r # 0 /\ recorded \in Nat
  BY InputConstants DEF InputInv, InputTypes, Input!Uploaded, Input!NotUploaded
<1>2. UNCHANGED <<mic, recorded, corrected, removing>> /\ uploading' \subseteq uploading
  BY DEF Input!Uploaded, Input!NotUploaded
<1>3. CASE Input!Uploaded(r)
  <2>1. hearings' = [hearings EXCEPT ![r] = "queued"] /\ take' = r /\ takeStatus' = "none" /\ heard' = FALSE
    BY <1>3 DEF Input!Uploaded
  <2>2. /\ hearings' \in [1 .. MaxRecordings -> Hearings] /\ hearings'[r] = "queued"
        /\ \A k \in 1 .. MaxRecordings : hearings'[k] # "none" => k \in 1 .. recorded
    BY <1>1, <2>1 DEF InputInv, InputTypes, RecordingsMade, Hearings
  <2>3. InputTypes' /\ RecordingsMade'
    BY <1>1, <1>2, <2>1, <2>2 DEF InputInv, InputTypes, RecordingsMade
  <2>4. TextOwned'
    BY <1>1, <1>2, <2>1 DEF InputInv, TextOwned
  <2> QED
    BY <2>3, <2>4 DEF InputInv
<1>4. CASE Input!NotUploaded(r)
  <2>1. UNCHANGED <<hearings, take, takeStatus, heard>>
    BY <1>4 DEF Input!NotUploaded, Input!serverVars
  <2> QED
    BY <1>2, <2>1 DEF InputInv, InputTypes, RecordingsMade, TextOwned
<1> QED
  BY <1>3, <1>4

LEMMA InputWorks ==
    ASSUME InputInv, NEW r \in 1 .. MaxRecordings, Input!Work(r)
    PROVE  InputInv'
<1>1. PICK next \in Hearings : hearings[r] # "none" /\ next # "none" /\ hearings' = [hearings EXCEPT ![r] = next]
  <2>1. PICK stage \in {<<"queued", "running">>, <<"running", "written">>, <<"written", "completed">>,
                          <<"running", "failed">>} :
          hearings[r] = stage[1] /\ hearings' = [hearings EXCEPT ![r] = stage[2]]
    BY DEF Input!Work
  <2>2. stage[1] # "none" /\ stage[2] \in Hearings \ {"none"}
    BY <2>1 DEF Hearings
  <2> QED
    BY <2>1, <2>2
<1>2. UNCHANGED <<mic, recorded, uploading, take, takeStatus, heard, corrected, removing>>
  BY DEF Input!Work, Input!screenVars
<1>3. /\ hearings' \in [1 .. MaxRecordings -> Hearings]
      /\ \A k \in 1 .. MaxRecordings : hearings'[k] # "none" <=> hearings[k] # "none"
  BY <1>1 DEF InputInv, InputTypes
<1>4. take # 0 => take \in 1 .. MaxRecordings
  BY InputConstants DEF InputInv, InputTypes
<1> QED
  BY <1>2, <1>3, <1>4 DEF InputInv, InputTypes, RecordingsMade, TextOwned

LEMMA InputHears ==
    ASSUME InputInv, Input!HearJob \/ Input!HearText
    PROVE  InputInv'
<1>1. /\ UNCHANGED <<mic, recorded, uploading, hearings, take, removing>>
      /\ take \in 1 .. MaxRecordings /\ take # 0 /\ hearings[take] \in Hearings \ {"none"}
  BY InputConstants DEF InputInv, InputTypes, RecordingsMade, Input!HearJob, Input!HearText, Input!serverVars
<1>2. CASE Input!HearJob
  <2>1. takeStatus' \in {"none", "queued", "running", "completed", "failed"} /\ UNCHANGED <<heard, corrected>>
    BY <1>1, <1>2 DEF Input!HearJob, Hearings
  <2> QED
    BY <1>1, <2>1 DEF InputInv, InputTypes, RecordingsMade, TextOwned
<1>3. CASE Input!HearText
  <2>1. heard' = TRUE /\ takeStatus' = takeStatus /\ corrected' = Input!Draft
    BY <1>3 DEF Input!HearText
  <2>2. Input!Draft \in Text /\ Input!Draft.of # 0
    <3>1. CASE corrected = Input!Blank
      BY <1>1, <3>1 DEF Input!Draft, Text
    <3>2. CASE corrected # Input!Blank
      BY <3>2 DEF Input!Draft, InputInv, InputTypes, TextOwned
    <3> QED
      BY <3>1, <3>2
  <2>3. InputTypes' /\ RecordingsMade'
    BY <1>1, <2>1, <2>2 DEF InputInv, InputTypes, RecordingsMade
  <2>4. TextOwned'
    BY <1>1, <2>1, <2>2 DEF TextOwned
  <2> QED
    BY <2>3, <2>4 DEF InputInv
<1> QED
  BY <1>2, <1>3

\* A text is typed on is that of a recording, and stays its own.
LEMMA TypesOn ==
    ASSUME InputInv, Input!Type
    PROVE  /\ corrected' \in Text /\ corrected'.of = corrected.of /\ corrected.of # 0
           /\ corrected.typed => corrected' = corrected
<1>1. heard /\ corrected \in Text
  BY DEF Input!Type, Input!Stage, InputInv, InputTypes
<1>2. corrected' = [corrected EXCEPT !.typed = TRUE]
  BY DEF Input!Type
<1>3. corrected' \in Text /\ corrected'.of = corrected.of /\ (corrected.typed => corrected' = corrected)
  BY <1>1, <1>2 DEF Text
<1> QED
  BY <1>1, <1>3 DEF InputInv, TextOwned

LEMMA InputKeeps ==
    ASSUME InputInv, Input!Type \/ Input!Send \/ Input!NotSent \/ Input!Cancel \/ Input!NotRemoved
    PROVE  InputInv'
<1>1. UNCHANGED <<mic, recorded, uploading, hearings, take, takeStatus, heard>>
  BY DEF Input!Type, Input!Send, Input!NotSent, Input!Cancel, Input!NotRemoved, Input!screenVars,
         Input!serverVars
<1>2. removing' \in 0 .. recorded
  BY InputConstants DEF InputInv, InputTypes, Input!Type, Input!Send, Input!NotSent, Input!Cancel, Input!NotRemoved
<1>3. /\ corrected' \in Text
      /\ corrected' = corrected \/ (corrected'.of = corrected.of /\ corrected.of # 0)
  <2>1. CASE Input!Type
    BY <2>1, TypesOn
  <2>2. CASE Input!Send \/ Input!NotSent \/ Input!Cancel \/ Input!NotRemoved
    BY <2>2 DEF InputInv, InputTypes, Input!Send, Input!NotSent, Input!Cancel, Input!NotRemoved,
                Input!screenVars
  <2> QED
    BY <2>1, <2>2
<1>4. InputTypes' /\ RecordingsMade'
  BY <1>1, <1>2, <1>3 DEF InputInv, InputTypes, RecordingsMade
<1>5. TextOwned'
  <2>1. CASE corrected' = corrected
    BY <1>1, <2>1 DEF InputInv, TextOwned
  <2>2. CASE corrected'.of = corrected.of /\ corrected.of # 0
    BY <1>1, <2>2, BlankText DEF InputInv, TextOwned
  <2> QED
    BY <1>3, <2>1, <2>2
<1> QED
  BY <1>4, <1>5 DEF InputInv

LEMMA InputResets ==
    ASSUME InputInv, Input!Sent \/ Input!Restart \/ Input!Removed
    PROVE  InputInv'
<1>1. take' = 0 /\ takeStatus' = "none" /\ heard' = FALSE /\ corrected' = Input!Blank
  BY DEF Input!Sent, Input!Restart, Input!Removed, Input!Reset
<1>2. UNCHANGED <<mic, recorded, uploading>> /\ removing' \in {0, removing}
  BY DEF Input!Sent, Input!Restart, Input!Removed
<1>3. /\ hearings' \in [1 .. MaxRecordings -> Hearings]
      /\ \A k \in 1 .. MaxRecordings : hearings'[k] # "none" => k \in 1 .. recorded
  <2>1. CASE Input!Sent \/ Input!Restart
    BY <2>1 DEF Input!Sent, Input!Restart, Input!serverVars, InputInv, InputTypes, RecordingsMade, Input!Reset
  <2>2. CASE Input!Removed
    <3>1. removing \in 1 .. recorded /\ hearings' = [hearings EXCEPT ![removing] = "gone"]
      BY <2>2, InputConstants DEF Input!Removed, InputInv, InputTypes
    <3> QED
      BY <3>1 DEF InputInv, InputTypes, RecordingsMade, Hearings
  <2> QED
    BY <2>1, <2>2
<1>4. 0 \in 0 .. recorded
  BY InputConstants DEF InputInv, InputTypes
<1> QED
  BY <1>1, <1>2, <1>3, <1>4, BlankText DEF InputInv, InputTypes, RecordingsMade, TextOwned

LEMMA InputStep == InputInv /\ [Input!Next]_input => InputInv'
<1> SUFFICES ASSUME InputInv, [Input!Next]_input PROVE InputInv'
  OBVIOUS
<1>1. CASE UNCHANGED input
  BY <1>1 DEF input, InputInv, InputTypes, RecordingsMade, TextOwned
<1> QED
  BY <1>1, InputRecords, InputUploads, InputWorks, InputHears, InputKeeps, InputResets
     DEF Input!Next, Input!Works, Input!Hears, Input!Recording

LEMMA InputHolds == InputInv => Input!TypeOK
<1> SUFFICES ASSUME InputInv PROVE Input!TypeOK
  OBVIOUS
<1>1. corrected.typed => corrected.of # 0
  BY BlankText DEF InputInv, TextOwned
<1> QED
  BY <1>1 DEF InputInv, InputTypes, RecordingsMade, TextOwned, Input!TypeOK, Input!Recording

\* What was typed stays, until its recording is sent or given up.
LEMMA TypedStays ==
    InputInv /\ [Input!Next]_input =>
        (corrected.typed => corrected' = corrected \/ (sending' # sending \/ removing' # removing))
<1> SUFFICES ASSUME InputInv, [Input!Next]_input, corrected.typed, corrected' # corrected
             PROVE  sending' # sending \/ removing' # removing
  OBVIOUS
<1>1. corrected # Input!Blank /\ take # 0
  BY BlankText DEF InputInv, TextOwned
<1>2. ~Input!Type /\ ~Input!Restart /\ ~Input!HearText
  BY <1>1, TypesOn DEF Input!Restart, Input!HearText, Input!Draft
<1>3. Input!Sent \/ Input!Removed
  BY <1>2 DEF input, Input!Next, Input!Start, Input!Granted, Input!Denied, Input!Stop, Input!Uploaded,
         Input!NotUploaded, Input!Works, Input!Work, Input!Hears, Input!HearJob, Input!Send,
         Input!NotSent, Input!Cancel, Input!NotRemoved, Input!screenVars, Input!serverVars
<1> QED
  BY <1>3 DEF Input!Sent, Input!Removed

------------------------------------------------------------------------------
(* All of them.  A step of one component leaves the variables of the       *)
(* others as they are, for which their steps allow.                        *)

RuntimeInv ==
    /\ EventsInv /\ VideoInv /\ GateInv /\ LocksInv /\ ProcessInv /\ ClientInv
    /\ ScreenInv /\ ChatInv /\ InputInv

LEMMA RuntimeInit == Init => RuntimeInv
BY EventsInit, VideoInit, GateInit, LocksInit, ProcessInit, ClientInit, ScreenInit, ChatInit, InputInit
   DEF Init, RuntimeInv

\* Each component takes a step of its own, or none.
Apart ==
    /\ [Events!Next]_events /\ [Render!Next]_video /\ [Gate!Next]_places /\ [Locks!Next]_locks
    /\ [Process!Next]_process /\ [Client!Next]_client /\ [Screen!Next]_screen /\ [Chat!Next]_chat
    /\ [Input!Next]_input

LEMMA RuntimeApart == [Next]_vars => Apart
<1> SUFFICES ASSUME [Next]_vars PROVE Apart
  OBVIOUS
<1>1. CASE UNCHANGED vars
  BY <1>1 DEF vars, Apart
<1>2. CASE Next
  BY <1>2 DEF Next, Only, Still, Apart
<1> QED
  BY <1>1, <1>2

LEMMA RuntimeStep == RuntimeInv /\ [Next]_vars => RuntimeInv'
BY RuntimeApart, EventsStep, VideoStep, GateStep, LocksStep, ProcessStep, ClientStep, ScreenStep,
   ChatStep, InputStep
   DEF RuntimeInv, Apart

LEMMA RuntimeStays == Spec => []RuntimeInv
BY RuntimeInit, RuntimeStep, PTL DEF Spec

\* Every component keeps its types, for any number of writers, workers, callers,
\* tasks, projects, conversations and recordings.
THEOREM RuntimeTypes == Spec => []TypeOK
<1>1. RuntimeInv => TypeOK
  BY EventsHold, VideoHolds, GateHolds, LocksHold, ProcessHolds, ClientHolds, ScreenHolds, ChatHolds,
     InputHolds
     DEF RuntimeInv, TypeOK, GateInv
<1> QED
  BY <1>1, RuntimeStays, PTL

\* job-events.ts, routes/jobs.ts: whichever runs of a job write at once, its
\* journal is numbered without a gap and each stream of it is a prefix.
THEOREM JournalStaysWhole == Spec => []JournalIsWhole
<1>1. RuntimeInv => JournalIsWhole
  BY EventsHold DEF RuntimeInv, JournalIsWhole
<1> QED
  BY <1>1, RuntimeStays, PTL

\* renders.ts, render-video.ts: through any crashes, lost leases and
\* resumptions, a completed render can be watched, and one that is shown in
\* progress is carried by a job, a run or a request, unless a run or a request
\* left it without writing its row, in one of the ways InProgressHasRun names.
THEOREM RendersStayTrue == Spec => []RendersAreTrue
<1>1. RuntimeInv => RendersAreTrue
  BY VideoHolds DEF RuntimeInv, RendersAreTrue
<1> QED
  BY <1>1, RuntimeStays, PTL

\* semaphore.ts, credentials.ts: no more holders than places, nobody waits
\* beside a free one or is overtaken, and an account has one task at a time.
THEOREM TurnsStayKept == Spec => []TurnsAreKept
<1>1. RuntimeInv => TurnsAreKept
  BY GateHolds, LocksHold DEF RuntimeInv, TurnsAreKept
<1> QED
  BY <1>1, RuntimeStays, PTL

\* http.ts, process.ts, useJobStream.ts, ConversationView.tsx: no late answer
\* is taken for another one.
THEOREM AnswersStayMatched == Spec => []AnswersAreMatched
<1>1. RuntimeInv => AnswersAreMatched
  BY ClientHolds, ProcessHolds, ScreenHolds, ChatHolds DEF RuntimeInv, AnswersAreMatched
<1> QED
  BY <1>1, RuntimeStays, PTL

\* What is over or was typed is not undone by what arrives later.
THEOREM WhatIsOverStays == Spec => NothingGoesBack
<1>1. Spec => Events!CompletedStays
  <2>1. RuntimeInv /\ [Next]_vars =>
          [status = "completed" =>
             status' = "completed" \/ collided' \/ \E w \in Writers : writing[w].left]_(Events!eventsVars)
    BY RuntimeApart, CompletedJobStays DEF RuntimeInv, Apart
  <2> QED
    BY RuntimeStays, <2>1, PTL DEF Spec, Events!CompletedStays
<1>2. Spec => Render!CompletedIsFinal
  <2>1. RuntimeInv /\ [Next]_vars =>
          [\A r \in Renders : renders[r].status = "completed" =>
             renders'[r].status = "completed" /\ renders'[r].asset = renders[r].asset]_renders
    BY RuntimeApart, CompletedRenderStays DEF RuntimeInv, Apart
  <2> QED
    BY RuntimeStays, <2>1, PTL DEF Spec, Render!CompletedIsFinal
<1>3. Spec => Screen!BarNeverGoesBack
  <2>1. RuntimeInv /\ [Next]_vars =>
          [jobId' = jobId /\ jobId # 0 => progress'.bar >= progress.bar]_(Screen!screenVars)
    BY RuntimeApart, BarStays DEF RuntimeInv, Apart
  <2> QED
    BY RuntimeStays, <2>1, PTL DEF Spec, Screen!BarNeverGoesBack
<1>4. Spec => Input!CorrectionKept
  <2>1. RuntimeInv /\ [Next]_vars =>
          [corrected.typed =>
             corrected' = corrected \/ (sending' # sending \/ removing' # removing)]_(Input!inputVars)
    BY RuntimeApart, TypedStays DEF RuntimeInv, Apart
  <2> QED
    BY RuntimeStays, <2>1, PTL DEF Spec, Input!CorrectionKept
<1> QED
  BY <1>1, <1>2, <1>3, <1>4 DEF NothingGoesBack
==============================================================================
