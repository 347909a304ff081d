--------------------------- MODULE KeepAliveProofs ---------------------------
(***************************************************************************)
(* Proofs about the keep-alive service, for every set of services, every   *)
(* threshold, interval and token life, and however many rounds, ticks and  *)
(* restarts there are.                                                     *)
(***************************************************************************)
EXTENDS KeepAlive, TLAPS

(***************************************************************************)
(* The inductive invariant. That alerts are spaced does not follow from    *)
(* itself: what an alert is measured against are the two time stamps, and  *)
(* these have to be as late as every alert of this life they stand for.    *)
(* The two facts are stated of one service's sequence of alerts r and its  *)
(* time stamps h (health) and a (authorization).                           *)
(***************************************************************************)
Life(r, i, j) == \A k \in i..j : r[k].kind # "restart"

Repeated == {"still offline"}

Latest(r, h, a) ==
  \A i \in 1..Len(r) : Life(r, i, Len(r)) =>
    /\ r[i].kind \in Auth => r[i].at <= a
    /\ r[i].kind \in Reported => r[i].at <= h

Spaced(r) ==
  \A j \in 1..Len(r) : \A i \in 1..(j - 1) :
    /\ Life(r, i, j)
    /\ \/ r[i].kind \in Auth /\ r[j].kind \in Auth
       \/ r[i].kind \in Reported /\ r[j].kind \in Repeated
    => r[j].at - r[i].at >= AlertInterval

StampsArePast ==
  \A s \in Services : lastAlertTime[s] <= now /\ lastAuthAlertTime[s] <= now
StampsAreLatest ==
  \A s \in Services : Latest(raised[s], lastAlertTime[s], lastAuthAlertTime[s])
EachSpaced == \A s \in Services : Spaced(raised[s])

Inv == TypeOK /\ StampsArePast /\ StampsAreLatest /\ EachSpaced

-----------------------------------------------------------------------------
(* Type correctness.                                                       *)

LEMMA TypeInit == Init => TypeOK
  BY KeepAliveAssumption DEF Init, TypeOK, Time, Never

\* Raising an alert keeps the types.
LEMMA RaiseType ==
  ASSUME TypeOK, NEW s \in Services, NEW kind \in Health \cup Auth, Raise(s, kind)
  PROVE  raised' \in [Services -> Seq(Alert)]
  <1>1. [kind |-> kind, at |-> now] \in Alert
    BY DEF TypeOK, Time, Alert
  <1>2. raised[s] \in Seq(Alert)
    BY DEF TypeOK
  <1>3. Append(raised[s], [kind |-> kind, at |-> now]) \in Seq(Alert)
    BY <1>1, <1>2
  <1> QED
    BY <1>3 DEF TypeOK, Raise

LEMMA TypeNext == TypeOK /\ [Next]_vars => TypeOK'
  <1> SUFFICES ASSUME TypeOK, [Next]_vars PROVE TypeOK'
    OBVIOUS
  <1> USE KeepAliveAssumption
  <1>1. CASE Tick
    BY <1>1 DEF Tick, TypeOK, Time, round, state
  <1>2. CASE RefreshToken
    BY <1>2 DEF RefreshToken, TypeOK, round, state
  <1>3. CASE Restart
    <2>1. ASSUME NEW s \in Services
          PROVE  Append(raised[s], [kind |-> "restart", at |-> now]) \in Seq(Alert)
      <3>1. [kind |-> "restart", at |-> now] \in Alert
        BY DEF TypeOK, Time, Alert
      <3> QED
        BY <3>1 DEF TypeOK
    <2> QED
      BY <1>3, <2>1 DEF Restart, TypeOK, Time
  <1>4. CASE BeginRound
    BY <1>4 DEF BeginRound, TypeOK, state
  <1>5. ASSUME NEW s \in Services, Probe(s) PROVE TypeOK'
    BY <1>5 DEF Probe, TypeOK, environment, state, Goto, Set
  <1>6. ASSUME NEW s \in Services, AuthUnknown(s) \/ AuthFine(s) PROVE TypeOK'
    BY <1>6 DEF AuthUnknown, AuthFine, TypeOK, environment, state, Goto
  <1>7. ASSUME NEW s \in Services, AuthAlert(s) PROVE TypeOK'
    <2>1. raised' \in [Services -> Seq(Alert)]
      BY <1>7, RaiseType DEF AuthAlert, Auth
    <2> QED
      BY <1>7, <2>1 DEF AuthAlert, TypeOK, environment, Goto, Set
  <1>8. ASSUME NEW s \in Services, StayHealthy(s) PROVE TypeOK'
    BY <1>8 DEF StayHealthy, Return, TypeOK, environment, Goto, Set
  <1>9. ASSUME NEW s \in Services, Recover(s) PROVE TypeOK'
    <2>1. raised' \in [Services -> Seq(Alert)]
      BY <1>9, RaiseType DEF Recover, Health
    <2> QED
      BY <1>9, <2>1 DEF Recover, Return, TypeOK, environment, Goto, Set
  <1>10. ASSUME NEW s \in Services, Fail(s) PROVE TypeOK'
    <2>1. raised' \in [Services -> Seq(Alert)]
      BY <1>10, RaiseType DEF Fail, Offline, StillOffline, NoAlert, Health, TypeOK
    <2>2. lastAlertTime' \in [Services -> Time \cup {Never}]
      BY <1>10 DEF Fail, Offline, StillOffline, NoAlert, TypeOK, Set
    <2>3. consecutiveFailures' \in [Services -> Nat]
      BY <1>10 DEF Fail, TypeOK, Set
    <2>4. /\ pc' \in [Services -> {"done", "probe", "auth", "verdict"}]
          /\ healthy' \in [Services -> BOOLEAN] /\ isHealthy' \in [Services -> BOOLEAN]
      BY <1>10 DEF Fail, Return, Goto, TypeOK, Set
    <2>5. UNCHANGED <<now, refreshed, ticks, restarts, lastAuthAlertTime>>
      BY <1>10 DEF Fail, environment
    <2> QED
      BY <2>1, <2>2, <2>3, <2>4, <2>5 DEF TypeOK
  <1>11. CASE UNCHANGED vars
    BY <1>11 DEF vars, environment, round, state, TypeOK
  <1> QED
    BY <1>1, <1>2, <1>3, <1>4, <1>5, <1>6, <1>7, <1>8, <1>9, <1>10, <1>11
       DEF Next, CheckService

\* The variables of the keep-alive service have their types, for every set of
\* services and all thresholds, intervals and bounds.
THEOREM TypeCorrect == Spec => []TypeOK
  BY TypeInit, TypeNext, PTL DEF Spec

-----------------------------------------------------------------------------
(* Sequences of alerts.                                                    *)

\* Places in a sequence of n elements to which one is appended.
LEMMA Places ==
  ASSUME NEW n \in Nat
  PROVE  /\ \A j \in 1..(n + 1) : \A i \in 1..(j - 1) :
              i \in 1..n /\ (j = n + 1 \/ j \in 1..n)
         /\ \A i \in 1..(n + 1) :
              i \in Nat /\ i >= 1 /\ (i = n + 1 \/ i \in 1..n) /\ n + 1 \in i..(n + 1)
         /\ \A i \in 1..n : n \in 1..n /\ i..n \subseteq i..(n + 1) /\ n + 1 \in i..(n + 1)
  OBVIOUS

\* The place before each of these.
LEMMA PlacesBefore ==
  ASSUME NEW n \in Nat
  PROVE  /\ n \in 0..n /\ \A i \in 1..n : i - 1 \in 0..n
         /\ \A i \in 1..(n + 1) : (i = n + 1 /\ i - 1 = n) \/ i \in 1..n
  OBVIOUS

\* What appending does to a sequence.
LEMMA Appended ==
  ASSUME NEW r \in Seq(Alert), NEW x \in Alert
  PROVE  /\ Len(r) \in Nat /\ Len(Append(r, x)) = Len(r) + 1
         /\ Append(r, x)[Len(r) + 1] = x
         /\ \A i \in 1..Len(r) : Append(r, x)[i] = r[i] /\ r[i].at \in Int
  <1>1. /\ Len(r) \in Nat /\ Len(Append(r, x)) = Len(r) + 1
        /\ Append(r, x)[Len(r) + 1] = x
        /\ \A i \in 1..Len(r) : Append(r, x)[i] = r[i] /\ r[i] \in Alert
    OBVIOUS
  <1>2. \A y \in Alert : y.at \in Int
    BY KeepAliveAssumption DEF Alert
  <1> QED
    BY <1>1, <1>2

\* The elements of a life are of this life without the alert appended to it.
LEMMA AppendLife ==
  ASSUME NEW r \in Seq(Alert), NEW x \in Alert, NEW i \in Nat, NEW j \in 1..Len(r),
         Life(Append(r, x), i, j), i >= 1
  PROVE  Life(r, i, j)
  <1> DEFINE n == Len(r)
  <1>1. n \in Nat /\ \A k \in 1..n : Append(r, x)[k] = r[k]
    BY Appended
  <1> HIDE DEF n
  <1>2. \A k \in i..j : k \in 1..n
    BY <1>1 DEF n
  <1> QED
    BY <1>1, <1>2 DEF Life

\* One more alert at time t, which has been measured against the stamp of its
\* kind and is noted in it.
LEMMA AppendAlert ==
  ASSUME NEW r \in Seq(Alert), NEW h \in Int, NEW a \in Int,
         NEW kind \in Health \cup Auth, NEW t \in 0..MaxTime,
         NEW h2 \in Int, NEW a2 \in Int,
         Latest(r, h, a), Spaced(r), h2 >= h, a2 >= a,
         kind \in Auth => t - a >= AlertInterval /\ a2 >= t,
         kind \in Repeated => t - h >= AlertInterval,
         kind \in Reported => h2 >= t
  PROVE  /\ Latest(Append(r, [kind |-> kind, at |-> t]), h2, a2)
         /\ Spaced(Append(r, [kind |-> kind, at |-> t]))
  <1> DEFINE x == [kind |-> kind, at |-> t]
             q == Append(r, x)
             n == Len(r)
  <1>x. x \in Alert /\ x.kind = kind /\ x.at = t
    BY DEF Alert
  <1>t. t \in Int /\ AlertInterval \in Int
    BY KeepAliveAssumption
  <1> HIDE DEF x
  <1>1. n \in Nat /\ Len(q) = n + 1 /\ q[n + 1] = x
    BY <1>x, Appended
  <1>2. \A i \in 1..n : q[i] = r[i] /\ r[i].at \in Int
    BY <1>x, Appended
  <1>3. \A i \in Nat : \A j \in 1..n : i >= 1 /\ Life(q, i, j) => Life(r, i, j)
    BY <1>x, AppendLife
  <1>4. \A i \in 1..n : Life(r, i, n) =>
          /\ r[i].kind \in Auth => r[i].at <= a
          /\ r[i].kind \in Reported => r[i].at <= h
    BY DEF Latest
  <1>5. Spaced(r) => \A j \in 1..n : \A i \in 1..(j - 1) :
          /\ Life(r, i, j)
          /\ \/ r[i].kind \in Auth /\ r[j].kind \in Auth
             \/ r[i].kind \in Reported /\ r[j].kind \in Repeated
          => r[j].at - r[i].at >= AlertInterval
    BY DEF Spaced
  <1> HIDE DEF q, n
  <1>e. ASSUME NEW i \in 1..n, Life(q, i, n + 1)
        PROVE  /\ r[i].kind \in Auth => r[i].at <= a
               /\ r[i].kind \in Reported => r[i].at <= h
    <2>1. Life(q, i, n)
      <3>1. i..n \subseteq i..(n + 1)
        BY <1>1, Places
      <3> QED
        BY <3>1, <1>e DEF Life
    <2>2. i \in Nat /\ i >= 1 /\ n \in 1..n
      BY <1>1, Places
    <2>3. Life(r, i, n)
      BY <2>1, <2>2, <1>3
    <2> QED
      BY <2>3, <1>4
  <1>6. Latest(q, h2, a2)
    <2> SUFFICES ASSUME NEW i \in 1..(n + 1), Life(q, i, n + 1)
                 PROVE  /\ q[i].kind \in Auth => q[i].at <= a2
                        /\ q[i].kind \in Reported => q[i].at <= h2
      BY <1>1 DEF Latest
    <2>1. CASE i = n + 1
      BY <2>1, <1>1, <1>x, <1>t
    <2>2. CASE i \in 1..n
      <3>1. q[i] = r[i] /\ r[i].at \in Int
        BY <2>2, <1>2
      <3>2. /\ r[i].kind \in Auth => r[i].at <= a
            /\ r[i].kind \in Reported => r[i].at <= h
        BY <2>2, <1>e
      <3> QED
        BY <3>1, <3>2
    <2> QED
      BY <1>1, <2>1, <2>2, Places
  <1>7. Spaced(q)
    <2> SUFFICES ASSUME NEW j \in 1..(n + 1), NEW i \in 1..(j - 1), Life(q, i, j),
                        \/ q[i].kind \in Auth /\ q[j].kind \in Auth
                        \/ q[i].kind \in Reported /\ q[j].kind \in Repeated
                 PROVE  q[j].at - q[i].at >= AlertInterval
      BY <1>1 DEF Spaced
    <2>0. i \in 1..n /\ i \in Nat /\ i >= 1 /\ (j = n + 1 \/ j \in 1..n)
      BY <1>1, Places
    <2>1. CASE j = n + 1
      <3>1. q[j] = x /\ q[i] = r[i] /\ r[i].at \in Int
        BY <2>0, <2>1, <1>1, <1>2
      <3>2. /\ r[i].kind \in Auth => r[i].at <= a
            /\ r[i].kind \in Reported => r[i].at <= h
        BY <2>0, <2>1, <1>e
      <3>3. CASE r[i].kind \in Auth /\ kind \in Auth
        BY <3>1, <3>2, <3>3, <1>x, <1>t
      <3>4. CASE r[i].kind \in Reported /\ kind \in Repeated
        BY <3>1, <3>2, <3>4, <1>x, <1>t
      <3> QED
        BY <3>1, <3>3, <3>4, <1>x
    <2>2. CASE j \in 1..n
      <3>1. q[j] = r[j] /\ q[i] = r[i]
        BY <2>0, <2>2, <1>2
      <3>2. Life(r, i, j)
        BY <2>0, <2>2, <1>3
      <3> QED
        BY <3>1, <3>2, <2>2, <1>5
    <2> QED
      BY <2>0, <2>1, <2>2
  <1> QED
    BY <1>6, <1>7 DEF q, x

\* A restart: no alert before it is of this life.
LEMMA AppendRestart ==
  ASSUME NEW r \in Seq(Alert), NEW t \in 0..MaxTime, NEW h \in Int, NEW a \in Int,
         Spaced(r)
  PROVE  /\ Latest(Append(r, [kind |-> "restart", at |-> t]), h, a)
         /\ Spaced(Append(r, [kind |-> "restart", at |-> t]))
  <1> DEFINE x == [kind |-> "restart", at |-> t]
             q == Append(r, x)
             n == Len(r)
  <1>x. x \in Alert /\ x.kind = "restart"
    BY DEF Alert
  <1> HIDE DEF x
  <1>1. n \in Nat /\ Len(q) = n + 1 /\ q[n + 1] = x /\ \A i \in 1..n : q[i] = r[i]
    BY <1>x, Appended
  <1>2. \A i \in Nat : \A j \in 1..n : i >= 1 /\ Life(q, i, j) => Life(r, i, j)
    BY <1>x, AppendLife
  <1>3. \A j \in 1..n : \A i \in 1..(j - 1) :
          /\ Life(r, i, j)
          /\ \/ r[i].kind \in Auth /\ r[j].kind \in Auth
             \/ r[i].kind \in Reported /\ r[j].kind \in Repeated
          => r[j].at - r[i].at >= AlertInterval
    BY DEF Spaced
  <1> HIDE DEF q, n
  <1>4. ASSUME NEW i \in 1..(n + 1) PROVE ~ Life(q, i, n + 1)
    <2>1. n + 1 \in i..(n + 1)
      BY <1>1, Places
    <2> QED
      BY <2>1, <1>1, <1>x DEF Life
  <1>5. Latest(q, h, a)
    BY <1>1, <1>4 DEF Latest
  <1>6. Spaced(q)
    <2> SUFFICES ASSUME NEW j \in 1..(n + 1), NEW i \in 1..(j - 1), Life(q, i, j),
                        \/ q[i].kind \in Auth /\ q[j].kind \in Auth
                        \/ q[i].kind \in Reported /\ q[j].kind \in Repeated
                 PROVE  q[j].at - q[i].at >= AlertInterval
      BY <1>1 DEF Spaced
    <2>0. i \in 1..n /\ i \in Nat /\ i >= 1 /\ (j = n + 1 \/ j \in 1..n)
      BY <1>1, Places
    <2>1. j # n + 1
      <3>1. i \in 1..(n + 1)
        BY <2>0, <1>1
      <3> QED
        BY <3>1, <1>4
    <2>2. j \in 1..n
      BY <2>0, <2>1
    <2>3. Life(r, i, j)
      BY <2>0, <2>2, <1>2
    <2> QED
      BY <2>2, <2>3, <1>1, <1>3
  <1> QED
    BY <1>5, <1>6 DEF q, x

-----------------------------------------------------------------------------
(* The invariant.                                                          *)

LEMMA InvInit == Init => Inv
  <1> SUFFICES ASSUME Init PROVE Inv
    OBVIOUS
  <1>1. TypeOK
    BY TypeInit
  <1>2. StampsArePast
    <2>1. Never <= 0
      BY KeepAliveAssumption DEF Never
    <2> QED
      BY <2>1 DEF Init, StampsArePast
  <1>3. ASSUME NEW s \in Services
        PROVE  Latest(raised[s], lastAlertTime[s], lastAuthAlertTime[s]) /\ Spaced(raised[s])
    <2>1. raised[s] = <<>>
      BY DEF Init
    <2> QED
      BY <2>1 DEF Latest, Spaced
  <1> QED
    BY <1>1, <1>2, <1>3 DEF Inv, StampsAreLatest, EachSpaced

\* The types of what one service's alerts are measured against.
LEMMA ServiceTypes ==
  ASSUME TypeOK, NEW s \in Services
  PROVE  /\ raised[s] \in Seq(Alert) /\ now \in 0..MaxTime /\ now \in Int
         /\ lastAlertTime[s] \in Int /\ lastAuthAlertTime[s] \in Int
  BY KeepAliveAssumption DEF TypeOK, Time, Never

\* A service's step: it raises at most one alert, which has been measured, and
\* moves its time stamps to now or leaves them.
LEMMA ServiceStep ==
  ASSUME Inv, NEW s \in Services, NEW h, NEW a, NEW r,
         now' = now,
         lastAlertTime' = [lastAlertTime EXCEPT ![s] = h],
         lastAuthAlertTime' = [lastAuthAlertTime EXCEPT ![s] = a],
         raised' = [raised EXCEPT ![s] = r],
         h <= now, a <= now, Latest(r, h, a), Spaced(r)
  PROVE  StampsArePast' /\ StampsAreLatest' /\ EachSpaced'
  <1>1. ASSUME NEW u \in Services
        PROVE  /\ lastAlertTime'[u] <= now' /\ lastAuthAlertTime'[u] <= now'
               /\ Latest(raised'[u], lastAlertTime'[u], lastAuthAlertTime'[u])
               /\ Spaced(raised'[u])
    <2>1. CASE u = s
      BY <2>1 DEF Inv, TypeOK
    <2>2. CASE u # s
      BY <2>2 DEF Inv, TypeOK, StampsArePast, StampsAreLatest, EachSpaced
    <2> QED
      BY <2>1, <2>2
  <1> QED
    BY <1>1 DEF StampsArePast, StampsAreLatest, EachSpaced

\* A step that leaves the alerts and their stamps and does not turn time back.
LEMMA QuietStep ==
  ASSUME Inv, TypeOK', now' >= now,
         UNCHANGED <<lastAlertTime, lastAuthAlertTime, raised>>
  PROVE  StampsArePast' /\ StampsAreLatest' /\ EachSpaced'
  <1>1. StampsArePast'
    <2> SUFFICES ASSUME NEW s \in Services
                 PROVE  lastAlertTime[s] <= now' /\ lastAuthAlertTime[s] <= now'
      BY DEF StampsArePast
    <2>1. lastAlertTime[s] <= now /\ lastAuthAlertTime[s] <= now
      BY DEF Inv, StampsArePast
    <2>2. lastAlertTime[s] \in Int /\ lastAuthAlertTime[s] \in Int /\ now \in Int
      BY ServiceTypes DEF Inv
    <2>3. now' \in Int
      BY KeepAliveAssumption DEF TypeOK, Time
    <2> QED
      BY <2>1, <2>2, <2>3
  <1> QED
    BY <1>1 DEF Inv, StampsAreLatest, EachSpaced

LEMMA InvRestart ==
  ASSUME Inv, Restart
  PROVE  StampsArePast' /\ StampsAreLatest' /\ EachSpaced'
  <1>0. /\ now' = now
        /\ raised' = [s \in Services |-> Append(raised[s], [kind |-> "restart", at |-> now])]
        /\ lastAlertTime' = [s \in Services |-> Never]
        /\ lastAuthAlertTime' = [s \in Services |-> Never]
    BY DEF Restart
  <1>1. ASSUME NEW s \in Services
        PROVE  /\ lastAlertTime'[s] <= now' /\ lastAuthAlertTime'[s] <= now'
               /\ Latest(raised'[s], lastAlertTime'[s], lastAuthAlertTime'[s])
               /\ Spaced(raised'[s])
    <2>1. raised[s] \in Seq(Alert) /\ now \in 0..MaxTime /\ Spaced(raised[s])
      BY ServiceTypes DEF Inv, EachSpaced
    <2>2. Never \in Int /\ Never <= now
      BY KeepAliveAssumption, <2>1 DEF Never
    <2> DEFINE r == Append(raised[s], [kind |-> "restart", at |-> now])
    <2>3. Latest(r, Never, Never) /\ Spaced(r)
      BY <2>1, <2>2, AppendRestart
    <2>4. raised'[s] = r /\ lastAlertTime'[s] = Never /\ lastAuthAlertTime'[s] = Never
      BY <1>0
    <2> QED
      BY <1>0, <2>2, <2>3, <2>4
  <1> QED
    BY <1>1 DEF StampsArePast, StampsAreLatest, EachSpaced

LEMMA InvAuthAlert ==
  ASSUME Inv, NEW s \in Services, AuthAlert(s)
  PROVE  StampsArePast' /\ StampsAreLatest' /\ EachSpaced'
  <1>0. PICK kind \in Auth :
          /\ raised' = [raised EXCEPT ![s] = Append(@, [kind |-> kind, at |-> now])]
          /\ now - lastAuthAlertTime[s] >= AlertInterval
          /\ lastAuthAlertTime' = [lastAuthAlertTime EXCEPT ![s] = now]
          /\ lastAlertTime' = lastAlertTime /\ now' = now
    BY DEF AuthAlert, Raise, Due, Set, Auth, environment
  <1> DEFINE r == Append(raised[s], [kind |-> kind, at |-> now])
  <1>1. /\ raised[s] \in Seq(Alert) /\ now \in 0..MaxTime /\ now \in Int
        /\ lastAlertTime[s] \in Int /\ lastAuthAlertTime[s] \in Int
    BY ServiceTypes DEF Inv
  <1>2. /\ lastAlertTime[s] <= now /\ lastAuthAlertTime[s] <= now
        /\ Latest(raised[s], lastAlertTime[s], lastAuthAlertTime[s]) /\ Spaced(raised[s])
    BY DEF Inv, StampsArePast, StampsAreLatest, EachSpaced
  <1>3. kind \in Health \cup Auth /\ kind \notin Reported /\ kind \notin Repeated
    BY DEF Auth, Reported, Health, Repeated
  <1>4. Latest(r, lastAlertTime[s], now) /\ Spaced(r)
    <2> HIDE DEF r
    <2>1. now >= lastAuthAlertTime[s] /\ lastAlertTime[s] >= lastAlertTime[s] /\ now >= now
      BY <1>1, <1>2
    <2> QED
      BY <1>0, <1>1, <1>2, <1>3, <2>1, AppendAlert DEF r
  <1>5. lastAlertTime' = [lastAlertTime EXCEPT ![s] = lastAlertTime[s]]
    BY <1>0 DEF Inv, TypeOK
  <1>6. raised' = [raised EXCEPT ![s] = r] /\ now <= now
    BY <1>0, <1>1
  <1> QED
    BY <1>0, <1>2, <1>4, <1>5, <1>6, ServiceStep

LEMMA InvRecover ==
  ASSUME Inv, NEW s \in Services, Recover(s)
  PROVE  StampsArePast' /\ StampsAreLatest' /\ EachSpaced'
  <1>0. /\ raised' = [raised EXCEPT ![s] = Append(@, [kind |-> "recovered", at |-> now])]
        /\ lastAuthAlertTime' = lastAuthAlertTime
        /\ lastAlertTime' = lastAlertTime /\ now' = now
    BY DEF Recover, Raise, environment
  <1> DEFINE r == Append(raised[s], [kind |-> "recovered", at |-> now])
             h == lastAlertTime[s]
             a == lastAuthAlertTime[s]
  <1>1. raised[s] \in Seq(Alert) /\ now \in 0..MaxTime /\ h \in Int /\ a \in Int
    BY ServiceTypes DEF Inv
  <1>2. h <= now /\ a <= now /\ Latest(raised[s], h, a) /\ Spaced(raised[s])
    BY DEF Inv, StampsArePast, StampsAreLatest, EachSpaced
  <1>3. /\ "recovered" \in Health \cup Auth /\ "recovered" \notin Auth
        /\ "recovered" \notin Reported /\ "recovered" \notin Repeated
    BY DEF Auth, Reported, Health, Repeated
  <1>4. h >= h /\ a >= a
    BY <1>1
  <1>5. Latest(r, h, a) /\ Spaced(r)
    BY <1>1, <1>2, <1>3, <1>4, AppendAlert
  <1>6. /\ lastAlertTime' = [lastAlertTime EXCEPT ![s] = h]
        /\ lastAuthAlertTime' = [lastAuthAlertTime EXCEPT ![s] = a]
    BY <1>0 DEF Inv, TypeOK
  <1>7. raised' = [raised EXCEPT ![s] = r]
    BY <1>0
  <1> QED
    BY <1>0, <1>2, <1>5, <1>6, <1>7, ServiceStep

LEMMA InvFail ==
  ASSUME Inv, TypeOK', NEW s \in Services, Fail(s)
  PROVE  StampsArePast' /\ StampsAreLatest' /\ EachSpaced'
  <1>0. now' = now /\ lastAuthAlertTime' = lastAuthAlertTime
    BY DEF Fail, environment
  <1>1. CASE NoAlert(s)
    <2>1. now' >= now
      BY <1>0, ServiceTypes DEF Inv
    <2> QED
      BY <1>0, <1>1, <2>1, QuietStep DEF NoAlert
  <1>2. CASE Offline(s) \/ StillOffline(s)
    <2>0. PICK kind \in Reported :
            /\ raised' = [raised EXCEPT ![s] = Append(@, [kind |-> kind, at |-> now])]
            /\ kind \in Repeated => now - lastAlertTime[s] >= AlertInterval
            /\ lastAlertTime' = [lastAlertTime EXCEPT ![s] = now]
      <3>1. "offline" \in Reported /\ "still offline" \in Reported /\ "offline" \notin Repeated
        BY DEF Reported, Health, Repeated
      <3>2. CASE Offline(s)
        BY <3>1, <3>2 DEF Offline, Raise, Set
      <3>3. CASE StillOffline(s)
        BY <3>1, <3>3 DEF StillOffline, Raise, Due, Set
      <3> QED
        BY <1>2, <3>2, <3>3
    <2> DEFINE r == Append(raised[s], [kind |-> kind, at |-> now])
               h == lastAlertTime[s]
               a == lastAuthAlertTime[s]
    <2>1. raised[s] \in Seq(Alert) /\ now \in 0..MaxTime /\ now \in Int /\ h \in Int /\ a \in Int
      BY ServiceTypes DEF Inv
    <2>2. h <= now /\ a <= now /\ Latest(raised[s], h, a) /\ Spaced(raised[s])
      BY DEF Inv, StampsArePast, StampsAreLatest, EachSpaced
    <2>3. kind \in Health \cup Auth /\ kind \notin Auth
      BY DEF Auth, Reported, Health
    <2>4. now >= h /\ a >= a /\ now >= now /\ now <= now
      BY <2>1, <2>2
    <2>5. Latest(r, now, a) /\ Spaced(r)
      BY <2>0, <2>1, <2>2, <2>3, <2>4, AppendAlert
    <2>6. lastAuthAlertTime' = [lastAuthAlertTime EXCEPT ![s] = a]
      BY <1>0 DEF Inv, TypeOK
    <2>7. raised' = [raised EXCEPT ![s] = r]
      BY <2>0
    <2> QED
      BY <1>0, <2>0, <2>2, <2>4, <2>5, <2>6, <2>7, ServiceStep
  <1> QED
    BY <1>1, <1>2 DEF Fail

LEMMA InvNext == Inv /\ [Next]_vars => Inv'
  <1> SUFFICES ASSUME Inv, [Next]_vars PROVE Inv'
    OBVIOUS
  <1>0. TypeOK'
    BY TypeNext DEF Inv
  <1>1. CASE Restart
    BY <1>0, <1>1, InvRestart DEF Inv
  <1>2. ASSUME NEW s \in Services, AuthAlert(s) PROVE Inv'
    BY <1>0, <1>2, InvAuthAlert DEF Inv
  <1>3. ASSUME NEW s \in Services, Recover(s) PROVE Inv'
    BY <1>0, <1>3, InvRecover DEF Inv
  <1>4. ASSUME NEW s \in Services, Fail(s) PROVE Inv'
    BY <1>0, <1>4, InvFail DEF Inv
  <1>n. now \in Int
    BY KeepAliveAssumption DEF Inv, TypeOK, Time
  <1>5. CASE Tick \/ RefreshToken \/ BeginRound
    <2>1. now' >= now /\ UNCHANGED <<lastAlertTime, lastAuthAlertTime, raised>>
      BY <1>5, <1>n DEF Tick, RefreshToken, BeginRound, environment, state
    <2> QED
      BY <1>0, <2>1, QuietStep DEF Inv
  <1>6. ASSUME NEW s \in Services,
               Probe(s) \/ AuthUnknown(s) \/ AuthFine(s) \/ StayHealthy(s)
        PROVE  Inv'
    <2>1. now' >= now /\ UNCHANGED <<lastAlertTime, lastAuthAlertTime, raised>>
      BY <1>6, <1>n DEF Probe, AuthUnknown, AuthFine, StayHealthy, environment, state
    <2> QED
      BY <1>0, <2>1, QuietStep DEF Inv
  <1>7. CASE UNCHANGED vars
    <2>1. now' >= now /\ UNCHANGED <<lastAlertTime, lastAuthAlertTime, raised>>
      BY <1>7, <1>n DEF vars, environment, state
    <2> QED
      BY <1>0, <2>1, QuietStep DEF Inv
  <1> QED
    BY <1>1, <1>2, <1>3, <1>4, <1>5, <1>6, <1>7 DEF Next, CheckService

LEMMA InvSpaced ==
  ASSUME Inv, NEW s \in Services, NEW j \in 1..Len(raised[s]), NEW i \in 1..(j - 1),
         SameLife(s, i, j), Repeats(s, i, j)
  PROVE  raised[s][j].at - raised[s][i].at >= AlertInterval
  <1>1. Spaced(raised[s])
    BY DEF Inv, EachSpaced
  <1>2. Life(raised[s], i, j)
    BY DEF Life, SameLife
  <1>3. \/ raised[s][i].kind \in Auth /\ raised[s][j].kind \in Auth
        \/ raised[s][i].kind \in Reported /\ raised[s][j].kind \in Repeated
    BY DEF Repeats, Repeated
  <1> QED
    BY <1>1, <1>2, <1>3 DEF Spaced

-----------------------------------------------------------------------------
(* That the alerts tell the state is inductive with the types. It is stated*)
(* of one service's alerts r, its count of failures c and its health ok.   *)

Telling(r) ==
  \A i \in 1..Len(r) : r[i].kind \in Reported =>
    (r[i].kind = "still offline" <=> Open(r, i - 1))

Matches(r, c, ok) ==
  /\ c >= Threshold <=> Open(r, Len(r))
  /\ ok <=> c = 0
  /\ Telling(r)

Match == TypeOK /\ \A s \in Services :
                     Matches(raised[s], consecutiveFailures[s], isHealthy[s])

\* What one more alert does to an outage: a report opens it, a recovery and a
\* restart close it, an alert about the token leaves it.
LEMMA AppendOpen ==
  ASSUME NEW r \in Seq(Alert), NEW x \in Alert
  PROVE  /\ \A m \in 0..Len(r) : Open(Append(r, x), m) <=> Open(r, m)
         /\ x.kind \in Reported => Open(Append(r, x), Len(r) + 1)
         /\ x.kind \in {"recovered", "restart"} => ~ Open(Append(r, x), Len(r) + 1)
         /\ x.kind \in Auth => (Open(Append(r, x), Len(r) + 1) <=> Open(r, Len(r)))
  <1> DEFINE q == Append(r, x)
             n == Len(r)
  <1>1. n \in Nat /\ q[n + 1] = x /\ \A i \in 1..n : q[i] = r[i]
    BY Appended
  <1> HIDE DEF q, n
  <1>2. ASSUME NEW m \in 0..n PROVE Open(q, m) <=> Open(r, m)
    <2>1. m \in Nat /\ \A i \in 1..m : i \in 1..n
      BY <1>1
    <2>2. \A i \in 1..m : \A k \in (i + 1)..m : k \in 1..m
      BY <2>1
    <2> QED
      BY <1>1, <2>1, <2>2 DEF Open
  <1>3. ASSUME x.kind \in Reported PROVE Open(q, n + 1)
    <2>1. n + 1 \in 1..(n + 1) /\ (n + 1 + 1)..(n + 1) = {}
      BY <1>1
    <2> QED
      BY <1>1, <1>3, <2>1 DEF Open
  <1>4. ASSUME x.kind \in {"recovered", "restart"} PROVE ~ Open(q, n + 1)
    <2>1. x.kind \notin Reported /\ x.kind \in Health \cup {"restart"}
      BY <1>4 DEF Reported, Health
    <2>2. \A i \in 1..(n + 1) : i = n + 1 \/ n + 1 \in (i + 1)..(n + 1)
      BY <1>1
    <2> QED
      BY <1>1, <2>1, <2>2 DEF Open
  <1>5. ASSUME x.kind \in Auth PROVE Open(q, n + 1) <=> Open(r, n)
    <2>1. x.kind \notin Reported /\ x.kind \notin Health \cup {"restart"}
      BY <1>5 DEF Reported, Health, Auth
    <2>2. \A i \in 1..(n + 1) : i = n + 1 \/ i \in 1..n
      BY <1>1
    <2>3. \A i \in 1..n : i \in 1..(n + 1)
      BY <1>1
    <2>4. \A i \in 1..n : \A k \in (i + 1)..(n + 1) : k = n + 1 \/ k \in (i + 1)..n
      BY <1>1
    <2>5. \A i \in 1..n : \A k \in (i + 1)..n : k \in (i + 1)..(n + 1) /\ k \in 1..n
      BY <1>1
    <2> QED
      BY <1>1, <2>1, <2>2, <2>3, <2>4, <2>5 DEF Open
  <1> QED
    BY <1>2, <1>3, <1>4, <1>5 DEF q, n

LEMMA AppendTelling ==
  ASSUME NEW r \in Seq(Alert), NEW x \in Alert, Telling(r),
         x.kind \in Reported => (x.kind = "still offline" <=> Open(r, Len(r)))
  PROVE  Telling(Append(r, x))
  <1> DEFINE q == Append(r, x)
             n == Len(r)
  <1>1. n \in Nat /\ Len(q) = n + 1 /\ q[n + 1] = x /\ \A i \in 1..n : q[i] = r[i]
    BY Appended
  <1>2. \A m \in 0..n : Open(q, m) <=> Open(r, m)
    BY AppendOpen
  <1>3. \A i \in 1..n : r[i].kind \in Reported =>
          (r[i].kind = "still offline" <=> Open(r, i - 1))
    BY DEF Telling
  <1>6. x.kind \in Reported => (x.kind = "still offline" <=> Open(r, n))
    OBVIOUS
  <1> HIDE DEF q, n
  <1> SUFFICES ASSUME NEW i \in 1..(n + 1), q[i].kind \in Reported
               PROVE  q[i].kind = "still offline" <=> Open(q, i - 1)
    BY <1>1 DEF Telling, q
  <1>4. CASE i = n + 1 /\ i - 1 = n
    <2>1. n \in 0..n
      BY <1>1, PlacesBefore
    <2> QED
      BY <1>1, <1>2, <1>4, <1>6, <2>1
  <1>5. CASE i \in 1..n
    <2>1. i - 1 \in 0..n
      BY <1>1, <1>5, PlacesBefore
    <2> QED
      BY <1>1, <1>2, <1>3, <1>5, <2>1
  <1> QED
    BY <1>1, <1>4, <1>5, PlacesBefore

\* A step of service s that leaves it with alerts, a count and a health that match.
LEMMA MatchStep ==
  ASSUME Match, TypeOK', NEW s \in Services, NEW r, NEW c, NEW ok,
         raised' = [raised EXCEPT ![s] = r],
         consecutiveFailures' = [consecutiveFailures EXCEPT ![s] = c],
         isHealthy' = [isHealthy EXCEPT ![s] = ok],
         Matches(r, c, ok)
  PROVE  Match'
  <1>1. ASSUME NEW u \in Services
        PROVE  Matches(raised'[u], consecutiveFailures'[u], isHealthy'[u])
    <2>1. CASE u = s
      BY <2>1 DEF Match, TypeOK
    <2>2. CASE u # s
      BY <2>2 DEF Match, TypeOK
    <2> QED
      BY <2>1, <2>2
  <1> QED
    BY <1>1 DEF Match, Matches, Telling, Open

LEMMA MatchInit == Init => Match
  <1> SUFFICES ASSUME Init PROVE Match
    OBVIOUS
  <1>1. TypeOK
    BY TypeInit
  <1>2. ASSUME NEW s \in Services
        PROVE  Matches(raised[s], consecutiveFailures[s], isHealthy[s])
    <2>1. raised[s] = <<>> /\ consecutiveFailures[s] = 0 /\ isHealthy[s] = TRUE
      BY DEF Init
    <2>2. ~ Open(<<>>, Len(<<>>)) /\ Telling(<<>>)
      BY DEF Open, Telling
    <2>3. ~ (0 >= Threshold)
      BY KeepAliveAssumption
    <2> QED
      BY <2>1, <2>2, <2>3 DEF Matches
  <1> QED
    BY <1>1, <1>2 DEF Match

LEMMA MatchRestart ==
  ASSUME Match, TypeOK', Restart
  PROVE  Match'
  <1>0. /\ raised' = [s \in Services |-> Append(raised[s], [kind |-> "restart", at |-> now])]
        /\ consecutiveFailures' = [s \in Services |-> 0]
        /\ isHealthy' = [s \in Services |-> TRUE]
    BY DEF Restart
  <1>1. ASSUME NEW s \in Services
        PROVE  Matches(raised'[s], consecutiveFailures'[s], isHealthy'[s])
    <2> DEFINE x == [kind |-> "restart", at |-> now]
               r == Append(raised[s], x)
    <2>1. raised[s] \in Seq(Alert) /\ now \in 0..MaxTime
      BY ServiceTypes DEF Match
    <2>2. x \in Alert /\ x.kind = "restart" /\ x.kind \notin Reported
      BY <2>1 DEF Alert, Reported, Health
    <2>3. raised'[s] = r /\ consecutiveFailures'[s] = 0 /\ isHealthy'[s] = TRUE
      BY <1>0
    <2>4. Telling(raised[s])
      BY DEF Match, Matches
    <2> HIDE DEF x
    <2>5. Len(r) = Len(raised[s]) + 1 /\ ~ Open(r, Len(raised[s]) + 1)
      BY <2>1, <2>2, Appended, AppendOpen
    <2>6. Telling(r)
      BY <2>1, <2>2, <2>4, AppendTelling
    <2>7. ~ (0 >= Threshold)
      BY KeepAliveAssumption
    <2> HIDE DEF r
    <2> QED
      BY <2>3, <2>5, <2>6, <2>7 DEF Matches
  <1> QED
    BY <1>0, <1>1 DEF Match, Matches, Telling, Open

LEMMA MatchAuthAlert ==
  ASSUME Match, TypeOK', NEW s \in Services, AuthAlert(s)
  PROVE  Match'
  <1>0. PICK kind \in Auth :
          raised' = [raised EXCEPT ![s] = Append(@, [kind |-> kind, at |-> now])]
    BY DEF AuthAlert, Raise, Auth
  <1> DEFINE x == [kind |-> kind, at |-> now]
             r == Append(raised[s], x)
             c == consecutiveFailures[s]
             ok == isHealthy[s]
  <1>1. raised[s] \in Seq(Alert) /\ now \in 0..MaxTime
    BY ServiceTypes DEF Match
  <1>2. x \in Alert /\ x.kind \in Auth /\ x.kind \notin Reported
    BY <1>1 DEF Alert, Auth, Reported, Health
  <1>3. Matches(raised[s], c, ok)
    BY DEF Match
  <1>6. raised' = [raised EXCEPT ![s] = r]
    BY <1>0
  <1>7. /\ consecutiveFailures' = [consecutiveFailures EXCEPT ![s] = c]
        /\ isHealthy' = [isHealthy EXCEPT ![s] = ok]
    BY DEF AuthAlert, Match, TypeOK
  <1> HIDE DEF x, c, ok
  <1>4. Len(r) = Len(raised[s]) + 1
        /\ (Open(r, Len(raised[s]) + 1) <=> Open(raised[s], Len(raised[s])))
    BY <1>1, <1>2, Appended, AppendOpen
  <1>5. Telling(r)
    BY <1>1, <1>2, <1>3, AppendTelling DEF Matches
  <1> HIDE DEF r
  <1>8. Matches(r, c, ok)
    BY <1>3, <1>4, <1>5 DEF Matches
  <1> QED
    BY <1>6, <1>7, <1>8, MatchStep

LEMMA MatchRecover ==
  ASSUME Match, TypeOK', NEW s \in Services, Recover(s)
  PROVE  Match'
  <1>0. /\ raised' = [raised EXCEPT ![s] = Append(@, [kind |-> "recovered", at |-> now])]
        /\ consecutiveFailures' = [consecutiveFailures EXCEPT ![s] = 0]
        /\ isHealthy' = [isHealthy EXCEPT ![s] = TRUE]
    BY DEF Recover, Raise, Set
  <1> DEFINE x == [kind |-> "recovered", at |-> now]
             r == Append(raised[s], x)
  <1>1. raised[s] \in Seq(Alert) /\ now \in 0..MaxTime
    BY ServiceTypes DEF Match
  <1>2. x \in Alert /\ x.kind = "recovered" /\ x.kind \notin Reported
    BY <1>1 DEF Alert, Reported, Health
  <1>3. Telling(raised[s])
    BY DEF Match, Matches
  <1>4. raised' = [raised EXCEPT ![s] = r]
    BY <1>0
  <1> HIDE DEF x
  <1>5. Len(r) = Len(raised[s]) + 1 /\ ~ Open(r, Len(raised[s]) + 1)
    BY <1>1, <1>2, Appended, AppendOpen
  <1>6. Telling(r)
    BY <1>1, <1>2, <1>3, AppendTelling
  <1>7. ~ (0 >= Threshold)
    BY KeepAliveAssumption
  <1> HIDE DEF r
  <1>8. Matches(r, 0, TRUE)
    BY <1>5, <1>6, <1>7 DEF Matches
  <1> QED
    BY <1>0, <1>4, <1>8, MatchStep

\* A failure: the alert it raises, if any, is the one its count calls for.
LEMMA MatchFail ==
  ASSUME Match, TypeOK', NEW s \in Services, Fail(s)
  PROVE  Match'
  <1> DEFINE c == consecutiveFailures[s]
             q == raised[s]
  <1>0. /\ consecutiveFailures' = [consecutiveFailures EXCEPT ![s] = c + 1]
        /\ isHealthy' = [isHealthy EXCEPT ![s] = FALSE]
        /\ Offline(s) \/ StillOffline(s) \/ NoAlert(s)
    BY DEF Fail, Set
  <1>1. q \in Seq(Alert) /\ now \in 0..MaxTime /\ c \in Nat /\ Threshold \in Nat
    BY ServiceTypes, KeepAliveAssumption DEF Match, TypeOK
  <1>2. (c >= Threshold <=> Open(q, Len(q))) /\ Telling(q)
    BY DEF Match, Matches
  <1>3. c + 1 # 0
    BY <1>1
  <1>6. c + 1 > Threshold => c >= Threshold /\ c + 1 >= Threshold
    <2>1. c \in Nat /\ Threshold \in Nat
      BY <1>1
    <2> HIDE DEF c
    <2> QED
      BY <2>1
  <1>4. CASE NoAlert(s)
    <2>1. raised' = [raised EXCEPT ![s] = q]
      BY <1>4 DEF NoAlert, Match, TypeOK
    <2>2. c + 1 >= Threshold => c + 1 > Threshold
      BY <1>4 DEF NoAlert
    <2>3. c + 1 >= Threshold <=> c >= Threshold
      <3> HIDE DEF c
      <3> QED
        BY <1>1, <2>2
    <2> HIDE DEF c, q
    <2>4. Matches(q, c + 1, FALSE)
      BY <1>2, <1>3, <2>3 DEF Matches
    <2> QED
      BY <1>0, <2>1, <2>4, MatchStep
  <1>5. CASE Offline(s) \/ StillOffline(s)
    <2>1. PICK kind \in Reported :
            /\ raised' = [raised EXCEPT ![s] = Append(@, [kind |-> kind, at |-> now])]
            /\ \/ kind = "offline" /\ c + 1 = Threshold
               \/ kind = "still offline" /\ c + 1 > Threshold
      <3>1. "offline" \in Reported /\ "still offline" \in Reported
        BY DEF Reported, Health
      <3>2. CASE Offline(s)
        BY <3>1, <3>2 DEF Offline, Raise
      <3>3. CASE StillOffline(s)
        BY <3>1, <3>3 DEF StillOffline, Raise
      <3> QED
        BY <1>5, <3>2, <3>3
    <2> DEFINE x == [kind |-> kind, at |-> now]
               r == Append(q, x)
    <2>2. x \in Alert /\ x.kind = kind /\ x.kind \in Reported
      BY <1>1 DEF Alert, Reported, Health
    <2>3. raised' = [raised EXCEPT ![s] = r]
      BY <2>1
    <2>4. /\ c + 1 >= Threshold
          /\ kind = "offline" => ~ (c >= Threshold)
          /\ kind = "still offline" => c >= Threshold
      <3> HIDE DEF c
      <3>1. CASE c + 1 = Threshold /\ kind = "offline"
        BY <1>1, <3>1
      <3>2. CASE c + 1 > Threshold /\ kind = "still offline"
        <4>1. c >= Threshold /\ c + 1 >= Threshold
          BY <1>6, <3>2
        <4>2. kind # "offline"
          BY <3>2
        <4> QED
          BY <4>1, <4>2
      <3> QED
        BY <2>1, <3>1, <3>2
    <2> HIDE DEF x, c, q
    <2>5. x.kind = "still offline" <=> Open(q, Len(q))
      BY <1>2, <2>1, <2>2, <2>4
    <2>6. Len(r) = Len(q) + 1 /\ Open(r, Len(q) + 1)
      BY <1>1, <2>2, Appended, AppendOpen
    <2>7. Telling(r)
      BY <1>1, <1>2, <2>2, <2>5, AppendTelling
    <2> HIDE DEF r
    <2>8. Matches(r, c + 1, FALSE)
      BY <1>3, <2>4, <2>6, <2>7 DEF Matches
    <2> QED
      BY <1>0, <2>3, <2>8, MatchStep
  <1> QED
    BY <1>0, <1>4, <1>5

LEMMA MatchNext == Match /\ [Next]_vars => Match'
  <1> SUFFICES ASSUME Match, [Next]_vars PROVE Match'
    OBVIOUS
  <1>0. TypeOK'
    BY TypeNext DEF Match
  <1>q. ASSUME UNCHANGED <<raised, consecutiveFailures, isHealthy>> PROVE Match'
    <2>1. /\ raised' = raised /\ isHealthy' = isHealthy
          /\ consecutiveFailures' = consecutiveFailures
      BY <1>q
    <2>2. \A s \in Services : Matches(raised[s], consecutiveFailures[s], isHealthy[s])
      BY DEF Match
    <2>3. \A s \in Services :
            Matches(raised'[s], consecutiveFailures'[s], isHealthy'[s])
      BY <2>1, <2>2
    <2> QED
      BY <1>0, <2>3 DEF Match, Matches, Telling, Open
  <1>1. CASE Restart
    BY <1>0, <1>1, MatchRestart
  <1>2. ASSUME NEW s \in Services, AuthAlert(s) PROVE Match'
    BY <1>0, <1>2, MatchAuthAlert
  <1>3. ASSUME NEW s \in Services, Recover(s) PROVE Match'
    BY <1>0, <1>3, MatchRecover
  <1>4. ASSUME NEW s \in Services, Fail(s) PROVE Match'
    BY <1>0, <1>4, MatchFail
  <1>5. ASSUME NEW s \in Services, StayHealthy(s) PROVE Match'
    <2>1. /\ raised' = [raised EXCEPT ![s] = raised[s]]
          /\ isHealthy' = [isHealthy EXCEPT ![s] = isHealthy[s]]
          /\ consecutiveFailures' = [consecutiveFailures EXCEPT ![s] = 0]
          /\ isHealthy[s]
      BY <1>5 DEF StayHealthy, Set, Match, TypeOK
    <2>2. Matches(raised[s], consecutiveFailures[s], isHealthy[s])
      BY DEF Match
    <2>3. Matches(raised[s], 0, isHealthy[s])
      BY <2>1, <2>2 DEF Matches
    <2> QED
      BY <1>0, <2>1, <2>3, MatchStep
  <1>6. CASE Tick \/ RefreshToken \/ BeginRound \/ UNCHANGED vars
    BY <1>6, <1>q DEF Tick, RefreshToken, BeginRound, state, vars
  <1>7. ASSUME NEW s \in Services, Probe(s) \/ AuthUnknown(s) \/ AuthFine(s)
        PROVE  Match'
    BY <1>7, <1>q DEF Probe, AuthUnknown, AuthFine, state
  <1> QED
    BY <1>1, <1>2, <1>3, <1>4, <1>5, <1>6, <1>7 DEF Next, CheckService

\* What the process last raised about a service says what its state says, and
\* an outage is opened by one "offline" alert and by nothing else
\* (keepalive/service.go, checkService), for every set of services and every
\* threshold, through every restart.
THEOREM AlertsTellState == Spec => []AlertsMatchState
  <1>1. Match => AlertsMatchState
    BY DEF Match, Matches, Telling, AlertsMatchState
  <1> QED
    BY <1>1, MatchInit, MatchNext, PTL DEF Spec

-----------------------------------------------------------------------------
(* Alerts are spaced across restarts too: a report that an outage goes on  *)
(* follows one of the same life, which is later than all of earlier lives. *)

InTime(r, t) == /\ \A i \in 1..Len(r) : r[i].at <= t
                /\ \A j \in 1..Len(r) : \A i \in 1..(j - 1) : r[i].at <= r[j].at

RaisedInTime == TypeOK /\ \A s \in Services : InTime(raised[s], now)

LEMMA AppendInTime ==
  ASSUME NEW r \in Seq(Alert), NEW x \in Alert, InTime(r, x.at)
  PROVE  InTime(Append(r, x), x.at)
  <1> DEFINE q == Append(r, x)
             n == Len(r)
  <1>1. n \in Nat /\ Len(q) = n + 1 /\ q[n + 1] = x /\ \A i \in 1..n : q[i] = r[i]
    BY Appended
  <1>2. x.at <= x.at
    BY KeepAliveAssumption DEF Alert
  <1>3. /\ \A i \in 1..n : r[i].at <= x.at
        /\ \A j \in 1..n : \A i \in 1..(j - 1) : r[i].at <= r[j].at
    BY DEF InTime
  <1> HIDE DEF q, n
  <1>4. ASSUME NEW i \in 1..(n + 1) PROVE q[i].at <= x.at
    BY <1>1, <1>2, <1>3, <1>4, Places
  <1>5. ASSUME NEW j \in 1..(n + 1), NEW i \in 1..(j - 1) PROVE q[i].at <= q[j].at
    <2>1. i \in 1..n /\ (j = n + 1 \/ j \in 1..n)
      BY <1>1, <1>5, Places
    <2> QED
      BY <1>1, <1>3, <1>5, <2>1
  <1> QED
    BY <1>1, <1>4, <1>5 DEF InTime, q

LEMMA AlertTimes == ASSUME NEW r \in Seq(Alert) PROVE \A i \in 1..Len(r) : r[i].at \in Int
  <1>1. \A i \in 1..Len(r) : r[i] \in Alert
    OBVIOUS
  <1>2. \A x \in Alert : x.at \in Int
    BY KeepAliveAssumption DEF Alert
  <1> QED
    BY <1>1, <1>2

LEMMA LaterInTime ==
  ASSUME NEW r \in Seq(Alert), NEW t \in Int, NEW u \in Int, t <= u, InTime(r, t)
  PROVE  InTime(r, u)
  BY AlertTimes DEF InTime

LEMMA InTimeNext == RaisedInTime /\ [Next]_vars => RaisedInTime'
  <1> SUFFICES ASSUME RaisedInTime, [Next]_vars PROVE RaisedInTime'
    OBVIOUS
  <1>0. TypeOK' /\ now \in Int /\ now' \in Int
    BY TypeNext, KeepAliveAssumption DEF RaisedInTime, TypeOK, Time
  <1>1. CASE Tick
    <2>1. now <= now' /\ raised' = raised
      BY <1>0, <1>1 DEF Tick
    <2>2. ASSUME NEW s \in Services PROVE InTime(raised[s], now')
      BY <1>0, <2>1, LaterInTime DEF RaisedInTime, TypeOK
    <2> QED
      BY <1>0, <2>1, <2>2 DEF RaisedInTime, InTime
  <1>2. CASE ~ Tick
    <2>1. now' = now
      BY <1>2 DEF Next, RefreshToken, Restart, BeginRound, CheckService, Probe, AuthUnknown,
         AuthFine, AuthAlert, StayHealthy, Recover, Fail, environment, vars
    <2>2. ASSUME NEW s \in Services
          PROVE  \/ raised'[s] = raised[s]
                 \/ \E x \in Alert : x.at = now /\ raised'[s] = Append(raised[s], x)
      <3> DEFINE alert(kind) == [kind |-> kind, at |-> now]
      <3>0. /\ raised \in [Services -> Seq(Alert)]
            /\ \A kind \in Health \cup Auth \cup {"restart"} :
                 alert(kind) \in Alert /\ alert(kind).at = now
        BY DEF RaisedInTime, TypeOK, Time, Alert
      <3>1. CASE raised' = raised
        BY <3>1
      <3>2. ASSUME NEW u \in Services, NEW kind \in Health \cup Auth,
                   raised' = [raised EXCEPT ![u] = Append(@, alert(kind))]
            PROVE  \/ raised'[s] = raised[s]
                   \/ \E x \in Alert : x.at = now /\ raised'[s] = Append(raised[s], x)
        BY <3>0, <3>2
      <3>3. CASE Restart
        <4>1. raised'[s] = Append(raised[s], alert("restart"))
          BY <3>3 DEF Restart
        <4> QED
          BY <3>0, <4>1
      <3>4. CASE \E u \in Services : AuthAlert(u) \/ Recover(u) \/ Fail(u)
        <4>1. \/ raised' = raised
              \/ \E u \in Services, kind \in Health \cup Auth :
                   raised' = [raised EXCEPT ![u] = Append(@, alert(kind))]
          BY <3>4 DEF AuthAlert, Recover, Fail, Offline, StillOffline, NoAlert, Raise, Health, Auth
        <4> QED
          BY <3>1, <3>2, <4>1
      <3> QED
        BY <1>2, <3>1, <3>3, <3>4 DEF Next, RefreshToken, BeginRound, CheckService, Probe,
           AuthUnknown, AuthFine, StayHealthy, vars
    <2>3. ASSUME NEW s \in Services PROVE InTime(raised'[s], now)
      <3>1. raised[s] \in Seq(Alert) /\ InTime(raised[s], now)
        BY DEF RaisedInTime, TypeOK
      <3> QED
        BY <2>2, <3>1, AppendInTime
    <2> QED
      BY <1>0, <2>1, <2>3 DEF RaisedInTime, InTime
  <1> QED
    BY <1>1, <1>2

LEMMA InvAlertsSpaced == Inv /\ Match /\ RaisedInTime => AlertsAreSpaced
  <1> SUFFICES ASSUME Inv, Match, RaisedInTime, NEW s \in Services,
                      NEW j \in 1..Len(raised[s]), NEW i \in 1..(j - 1), Repeats(s, i, j),
                      ~ (raised[s][j].kind \in Auth /\ FirstAboutToken(s, j))
               PROVE  raised[s][j].at - raised[s][i].at >= AlertInterval
    BY DEF AlertsAreSpaced
  <1> DEFINE r == raised[s]
  <1>t. /\ Len(r) \in Nat /\ AlertInterval \in Int /\ i \in 1..Len(r)
        /\ \A k \in 1..Len(r) : r[k].at \in Int
    BY KeepAliveAssumption, AlertTimes DEF RaisedInTime, TypeOK
  \* It is enough that one of its own life went before it.
  <1>1. ASSUME NEW m \in 1..(j - 1), SameLife(s, m, j), Repeats(s, m, j)
        PROVE  r[j].at - r[i].at >= AlertInterval
    <2>1. CASE i <= m
      <3>1. r[j].at - r[m].at >= AlertInterval
        BY <1>1, InvSpaced
      <3>2. r[i].at <= r[m].at
        <4>1. i = m \/ i \in 1..(m - 1)
          BY <1>t, <2>1
        <4>2. m \in 1..Len(r)
          BY <1>t
        <4> QED
          BY <1>t, <4>1, <4>2 DEF RaisedInTime, InTime
      <3>3. m \in 1..Len(r)
        BY <1>t
      <3>4. r[i].at \in Int /\ r[m].at \in Int /\ r[j].at \in Int
        BY <1>t, <3>3
      <3> HIDE DEF r
      <3> QED
        BY <1>t, <3>1, <3>2, <3>4
    <2>2. CASE ~ (i <= m)
      <3>1. i..j \subseteq m..j
        BY <1>t, <2>2
      <3>2. SameLife(s, i, j)
        BY <1>1, <3>1 DEF SameLife
      <3> QED
        BY <3>2, InvSpaced
    <2> QED
      BY <2>1, <2>2
  <1>2. CASE r[j].kind \in Auth
    <2>1. PICK m \in 1..(j - 1) : r[m].kind \in Auth /\ SameLife(s, m, j)
      BY <1>2 DEF FirstAboutToken
    <2> QED
      BY <1>1, <1>2, <2>1 DEF Repeats
  <1>3. CASE r[j].kind = "still offline"
    <2>1. Open(r, j - 1)
      BY <1>3 DEF Match, Matches, Telling, Reported, Health
    <2>2. PICK m \in 1..(j - 1) :
            /\ r[m].kind \in Reported
            /\ \A k \in (m + 1)..(j - 1) : r[k].kind \notin Health \cup {"restart"}
      BY <2>1 DEF Open
    <2>3. ASSUME NEW k \in m..j PROVE r[k].kind # "restart"
      <3>1. k = m \/ k = j \/ k \in (m + 1)..(j - 1)
        BY <1>t
      <3> QED
        BY <1>3, <2>2, <3>1 DEF Reported, Health
    <2> QED
      BY <1>1, <1>3, <2>2, <2>3 DEF SameLife, Repeats
  <1> QED
    BY <1>2, <1>3 DEF Repeats

\* A repeated report of an outage is an alert interval apart from every report
\* before it, through restarts too, and of the alerts about a token only the
\* first of a process's life is not (keepalive/service.go, checkService and
\* checkAuthHealth), for every set of services, threshold and interval.
THEOREM Spacing == Spec => []AlertsAreSpaced
  <1>1. Init => RaisedInTime
    BY TypeInit DEF Init, RaisedInTime, InTime
  <1> QED
    BY <1>1, InvInit, InvNext, MatchInit, MatchNext, InTimeNext, InvAlertsSpaced, PTL DEF Spec

-----------------------------------------------------------------------------
(* That an expired token is reported needs what its time stamp stands for: *)
(* an alert of that time, which was a report of expiry or a warning that   *)
(* came before the expiry of the token as it is now. A refresh only moves  *)
(* the expiry on. f is the time of the last refresh.                       *)

Behind(r, a, f) ==
  \/ a = Never
  \/ \E i \in 1..Len(r) : /\ r[i].at = a
                          /\ \/ r[i].kind = "expired"
                             \/ r[i].kind = "expires" /\ a <= f + TokenLife

StampIsAlert ==
  /\ TypeOK
  /\ refreshed <= now
  /\ \A s \in Services : Behind(raised[s], lastAuthAlertTime[s], refreshed)

\* One more alert takes nothing away, nor does a later refresh.
LEMMA AppendBehind ==
  ASSUME NEW r \in Seq(Alert), NEW x \in Alert, NEW a, NEW f, Behind(r, a, f)
  PROVE  Behind(Append(r, x), a, f)
  <1> DEFINE q == Append(r, x)
  <1>1. /\ Len(r) \in Nat /\ Len(q) = Len(r) + 1
        /\ \A i \in 1..Len(r) : q[i] = r[i]
    BY Appended
  <1> HIDE DEF q
  <1>2. \A i \in 1..Len(r) : i \in 1..Len(q)
    BY <1>1
  <1> QED
    BY <1>1, <1>2 DEF Behind, q

LEMMA LaterBehind ==
  ASSUME NEW r, NEW a \in Int, NEW f \in Int, NEW g \in Int, f <= g, Behind(r, a, f)
  PROVE  Behind(r, a, g)
  <1>1. a <= f + TokenLife => a <= g + TokenLife
    BY KeepAliveAssumption
  <1> QED
    BY <1>1 DEF Behind

LEMMA BehindInit == Init => StampIsAlert
  <1> SUFFICES ASSUME Init PROVE StampIsAlert
    OBVIOUS
  <1>1. TypeOK
    BY TypeInit
  <1>2. refreshed <= now
    BY DEF Init
  <1> QED
    BY <1>1, <1>2 DEF Init, StampIsAlert, Behind

\* A step that raises at most alerts, and leaves the time stamp and the clock.
LEMMA BehindQuiet ==
  ASSUME StampIsAlert, TypeOK', UNCHANGED <<now, refreshed, lastAuthAlertTime>>,
         \A s \in Services :
           raised'[s] = raised[s] \/ \E x \in Alert : raised'[s] = Append(raised[s], x)
  PROVE  StampIsAlert'
  <1>1. ASSUME NEW s \in Services
        PROVE  Behind(raised'[s], lastAuthAlertTime[s], refreshed)
    <2>1. raised[s] \in Seq(Alert) /\ Behind(raised[s], lastAuthAlertTime[s], refreshed)
      BY DEF StampIsAlert, TypeOK
    <2>2. CASE raised'[s] = raised[s]
      BY <2>1, <2>2
    <2>3. ASSUME NEW x \in Alert, raised'[s] = Append(raised[s], x)
          PROVE  Behind(raised'[s], lastAuthAlertTime[s], refreshed)
      <3>1. Behind(Append(raised[s], x), lastAuthAlertTime[s], refreshed)
        BY <2>1, AppendBehind
      <3> QED
        BY <3>1, <2>3
    <2> QED
      BY <2>2, <2>3
  <1> QED
    BY <1>1 DEF StampIsAlert, Behind

LEMMA BehindNext == StampIsAlert /\ [Next]_vars => StampIsAlert'
  <1> SUFFICES ASSUME StampIsAlert, [Next]_vars PROVE StampIsAlert'
    OBVIOUS
  <1>0. TypeOK'
    BY TypeNext DEF StampIsAlert
  <1>t. /\ now \in Int /\ refreshed \in Int /\ refreshed <= now /\ now \in 0..MaxTime
        /\ \A s \in Services : raised[s] \in Seq(Alert) /\ lastAuthAlertTime[s] \in Int
    BY KeepAliveAssumption DEF StampIsAlert, TypeOK, Time, Never
  <1>q. ASSUME UNCHANGED <<now, refreshed, lastAuthAlertTime, raised>> PROVE StampIsAlert'
    BY <1>0, <1>q, BehindQuiet
  <1>1. CASE Tick
    <2>1. now' = now + 1 /\ UNCHANGED <<refreshed, lastAuthAlertTime, raised>>
      BY <1>1 DEF Tick, state
    <2>2. refreshed <= now + 1
      BY <1>t
    <2> QED
      BY <1>0, <2>1, <2>2 DEF StampIsAlert, Behind
  <1>2. CASE RefreshToken
    <2>1. refreshed' = now /\ UNCHANGED <<now, lastAuthAlertTime, raised>>
      BY <1>2 DEF RefreshToken, state
    <2>2. \A s \in Services : Behind(raised[s], lastAuthAlertTime[s], now)
      BY <1>t, LaterBehind DEF StampIsAlert
    <2>3. now <= now
      BY <1>t
    <2> QED
      BY <1>0, <2>1, <2>2, <2>3 DEF StampIsAlert, Behind
  <1>3. CASE Restart
    <2>1. /\ lastAuthAlertTime' = [s \in Services |-> Never]
          /\ refreshed' = refreshed /\ now' = now
      BY <1>3 DEF Restart
    <2> QED
      BY <1>0, <1>t, <2>1 DEF StampIsAlert, Behind
  <1>4. ASSUME NEW s \in Services, AuthAlert(s) PROVE StampIsAlert'
    <2>0. UNCHANGED <<now, refreshed>> /\
          lastAuthAlertTime' = [lastAuthAlertTime EXCEPT ![s] = now]
      BY <1>4 DEF AuthAlert, environment, Set
    <2>1. PICK kind \in Auth :
            /\ raised' = [raised EXCEPT ![s] = Append(@, [kind |-> kind, at |-> now])]
            /\ \/ kind = "expired"
               \/ kind = "expires" /\ ~ (now > refreshed + TokenLife)
      <3>1. "expired" \in Auth /\ "expires" \in Auth
        BY DEF Auth
      <3>2. CASE Expired /\ Raise(s, "expired")
        BY <3>1, <3>2 DEF Raise
      <3>3. CASE Expires /\ Raise(s, "expires")
        BY <3>1, <3>3 DEF Raise, Expires, Expired
      <3> QED
        BY <1>4, <3>2, <3>3 DEF AuthAlert
    <2> DEFINE x == [kind |-> kind, at |-> now]
               r == Append(raised[s], x)
    <2>2. x \in Alert /\ x.kind = kind /\ x.at = now
      BY <1>t DEF Alert, Auth
    <2>3. raised' = [raised EXCEPT ![s] = r]
      BY <2>1
    <2> HIDE DEF x
    <2>4. Behind(r, now, refreshed)
      <3>1. Len(raised[s]) \in Nat /\ Len(r) = Len(raised[s]) + 1 /\ r[Len(r)] = x
        BY <1>t, <2>2, Appended
      <3> HIDE DEF r
      <3>2. Len(r) \in 1..Len(r)
        BY <3>1
      <3>3. ~ (now > refreshed + TokenLife) => now <= refreshed + TokenLife
        BY <1>t, KeepAliveAssumption
      <3> QED
        BY <2>1, <2>2, <3>1, <3>2, <3>3 DEF Behind
    <2> HIDE DEF r
    <2>5. ASSUME NEW u \in Services
          PROVE  Behind(raised'[u], lastAuthAlertTime'[u], refreshed)
      <3>1. CASE u = s
        <4>1. raised'[u] = r /\ lastAuthAlertTime'[u] = now
          BY <2>0, <2>3, <3>1 DEF StampIsAlert, TypeOK
        <4> QED
          BY <4>1, <2>4
      <3>2. CASE u # s
        <4>1. raised'[u] = raised[u] /\ lastAuthAlertTime'[u] = lastAuthAlertTime[u]
          BY <2>0, <2>3, <3>2 DEF StampIsAlert, TypeOK
        <4> QED
          BY <4>1 DEF StampIsAlert
      <3> QED
        BY <3>1, <3>2
    <2> QED
      BY <1>0, <1>t, <2>0, <2>5 DEF StampIsAlert, Behind
  <1>5. ASSUME NEW s \in Services, Recover(s) \/ Fail(s) PROVE StampIsAlert'
    <2>1. UNCHANGED <<now, refreshed, lastAuthAlertTime>>
      BY <1>5 DEF Recover, Fail, environment
    <2>2. PICK kind \in Health :
            \/ raised' = raised
            \/ raised' = [raised EXCEPT ![s] = Append(@, [kind |-> kind, at |-> now])]
      BY <1>5 DEF Recover, Fail, Offline, StillOffline, NoAlert, Raise, Health
    <2>3. [kind |-> kind, at |-> now] \in Alert
      BY <1>t DEF Alert
    <2>4. ASSUME NEW u \in Services
          PROVE  raised'[u] = raised[u] \/ \E x \in Alert : raised'[u] = Append(raised[u], x)
      BY <2>2, <2>3 DEF StampIsAlert, TypeOK
    <2> QED
      BY <1>0, <2>1, <2>4, BehindQuiet
  <1>6. ASSUME NEW s \in Services,
               Probe(s) \/ AuthUnknown(s) \/ AuthFine(s) \/ StayHealthy(s)
        PROVE  StampIsAlert'
    BY <1>6, <1>q DEF Probe, AuthUnknown, AuthFine, StayHealthy, environment, state
  <1>7. CASE BeginRound \/ UNCHANGED vars
    BY <1>7, <1>q DEF BeginRound, vars, environment, state
  <1> QED
    BY <1>1, <1>2, <1>3, <1>4, <1>5, <1>6, <1>7 DEF Next, CheckService

\* The check of a token that has been expired for an interval.
LEMMA ReportedNow ==
  ASSUME StampIsAlert, NEW s \in Services, AuthFine(s) \/ AuthAlert(s),
         now > refreshed + TokenLife + AlertInterval
  PROVE  \E i \in 1..Len(raised'[s]) :
           raised'[s][i].kind = "expired" /\ raised'[s][i].at > now - AlertInterval
  <1>t. /\ now \in Int /\ refreshed \in Int /\ now \in 0..MaxTime
        /\ raised[s] \in Seq(Alert) /\ lastAuthAlertTime[s] \in Int
    BY KeepAliveAssumption DEF StampIsAlert, TypeOK, Time, Never
  <1>a. AlertInterval \in Nat /\ AlertInterval > 0 /\ TokenLife \in Nat
    BY KeepAliveAssumption
  <1>1. now > refreshed + TokenLife
    BY <1>t, <1>a
  <1>2. CASE AuthFine(s)
    <2>1. raised' = raised /\ ~ (now - lastAuthAlertTime[s] >= AlertInterval)
      BY <1>1, <1>2 DEF AuthFine, Expired, Due
    <2>2. Behind(raised[s], lastAuthAlertTime[s], refreshed)
      BY DEF StampIsAlert
    <2> DEFINE a == lastAuthAlertTime[s]
    <2>3. /\ a # Never
          /\ a > now - AlertInterval
          /\ ~ (a <= refreshed + TokenLife)
      <3>1. a \in Int /\ ~ (now - a >= AlertInterval) /\ now >= 0
        BY <1>t, <2>1
      <3> HIDE DEF a
      <3>2. Never = 0 - AlertInterval
        BY <1>a DEF Never
      <3> QED
        BY <1>t, <1>a, <3>1, <3>2
    <2> QED
      BY <2>1, <2>2, <2>3 DEF Behind
  <1>3. CASE AuthAlert(s)
    <2>1. raised' = [raised EXCEPT ![s] = Append(@, [kind |-> "expired", at |-> now])]
      BY <1>1, <1>3 DEF AuthAlert, Expires, Expired, Raise
    <2> DEFINE x == [kind |-> "expired", at |-> now]
               r == Append(raised[s], x)
    <2>2. x \in Alert /\ x.kind = "expired" /\ x.at = now
      BY <1>t DEF Alert, Auth
    <2>3. raised'[s] = r
      BY <2>1 DEF StampIsAlert, TypeOK
    <2> HIDE DEF x
    <2>4. Len(raised[s]) \in Nat /\ Len(r) = Len(raised[s]) + 1 /\ r[Len(r)] = x
      BY <1>t, <2>2, Appended
    <2> HIDE DEF r
    <2>5. Len(r) \in 1..Len(r) /\ now > now - AlertInterval
      BY <2>4, <1>t, <1>a
    <2> QED
      BY <2>2, <2>3, <2>4, <2>5
  <1> QED
    BY <1>2, <1>3

\* A token that has been expired for an interval is reported as expired by the
\* first check the bot answers (checkAuthHealth): a warning just before shares
\* the time stamp and delays the report by less than an interval, however the
\* token is refreshed and the process restarted.
THEOREM ExpiryIsTold == Spec => ExpiredIsReported
  <1>1. StampIsAlert /\ [Next]_vars =>
          [\A s \in AuthServices :
             (AuthFine(s) \/ AuthAlert(s)) /\ now > refreshed + TokenLife + AlertInterval =>
               \E i \in 1..Len(raised'[s]) :
                 raised'[s][i].kind = "expired" /\ raised'[s][i].at > now - AlertInterval]_vars
    BY ReportedNow, KeepAliveAssumption
  <1> QED
    BY <1>1, BehindInit, BehindNext, PTL DEF Spec, ExpiredIsReported

=============================================================================
