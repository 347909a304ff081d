------------------------------ MODULE KeepAlive ------------------------------
(***************************************************************************)
(* keepalive/service.go: rounds of health checks, all services of a round  *)
(* in parallel, and the alerts they raise, each sent by a goroutine of its *)
(* own. The token whose age the Twitch bot reports on /healthz/auth is     *)
(* twitch/auth_health.go. All state is in memory: a process that is started*)
(* again (cli/keepalive/main.go) knows nothing of the alerts before.       *)
(***************************************************************************)
EXTENDS Integers, Sequences

CONSTANTS
  Services,
  AuthServices,   \* those with an AuthHealthURL
  Threshold,      \* failures in a row before the first alert (3 in the code)
  AlertInterval,  \* in ticks of the clock
  TokenLife,      \* tokenExpiryDuration; a warning is due this long before expiry
  MaxTime, MaxRestarts  \* bounds

ASSUME KeepAliveAssumption ==
  /\ AuthServices \subseteq Services
  /\ Threshold \in Nat \ {0} /\ AlertInterval \in Nat \ {0} /\ TokenLife \in Nat
  /\ MaxTime \in Nat /\ MaxRestarts \in Nat

Never == -AlertInterval    \* the zero time: longer ago than any interval

VARIABLES
  now,
  refreshed,      \* when the bot last got a token
  ticks,          \* a tick of the round's ticker that Start has not received
  pc,             \* per service: where its checkService is
  healthy,        \* per service: performHealthCheck's result
  isHealthy, consecutiveFailures, lastAlertTime, lastAuthAlertTime,
  restarts,
  raised          \* history, per service: the process's restarts and its alerts, as
                  \* the goroutines that send them are started

environment == <<now, refreshed, ticks, restarts>>
round == <<pc, healthy>>
state == <<isHealthy, consecutiveFailures, lastAlertTime, lastAuthAlertTime>>
vars == <<environment, round, state, raised>>

Health == {"offline", "still offline", "recovered"}
Auth == {"expires", "expired"}
Alert == [kind : Health \cup Auth \cup {"restart"}, at : 0..MaxTime]

Init ==
  /\ now = 0
  /\ refreshed = 0
  /\ ticks = 1    \* the initial check
  /\ pc = [s \in Services |-> "done"]
  /\ healthy = [s \in Services |-> FALSE]
  /\ isHealthy = [s \in Services |-> TRUE]
  /\ consecutiveFailures = [s \in Services |-> 0]
  /\ lastAlertTime = [s \in Services |-> Never]
  /\ lastAuthAlertTime = [s \in Services |-> Never]
  /\ restarts = 0
  /\ raised = [s \in Services |-> <<>>]

\* SendAlert runs in a goroutine of its own and an error of it is only logged:
\* what becomes of an alert has no effect here.
Raise(s, kind) ==
  raised' = [raised EXCEPT ![s] = Append(@, [kind |-> kind, at |-> now])]

Goto(s, place) == pc' = [pc EXCEPT ![s] = place]
Set(f, s, x) == [f EXCEPT ![s] = x]
\* checkService returns: its local is gone.
Return(s) == Goto(s, "done") /\ healthy' = Set(healthy, s, FALSE)
Due(since) == now - since >= AlertInterval
Expired == now > refreshed + TokenLife
Expires == ~ Expired /\ refreshed + TokenLife - now \in 1..TokenLife

-----------------------------------------------------------------------------
(* Faulty variants of the operations below, one per bug the properties     *)
(* must tell from the code. No action of Next uses them.                   *)

\* A recovery leaves the count of failures as it is.
RecoverKeepsCount(s) ==
  /\ pc[s] = "verdict" /\ healthy[s] /\ ~ isHealthy[s]
  /\ Raise(s, "recovered")
  /\ isHealthy' = Set(isHealthy, s, TRUE)
  /\ Return(s)
  /\ UNCHANGED <<environment, consecutiveFailures, lastAlertTime, lastAuthAlertTime>>

\* A repeated alert does not restart the interval.
StillOfflineUnstamped(s) ==
  /\ consecutiveFailures[s] + 1 > Threshold /\ Due(lastAlertTime[s])
  /\ Raise(s, "still offline")
  /\ UNCHANGED lastAlertTime

\* The warning comes first, and without its lower bound.
WarnFirst(s) ==
  /\ pc[s] = "auth" /\ Due(lastAuthAlertTime[s])
  /\ Raise(s, "expires")
  /\ lastAuthAlertTime' = Set(lastAuthAlertTime, s, now)
  /\ Goto(s, "verdict")
  /\ UNCHANGED <<environment, healthy, isHealthy, consecutiveFailures, lastAlertTime>>

-----------------------------------------------------------------------------
(* The environment.                                                        *)

\* The ticker's channel holds one tick; more are dropped.
Tick == /\ now < MaxTime
        /\ now' = now + 1
        /\ ticks' = 1
        /\ UNCHANGED <<refreshed, restarts, round, state, raised>>

RefreshToken == /\ refreshed # now
                /\ refreshed' = now
                /\ UNCHANGED <<now, ticks, restarts, round, state, raised>>

\* An interrupt exits the process at whatever step it is; a new one is started.
Restart ==
  /\ restarts < MaxRestarts
  /\ restarts' = restarts + 1
  /\ raised' = [s \in Services |-> Append(raised[s], [kind |-> "restart", at |-> now])]
  /\ ticks' = 1
  /\ pc' = [s \in Services |-> "done"]
  /\ healthy' = [s \in Services |-> FALSE]
  /\ isHealthy' = [s \in Services |-> TRUE]
  /\ consecutiveFailures' = [s \in Services |-> 0]
  /\ lastAlertTime' = [s \in Services |-> Never]
  /\ lastAuthAlertTime' = [s \in Services |-> Never]
  /\ UNCHANGED <<now, refreshed>>

-----------------------------------------------------------------------------
(* Start and checkAllServices: a round ends when all its checks have ended.*)

BeginRound ==
  /\ ticks = 1
  /\ \A s \in Services : pc[s] = "done"
  /\ ticks' = 0
  /\ pc' = [s \in Services |-> "probe"]
  /\ UNCHANGED <<now, refreshed, restarts, healthy, state, raised>>

\* performHealthCheck: one of three attempts is answered with 200, or none is.
Probe(s) ==
  /\ pc[s] = "probe"
  /\ \E ok \in BOOLEAN : healthy' = Set(healthy, s, ok)
  /\ Goto(s, IF s \in AuthServices THEN "auth" ELSE "verdict")
  /\ UNCHANGED <<environment, state, raised>>

-----------------------------------------------------------------------------
(* checkAuthHealth.                                                        *)

\* The request fails, or its answer is not a 200 or not decoded.
AuthUnknown(s) ==
  /\ pc[s] = "auth"
  /\ Goto(s, "verdict")
  /\ UNCHANGED <<environment, healthy, state, raised>>

AuthFine(s) ==
  /\ pc[s] = "auth"
  /\ (Expires \/ Expired) => ~ Due(lastAuthAlertTime[s])
  /\ Goto(s, "verdict")
  /\ UNCHANGED <<environment, healthy, state, raised>>

\* The answer and the clock are read in one step: what lies between is less than
\* a tick. The answer's has_token is decoded and consulted by nothing.
AuthAlert(s) ==
  /\ pc[s] = "auth"
  /\ Due(lastAuthAlertTime[s])
  /\ \/ Expired /\ Raise(s, "expired")
     \/ Expires /\ Raise(s, "expires")
  /\ lastAuthAlertTime' = Set(lastAuthAlertTime, s, now)
  /\ Goto(s, "verdict")
  /\ UNCHANGED <<environment, healthy, isHealthy, consecutiveFailures, lastAlertTime>>

-----------------------------------------------------------------------------
(* The rest of checkService, under the lock of the service's state.        *)

StayHealthy(s) ==
  /\ pc[s] = "verdict" /\ healthy[s] /\ isHealthy[s]
  /\ consecutiveFailures' = Set(consecutiveFailures, s, 0)
  /\ Return(s)
  /\ UNCHANGED <<environment, isHealthy, lastAlertTime, lastAuthAlertTime, raised>>

Recover(s) ==
  /\ pc[s] = "verdict" /\ healthy[s] /\ ~ isHealthy[s]
  /\ Raise(s, "recovered")
  /\ isHealthy' = Set(isHealthy, s, TRUE)
  /\ consecutiveFailures' = Set(consecutiveFailures, s, 0)
  /\ Return(s)
  /\ UNCHANGED <<environment, lastAlertTime, lastAuthAlertTime>>

Offline(s) ==
  /\ consecutiveFailures[s] + 1 = Threshold
  /\ Raise(s, "offline")
  /\ lastAlertTime' = Set(lastAlertTime, s, now)

StillOffline(s) ==
  /\ consecutiveFailures[s] + 1 > Threshold /\ Due(lastAlertTime[s])
  /\ Raise(s, "still offline")
  /\ lastAlertTime' = Set(lastAlertTime, s, now)

NoAlert(s) ==
  /\ consecutiveFailures[s] + 1 >= Threshold =>
       consecutiveFailures[s] + 1 > Threshold /\ ~ Due(lastAlertTime[s])
  /\ UNCHANGED <<raised, lastAlertTime>>

Fail(s) ==
  /\ pc[s] = "verdict" /\ ~ healthy[s]
  /\ consecutiveFailures' = Set(consecutiveFailures, s, consecutiveFailures[s] + 1)
  /\ isHealthy' = Set(isHealthy, s, FALSE)
  /\ Offline(s) \/ StillOffline(s) \/ NoAlert(s)
  /\ Return(s)
  /\ UNCHANGED <<environment, lastAuthAlertTime>>

-----------------------------------------------------------------------------
CheckService(s) ==
  \/ Probe(s) \/ AuthUnknown(s) \/ AuthFine(s) \/ AuthAlert(s)
  \/ StayHealthy(s) \/ Recover(s) \/ Fail(s)

Next ==
  \/ Tick \/ RefreshToken \/ Restart \/ BeginRound
  \/ \E s \in Services : CheckService(s)

Spec == Init /\ [][Next]_vars

-----------------------------------------------------------------------------
Time == 0..MaxTime

(* Every variable has its type.                                            *)
TypeOK ==
  /\ now \in Time /\ refreshed \in Time /\ ticks \in 0..1 /\ restarts \in 0..MaxRestarts
  /\ pc \in [Services -> {"done", "probe", "auth", "verdict"}]
  /\ healthy \in [Services -> BOOLEAN] /\ isHealthy \in [Services -> BOOLEAN]
  /\ consecutiveFailures \in [Services -> Nat]
  /\ lastAlertTime \in [Services -> Time \cup {Never}]
  /\ lastAuthAlertTime \in [Services -> Time \cup {Never}]
  /\ raised \in [Services -> Seq(Alert)]

Reported == Health \ {"recovered"}
\* By the first n of the alerts r, the service is down: it was reported so, and
\* neither a recovery nor a restart has followed.
Open(r, n) ==
  \E i \in 1..n : /\ r[i].kind \in Reported
                  /\ \A k \in (i + 1)..n : r[k].kind \notin Health \cup {"restart"}

(* What the process last raised about a service says what its state says:  *)
(* the service is offline from its third failure in a row to the next      *)
(* success, and an outage is opened by one "offline" alert and by nothing  *)
(* else. A restart in an outage forgets it: the outage is announced again  *)
(* after three more failures, and never closed if there are fewer.         *)
AlertsMatchState ==
  \A s \in Services :
    /\ consecutiveFailures[s] >= Threshold <=> Open(raised[s], Len(raised[s]))
    /\ isHealthy[s] <=> consecutiveFailures[s] = 0
    /\ \A i \in 1..Len(raised[s]) : raised[s][i].kind \in Reported =>
         (raised[s][i].kind = "still offline" <=> Open(raised[s], i - 1))

(* A repeated report of an outage is an alert interval apart from whatever *)
(* was reported before, also in an earlier outage and by an earlier        *)
(* process, and so are alerts about a token, but for the first of a        *)
(* process's life: what a restart repeats is one of them and no more.      *)
(* However rounds, recoveries and refreshes of the token fall, an alert    *)
(* that is due is measured against the latest one.                         *)
SameLife(s, i, j) == \A k \in i..j : raised[s][k].kind # "restart"
Repeats(s, i, j) ==
  \/ raised[s][i].kind \in Auth /\ raised[s][j].kind \in Auth
  \/ raised[s][i].kind \in Reported /\ raised[s][j].kind = "still offline"
FirstAboutToken(s, j) ==
  \A i \in 1..(j - 1) : raised[s][i].kind \in Auth => ~ SameLife(s, i, j)
AlertsAreSpaced ==
  \A s \in Services : \A j \in 1..Len(raised[s]) : \A i \in 1..(j - 1) :
    Repeats(s, i, j) =>
      \/ raised[s][j].at - raised[s][i].at >= AlertInterval
      \/ raised[s][j].kind \in Auth /\ FirstAboutToken(s, j)

(* A token that has been expired for an interval is reported as expired by *)
(* the first check the bot answers: warnings and reports of expiry share   *)
(* their time stamp, and a warning just before delays the report by less   *)
(* than an interval.                                                       *)
ExpiredIsReported ==
  [][\A s \in AuthServices :
       (AuthFine(s) \/ AuthAlert(s)) /\ now > refreshed + TokenLife + AlertInterval =>
         \E i \in 1..Len(raised'[s]) :
           raised'[s][i].kind = "expired" /\ raised'[s][i].at > now - AlertInterval]_vars

=============================================================================
