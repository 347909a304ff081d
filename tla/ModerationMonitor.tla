-------------------------- MODULE ModerationMonitor -------------------------
(***************************************************************************)
(* twitch/moderation/monitor.go with the parts of twitch/connection.go     *)
(* that feed it and of twitch/helix that it acts through.                  *)
(*                                                                         *)
(* Every ConnectIRC starts a new Monitor, with its own channel, history    *)
(* and rate limiter, and never stops the one before: monitors are numbered *)
(* by connection. A chat message is its index in arrived. One goroutine    *)
(* per monitor takes messages from its channel; a message that needs       *)
(* evaluation costs a call to the LLM, a call to Twitch and a row in       *)
(* mod_actions. Shutdown is os.Exit, which no goroutine is told of and     *)
(* none is waited for: any state may be the last, so the invariants below  *)
(* speak of what an exit at any point leaves behind.                       *)
(***************************************************************************)
EXTENDS Integers, Sequences

CONSTANTS
  Chat,           \* what may be written in chat: [user, suspect]
  Bots,           \* the names shouldSkipUser knows: bots and the streamer
  Tools, Named,   \* the tool and user names the LLM may answer with
  Configs,        \* [allowed, dryRun]; allowed = {}: every tool
  Limit, Minute,  \* actions_per_minute; a minute, in ticks
  Capacity,       \* capacity of messageCh (100 in the code)
  MaxRecent,      \* maxRecentMsgs (20 in the code)
  MaxMessages, MaxConnections, MaxTime  \* bounds

ASSUME BoundAssumption ==
  /\ Limit \in Nat /\ Minute \in Nat /\ MaxTime \in Nat
  /\ Capacity \in Nat \ {0} /\ MaxRecent \in Nat \ {0}
  /\ MaxMessages \in Nat /\ MaxConnections \in Nat

Monitors == 1..MaxConnections
Id == 1..MaxMessages

\* The tools of executeAction's switch. A tool acts on the user who wrote the
\* message (warn, time out, ban), on the user it names (unban), or on a
\* message or the whole chat.
OnSender == {"warn_user", "timeout_user", "ban_user"}
OnNamed == {"unban_user"}
OnChat == {"delete_message", "clear_chat", "emote_only_mode",
           "subscriber_only_mode", "follower_only_mode", "slow_mode"}
Executable == OnSender \cup OnNamed \cup OnChat
\* What the LLM is offered, a whitelist aside.
CoreTools == {"no_action", "warn_user", "timeout_user", "ban_user", "unban_user",
              "delete_message", "clear_chat", "emote_only_mode", "subscriber_only_mode",
              "follower_only_mode", "slow_mode"}
NeedUserID == (OnSender \cup OnNamed) \ {"warn_user"}

Decision == [tool : Tools, named : Named]
Nobody == "nobody"    \* no TargetUserID
NoDecision == [tool |-> "no_action", named |-> CHOOSE u \in Named : TRUE]

VARIABLES
  config,         \* allowed_tools and dry_run; read once, at start-up
  arrived,        \* history: [user, suspect, to] per message; to = 0: skipped
  connections,    \* ConnectIRC calls; irc.modMonitor is the last monitor
  messageCh,      \* per monitor: the channel's buffer
  recentMsgs,     \* per monitor: recentMsgs
  pc,             \* per monitor: where its goroutine is
  msg, decision,  \* per monitor: the locals of processMessage
  targetUserID,   \* per monitor: decision.TargetUserID
  success,        \* per monitor: the local of executeAction
  now,
  actionCount, lastResetTime, grants,  \* per monitor: the rate limiter
  applied,        \* history: what Twitch has done
  audit,          \* table mod_actions
  lost            \* history: messages whose InsertModAction failed

twitch == <<config, arrived, connections>>
limiter == <<now, actionCount, lastResetTime, grants>>
log == <<applied, audit, lost>>
goroutine == <<messageCh, recentMsgs, pc, msg, decision, targetUserID, success>>
vars == <<twitch, limiter, log, goroutine>>

Init ==
  /\ config \in Configs
  /\ arrived = <<>>
  /\ connections = 0
  /\ messageCh = [m \in Monitors |-> <<>>]
  /\ recentMsgs = [m \in Monitors |-> <<>>]
  /\ pc = [m \in Monitors |-> "new"]
  /\ msg = [m \in Monitors |-> 0]
  /\ decision = [m \in Monitors |-> NoDecision]
  /\ targetUserID = [m \in Monitors |-> Nobody]
  /\ success = [m \in Monitors |-> FALSE]
  /\ now = 0
  /\ actionCount = [m \in Monitors |-> 0]
  /\ lastResetTime = [m \in Monitors |-> 0]
  /\ grants = [m \in Monitors |-> <<>>]
  /\ applied = {} /\ audit = {} /\ lost = {}

\* Faulty variant of the next definition: the whitelist is ignored.
AllowsAll(tool) == TRUE

IsToolAllowed(tool) == config.allowed = {} \/ tool \in config.allowed
\* getAvailableTools: no_action is always among them. The LLM may answer with
\* another name all the same.
AvailableTools == {tool \in CoreTools : IsToolAllowed(tool)} \cup {"no_action"}
Sender(m) == arrived[msg[m]].user
Target(m) == IF decision[m].tool \in OnNamed THEN decision[m].named ELSE Sender(m)

\* checkRateLimit, for each monitor its own.
WindowOver(m) == now - lastResetTime[m] > Minute
Count(m) == IF WindowOver(m) THEN 0 ELSE actionCount[m]
Window(m) == IF WindowOver(m) THEN now ELSE lastResetTime[m]
\* Faulty variant of Granted: it lets one call more through.
GrantedOneMore(m) ==
  /\ Count(m) <= Limit
  /\ lastResetTime' = [lastResetTime EXCEPT ![m] = Window(m)]
  /\ actionCount' = [actionCount EXCEPT ![m] = Count(m) + 1]
  /\ grants' = [grants EXCEPT ![m] = Append(@, [at |-> now, window |-> Window(m)])]
  /\ UNCHANGED now

Granted(m) ==
  /\ Count(m) < Limit
  /\ lastResetTime' = [lastResetTime EXCEPT ![m] = Window(m)]
  /\ actionCount' = [actionCount EXCEPT ![m] = Count(m) + 1]
  /\ grants' = [grants EXCEPT ![m] = Append(@, [at |-> now, window |-> Window(m)])]
  /\ UNCHANGED now
Refused(m) ==
  /\ Count(m) >= Limit
  /\ lastResetTime' = [lastResetTime EXCEPT ![m] = Window(m)]
  /\ actionCount' = [actionCount EXCEPT ![m] = Count(m)]
  /\ UNCHANGED <<now, grants>>

Goto(m, place) == pc' = [pc EXCEPT ![m] = place]

\* processMessage returns: its locals are gone.
Return(m) ==
  /\ Goto(m, "select")
  /\ msg' = [msg EXCEPT ![m] = 0]
  /\ decision' = [decision EXCEPT ![m] = NoDecision]
  /\ targetUserID' = [targetUserID EXCEPT ![m] = Nobody]
  /\ success' = [success EXCEPT ![m] = FALSE]

-----------------------------------------------------------------------------
(* Faulty variants of the operations below, one per bug the properties     *)
(* must tell from the code. No action of Next uses them.                   *)

\* ConnectIRC hands the counter of the last monitor to the new one.
ConnectKeepsCount ==
  /\ connections < MaxConnections
  /\ connections' = connections + 1
  /\ pc' = [pc EXCEPT ![connections + 1] = "select"]
  /\ lastResetTime' = [lastResetTime EXCEPT ![connections + 1] = now]
  /\ actionCount' = [actionCount EXCEPT
       ![connections + 1] = IF connections = 0 THEN 0 ELSE actionCount[connections]]
  /\ UNCHANGED <<config, arrived, now, grants, log,
                 messageCh, recentMsgs, msg, decision, targetUserID, success>>

\* The oldest message goes one message too late.
AddRecentLate(m, id) ==
  recentMsgs' = [recentMsgs EXCEPT
    ![m] = Append(IF Len(@) > MaxRecent THEN Tail(@) ELSE @, id)]

\* An error of the LLM ends the goroutine.
LLMFailsForGood(m) ==
  /\ pc[m] = "evaluating"
  /\ Goto(m, "stopped")
  /\ UNCHANGED <<twitch, limiter, log, messageCh, recentMsgs, msg, decision, targetUserID, success>>

\* An action that failed is not logged.
LogSuccessOnly(m) ==
  /\ pc[m] = "logging"
  /\ audit' = IF success[m]
              THEN audit \cup {[msg |-> msg[m], tool |-> decision[m].tool,
                                named |-> decision[m].named,
                                targetUserID |-> targetUserID[m], success |-> TRUE,
                                dryRun |-> config.dryRun]}
              ELSE audit
  /\ Return(m)
  /\ UNCHANGED <<twitch, limiter, applied, lost, messageCh, recentMsgs>>

-----------------------------------------------------------------------------
(* The connection.                                                         *)

\* ConnectIRC: a new monitor, started at once, takes over irc.modMonitor.
Connect ==
  /\ connections < MaxConnections
  /\ connections' = connections + 1
  /\ pc' = [pc EXCEPT ![connections + 1] = "select"]
  /\ lastResetTime' = [lastResetTime EXCEPT ![connections + 1] = now]
  /\ UNCHANGED <<config, arrived, now, actionCount, grants, log,
                 messageCh, recentMsgs, msg, decision, targetUserID, success>>

\* OnPrivateMessage: to the current monitor if its channel has room; if not,
\* the message is not moderated.
OnPrivateMessage(line) ==
  /\ connections > 0 /\ Len(arrived) < MaxMessages
  /\ LET room == Len(messageCh[connections]) < Capacity
         id == Len(arrived) + 1
     IN /\ arrived' = Append(arrived, [user |-> line.user, suspect |-> line.suspect,
                                       to |-> IF room THEN connections ELSE 0])
        /\ messageCh' = IF room
                        THEN [messageCh EXCEPT ![connections] = Append(@, id)]
                        ELSE messageCh
  /\ UNCHANGED <<config, connections, limiter, log,
                 recentMsgs, pc, msg, decision, targetUserID, success>>

Tick == /\ now < MaxTime
        /\ now' = now + 1
        /\ UNCHANGED <<twitch, actionCount, lastResetTime, grants, log, goroutine>>

-----------------------------------------------------------------------------
(* processMessage, up to the LLM.                                          *)

\* The select's receive of message id.
Receive(m, id) ==
  /\ pc[m] = "select" /\ messageCh[m] # <<>>
  /\ id = Head(messageCh[m])
  /\ messageCh' = [messageCh EXCEPT ![m] = Tail(@)]
  /\ UNCHANGED <<twitch, limiter, log, decision, targetUserID, success>>

\* A known bot, or the streamer: not even remembered.
SkipUser(m, id) ==
  /\ Receive(m, id)
  /\ arrived[id].user \in Bots
  /\ UNCHANGED <<recentMsgs, pc, msg>>

\* addRecentMessage: the oldest goes when there are MaxRecent already.
AddRecent(m, id) ==
  recentMsgs' = [recentMsgs EXCEPT
    ![m] = Append(IF Len(@) >= MaxRecent THEN Tail(@) ELSE @, id)]

\* The quick filter finds nothing suspicious.
Pass(m, id) ==
  /\ Receive(m, id)
  /\ arrived[id].user \notin Bots /\ ~ arrived[id].suspect
  /\ AddRecent(m, id)
  /\ UNCHANGED <<pc, msg>>

Evaluate(m, id) ==
  /\ Receive(m, id)
  /\ arrived[id].user \notin Bots /\ arrived[id].suspect
  /\ AddRecent(m, id)
  /\ msg' = [msg EXCEPT ![m] = id]
  /\ Goto(m, "evaluating")

-----------------------------------------------------------------------------
(* The LLM's answer, and executeAction's checks in their order.            *)

Answer(m) ==
  /\ pc[m] = "evaluating"
  /\ UNCHANGED <<twitch, log, messageCh, recentMsgs>>

\* No answer, no choices, or a tool call that does not parse.
LLMFails(m) ==
  /\ pc[m] = "evaluating"
  /\ Return(m)
  /\ UNCHANGED <<twitch, limiter, log, messageCh, recentMsgs>>

\* Log a decision that nothing is done about.
ToLog(m, d) ==
  /\ decision' = [decision EXCEPT ![m] = d]
  /\ success' = [success EXCEPT ![m] = TRUE]
  /\ Goto(m, "logging")
  /\ UNCHANGED <<msg, targetUserID>>

NoAction(m, d) ==
  /\ Answer(m) /\ d.tool = "no_action"
  /\ ToLog(m, d)
  /\ UNCHANGED limiter

RateLimited(m, d) ==
  /\ Answer(m) /\ d.tool # "no_action"
  /\ Refused(m)
  /\ Return(m)

\* The slot is spent before the whitelist is looked at.
NotAllowed(m, d) ==
  /\ Answer(m) /\ d.tool # "no_action"
  /\ Granted(m)
  /\ ~ IsToolAllowed(d.tool)
  /\ Return(m)

DryRun(m, d) ==
  /\ Answer(m) /\ d.tool # "no_action"
  /\ Granted(m)
  /\ IsToolAllowed(d.tool) /\ config.dryRun
  /\ ToLog(m, d)

Unknown(m, d) ==
  /\ Answer(m) /\ d.tool \notin Executable \cup {"no_action"}
  /\ Granted(m)
  /\ IsToolAllowed(d.tool) /\ ~ config.dryRun
  /\ Return(m)

Permit(m, d) ==
  /\ Answer(m) /\ d.tool \in Executable
  /\ Granted(m)
  /\ IsToolAllowed(d.tool) /\ ~ config.dryRun
  /\ decision' = [decision EXCEPT ![m] = d]
  /\ Goto(m, "acting")
  /\ UNCHANGED <<msg, targetUserID, success>>

-----------------------------------------------------------------------------
(* The action and its row.                                                 *)

Effect(m) == [by |-> m, msg |-> msg[m], tool |-> decision[m].tool,
              target |-> Target(m), named |-> decision[m].named]

\* Say never fails: it queues the line on the monitor's own IRC client, which
\* sends it only while it is the connected one.
Warn(m) ==
  /\ pc[m] = "acting" /\ decision[m].tool = "warn_user"
  /\ success' = [success EXCEPT ![m] = TRUE]
  /\ applied' = IF m = connections THEN applied \cup {Effect(m)} ELSE applied
  /\ Goto(m, "logging")
  /\ UNCHANGED <<twitch, limiter, audit, lost, messageCh, recentMsgs, msg, decision, targetUserID>>

\* GetUserIDByLogin fails, or finds nobody of that name.
LookUpFails(m) ==
  /\ pc[m] = "acting" /\ decision[m].tool \in NeedUserID
  /\ Goto(m, "logging")
  /\ UNCHANGED <<twitch, limiter, log, messageCh, recentMsgs, msg, decision, targetUserID, success>>

\* The request. Twitch may do what it is asked and the answer still be lost,
\* to the client's timeout or a cut connection.
CallHelix(m) ==
  /\ pc[m] = "acting" /\ decision[m].tool # "warn_user"
  /\ \E done, answered \in BOOLEAN :
       /\ applied' = IF done THEN applied \cup {Effect(m)} ELSE applied
       /\ success' = [success EXCEPT ![m] = done /\ answered]
  /\ targetUserID' = [targetUserID EXCEPT
       ![m] = IF decision[m].tool \in NeedUserID THEN Target(m) ELSE Nobody]
  /\ Goto(m, "logging")
  /\ UNCHANGED <<twitch, limiter, audit, lost, messageCh, recentMsgs, msg, decision>>

\* target_username is the name the LLM gave, target_user_id that of Target if
\* it was looked up.
Row(m) == [msg |-> msg[m], tool |-> decision[m].tool, named |-> decision[m].named,
           targetUserID |-> targetUserID[m],
           success |-> success[m], dryRun |-> config.dryRun]

LogModAction(m) ==
  /\ pc[m] = "logging"
  /\ \/ audit' = audit \cup {Row(m)} /\ UNCHANGED lost
     \/ lost' = lost \cup {msg[m]} /\ UNCHANGED audit
  /\ Return(m)
  /\ UNCHANGED <<twitch, limiter, applied, messageCh, recentMsgs>>

-----------------------------------------------------------------------------
Step(m) ==
  \/ /\ pc[m] = "select"
     /\ \E id \in Id : SkipUser(m, id) \/ Pass(m, id) \/ Evaluate(m, id)
  \/ LLMFails(m)
  \/ /\ pc[m] = "evaluating"
     /\ \E d \in Decision : \/ NoAction(m, d) \/ RateLimited(m, d) \/ NotAllowed(m, d)
                            \/ DryRun(m, d) \/ Unknown(m, d) \/ Permit(m, d)
  \/ Warn(m) \/ LookUpFails(m) \/ CallHelix(m)
  \/ LogModAction(m)

Next ==
  \/ Connect \/ Tick
  \/ \E line \in Chat : OnPrivateMessage(line)
  \/ \E m \in Monitors : Step(m)

Spec == Init /\ [][Next]_vars

\* A monitor's goroutine runs while the process does; every call it makes
\* returns, the clients having timeouts.
FairSpec == Spec /\ \A m \in Monitors : WF_vars(Step(m))

-----------------------------------------------------------------------------
Places == {"new", "select", "evaluating", "acting", "logging"}
Message == {[user |-> line.user, suspect |-> line.suspect, to |-> m] :
               line \in Chat, m \in 0..MaxConnections}

(* Every variable has its type, the channels and the history their bounds. *)
TypeOK ==
  /\ config \in Configs
  /\ arrived \in Seq(Message)
  /\ connections \in 0..MaxConnections
  /\ messageCh \in [Monitors -> Seq(Id)] /\ recentMsgs \in [Monitors -> Seq(Id)]
  /\ pc \in [Monitors -> Places]
  /\ msg \in [Monitors -> {0} \cup Id]
  /\ decision \in [Monitors -> Decision \cup {NoDecision}]
  /\ targetUserID \in [Monitors -> Named \cup {line.user : line \in Chat} \cup {Nobody}]
  /\ success \in [Monitors -> BOOLEAN]
  /\ now \in 0..MaxTime
  /\ actionCount \in [Monitors -> 0..Limit] /\ lastResetTime \in [Monitors -> 0..MaxTime]
  /\ grants \in [Monitors -> Seq([at : 0..MaxTime, window : 0..MaxTime])]
  /\ \A m \in Monitors :
       /\ Len(messageCh[m]) <= Capacity /\ Len(recentMsgs[m]) <= MaxRecent
       /\ pc[m] = "new" <=> m > connections
       /\ lastResetTime[m] <= now
  /\ lost \subseteq Id

(* Each monitor's limiter is checkRateLimit's alone, from the moment the   *)
(* monitor exists: no interleaving of connections, messages and monitors   *)
(* touches its counter otherwise, so RateLimiter's bound holds of each.     *)
Rate(m) == INSTANCE RateLimiter
             WITH actionCount <- actionCount[m], lastResetTime <- lastResetTime[m],
                  grants <- grants[m]
LimiterIsPrivate ==
  [][\A m \in Monitors : IF pc[m] = "new"
                          THEN pc'[m] # "new" => (Rate(m)!New)'
                          ELSE [Rate(m)!Next]_(Rate(m)!vars)]_vars

(* No monitor acts more than twice its limit within a minute, whenever the *)
(* calls come: a burst at the end of one window and one at the start of    *)
(* the next pass together, and no third. The two monitors of a reconnect   *)
(* have a limit each.                                                      *)
BurstIsBounded == \A m \in Monitors : Rate(m)!TwiceTheLimitPerMinute

(* What Twitch was made to do was permitted: by the whitelist and dry_run, *)
(* with a tool the LLM was offered (which nothing checks when it answers), *)
(* for a message that needed evaluation, of a user who is not exempt, and  *)
(* at most once per message, whatever reconnects in between.               *)
ActsArePermitted ==
  \A a \in applied :
    /\ (config.allowed = {} \/ a.tool \in config.allowed) /\ ~ config.dryRun
    /\ a.tool \in AvailableTools
    /\ arrived[a.msg].suspect /\ arrived[a.msg].to = a.by
    /\ arrived[a.msg].user \notin Bots
    /\ \A b \in applied : a.msg = b.msg => a = b

(* Nothing is done that the audit trail does not show, with the ID of the  *)
(* user who was hit, except where the insert failed, or between the two:   *)
(* what an exit there leaves.                                              *)
ActsAreAudited ==
  \A a \in applied :
    \/ \E row \in audit :
         /\ row.msg = a.msg /\ row.tool = a.tool
         /\ a.tool \in NeedUserID => row.targetUserID = a.target
    \/ a.msg \in lost
    \/ pc[a.by] = "logging" /\ msg[a.by] = a.msg

(* The context the LLM judges a message in is the last MaxRecent messages  *)
(* of this connection that are not a bot's, up to that message itself: a   *)
(* full channel leaves a gap, a reconnect an empty history.                *)
Heard(m) ==    \* what has come before all that waits for monitor m
  {id \in 1..Len(arrived) : /\ arrived[id].to = m /\ arrived[id].user \notin Bots
                            /\ \A i \in 1..Len(messageCh[m]) : id < messageCh[m][i]}
ListsLatest(recent, n, heard) ==
  /\ Len(recent) <= n
  /\ \A i \in 1..Len(recent) : /\ recent[i] \in heard
                               /\ \A j \in 1..(i - 1) : recent[j] < recent[i]
  /\ \A id \in heard : \/ \E i \in 1..Len(recent) : recent[i] = id
                       \/ Len(recent) = n /\ id < recent[1]
RecentIsTail == \A m \in Monitors : ListsLatest(recentMsgs[m], MaxRecent, Heard(m))

(* No message stays in a channel: when chat falls silent (here: after      *)
(* MaxMessages), every channel is emptied, also that of a monitor whose    *)
(* connection is gone, and every monitor is back at its select.            *)
QueuesDrain ==
  (\E m \in Monitors : messageCh[m] # <<>>) ~>
    (\A m \in Monitors : messageCh[m] = <<>> /\ pc[m] \in {"new", "select"})

(* What getTimeoutUserTool tells the LLM (ai/twitchchat/agent/             *)
(* moderation_tools.go:137): username is "The username of the user to      *)
(* timeout".                                                               *)
ActsOnNamedUser == \A a \in applied : a.tool = "timeout_user" => a.target = a.named

=============================================================================
