------------------------------ MODULE BotProofs -----------------------------
(***************************************************************************)
(* Proofs about authentication and about the bot it is a part of, for all  *)
(* command lines and environments, and however many flows, redirects and   *)
(* tokens there are.                                                       *)
(***************************************************************************)
EXTENDS Bot, TLAPS

(***************************************************************************)
(* The inductive invariant of TwitchAuth: from the moment a flow has reset *)
(* authCode, what is written there, and what is about to be, answers this  *)
(* flow's page, unless a handler was about to write already.               *)
(***************************************************************************)
InFlow == pc \in {"send", "wait", "exchange"} /\ ~ overlap

CodeHasRequest == authCode # NoCode =>
  \E r \in Redirects : request[r].code = authCode /\ request[r].state = oauthState

FlowBegun == pc \in {"reset", "send", "wait", "exchange"} => oauthState > 0

FlowInv ==
  /\ TypeOK /\ FlowBegun
  /\ \A r \in Redirects : request[r].at = "none" => request[r].code = NoCode
  /\ InFlow => /\ \A r \in Redirects : request[r].at = "write" => request[r].state = oauthState
               /\ CodeHasRequest

(***************************************************************************)
(* The inductive invariant of the bot: what each part of it has by the     *)
(* time main and the connect loop are where they are.                      *)
(***************************************************************************)
Authenticating == {"auth", "state", "reset", "send", "wait", "exchange"}

LoopHasToken == pc \in {"connect", "login", "online"} => tok.access # NoAccess

PartsNeedIRC ==
  /\ main \in {"clients", "setup"} => ~ irc /\ stop = 0
  /\ main = "moderation" => irc
  /\ ~ irc => helix = NoHelix /\ ~ modConfig /\ ~ client

\* Nothing is started before the connect loop.
LoopComesLast ==
  main \in {"clients", "setup", "moderation", "faq", "palace"} => ~ client /\ ~ monitored

\* Once set up, the loop's goroutine stands before its first client; and it
\* authenticates only after a login has failed.
LoopStartsAtConnect ==
  irc => /\ ~ client => pc = "connect"
         /\ ~ reauthed => pc \in {"connect", "login", "online", "stopped"}

HelixIsMade ==
  /\ modConfig => main \in {"moderation", "exited"} \/ helix.ids
  /\ irc /\ flags.moderation /\ flags.twitchID =>
       main \in {"moderation", "exited"} \/ helix # NoHelix

\* The loop goes back to AuthTwitch with the token that Twitch has refused.
RefusedByThen ==
  helix # NoHelix /\ pc \in Authenticating => reauthed /\ helix.access \in revoked

EarlyStopIsHurried == irc /\ stop = 1 /\ ~ client => hurried

Parts == /\ LoopHasToken /\ PartsNeedIRC /\ LoopComesLast /\ LoopStartsAtConnect
         /\ HelixIsMade /\ RefusedByThen /\ EarlyStopIsHurried

Claims == Parts /\ PanicsAreExplained /\ MonitorHasIDs /\ HelixSharesToken

BotInv == BotTypeOK /\ Claims

-----------------------------------------------------------------------------
(* Authentication.                                                         *)

Names == {NoAccess, Placeholder, EnvToken}

LEMMA AccessHasNames == Names \subseteq Access /\ EnvToken \in Access
  BY BoundAssumption DEF Names, Access, NoAccess, Placeholder, EnvToken

LEMMA TypeInit == Init => TypeOK
  <1> SUFFICES ASSUME Init PROVE TypeOK
    OBVIOUS
  <1>1. NoRequest \in [at : {"none", "check", "write", "done"},
                       state : 0..MaxFlows, code : Redirects \cup {NoCode}]
    BY BoundAssumption DEF NoRequest
  <1>2. NoToken \in [access : Access, refresh : BOOLEAN]
    BY AccessHasNames DEF NoToken, Names
  <1>3. /\ issued \in Access /\ revoked \subseteq Access /\ pastExpiry \subseteq revoked
        /\ oauthState \in 0..MaxFlows /\ sentURL \subseteq 1..oauthState
    BY AccessHasNames, BoundAssumption DEF Init, Names
  <1> QED
    BY <1>1, <1>2, <1>3 DEF Init, TypeOK, Places

\* A token is the one before, the one of the environment, or one just issued.
LEMMA CurrentType == TypeOK => Current \in [access : Access, refresh : BOOLEAN]
  BY AccessHasNames DEF TypeOK, Current, Names

LEMMA IssueType ==
  TypeOK /\ Issue => /\ issued' \in Access /\ issued' # NoAccess
                     /\ tok' = [access |-> issued', refresh |-> TRUE]
                     /\ tok' \in [access : Access, refresh : BOOLEAN]
  <1> SUFFICES ASSUME TypeOK, Issue
               PROVE  /\ issued' \in Access /\ issued' # NoAccess
                      /\ tok' = [access |-> issued', refresh |-> TRUE]
                      /\ tok' \in [access : Access, refresh : BOOLEAN]
    OBVIOUS
  <1>1. issued \in 0..MaxToken /\ issued < MaxToken /\ issued' = issued + 1
    BY DEF TypeOK, Issue, Access, NoAccess
  <1>2. issued' \in Access /\ issued' # NoAccess
    BY <1>1, BoundAssumption DEF Access, NoAccess
  <1>3. tok' = [access |-> issued', refresh |-> TRUE]
    BY <1>1 DEF Issue
  <1> QED
    BY <1>2, <1>3

LEMMA AuthTypeNext == TypeOK /\ FlowBegun /\ AuthTwitch => TypeOK'
  <1> SUFFICES ASSUME TypeOK, FlowBegun, AuthTwitch PROVE TypeOK'
    OBVIOUS
  <1>1. CASE ReuseToken \/ GoInteractive
    BY <1>1, CurrentType DEF ReuseToken, GoInteractive, TypeOK, Places, web
  <1>2. CASE Refresh
    BY <1>2, IssueType DEF Refresh, TypeOK, Places, web
  <1>3. CASE UseEnvToken
    BY <1>3, AccessHasNames DEF UseEnvToken, TypeOK, Places, web
  <1>4. CASE SetState
    <2>1. oauthState \in 0..MaxFlows /\ oauthState < MaxFlows /\ oauthState' = oauthState + 1
      BY <1>4 DEF SetState, TypeOK
    <2>2. oauthState' \in 0..MaxFlows /\ 1..oauthState \subseteq 1..oauthState'
      BY <2>1, BoundAssumption
    <2>3. sentURL' \subseteq 1..oauthState'
      BY <1>4, <2>2 DEF SetState, TypeOK, web
    <2> QED
      BY <1>4, <2>2, <2>3 DEF SetState, TypeOK, Places, web, tokens
  <1>5. CASE StateFails \/ ResetCode \/ EndWait
    BY <1>5 DEF StateFails, ResetCode, EndWait, TypeOK, Places, web, tokens
  <1>6. CASE SendURL
    <2>1. oauthState \in 1..oauthState
      BY <1>6 DEF SendURL, FlowBegun, TypeOK
    <2> QED
      BY <1>6, <2>1 DEF SendURL, TypeOK, Places, tokens
  <1>7. CASE Exchange
    BY <1>7, IssueType DEF Exchange, TypeOK, Places, web
  <1>8. CASE ExchangeFails
    BY <1>8, AccessHasNames DEF ExchangeFails, TypeOK, Places, web, NoToken, Names
  <1> QED
    BY <1>1, <1>2, <1>3, <1>4, <1>5, <1>6, <1>7, <1>8 DEF AuthTwitch

\* What a request that arrives is: an answer to a page that was sent, or one
\* loaded again.
LEMMA RedirectType ==
  ASSUME TypeOK, NEW r \in Redirects, Answer(r) \/ Reload(r)
  PROVE  /\ request[r].at = "none"
         /\ \E state \in 0..MaxFlows : \E code \in Redirects \cup {NoCode} :
              request' = [request EXCEPT ![r] = [at |-> "check", state |-> state, code |-> code]]
         /\ UNCHANGED <<env, pc, tokens, oauthState, authCode, sentURL, used, overlap>>
  <1>1. CASE Answer(r)
    <2>1. PICK f \in sentURL, c \in {r, NoCode} : Redirect(r, f, c)
      BY <1>1 DEF Answer
    <2>2. f \in 0..MaxFlows
      BY BoundAssumption DEF TypeOK
    <2> QED
      BY <2>1, <2>2 DEF Redirect
  <1>2. CASE Reload(r)
    BY ZenonT(60), <1>2 DEF Reload, Redirect, TypeOK
  <1> QED
    BY <1>1, <1>2

LEMMA TypeNext == TypeOK /\ FlowBegun /\ [Next]_vars => TypeOK'
  <1> SUFFICES ASSUME TypeOK, FlowBegun, [Next]_vars PROVE TypeOK'
    OBVIOUS
  <1>1. CASE AuthTwitch
    BY <1>1, AuthTypeNext
  <1>2. CASE ConnectLoop
    BY <1>2 DEF ConnectLoop, ConnectIRC, Login, LoginFails, Reconnect, ConnectionFails,
                TypeOK, Places, web, tokens
  <1>3. ASSUME NEW r \in Redirects, Answer(r) \/ Reload(r) PROVE TypeOK'
    <2>1. PICK state \in 0..MaxFlows, code \in Redirects \cup {NoCode} :
            request' = [request EXCEPT ![r] = [at |-> "check", state |-> state, code |-> code]]
      BY <1>3, RedirectType
    <2>2. [at |-> "check", state |-> state, code |-> code]
            \in [at : {"none", "check", "write", "done"},
                 state : 0..MaxFlows, code : Redirects \cup {NoCode}]
      OBVIOUS
    <2>3. UNCHANGED <<env, pc, tokens, oauthState, authCode, sentURL, used, overlap>>
      BY <1>3, RedirectType
    <2> QED
      BY <2>1, <2>2, <2>3 DEF TypeOK, tokens
  <1>4. ASSUME NEW r \in Redirects, ParseAuthCode(r) PROVE TypeOK'
    BY <1>4 DEF ParseAuthCode, CheckState, WriteCode, TypeOK, tokens
  <1>5. ASSUME NEW a \in Access, Revoke(a) \/ Expire(a) PROVE TypeOK'
    BY <1>5 DEF Revoke, Expire, TypeOK, web
  <1>6. CASE UNCHANGED vars
    BY <1>6 DEF vars, TypeOK, web, tokens
  <1> QED
    BY <1>1, <1>2, <1>3, <1>4, <1>5, <1>6 DEF Next

LEMMA FlowBegunNext == TypeOK /\ FlowBegun /\ [Next]_vars => FlowBegun'
  <1> SUFFICES ASSUME TypeOK, FlowBegun, [Next]_vars PROVE FlowBegun'
    OBVIOUS
  <1>1. CASE SetState
    BY <1>1 DEF SetState, TypeOK, FlowBegun
  <1>2. CASE \/ ReuseToken \/ Refresh \/ UseEnvToken \/ GoInteractive \/ StateFails
             \/ ResetCode \/ SendURL \/ EndWait \/ Exchange \/ ExchangeFails \/ ConnectLoop
    BY <1>2 DEF ReuseToken, Refresh, UseEnvToken, GoInteractive, StateFails, ResetCode,
       SendURL, EndWait, Exchange, ExchangeFails, ConnectLoop, ConnectIRC, Login, LoginFails,
       Reconnect, ConnectionFails, FlowBegun
  <1>3. CASE \/ \E r \in Redirects : Answer(r) \/ Reload(r) \/ ParseAuthCode(r)
             \/ \E a \in Access : Revoke(a) \/ Expire(a)
             \/ UNCHANGED vars
    BY <1>3 DEF Answer, Reload, Redirect, ParseAuthCode, CheckState, WriteCode, Revoke,
                Expire, vars, FlowBegun
  <1> QED
    BY <1>1, <1>2, <1>3 DEF Next, AuthTwitch

LEMMA FlowInvNext == FlowInv /\ [Next]_vars => FlowInv'
  <1> SUFFICES ASSUME FlowInv, [Next]_vars PROVE FlowInv'
    OBVIOUS
  <1>0. TypeOK /\ TypeOK' /\ FlowBegun'
    BY TypeNext, FlowBegunNext DEF FlowInv
  <1> DEFINE Rest == /\ \A r \in Redirects : request'[r].at = "none" => request'[r].code = NoCode
                     /\ InFlow' =>
                          /\ \A r \in Redirects :
                               request'[r].at = "write" => request'[r].state = oauthState'
                          /\ CodeHasRequest'
  <1> SUFFICES Rest
    BY <1>0 DEF FlowInv
  <1>1. CASE ResetCode
    BY <1>1 DEF ResetCode, FlowInv, InFlow, CodeHasRequest, web
  <1>2. CASE SendURL \/ EndWait
    BY <1>2 DEF SendURL, EndWait, FlowInv, InFlow, CodeHasRequest, web
  <1>3. CASE \/ ReuseToken \/ Refresh \/ UseEnvToken \/ GoInteractive \/ SetState
             \/ StateFails \/ Exchange \/ ExchangeFails
    <2>1. request' = request /\ pc' \in {"connect", "state", "reset", "stopped"}
      BY <1>3 DEF ReuseToken, Refresh, UseEnvToken, GoInteractive, SetState, StateFails,
                  Exchange, ExchangeFails, web
    <2> QED
      BY <2>1 DEF FlowInv, InFlow
  <1>4. CASE ConnectLoop
    <2>1. request' = request /\ pc' \in {"login", "online", "auth", "stopped"}
      BY <1>4 DEF ConnectLoop, ConnectIRC, Login, LoginFails, Reconnect, ConnectionFails, web
    <2> QED
      BY <2>1 DEF FlowInv, InFlow
  <1>5. ASSUME NEW r \in Redirects, Answer(r) \/ Reload(r) PROVE Rest
    <2>1. PICK state \in 0..MaxFlows, code \in Redirects \cup {NoCode} :
            request' = [request EXCEPT ![r] = [at |-> "check", state |-> state, code |-> code]]
      BY <1>0, <1>5, RedirectType
    <2>2. request[r].at = "none" /\ UNCHANGED <<pc, oauthState, authCode, overlap>>
      BY <1>0, <1>5, RedirectType
    <2>3. request[r].code = NoCode
      BY <2>2 DEF FlowInv
    <2>4. /\ request'[r].at = "check"
          /\ \A q \in Redirects : q # r => request'[q] = request[q]
      BY <1>0, <2>1 DEF TypeOK
    <2>5. CodeHasRequest => CodeHasRequest'
      BY <2>2, <2>3, <2>4 DEF CodeHasRequest
    <2> QED
      BY <2>2, <2>4, <2>5 DEF FlowInv, InFlow
  <1>6. ASSUME NEW r \in Redirects, CheckState(r) PROVE Rest
    <2>1. /\ request[r].at = "check" /\ UNCHANGED <<pc, oauthState, authCode, overlap>>
          /\ request' = [request EXCEPT ![r].at =
                           IF request[r].state = oauthState THEN "write" ELSE "done"]
      BY <1>6 DEF CheckState
    <2>2. /\ request'[r].at = IF request[r].state = oauthState THEN "write" ELSE "done"
          /\ \A q \in Redirects : /\ request'[q].state = request[q].state
                                  /\ request'[q].code = request[q].code
                                  /\ q # r => request'[q].at = request[q].at
      BY <1>0, <2>1 DEF TypeOK
    <2>3. CodeHasRequest => CodeHasRequest'
      BY <2>1, <2>2 DEF CodeHasRequest
    <2> QED
      BY <2>1, <2>2, <2>3 DEF FlowInv, InFlow
  <1>7. ASSUME NEW r \in Redirects, WriteCode(r) PROVE Rest
    <2>1. /\ request[r].at = "write" /\ UNCHANGED <<pc, oauthState, overlap>>
          /\ authCode' = request[r].code
          /\ request' = [request EXCEPT ![r].at = "done"]
      BY <1>7 DEF WriteCode
    <2>2. /\ request'[r].at = "done"
          /\ \A q \in Redirects : /\ request'[q].state = request[q].state
                                  /\ request'[q].code = request[q].code
                                  /\ q # r => request'[q].at = request[q].at
      BY <1>0, <2>1 DEF TypeOK
    <2>3. InFlow => request'[r].state = oauthState' /\ request'[r].code = authCode'
      BY <2>1, <2>2 DEF FlowInv
    <2> QED
      BY <2>1, <2>2, <2>3 DEF FlowInv, InFlow, CodeHasRequest
  <1>8. ASSUME NEW a \in Access, Revoke(a) \/ Expire(a) PROVE Rest
    BY <1>8 DEF Revoke, Expire, FlowInv, InFlow, CodeHasRequest, web
  <1>9. CASE UNCHANGED vars
    BY <1>9 DEF vars, FlowInv, InFlow, CodeHasRequest, web
  <1> QED
    BY <1>1, <1>2, <1>3, <1>4, <1>5, <1>6, <1>7, <1>8, <1>9 DEF Next, AuthTwitch, ParseAuthCode

LEMMA FlowInvariant == Spec => []FlowInv
  <1>1. Init => FlowInv
    <2>1. Init => FlowBegun /\ ~ InFlow
                  /\ \A r \in Redirects : request[r].code = NoCode
      BY DEF Init, FlowBegun, InFlow, NoRequest
    <2> QED
      BY <2>1, TypeInit DEF FlowInv
  <1> QED
    BY <1>1, FlowInvNext, PTL DEF Spec

(* However the browsers answer, reload and come late, a flow that is not   *)
(* exposed to a handler of the flow before ends its wait only with an      *)
(* answer to its own page.                                                 *)
THEOREM CodeIsOfThisFlow == Spec => []CodeOfThisFlow
  <1>1. FlowInv => CodeOfThisFlow
    BY DEF FlowInv, CodeOfThisFlow, InFlow, CodeHasRequest
  <1> QED
    BY <1>1, FlowInvariant, PTL

-----------------------------------------------------------------------------
(* The bot.                                                                *)

\* What the bot does to the variables of authentication is authentication.
LEMMA BotSteps == [BotNext]_botVars => [Next]_vars
  <1> SUFFICES ASSUME [BotNext]_botVars PROVE [Next]_vars
    OBVIOUS
  <1>1. CASE Main \/ ConnectPanics \/ TellMain \/ Kill \/ Interrupt \/ UNCHANGED botVars
    BY <1>1 DEF Main, ConnectPanics, TellMain, Kill, Interrupt, botVars, ClientsFail,
       ClientsReady, SetupAuthenticated, SetupFails, NoTwitchID, IDsFound, IDsFail, NoFAQ,
       AttachFAQ, NoMemPalace, MemPalaceFails, StartMemPalace, TakeStop, Exit
  <1>2. CASE Authenticate
    BY <1>2 DEF Authenticate, Next
  <1>3. CASE MakeClient \/ Connect
    BY <1>3 DEF MakeClient, Connect, Next, ConnectLoop
  <1>4. CASE (\E r \in Redirects : HandleRedirect(r)) \/ Outside
    BY <1>4 DEF HandleRedirect, Outside, Next
  <1> QED
    BY <1>1, <1>2, <1>3, <1>4 DEF BotNext, Loop

(* The bot implements TwitchAuth: what is proved of authentication alone   *)
(* holds of it as a part of the bot.                                       *)
THEOREM BotImplementsAuth == BotSpec => Spec
  <1>1. BotInit => Init
    BY DEF BotInit
  <1> QED
    BY <1>1, BotSteps, PTL DEF BotSpec, Spec

LEMMA BotTypeInit == BotInit => BotTypeOK
  <1> SUFFICES ASSUME BotInit PROVE BotTypeOK
    OBVIOUS
  <1>1. TypeOK
    BY TypeInit DEF BotInit
  <1>2. NoHelix \in [access : Access, ids : BOOLEAN]
    BY AccessHasNames DEF NoHelix, Names
  <1>3. /\ helix = NoHelix /\ flags \in Flags /\ main = "clients" /\ stop = 0
        /\ {irc, modConfig, monitored, client, memPalace, reauthed, hurried} \subseteq BOOLEAN
    BY DEF BotInit
  <1> QED
    BY <1>1, <1>2, <1>3 DEF BotTypeOK

LEMMA BotTypeNext == BotTypeOK /\ FlowInv /\ [BotNext]_botVars => BotTypeOK'
  <1> SUFFICES ASSUME BotTypeOK, FlowInv, [BotNext]_botVars PROVE BotTypeOK'
    OBVIOUS
  <1>0. TypeOK' /\ tok.access \in Access
    BY BotSteps, TypeNext DEF FlowInv, TypeOK
  <1>1. CASE \/ ClientsFail \/ ClientsReady \/ SetupFails \/ NoFAQ \/ AttachFAQ
             \/ NoMemPalace \/ MemPalaceFails \/ TakeStop \/ Exit
             \/ ConnectPanics \/ TellMain \/ Kill
    BY <1>0, <1>1 DEF ClientsFail, ClientsReady, SetupFails, NoFAQ, AttachFAQ, NoMemPalace,
       MemPalaceFails, TakeStop, Exit, ConnectPanics, TellMain, Kill, BotTypeOK, parts, history
  <1>2. CASE SetupAuthenticated \/ NoTwitchID
    BY <1>0, <1>2, FlagsAssumption DEF SetupAuthenticated, NoTwitchID, BotTypeOK, history
  <1>3. CASE IDsFound \/ IDsFail
    <2>1. /\ \E ids \in BOOLEAN : helix' = [access |-> tok.access, ids |-> ids]
          /\ modConfig' \in {modConfig, FALSE} /\ main' = "faq"
          /\ UNCHANGED <<flags, irc, monitored, client, memPalace, stop, history>>
      BY <1>3 DEF IDsFound, IDsFail
    <2>2. helix' \in [access : Access, ids : BOOLEAN]
      BY <1>0, <2>1
    <2>3. {irc, modConfig, monitored, client, memPalace, reauthed, hurried}' \subseteq BOOLEAN
      BY <2>1 DEF BotTypeOK, history
    <2> QED
      BY <1>0, <2>1, <2>2, <2>3 DEF BotTypeOK
  <1>4. CASE StartMemPalace
    BY <1>0, <1>4 DEF StartMemPalace, BotTypeOK, history
  <1>5. CASE Authenticate \/ Outside \/ \E r \in Redirects : HandleRedirect(r)
    BY <1>0, <1>5 DEF Authenticate, Outside, HandleRedirect, BotTypeOK, bot, parts, history
  <1>6. CASE MakeClient
    BY <1>0, <1>6 DEF MakeClient, StartMonitor, BotTypeOK, history
  <1>7. CASE Connect
    BY <1>0, <1>7 DEF Connect, BotTypeOK, parts
  <1>8. CASE Interrupt
    BY <1>0, <1>8 DEF Interrupt, BotTypeOK, parts
  <1>9. CASE UNCHANGED botVars
    BY <1>0, <1>9 DEF botVars, bot, BotTypeOK, parts, history
  <1> QED
    BY <1>1, <1>2, <1>3, <1>4, <1>5, <1>6, <1>7, <1>8, <1>9 DEF BotNext, Main, Loop

-----------------------------------------------------------------------------
(* The parts of the bot.                                                   *)

LEMMA CurrentHasToken == Valid(Current) => Current.access # NoAccess
  BY DEF Valid

\* A token leaves AuthTwitch with its goroutine at "connect", and not otherwise.
LEMMA AuthLeavesToken ==
  ASSUME TypeOK, AuthTwitch
  PROVE  /\ pc \in Authenticating
         /\ pc' \notin {"login", "online"}
         /\ pc' = "connect" => tok'.access # NoAccess
         /\ revoked' = revoked
  <1> USE DEF Authenticating
  <1>1. CASE ReuseToken
    BY <1>1, CurrentHasToken DEF ReuseToken
  <1>2. CASE Refresh \/ Exchange
    <2>1. issued' # NoAccess /\ tok' = [access |-> issued', refresh |-> TRUE]
      BY <1>2, IssueType DEF Refresh, Exchange
    <2> QED
      BY <1>2, <2>1 DEF Refresh, Exchange
  <1>3. CASE UseEnvToken
    BY <1>3 DEF UseEnvToken, EnvToken, NoAccess
  <1>4. CASE \/ GoInteractive \/ SetState \/ StateFails \/ ResetCode \/ SendURL
             \/ EndWait \/ ExchangeFails
    BY <1>4 DEF GoInteractive, SetState, StateFails, ResetCode, SendURL, EndWait, ExchangeFails,
                tokens
  <1> QED
    BY <1>1, <1>2, <1>3, <1>4 DEF AuthTwitch

LEMMA PartsInit == BotInit => Claims
  BY DEF BotInit, Init, Claims, Parts, LoopHasToken, PartsNeedIRC, LoopComesLast, LoopStartsAtConnect,
     HelixIsMade, RefusedByThen, EarlyStopIsHurried, PanicsAreExplained, MonitorHasIDs,
     HelixSharesToken, Authenticating

LEMMA PartsNext == BotTypeOK /\ Claims /\ [BotNext]_botVars => Claims'
  <1> SUFFICES ASSUME BotTypeOK, Claims, [BotNext]_botVars PROVE Claims'
    OBVIOUS
  <1> USE DEF Claims, Parts, LoopHasToken, PartsNeedIRC, LoopComesLast, LoopStartsAtConnect,
              HelixIsMade, RefusedByThen, EarlyStopIsHurried, PanicsAreExplained, NeedsMissing,
              MonitorHasIDs, HelixSharesToken, Authenticating
  <1>1. CASE ClientsFail \/ ClientsReady \/ Kill
    BY <1>1 DEF ClientsFail, ClientsReady, Kill, vars, tokens, parts, history, Up, Serving
  <1>2. CASE SetupAuthenticated
    BY <1>2 DEF SetupAuthenticated, vars, tokens, history
  <1>3. CASE SetupFails
    BY <1>3 DEF SetupFails, vars, tokens, parts, history
  <1>4. CASE NoTwitchID
    BY <1>4 DEF NoTwitchID, vars, tokens, history
  <1>5. CASE IDsFound
    BY <1>5 DEF IDsFound, vars, tokens, history, NoHelix
  <1>6. CASE IDsFail
    BY <1>6 DEF IDsFail, vars, tokens, history, NoHelix
  <1>7. CASE NoFAQ \/ AttachFAQ \/ NoMemPalace \/ MemPalaceFails
    BY <1>7 DEF NoFAQ, AttachFAQ, NoMemPalace, MemPalaceFails, vars, tokens, parts, history
  <1>8. CASE StartMemPalace
    BY <1>8 DEF StartMemPalace, vars, tokens, history
  <1>9. CASE Authenticate
    BY <1>9, AuthLeavesToken DEF Authenticate, bot, parts, history, Serving, BotTypeOK
  <1>10. CASE MakeClient
    BY <1>10 DEF MakeClient, StartMonitor, ConnectIRC, history, Serving, tokens
  <1>11. CASE ConnectPanics
    BY <1>11 DEF ConnectPanics, vars, tokens, parts, history, Serving, NoToken
  <1>12. CASE Connect
    BY <1>12 DEF Connect, Login, LoginFails, Reconnect, ConnectionFails, tokens, parts, Serving
  <1>13. CASE TellMain
    BY <1>13 DEF TellMain, vars, tokens, parts, history
  <1>14. CASE Outside \/ \E r \in Redirects : HandleRedirect(r)
    <2>1. UNCHANGED <<pc, tok, bot>> /\ revoked \subseteq revoked'
      BY <1>14 DEF Outside, HandleRedirect, Answer, Reload, Redirect, Revoke, Expire,
                   ParseAuthCode, CheckState, WriteCode, tokens
    <2> QED
      BY <2>1 DEF bot, parts, history
  <1>15. CASE Interrupt
    BY <1>15 DEF Interrupt, vars, tokens, parts, Serving
  <1>16. CASE TakeStop \/ Exit
    BY <1>16 DEF TakeStop, Exit, vars, tokens, parts, history
  <1>17. CASE UNCHANGED botVars
    BY <1>17 DEF botVars, bot, vars, tokens, parts, history
  <1> QED
    BY <1>1, <1>2, <1>3, <1>4, <1>5, <1>6, <1>7, <1>8, <1>9, <1>10, <1>11, <1>12, <1>13,
       <1>14, <1>15, <1>16, <1>17 DEF BotNext, Main, Loop

LEMMA BotInvariant == BotSpec => []BotInv
  <1>1. BotInit => BotInv
    BY BotTypeInit, PartsInit DEF BotInv
  <1>2. BotInv /\ FlowInv /\ [BotNext]_botVars => BotInv'
    BY BotTypeNext, PartsNext DEF BotInv
  <1>3. BotSpec => []FlowInv
    BY BotImplementsAuth, FlowInvariant
  <1> QED
    BY <1>1, <1>2, <1>3, PTL DEF BotSpec

(* In every reachable state of the bot every variable has its type; so at  *)
(* most one interrupt waits in the channel stop.                           *)
THEOREM BotTypeCorrect == BotSpec => []BotTypeOK
  BY BotInvariant, PTL DEF BotInv, Claims

(* A flow of the bot ends its wait only with an answer to its own page.    *)
COROLLARY BotCodeIsOfThisFlow == BotSpec => []CodeOfThisFlow
  BY BotImplementsAuth, CodeIsOfThisFlow

(* Whatever fails at start-up, and in whatever order the loop and main get *)
(* to their parts, no nil pointer is met but where AuthTwitch failed, Mem  *)
(* Palace lacks its client, or Ctrl-C came before there was a client.      *)
THEOREM PanicsExplained == BotSpec => []PanicsAreExplained
  BY BotInvariant, PTL DEF BotInv, Claims

(* No monitor is started with the client of Helix of a set-up that failed  *)
(* half-way.                                                               *)
THEOREM MonitorsHaveIDs == BotSpec => []MonitorHasIDs
  BY BotInvariant, PTL DEF BotInv, Claims

(* Helix and IRC are used with one token, or Helix with one that Twitch    *)
(* refuses since the login that made the connect loop authenticate again.  *)
THEOREM OneToken == BotSpec => []HelixSharesToken
  BY BotInvariant, PTL DEF BotInv, Claims

=============================================================================
