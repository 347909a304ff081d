----------------------------- MODULE TwitchAuth -----------------------------
(***************************************************************************)
(* twitch/auth.go, called by the set-up code and by the connect loop of    *)
(* cli/twitch/twitch.go: where the bot's token comes from, and how an      *)
(* interactive flow waits for the code that the HTTP handler of            *)
(* /oauth/redirect leaves in irc.authCode. The handler runs in a goroutine *)
(* per request and shares authCode and oauthState with AuthTwitch without  *)
(* a lock.                                                                 *)
(***************************************************************************)
EXTENDS Integers, FiniteSets

CONSTANTS MaxFlows, MaxRedirects, MaxToken  \* bounds

ASSUME BoundAssumption ==
  MaxFlows \in Nat /\ MaxRedirects \in Nat /\ MaxToken \in Nat /\ MaxToken >= 2

Redirects == 1..MaxRedirects  \* requests to the handler; also the codes Twitch issues
NoCode == 0

\* Access tokens, by number: what TWITCH_TOKEN may hold, then those issued.
NoAccess == 0
Placeholder == 1
EnvToken == 2
Access == NoAccess..MaxToken
NoToken == [access |-> NoAccess, refresh |-> FALSE]    \* irc.tok is nil

VARIABLES
  env,           \* TWITCH_TOKEN, and whether there is a TWITCH_REFRESH_TOKEN
  pc,            \* where the goroutine of set-up and of the connect loop is
  tok,           \* irc.tok
  oauthState,    \* the number of the flow; 0: none yet
  authCode,
  issued,        \* the last token issued
  revoked,       \* access tokens that Twitch refuses
  pastExpiry,    \* those whose Token.Expiry has passed
  sentURL,       \* flows whose URL has reached somebody
  request,       \* per redirect: [at, state, code] of its handler
  used,          \* codes that have been exchanged
  overlap        \* history: a handler of an older flow was about to write

tokens == <<tok, issued, revoked, pastExpiry>>
web == <<sentURL, request>>
vars == <<env, pc, tokens, oauthState, authCode, web, used, overlap>>

NoRequest == [at |-> "none", state |-> 0, code |-> NoCode]

Init ==
  /\ env \in [token : {NoAccess, Placeholder, EnvToken}, refresh : BOOLEAN]
  /\ pc = "auth"
  /\ tok = NoToken
  /\ oauthState = 0 /\ authCode = NoCode
  /\ issued = EnvToken
  /\ revoked = {NoAccess, Placeholder} /\ pastExpiry = {}
  /\ sentURL = {}
  /\ request = [r \in Redirects |-> NoRequest]
  /\ used = {}
  /\ overlap = FALSE

First == tok = NoToken

\* oauth2.Token.Valid: a token from the environment has no expiry.
Valid(t) == t.access # NoAccess /\ t.access \notin pastExpiry

\* The token tryRefreshToken starts from.
Current == IF First /\ env.refresh THEN [access |-> env.token, refresh |-> TRUE] ELSE tok

Issue == /\ issued < MaxToken
         /\ issued' = issued + 1
         /\ tok' = [access |-> issued + 1, refresh |-> TRUE]

-----------------------------------------------------------------------------
(* Faulty variants of the operations below, one per bug the properties     *)
(* must tell from the code. No action of Next uses them.                   *)

\* The stale code of an earlier flow is left where it is.
KeepAuthCode ==
  /\ pc = "reset"
  /\ overlap' = \E r \in Redirects : request[r].at = "write"
  /\ pc' = "send"
  /\ UNCHANGED <<env, tokens, oauthState, authCode, web, used>>

\* The URL is made with a state string of its own.
SendOtherState ==
  /\ pc = "send"
  /\ sentURL' = sentURL \cup {oauthState + 1}
  /\ pc' = "wait"
  /\ UNCHANGED <<env, tokens, oauthState, authCode, request, used, overlap>>

\* The handler's comparison is the wrong way round.
CheckInverted(r) ==
  /\ request[r].at = "check"
  /\ request' = [request EXCEPT ![r].at =
                   IF request[r].state = oauthState THEN "done" ELSE "write"]
  /\ UNCHANGED <<env, pc, tokens, oauthState, authCode, sentURL, used, overlap>>

\* The connect loop goes on when the exchange has failed.
ExchangeIgnored ==
  /\ pc = "exchange"
  /\ tok' = NoToken
  /\ pc' = "connect"
  /\ UNCHANGED <<env, issued, revoked, pastExpiry, oauthState, authCode, web, used, overlap>>

\* Whatever Connect returns, the loop authenticates again.
AuthAfterAnyError ==
  /\ pc = "login"
  /\ pc' = "auth"
  /\ UNCHANGED <<env, tokens, oauthState, authCode, web, used, overlap>>

-----------------------------------------------------------------------------
(* AuthTwitch without a human.                                             *)

\* TokenSource.Token() hands a token back that it thinks valid.
ReuseToken ==
  /\ pc = "auth" /\ Current.refresh /\ Valid(Current)
  /\ tok' = Current
  /\ pc' = "connect"
  /\ UNCHANGED <<env, issued, revoked, pastExpiry, oauthState, authCode, web, used, overlap>>

Refresh ==
  /\ pc = "auth" /\ Current.refresh /\ ~ Valid(Current)
  /\ Issue
  /\ pc' = "connect"
  /\ UNCHANGED <<env, revoked, pastExpiry, oauthState, authCode, web, used, overlap>>

\* No refresh, or a failed one, the first time: TWITCH_TOKEN.
UseEnvToken ==
  /\ pc = "auth" /\ First /\ env.token = EnvToken
  /\ ~ (Current.refresh /\ Valid(Current))
  /\ tok' = [access |-> EnvToken, refresh |-> FALSE]
  /\ pc' = "connect"
  /\ UNCHANGED <<env, issued, revoked, pastExpiry, oauthState, authCode, web, used, overlap>>

\* Neither: ask the human.
GoInteractive ==
  /\ pc = "auth" /\ ~ (First /\ env.token = EnvToken)
  /\ ~ (Current.refresh /\ Valid(Current))
  /\ tok' = Current
  /\ pc' = "state"
  /\ UNCHANGED <<env, issued, revoked, pastExpiry, oauthState, authCode, web, used, overlap>>

-----------------------------------------------------------------------------
(* The interactive flow.                                                   *)

SetState ==
  /\ pc = "state" /\ oauthState < MaxFlows
  /\ oauthState' = oauthState + 1
  /\ pc' = "reset"
  /\ UNCHANGED <<env, tokens, authCode, web, used, overlap>>

\* crypto/rand fails; both callers of AuthTwitch stop the bot on an error.
StateFails ==
  /\ pc = "state"
  /\ pc' = "stopped"
  /\ UNCHANGED <<env, tokens, oauthState, authCode, web, used, overlap>>

ResetCode ==
  /\ pc = "reset"
  /\ authCode' = NoCode
  /\ overlap' = \E r \in Redirects : request[r].at = "write"
  /\ pc' = "send"
  /\ UNCHANGED <<env, tokens, oauthState, web, used>>

\* sendDiscordAuthURL: on any error of Discord the URL is not even logged.
SendURL ==
  /\ pc = "send"
  /\ \E reached \in BOOLEAN :
       sentURL' = IF reached THEN sentURL \cup {oauthState} ELSE sentURL
  /\ pc' = "wait"
  /\ UNCHANGED <<env, tokens, oauthState, authCode, request, used, overlap>>

\* The loop looks once a second, for as long as it takes.
EndWait ==
  /\ pc = "wait" /\ authCode # NoCode
  /\ pc' = "exchange"
  /\ UNCHANGED <<env, tokens, oauthState, authCode, web, used, overlap>>

\* authCode is read again.
Exchange ==
  /\ pc = "exchange" /\ authCode \notin used \cup {NoCode}
  /\ Issue
  /\ used' = used \cup {authCode}
  /\ pc' = "connect"
  /\ UNCHANGED <<env, revoked, pastExpiry, oauthState, authCode, web, overlap>>

\* A code already used, an empty one, or no answer: irc.tok is nil.
ExchangeFails ==
  /\ pc = "exchange"
  /\ tok' = NoToken
  /\ pc' = "stopped"
  /\ UNCHANGED <<env, issued, revoked, pastExpiry, oauthState, authCode, web, used, overlap>>

-----------------------------------------------------------------------------
(* parseAuthCode, in a goroutine per request, and the browsers that send   *)
(* them: a flow's page may be answered more than once, approved (Twitch    *)
(* issues a code, here the number of the request) or denied, and the       *)
(* redirect may be loaded again.                                           *)

Redirect(r, state, code) ==
  /\ request[r].at = "none"
  /\ \A q \in 1..(r - 1) : request[q].at # "none"
  /\ request' = [request EXCEPT ![r] = [at |-> "check", state |-> state, code |-> code]]
  /\ UNCHANGED <<env, pc, tokens, oauthState, authCode, sentURL, used, overlap>>

Answer(r) == \E f \in sentURL, c \in {r, NoCode} : Redirect(r, f, c)

Reload(r) == \E q \in Redirects :
               request[q].at # "none" /\ Redirect(r, request[q].state, request[q].code)

CheckState(r) ==
  /\ request[r].at = "check"
  /\ request' = [request EXCEPT ![r].at =
                   IF request[r].state = oauthState THEN "write" ELSE "done"]
  /\ UNCHANGED <<env, pc, tokens, oauthState, authCode, sentURL, used, overlap>>

WriteCode(r) ==
  /\ request[r].at = "write"
  /\ authCode' = request[r].code
  /\ request' = [request EXCEPT ![r].at = "done"]
  /\ UNCHANGED <<env, pc, tokens, oauthState, sentURL, used, overlap>>

-----------------------------------------------------------------------------
(* The connect loop of main. ConnectIRC makes a client with irc.tok's      *)
(* access token; Connect logs in, and again whenever Twitch asks it to     *)
(* reconnect, until an error ends it.                                      *)

ConnectIRC ==
  /\ pc = "connect"
  /\ pc' = "login"
  /\ UNCHANGED <<env, tokens, oauthState, authCode, web, used, overlap>>

Login ==
  /\ pc = "login" /\ tok.access \notin revoked
  /\ pc' = "online"
  /\ UNCHANGED <<env, tokens, oauthState, authCode, web, used, overlap>>

\* "login authentication failed"
LoginFails ==
  /\ pc = "login" /\ tok.access \in revoked
  /\ pc' = "auth"
  /\ UNCHANGED <<env, tokens, oauthState, authCode, web, used, overlap>>

Reconnect ==
  /\ pc = "online"
  /\ pc' = "login"
  /\ UNCHANGED <<env, tokens, oauthState, authCode, web, used, overlap>>

\* Any other error ends the bot.
ConnectionFails ==
  /\ pc \in {"login", "online"}
  /\ pc' = "stopped"
  /\ UNCHANGED <<env, tokens, oauthState, authCode, web, used, overlap>>

-----------------------------------------------------------------------------
(* Twitch's side of the tokens.                                            *)

\* A new password, or the streamer disconnects the application.
Revoke(a) ==
  /\ a \in EnvToken..issued /\ a \notin revoked
  /\ revoked' = revoked \cup {a}
  /\ UNCHANGED <<env, pc, tok, issued, pastExpiry, oauthState, authCode, web, used, overlap>>

Expire(a) ==
  /\ a \in (EnvToken + 1)..issued /\ a \notin pastExpiry
  /\ revoked' = revoked \cup {a}
  /\ pastExpiry' = pastExpiry \cup {a}
  /\ UNCHANGED <<env, pc, tok, issued, oauthState, authCode, web, used, overlap>>

-----------------------------------------------------------------------------
AuthTwitch == \/ ReuseToken \/ Refresh \/ UseEnvToken \/ GoInteractive
              \/ SetState \/ StateFails \/ ResetCode \/ SendURL \/ EndWait \/ Exchange \/ ExchangeFails
ConnectLoop == ConnectIRC \/ Login \/ LoginFails \/ Reconnect \/ ConnectionFails
ParseAuthCode(r) == CheckState(r) \/ WriteCode(r)

Next ==
  \/ AuthTwitch \/ ConnectLoop
  \/ \E r \in Redirects : Answer(r) \/ Reload(r) \/ ParseAuthCode(r)
  \/ \E a \in Access : Revoke(a) \/ Expire(a)

Spec == Init /\ [][Next]_vars

\* The two kinds of goroutine run; nothing is assumed of the humans.
FairSpec == /\ Spec
            /\ WF_vars(AuthTwitch)
            /\ \A r \in Redirects : WF_vars(ParseAuthCode(r))

-----------------------------------------------------------------------------
Places == {"auth", "state", "reset", "send", "wait", "exchange", "connect", "login",
           "online", "stopped"}

(* Every variable has its type.                                            *)
TypeOK ==
  /\ env \in [token : {NoAccess, Placeholder, EnvToken}, refresh : BOOLEAN]
  /\ pc \in Places
  /\ tok \in [access : Access, refresh : BOOLEAN]
  /\ oauthState \in 0..MaxFlows /\ authCode \in Redirects \cup {NoCode}
  /\ issued \in Access /\ revoked \subseteq Access /\ pastExpiry \subseteq revoked
  /\ sentURL \subseteq 1..oauthState
  /\ request \in [Redirects -> [at : {"none", "check", "write", "done"},
                                state : 0..MaxFlows, code : Redirects \cup {NoCode}]]
  /\ used \subseteq Redirects
  /\ overlap \in BOOLEAN

(* A flow ends its wait only with an answer to its own page: a code left   *)
(* over from an earlier flow, a reload or a late second approval does not  *)
(* skip the wait. The one exception is a handler that had compared the     *)
(* state of the earlier flow and not yet written when the flow began.      *)
CodeOfThisFlow ==
  pc \in {"wait", "exchange"} /\ authCode # NoCode /\ ~ overlap =>
    \E r \in Redirects : request[r].code = authCode /\ request[r].state = oauthState

(* What twitch/auth.go:130-132 says of authenticating again: "Skip env var *)
(* paths - they'd just load the same expired token again. Try silent       *)
(* refresh first": the refresh is for another token.                       *)
ReauthReplacesToken ==
  [][pc = "auth" /\ ~ First /\ pc' = "connect" => tok'.access # tok.access]_vars

=============================================================================
