--------------------------------- MODULE Bot --------------------------------
(***************************************************************************)
(* The bot as cli/twitch/twitch.go puts it together: TwitchAuth's          *)
(* goroutine of set-up and of the connect loop, and the goroutine of main, *)
(* which sets the parts up one after another (twitch/connection.go,        *)
(* internal/mempalace), starts the connect loop and waits in Shutdown.     *)
(* Each part may fail to be set up, and main then goes on without it; a    *)
(* nil pointer that is used later ends the process.                        *)
(***************************************************************************)
EXTENDS TwitchAuth

CONSTANT Flags   \* command lines: [moderation, faq, palace], and whether
                 \* there is a TWITCH_ID

ASSUME FlagsAssumption ==
  Flags \subseteq [moderation : BOOLEAN, faq : BOOLEAN, palace : BOOLEAN, twitchID : BOOLEAN]

VARIABLES
  flags,
  main,        \* where the goroutine of main is
  irc,         \* main's irc is not nil
  modConfig,   \* irc.modConfig is not nil
  helix,       \* irc.helixClient: its token, and whether it knows the two IDs
  monitored,   \* a moderation monitor has been started
  client,      \* irc.Client is not nil
  memPalace,   \* irc.memPalace is not nil
  stop,        \* what is in the channel stop, which has one place
  reauthed,    \* history: the connect loop has authenticated again
  hurried      \* history: an interrupt came before there was a client

parts == <<irc, modConfig, helix, monitored, client, memPalace>>
history == <<reauthed, hurried>>
bot == <<flags, main, parts, stop, history>>
botVars == <<vars, bot>>

NoHelix == [access |-> NoAccess, ids |-> FALSE]

BotInit ==
  /\ Init
  /\ flags \in Flags
  /\ main = "clients"
  /\ irc = FALSE /\ modConfig = FALSE /\ helix = NoHelix
  /\ monitored = FALSE /\ client = FALSE /\ memPalace = FALSE
  /\ stop = 0
  /\ reauthed = FALSE /\ hurried = FALSE

Up == main \notin {"exited", "panicked"}

\* signal.Notify has been called and the connect loop started.
Serving == main \in {"serving", "ending"}

-----------------------------------------------------------------------------
(* Faulty variants of the operations below, one per bug the properties     *)
(* must tell from the code. No action of Next uses them.                   *)

\* A failure of setupModeration is logged and nothing else.
IDsFailUnnoted ==
  /\ main = "moderation" /\ flags.twitchID
  /\ helix' = [access |-> tok.access, ids |-> FALSE]
  /\ main' = "faq"
  /\ UNCHANGED <<vars, flags, irc, modConfig, monitored, client, memPalace, stop, history>>

\* The goroutine of the connect loop returns without a word to main.
TellNobody == /\ irc /\ main = "serving" /\ pc = "stopped" /\ stop = 1
              /\ UNCHANGED botVars

-----------------------------------------------------------------------------
(* main, up to Shutdown.                                                   *)

\* No database, no LLM, or a moderation configuration that does not load.
ClientsFail ==
  /\ main = "clients"
  /\ main' = "exited"
  /\ UNCHANGED <<vars, flags, parts, stop, history>>

ClientsReady ==
  /\ main = "clients"
  /\ main' = "setup"
  /\ UNCHANGED <<vars, flags, parts, stop, history>>

\* SetupTwitchIRCWithModeration, when AuthTwitch has returned.
SetupAuthenticated ==
  /\ main = "setup" /\ pc = "connect"
  /\ irc' = TRUE
  /\ modConfig' = flags.moderation
  /\ main' = IF flags.moderation THEN "moderation" ELSE "faq"
  /\ UNCHANGED <<vars, flags, helix, monitored, client, memPalace, stop, history>>

\* It has failed: irc is nil, main sends itself an interrupt and goes on.
SetupFails ==
  /\ main = "setup" /\ pc = "stopped"
  /\ stop' = 1
  /\ main' = "faq"
  /\ UNCHANGED <<vars, flags, parts, history>>

\* setupModeration returns before it has made a client.
NoTwitchID ==
  /\ main = "moderation" /\ ~ flags.twitchID
  /\ modConfig' = FALSE
  /\ main' = "faq"
  /\ UNCHANGED <<vars, flags, irc, helix, monitored, client, memPalace, stop, history>>

\* GetUserIDByLogin for the bot, under either of its names, and the streamer;
\* then a second client, with the IDs.
IDsFound ==
  /\ main = "moderation" /\ flags.twitchID /\ tok.access \notin revoked
  /\ helix' = [access |-> tok.access, ids |-> TRUE]
  /\ main' = "faq"
  /\ UNCHANGED <<vars, flags, irc, modConfig, monitored, client, memPalace, stop, history>>

\* One of the requests fails: the first client stays.
IDsFail ==
  /\ main = "moderation" /\ flags.twitchID
  /\ helix' = [access |-> tok.access, ids |-> FALSE]
  /\ modConfig' = FALSE
  /\ main' = "faq"
  /\ UNCHANGED <<vars, flags, irc, monitored, client, memPalace, stop, history>>

\* Not asked for, or setupFAQService fails: the bot goes on without.
NoFAQ ==
  /\ main = "faq"
  /\ main' = "palace"
  /\ UNCHANGED <<vars, flags, parts, stop, history>>

\* The processor is given irc's channel.
AttachFAQ ==
  /\ main = "faq" /\ flags.faq
  /\ main' = IF irc THEN "palace" ELSE "panicked"
  /\ UNCHANGED <<vars, flags, parts, stop, history>>

NoMemPalace ==
  /\ main = "palace" /\ ~ flags.palace
  /\ main' = "serving"
  /\ UNCHANGED <<vars, flags, parts, stop, history>>

\* mempalace.New fails (no ontology, no embeddings), or Start, whose request
\* for the stream's status does.
MemPalaceFails ==
  /\ main = "palace" /\ flags.palace
  /\ irc
  /\ main' = "serving"
  /\ UNCHANGED <<vars, flags, parts, stop, history>>

\* The configuration takes irc's client of Helix; New takes any, also nil;
\* Start asks it for the status of the stream.
StartMemPalace ==
  /\ main = "palace" /\ flags.palace
  /\ IF ~ irc \/ helix = NoHelix
     THEN main' = "panicked" /\ UNCHANGED memPalace
     ELSE /\ helix.access \notin revoked
          /\ memPalace' = TRUE
          /\ main' = "serving"
  /\ UNCHANGED <<vars, flags, irc, modConfig, helix, monitored, client, stop, history>>

-----------------------------------------------------------------------------
(* The goroutine of TwitchAuth.                                            *)

\* Without a TWITCH_ID Twitch issues no token.
Authenticate ==
  /\ main = "setup" \/ Serving
  /\ AuthTwitch
  /\ issued' # issued => flags.twitchID
  /\ UNCHANGED bot

\* A monitor needs what setupModeration leaves only when it succeeds;
\* NewMonitor may fail, and the bot then goes on without.
StartMonitor ==
  \/ modConfig /\ helix # NoHelix /\ monitored' = TRUE
  \/ UNCHANGED monitored

MakeClient ==
  /\ Serving
  /\ irc /\ tok # NoToken
  /\ ConnectIRC
  /\ StartMonitor
  /\ client' = TRUE
  /\ UNCHANGED <<flags, main, irc, modConfig, helix, memPalace, stop, history>>

\* irc, or irc.tok, is nil.
ConnectPanics ==
  /\ Serving
  /\ ~ irc \/ (pc = "connect" /\ tok = NoToken)
  /\ main' = "panicked"
  /\ UNCHANGED <<vars, flags, parts, stop, history>>

\* Connect, in the client's own goroutine.
Connect ==
  /\ Serving
  /\ Login \/ LoginFails \/ Reconnect \/ ConnectionFails
  /\ reauthed' = (reauthed \/ pc' = "auth")
  /\ UNCHANGED <<flags, main, parts, stop, hurried>>

\* An error ends the loop: stop <- os.Interrupt.
TellMain ==
  /\ irc /\ main = "serving" /\ pc = "stopped" /\ stop = 0
  /\ stop' = 1
  /\ UNCHANGED <<vars, flags, main, parts, history>>

-----------------------------------------------------------------------------
(* The outside, and Shutdown.                                              *)

Outside ==
  /\ Up
  /\ \/ \E r \in Redirects : Answer(r) \/ Reload(r)
     \/ \E a \in Access : Revoke(a) \/ Expire(a)
  /\ UNCHANGED bot

HandleRedirect(r) == Up /\ ParseAuthCode(r) /\ UNCHANGED bot

\* Ctrl-C, before signal.Notify and after it; what finds stop full is lost.
Kill ==
  /\ Up /\ ~ Serving
  /\ main' = "exited"
  /\ UNCHANGED <<vars, flags, parts, stop, history>>

Interrupt ==
  /\ Serving
  /\ stop' = 1
  /\ hurried' = (hurried \/ ~ client)
  /\ UNCHANGED <<vars, flags, main, parts, reauthed>>

\* Shutdown receives from stop, and disconnects irc.Client.
TakeStop ==
  /\ main = "serving" /\ stop = 1
  /\ stop' = 0
  /\ main' = CASE ~ irc -> "exited"
               [] irc /\ ~ client -> "panicked"
               [] OTHER -> "ending"
  /\ UNCHANGED <<vars, flags, parts, history>>

\* EndAll, and os.Exit.
Exit ==
  /\ main = "ending"
  /\ main' = "exited"
  /\ UNCHANGED <<vars, flags, parts, stop, history>>

-----------------------------------------------------------------------------
Main == \/ ClientsFail \/ ClientsReady \/ SetupAuthenticated \/ SetupFails
        \/ NoTwitchID \/ IDsFound \/ IDsFail
        \/ NoFAQ \/ AttachFAQ \/ NoMemPalace \/ MemPalaceFails \/ StartMemPalace
        \/ TakeStop \/ Exit
Loop == Authenticate \/ MakeClient \/ ConnectPanics \/ TellMain

BotNext ==
  \/ Main \/ Loop \/ Connect
  \/ (\E r \in Redirects : HandleRedirect(r))
  \/ Outside \/ Kill \/ Interrupt

BotSpec == BotInit /\ [][BotNext]_botVars

\* Goroutines run. Nothing is assumed of Connect, which returns when the IRC
\* server lets it, of the humans, or of Twitch.
FairBotSpec ==
  /\ BotSpec
  /\ WF_botVars(Main) /\ WF_botVars(Loop)
  /\ \A r \in Redirects : WF_botVars(HandleRedirect(r))

-----------------------------------------------------------------------------
(* Every variable has its type, and stop holds one interrupt at most.      *)
BotTypeOK ==
  /\ TypeOK
  /\ flags \in Flags
  /\ main \in {"clients", "setup", "moderation", "faq", "palace", "serving", "ending",
               "exited", "panicked"}
  /\ helix \in [access : Access, ids : BOOLEAN]
  /\ {irc, modConfig, monitored, client, memPalace, reauthed, hurried} \subseteq BOOLEAN
  /\ stop \in 0..1

(* Set-up, the connect loop and Shutdown panic for one of three reasons    *)
(* only (the callback's own panic is ChatPipeline's): AuthTwitch failed at *)
(* start-up; Mem Palace was asked for without moderation, or without the   *)
(* TWITCH_ID that its client needs; or somebody pressed Ctrl-C before      *)
(* there was a client. Whatever else fails, in whatever order, the parts   *)
(* that were set up find what they need: a token, a client of Helix, irc.  *)
NeedsMissing == \/ ~ irc
                \/ flags.palace /\ ~ (flags.moderation /\ flags.twitchID)
                \/ hurried
PanicsAreExplained == main = "panicked" => NeedsMissing

(* A monitor acts through a client of Helix that knows whose chat it is,   *)
(* although a set-up that failed half-way leaves one that does not.        *)
MonitorHasIDs == monitored => helix.ids

(* Moderation and chat live of one token. Nobody tells the client of Helix *)
(* of another: but it is left behind only by an authentication that a      *)
(* refused login asked for, and then with the token that Twitch refuses,   *)
(* not with one that still works beside that of the chat.                  *)
HelixSharesToken ==
  helix # NoHelix => helix.access = tok.access \/ (reauthed /\ helix.access \in revoked)

(* An approval of the page in force, once the handler has it, ends the     *)
(* wait, unless the bot is stopped or a page is denied as well: its empty  *)
(* code may overwrite the one that AuthTwitch has not looked at yet.       *)
Denied == \E r \in Redirects : request[r].at # "none" /\ request[r].code = NoCode
ApprovalEndsWait ==
  \A r \in Redirects :
    (pc = "wait" /\ request[r].at = "check"
       /\ request[r].state = oauthState /\ request[r].code # NoCode)
      ~> (pc # "wait" \/ Denied \/ ~ Up)

(* An error that ends the connect loop, at start-up or later, ends the     *)
(* process: there is no bot that is up and will never be online.           *)
StoppedIsDown == (pc = "stopped") ~> ~ Up

=============================================================================
