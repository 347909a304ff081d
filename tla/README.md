# A verification of iam_pedro

TLA+ specifications of the Twitch bot in `src/`, the TLC configurations that
model-check them on small instances, and TLAPS proofs about them. Every module
names the source it models in its header, every property is preceded by what it
says in words, and `PROJECT.json` maps each definition to its lines.

Contents: [the system](#1-the-system), [the modules](#2-the-modules),
[the runs](#3-the-runs), [divergences](#4-where-code-and-documents-differ),
[the proofs](#5-the-proofs), [what is left out](#6-what-is-not-modelled),
[the plan](#7-plan).

    tlc -config MCMessageBroker.cfg MessageBroker.tla      # a run: see the table in 3
    tlapm KeepAliveProofs.tla                              # a proof

## 1. The system

`cli/twitch` is the bot: one process that reads the chat of one channel over
IRC, answers mentions with a language model, answers frequent questions from a
table, moderates, and keeps the chat of a stream for later questions.
`cli/keepalive` is a second process that watches the first. `cli/faq` fills the
table of frequent questions. `cmd/mempalace-wrapper` is an HTTP front for the
memory service.

Everything in the bot starts from one callback. The IRC library calls
`OnPrivateMessage` for one message at a time (`twitch/connection.go:220`), and the
callback

1. offers the message to the **moderation monitor**'s channel, or skips it;
2. publishes it to the **message broker**, whose goroutine calls every consumer
   (there is one: the FAQ processor);
3. calls `HandleChat`, which forks a second **FAQ** check of the same message, and
   then either indexes the message in the **palace session** or, for a mention,
   runs the **chat pipeline** to its end, inside the callback.

Answers that are ready later (web searches, FAQ answers) go through one bounded
channel, `asyncResponseCh`, to a goroutine that says them. A refused login makes
`main` call **AuthTwitch** and then `ConnectIRC` again, which makes a new IRC client,
monitor, broker and response goroutine, and stops none of the old ones.

### Components, their state and what makes them correct

| component | state | operations | what is hard | what makes it correct |
|---|---|---|---|---|
| message broker `twitch/messagequeue` | consumers, channel, the loop, fanout's goroutines | Subscribe, Publish, Start, fanout | goroutine per consumer and message; full channel; subscribing in between | every consumer sees a gap-free stretch of the accepted messages, one at a time |
| moderation monitor `twitch/moderation` | channel, recent messages, rate limiter, audit table | processMessage, executeAction, checkRateLimit, logAction | several monitors after a reconnect; action and row are two steps; lost answers; an answer that names a tool nobody offered; a burst at the edge of a window | only actions that were offered and are permitted, once per message, each audited under the ID of the user it hit; at most twice the limit within a minute; context is the recent chat |
| FAQ responder `faq`, `twitch/faq_processor.go` | two cooldown columns, response channel | CheckMessage, FindMatchForUser, RecordTriggerWithUser | cooldown read before, written after, a call to the model; failing transactions; two brokers after a reconnect | cooldown where no checks overlap; the two tables agree; a match is answered |
| FAQ sync `faq/sync.go`, `cli/faq` | table of entries, a long transaction | SyncFromConfig | requests and statements that fail half way; a second sync; triggers meanwhile | a configured question keeps its row; a sync without errors leaves the file |
| chat pipeline `twitch/handleMessage.go`, `ai/twitchchat` | shared chat history, response channel | HandleChat, GetContext, InsertMessage, callLLM, ExecuteWebSearch, handleAsyncResponses | the history has no lock; a handler per connection; slow calls and panics inside the IRC callback | the history stays bounded; the question reaches the model; a search that was promised is answered once; the callback returns |
| keep-alive `keepalive` | per service: failures, health, two time stamps | checkAllServices, checkService, checkAuthHealth | parallel checks, one time stamp for two alerts, a restart that forgets everything | alerts tell the state; they are an interval apart; an expired token is reported |
| authorization `twitch/auth.go` | token, state and code of the flow | AuthTwitch, parseAuthCode, tryRefreshToken | HTTP handlers share fields with the waiting flow, without a lock | a flow takes its own code; an approval ends the wait |
| start-up and shutdown `cli/twitch/twitch.go` | the parts that are set up, the channel `stop` | main, SetupTwitchIRCWithModeration, setupModeration, ConnectIRC, Shutdown | each part may fail and main goes on; two goroutines; an interrupt at any time | a nil part is never used but for three known reasons; moderation knows whose chat it is; an error that ends the loop ends the process |
| chat sessions `twitch/palace_session.go`, `session_registry.go` | registry and its lock, per session: buffer, ticker, requests under way; the palace's directory | GetOrCreateSession, IndexMessage, flush, writeAndMine, EndAll | messages are indexed and buffers flushed by several goroutines; a message that arrives while EndAll runs begins a session; requests fail | a message is in one place at a time and stored at most once; none stays behind; the process ends |
| Mem Palace `internal/mempalace` | controller, events, store, files | checkStream, handleSessionEvent, Archive | polls and handler run apart; a full channel drops an event | no session's file is lost, but where a broadcast ends twice; a store that leaks is explained by its own dropped event or failed Init; a store is closed when its stream ends |

`PROJECT.json` lists these and the remaining components with what is left out of
each, and under `hazards` the places where the code is hardest to test, each at its line,
with the properties that watch it.

## 2. The modules

One module per component, composed where they interact. An action is a step no
other goroutine can look into: a section under a lock, a statement of the
database, a channel operation, a request. Variables that only record what has
happened so that a property can speak of it are marked *history*; no guard of
an action of the system depends on one, except through a bound.

| module | models | how state and actions correspond |
|---|---|---|
| `BroadcastLog` | nothing: the promise | one growing log, readers that join and read in step |
| `MessageBroker` | `broker.go` | `msgQueue` is the channel's buffer; `loop` is the goroutine of Start (select, taken, waiting); fanout's goroutines are in `spawned`, then `processing`. `ImplementsLog` is the refinement of `BroadcastLog` |
| `MessageBrokerProofs`, `ModerationMonitorProofs`, `FAQServiceProofs`, `FAQSyncProofs`, `ChatPipelineProofs`, `KeepAliveProofs`, `BotProofs`, `PalaceSessionProofs` | the module each is named after (and `RateLimiter` in `ModerationMonitorProofs`, `TwitchAuth` in `BotProofs`, `MemPalace` in `PalaceSessionProofs`) | the theorems of section 5 |
| `RateLimiter` | `checkRateLimit` | counter, window, and the history of grants |
| `ModerationMonitor` | `monitor.go`, `mod_actions.go`, the Helix requests | `pc[m]` is where processMessage of monitor m is: select, evaluating (the model), acting (Twitch), logging (the insert). `AvailableTools` is what the model is offered; its answer may name any tool. `LimiterIsPrivate` composes it with `RateLimiter` |
| `FAQService` | `service.go`, `matcher.go`, `faq_processor.go` | one `pc` per check, two checks per message (broker and fork); `Candidates` is what the similarity search finds, best first, and `Available` the ranks whose cooldowns have passed; a transaction's NOW() is that of its BEGIN. `via` is the broker of a line: one per connection, each of which hands out its messages in order, one at a time, which is what `BroadcastLog` promises |
| `FAQSync` | `sync.go`, `config.go`, `cli/faq` | per sync: the entries left, `existing`, `processed`, and what its transaction has `written` and `deleted`; `Commit` merges them into `table` |
| `ChatPipeline` | `handleMessage.go`, `llm.go`, `handleAsyncResponses` | `at[0]` is the callback, `at[m]` the search of mention m; before the model come the searches for palace context and the insert of the row, after it cleanMessage, which may panic; each read and write of `chatHistory` is a step; `handling[h]` is what handler h has in hand |
| `KeepAlive` | `keepalive/service.go`, `auth_health.go` | per service: where its check is, and the fields of ServiceState; a round begins when all its checks have ended; `Restart` is an interrupt and a new process |
| `TwitchAuth` | `auth.go`, the connect loop of `main` | `pc` is the goroutine of set-up and connect loop; `request[r]` is a handler of `/oauth/redirect` between its comparison and its write |
| `Bot` | `main` of `cli/twitch`, `SetupTwitchIRCWithModeration`, `setupModeration`, `ConnectIRC`, `Shutdown` | extends `TwitchAuth`: its goroutine authenticates and runs the connect loop, `main` is where the goroutine of main is, `irc`, `modConfig`, `helix`, `client`, `memPalace` are the pointers it leaves nil or not, `flags` the command line |
| `PalaceSession` | `palace_session.go`, `session_registry.go`, the wrapper's handleMine, the end of Shutdown | the registry's lock `mu` and its `entry`; per session `messageBuf`, the directory, and per goroutine the set of messages of the `batch` it has taken and not sent; `main` is Shutdown |
| `MemPalace` | `mempalace.go`, `controller.go`, `store.go`, `archiver.go` | the controller's fields, the `events` channel, where the handler is, open handles and the files |

`MCModerationMonitor`, `MCFAQService`, `MCFAQSync` and `MCBot` give values to the
constants that are sets of records or sequences; the other configurations need none.

Each module has a section of *faulty variants*: operations with a plausible bug
(a dropped guard, a missing reset, steps in the wrong order). No action of the
system uses them; a property is worth keeping only if one of them violates it,
and `PROJECT.json` names which (`mutants`).

What is external and how it is taken: PostgreSQL is READ COMMITTED with row
locks, and a failed statement spoils its transaction; the language model, Ollama,
DuckDuckGo and Discord answer or fail; a Twitch request is refused, carried out,
or carried out with its answer lost; `golang.org/x/oauth2` returns a token
unchanged while that token's own expiry has not passed; the browser may redirect
late, twice, or with a denial; Go's select takes any case that is ready.

## 3. The runs

All passing runs are exhaustive for their bounds.

| run | configuration | states | what it shows |
|---|---|---:|---|
| `broker` | MessageBroker, MCMessageBroker.cfg | 6,976 | in-order, gap-free, one-at-a-time delivery; refinement of `BroadcastLog`; accepted messages are delivered unless the context is cancelled |
| `moderation` | MCModerationMonitor | 994,053 | actions that were offered and are permitted, audit with the ID of who was hit, the LLM's context, twice the limit within a minute and no more, a private limiter per monitor, queues that drain |
| `moderation_doc` | ModerationMonitorDoc.cfg | violation | a timeout hits the author of the message, not the user it names |
| `faq` | MCFAQService | 310,779 | where the cooldown holds; tables that agree; every match is answered or dropped |
| `faq_doc` | FAQServiceDoc.cfg | violation | one message triggers an entry twice within its cooldown |
| `faq_sync` | MCFAQSync | 498,312 | configured rows are kept; a clean sync leaves the file, but for repeated questions |
| `chat` | ChatPipeline, MCChatPipeline.cfg | 75,867 | bounded history, the question in the model's context, the protocol of a search, order of answers, every search is answered, the callback returns |
| `keepalive` | KeepAlive, MCKeepAlive.cfg | 3,046,381 | alerts against state, spacing, reports of expiry, across a restart |
| `bot` | MCBot | 314,753 | codes and flows; an approval ends the wait; what a panic can come from; moderation has the IDs and the token of the chat; an error that ends the loop ends the process |
| `auth_doc` | TwitchAuthDoc.cfg | violation | a refused token from the environment is "refreshed" into itself |
| `mempalace` | MemPalace, MCMemPalace.cfg | 252,564 | files are kept, also those of a bot that was killed; which stores leak; a store is closed at the end |
| `palace` | PalaceSession, MCPalaceSession.cfg | 88,121 | each message once, an open session is whole, buffered messages are settled, an interrupt ends the process |

### Bounds, and why they are enough

- *broker*: two consumers, a queue of two, five messages. The queue fills and
  drops; a consumer subscribes at every stage of another's message. The proofs
  (section 5) are for all values.
- *moderation*: two connections, so an old monitor works beside a new one; three
  messages, so that a channel of one overflows and a history of one turns over;
  one slot per window, a window of one tick and two ticks more to go, so each call is
  the last allowed or the first refused, and a grant at the end of one window meets
  one at the start of the next; three configurations (no whitelist, one that excludes,
  dry run). Four tools: no action, one that needs no request and hits the author, one
  that hits the user it names, and one that is executed nowhere and never offered;
  the other tools take the path of one of these.
- *faq*: two messages, of one connection or of two, a viewer's with two checks or the
  bot's own line that only the broker passes on; two entries, one place in the
  response channel, a cooldown of one tick and two ticks: a trigger, one within and
  one after.
- *faq_sync*: three syncs by two processes, so that two overlap before or after a
  third; two questions; files with both, with one, with one repeated, and an
  invalid one. Eight IDs are more than three syncs can use.
- *chat*: two mentions, so that two searches and a question meet in the history;
  a limit of two, so that each prunes; two connections, one place in the
  channel, one FAQ answer that competes for it.
- *keepalive*: one service with an authorization check, a threshold of two, an
  interval of two ticks, five ticks, one restart at any step. Services share
  nothing but the barrier of a round; two services and four ticks were checked as
  well, without restarts.
- *bot*: two flows and two redirects (either may be a reload or a denial), so that
  a code of an old flow meets the next one; three tokens; three command lines
  (chat with FAQ, everything, and moderation with Mem Palace but no `TWITCH_ID`).
- *mempalace*: two broadcasts, two sessions (a broadcast that comes back within the
  minute, or one after another), the file of a bot that was killed in one of them, an
  event channel of one, and a minute that passes or does not, which is what two
  archive names need to collide. Three sessions and a channel of two (3.1 million
  states) were checked as well.
- *palace*: three messages, batches of two: a batch is filled and one message
  remains; two sessions, the one EndAll ends and one that begins while it does.
  More cannot be: main exits next.

Properties with an exception (`CodeOfThisFlow` with `overlap`, `SessionsAreKept` with
`returned`, `LeaksAreExplained` with `unended` and `forgotten`, `CleanSyncIsFull` with
`alone` and `twice`, `QuestionInContext` with `disturbed`, `CooldownOutsideOverlap`
with `quiet`, `AsyncInOrder` with one connection, `HelixSharesToken` with `reauthed`
and `revoked`, `AlertsAreSpaced` with the first token alert of a process,
`PanicsAreExplained` with `hurried` and the flags) need it: without it, TLC finds a
behaviour of the code that violates them, and the comment above the property says
which. These exceptions are results as much as the properties.

A type invariant is among the properties where a bound of the code is part of it (a
channel's capacity, a limit). Those of `ModerationMonitor`, `KeepAlive`,
`PalaceSession`, `Bot` (`BotTypeOK`), `MemPalace` and `FAQSync` are proved instead.

Deadlock is not checked: all these systems may come to rest, because the bounded
chat, clock or humans have done all they may.

### Fairness, and why the code justifies it

Weak fairness of the goroutines' steps: the Go scheduler runs what can run. That
the calls within them return is an assumption where the code gives no timeout
(the language model, the database) and a fact where it does (Helix: 30 s,
DuckDuckGo: 30 s, memory service: 2 min). Nothing is assumed of people: no chat
message, approval, broadcast or start of a sync need ever happen.

- *broker*: `Loop`, and the goroutines of fanout together. `Stop` is one of `Loop`'s
  cases, so the select may ignore a cancelled context while messages come.
- *chat*: in addition strong fairness of `Send`: the search waits in the queue of
  blocked senders of a Go channel, which is first in, first out, and a receive
  serves it, while FAQ answers (which do not wait) may take every free place in
  between. Weak fairness would leave out that queue.
- *bot*: the goroutine of main, the connect loop and the handlers run. Nothing is
  assumed of `Connect`, which returns when the IRC server lets it, of Twitch's
  refusals or of humans, who need never approve.
- *palace*: strong fairness of `Shutdown`: it asks for the registry's lock, which the
  callback takes and leaves again and again, and Go's mutex hands a lock to a
  waiter after a millisecond.
- *mempalace*: the poller and the handler; the stream may come and go.
- *keepalive* and *faq_sync* have only safety properties.

## 4. Where code and documents differ

Three runs show a behaviour of the code that contradicts what the repository says
(`findings` in `PROJECT.json` quotes the lines): `moderation_doc`, `faq_doc`, `auth_doc`.

Met while modelling, and not a run:

- `actions_per_minute` lets twice its value pass within a minute, at the end of one
  window and the start of the next (`docs/moderation-architecture.md:208`, "Maximum
  total actions per minute"). What holds instead is
  `BurstIsBounded`. The limits per hour of the same document are not enforced at all.
- A failed insert into `mod_actions` is only logged, and calls that the limiter or the
  whitelist refuse have no row (`docs/moderation-architecture.md:260`, "All actions
  logged to database"). `ActsAreAudited` says what remains.
- `ShouldProcessMessage` keeps bots and commands away from one of the two FAQ checks
  only; the broker's consumer does not ask it (`twitch/faq_processor.go:41`).
- `faq/sync.go:43` promises a full sync. A question repeated in the file gets two
  rows, and from then on one of them is neither updated nor deleted.
- `duration_seconds` of a timeout is not checked; zero or less reaches
  `Client.BanUser` as a permanent ban.
- The Helix client keeps the token it was made with; nobody calls `UpdateToken`
  (`HelixSharesToken` says how long the two agree).
- `docs/moderation-architecture.md:101` lists `create_poll` and other tools; the model
  is offered eleven, and these are not among them.
- When `AuthTwitch` fails at start-up, `main` sends itself an interrupt and goes on
  with a nil `irc`: with `-faq`, with Mem Palace, or by the connect loop it may panic
  before the interrupt is taken. `PanicsAreExplained` lists all such ways.
- A line of `RestreamBot` that is too short panics in `cleanMessage`, inside the IRC
  callback, and ends the process.
- `cosineSimilarity` (`internal/mempalace/ontology/loader.go:270`) divides by the
  product of the squared norms, not of the norms; its callers (the detector and the
  query tool) are not reached by the bot.
- `cli/twitch/twitch.go:224` says that Shutdown cancels the context; it calls
  `ctx.Done()`, which cancels nothing, and then `os.Exit`.
- `PollInterval: 30` (`cli/twitch/twitch.go:145`) becomes 30 nanoseconds.
- An archive is named by start time, then stream, where the package comment has them
  the other way round; `MEMPALACE_DATA_DIR` and the archiver's directory are set apart.
- With moderation disabled, Mem Palace is given a nil Helix client.
- `determineRoom` puts unescaped spaces into a URL, so a message of several words
  is always filed by keyword.

## 5. The proofs

Every theorem is for every value of the constants that the module's `ASSUME`
allows: any number of messages, connections, services, sessions, any capacity and
any interval. Every safety property of a passing run, invariant or action property,
has a theorem. What TLC checks on an instance and a theorem states for all of them:

| module | theorem | of the run | property |
|---|---|---|---|
| `MessageBrokerProofs` | `TypeCorrect`, `InOrder`, `Barrier`, `Refinement` | `broker` | `TypeOK`, `DeliveredInOrder`, `OneMessageAtATime`, `ImplementsLog` |
| `ModerationMonitorProofs` | `Bursts`, `Permitted`, `Audited`, `RecentLines`, `Private` | `moderation` | `BurstIsBounded`, `ActsArePermitted`, `ActsAreAudited`, `RecentIsTail`, `LimiterIsPrivate` |
| `FAQServiceProofs` | `TypeCorrect`, `TriggersAreOne`, `CooldownHolds` | `faq` | `TypeOK`, `TriggersAgree`, `CooldownOutsideOverlap` |
| `FAQSyncProofs` | `ConfiguredKept`, `CleanSyncFull` | `faq_sync` | `ConfiguredIsKept`, `CleanSyncIsFull` |
| `ChatPipelineProofs` | `TypeCorrect`, `HistoryIsBounded`, `QuestionIsAsked`, `SearchKeepsProtocol`, `AnswersInOrder` | `chat` | `TypeOK`, `HistoryBound`, `QuestionInContext`, `SearchProtocol`, `AsyncInOrder` |
| `KeepAliveProofs` | `AlertsTellState`, `Spacing`, `ExpiryIsTold` | `keepalive` | `AlertsMatchState`, `AlertsAreSpaced`, `ExpiredIsReported` |
| `BotProofs` | `BotCodeIsOfThisFlow`, `PanicsExplained`, `MonitorsHaveIDs`, `OneToken` | `bot` | `CodeOfThisFlow`, `PanicsAreExplained`, `MonitorHasIDs`, `HelixSharesToken` |
| `PalaceSessionProofs` | `WholeSession`, `MessageOnce` | `palace` | `OpenSessionIsWhole`, `EachMessageOnce` |
| `PalaceSessionProofs` | `LeaksExplained`, `SessionsKept` | `mempalace` | `LeaksAreExplained`, `SessionsAreKept` |

Few of these properties are inductive. The sections below say what each proof has
to add, which is also where the argument for the property is.

### The broker

`MessageBrokerProofs` assumes `SizeAssumption` alone:

- `TypeCorrect`, `InOrder`, `Barrier`, `InLockstep`: `TypeOK`, `DeliveredInOrder`,
  `OneMessageAtATime` and `Lockstep` are invariants of `Spec`;
- `Refinement`: `Spec` implies `ImplementsLog`, that is, `BroadcastLog!Spec` under the
  refinement mapping of `MessageBroker`.

`DeliveredInOrder` is not inductive: it does not say that the message a consumer
is about to be called with is the next one of the log. The inductive invariant
`Inv` adds where everything stands in the log: the queue is its rest
(`QueueIsRestOfLog`), the message in hand is the last one taken from it
(`CurrentIsLastTaken`), the calls under way are all for that message
(`CallsAreOfCurrent`), and every consumer has been called with all that was taken,
except for the message it still owes (`ProgressIsTaken`). There is one lemma per
action that disturbs a conjunct (`InvPublishAccepted`, `InvTake`, `InvSubscribe`,
`InvFanout`, `InvBegin`; `InvOthers` for the rest). The refinement then needs one
lemma per step that moves the log: accept, join, read, and one for those that
stutter. `LogIsIncreasing` is what makes the broker's order of publication the
log's order of acceptance.

### The rate limiter and the moderation monitors

`ModerationMonitorProofs` assumes `BoundAssumption`, and nothing of `Chat`, `Tools`, `Named`,
`Configs` or `Bots`. `ActsArePermitted` and `ActsAreAudited` need to know where each message
stands: it waits in the channel of its monitor in the order of arrival (`Queued`),
or it is in that monitor's hand and all that waits came after it (`InHand`), and what
was done for it lies behind both, but for the action that waits for its row
(`ActsBehind`). That an action is the only one for its message (`ActsOnce`) follows: the
hand holds a message for which nothing has been done (`HandIsFresh`), because what was
done lies before everything that waits. `Moves` sorts the steps into five kinds by
what they do to messages in hand, and each conjunct is proved against these.

- `TypeCorrect`: `TypeOK`, with the bounds of the channels, the history and the counter.
- `RecentLines` (`RecentIsTail`) adds that a message for a monitor either waits in its
  channel or came before all that does (`Settled`). `HeardTaken` then says that a receive
  adds one message to those heard, later than all of them, and `AddLatest`, a fact
  about sequences alone, that `addRecentMessage` keeps the latest.
- `Private` (`LimiterIsPrivate`) needs only that nothing is counted for a monitor that there
  is not yet (`Fresh`): `LimiterMoves` says what a step may do to one limiter.
- `Bursts` (`BurstIsBounded`): `RateInvariant` says of every monitor that its counter is
  the number of grants of the open window, and that no window has more than `Limit`.
  Two grants of one window are less than `Limit` apart in the history, so
  `2 * Limit + 1` grants meet three windows, and a window begins only when more than
  a minute has passed since the last began. The lemmas are about one `RateLimiter`
  (`RateInvGrant`, `RateInvOthers`); `LimiterMoves` carries them to every step of the bot.
  The bound of the bot as a whole is that times the number of its connections.

### The FAQ responder

`FAQServiceProofs`: `TriggersAreOne` is inductive with the types, both tables being written
by one commit. `CooldownHolds` is an action property, and speaks of a trigger that may
lie many steps back, so the invariant `Apart` carries it to the present: the entry's
time stamp has not been moved to before such a trigger, and whoever has the entry in
hand has matched it more than a cooldown after. A transaction that commits late
writes the time of its BEGIN, which moves the stamp backwards, but only to a time
after its own match (`Begun`: a check's time is not in the future, and that of a check
under way only grows).

### The FAQ sync

`FAQSyncProofs` assumes of the constants what `FAQSync` does, and bounds neither the files
nor the syncs that overlap. Both properties are about the step that commits, and what
they need was fixed many steps before:

- `OneQuestion`: an ID stands for one question wherever it is noted, in the table, in an
  open transaction, or in what a sync found when it began. An ID is not given out
  again while anyone may still delete or update the row it once named.
- `OneRow`: two rows with the same question, committed or not, mean that the question is
  in `twice`: repeated in a file, or asked for by two syncs at once. `Shared` carries this
  across the commit of another sync: what is in the table and asked for, but was not
  found, is in `twice`.
- `Progress`: what a sync has processed and what it has left make up its file, what it
  has written is in the file, and what it deletes it found and was not asked for.
- `Alone`: a sync during which no other ran has found every question of the table, and,
  unless something failed, has written a row for each question it has processed.

`ConfiguredKept` follows from `OneQuestion` and `Progress`: a row that disappears was one
that some sync found and did not ask for. `CleanSyncFull` needs `Alone` in addition, for
what is missing in the table, and `OneRow`, for what would be there twice.

### The chat pipeline

`ChatPipelineProofs` has one invariant with a conjunct for each property:

- `Stages`: where callback and searches are, and whose entry each has in hand;
- `Lengths`: the history is at most `Room`, the limit and one for each search that has
  read it to append to it (`Appended`), and one more for each that has stored what it
  read (`Stored`). A goroutine that passed its check has room for one until it appends,
  and what it has in hand fits when it is stored, however long ago it was read. `Room` is
  at most `HistoryBound`, which is why the bound has two entries for each search;
- `Question`: the question ends what the callback stores, then the shared history
  unless a search `disturbed` it, then the messages of the call;
- `Protocol`: the answer of a search is in one place, in the channel, with one handler,
  or said, and its promise was said before;
- `Order`: with one handler, what was sent is what was said, then what the handler has
  in hand, then the channel. `AsyncInOrder` states the order by the number of answers
  said so far (`Nth`), which is what the invariant counts.

### The keep-alive service

`KeepAliveProofs` assumes `KeepAliveAssumption` and proves all three properties of the run
and `TypeCorrect`, for every set of services. It speaks of one service's sequence of
alerts and its fields (`r`, `h`, `a`, ...), so that its lemmas about sequences are free of
the state, and lifts them to steps (`ServiceStep`, `MatchStep`, `QuietStep`).

- `Spacing`: an alert is measured against a time stamp, not against the alerts before
  it, so that alerts are spaced does not follow from itself. The invariant `Inv` adds that
  no stamp is in the future (`StampsArePast`) and that a service's stamps are as late as
  every alert of this life that is measured against them (`StampsAreLatest`): the health
  stamp covers "offline" and "still offline" but not "recovered", the authorization
  stamp covers warnings and reports of expiry together. What an earlier process
  raised is no later than the "offline" that opens the outage in this one
  (`InTime`), so the report that it goes on is an interval from all of them.
- `AlertsTellState`: `AlertsMatchState` is inductive with the types. `AppendOpen` says what one
  more alert does to an outage, and `MatchFail` that the alert a failure raises is the
  one its count calls for.
- `ExpiryIsTold`: the authorization stamp is the time of an alert that is still on
  record, and if that was only a warning it came before the expiry of the token as it
  is now (`StampIsAlert`). A refresh moves the expiry on, which keeps this true
  (`LaterBehind`); so a check that finds the token expired for longer than an interval and
  does not report it would have been stopped by a stamp that only a report can have set.

### Authorization and the bot

`BotProofs`: `CodeIsOfThisFlow` is proved of `TwitchAuth` alone, with the invariant `FlowInv`:
from the moment a flow has reset `authCode`, what is written there, and what a handler
is about to write, answers this flow's page, unless a handler of the flow before was
about to write already (`overlap`). `BotImplementsAuth` shows that `BotSpec` implies
`TwitchAuth`'s `Spec`, each action of the bot being a step of the authorization or one
that leaves it alone, so the theorem holds of the whole bot (`BotCodeIsOfThisFlow`). The
other three properties are inductive together with what each part of the bot has by
the time `main` and the connect loop are where they are (`Parts`): for `PanicsAreExplained`
alone it is not visible that the connect loop comes last, that it starts with a token,
or that an interrupt before there is a client was somebody's Ctrl-C. `OneToken`
(`HelixSharesToken`) needs that only a refused login leads back to `AuthTwitch`, and that
the token it was refused for stays refused (`RefusedByThen`).

### Chat sessions

`PalaceSessionProofs`: `WholeSession` rests on `Frame`, which says for each phase of the
shutdown what the registry, its lock and the directory are: EndAll keeps the lock until
it has removed the directory, so whoever makes a session does it before, and it is
ended, or after, and the directory is made again. `MessageOnce` counts; its invariant
`OnePlace` does not: every message is not yet in a buffer, or in the buffer of its
session, or in one batch, or settled, and no two of these (`PlaceOf`), a buffer holding it
once (`Distinct`). That the number of places is then one is a last step, by the
cardinality of these sets.

### The palace of the streams

The second half of `PalaceSessionProofs` is about `MemPalace`, which shares no state with
the sessions of the chat. Its theorems hold for every set of streams, every number of sessions
and every capacity of the events channel.

- `LeaksExplained`: which stores are open says nothing of the events that will open the
  next. `EndsFollow` does: behind the start event of a session, or the store the handler
  has open, comes its end event, through the channel or still from the controller,
  unless that very event found the channel full (`unended`). So a start that meets an
  open store meets one of these, and nothing else leaks but a store whose Init failed
  with the handle open (`forgotten`).
- `SessionsKept`: an archive loses a file if the name it renames to is taken, and names
  are told apart by stream and minute only. `EndsOnce` says that the end of a stream is
  in the channel, in the handler's hand, or in the name of an archive, and never in two
  of these, so the name is free; unless the stream ended before and is back
  (`returned`). Then `OfOneStream` says that the file in the way is one of the same
  broadcast, and by `InOrder` an earlier one. `Numbered` says that a start event names
  the stream of its own session, so that each file is made for its session.
- `PalaceTypes`: the types of `MemPalace` (`PalaceTypeOK`).

### What is only model-checked

- Every liveness property: `AcceptedIsDelivered`, `QueuesDrain`, `MatchedIsAnswered`,
  `SearchIsAnswered`, `CallbackReturns`, `ApprovalEndsWait`, `StoppedIsDown`, `EndedIsClosed`,
  `BufferedIsSettled`, `InterruptEnds`. They need fairness and ENABLED, for which the prover
  has no rules here.
- The refinements of the bot's parts by each other beyond `BotImplementsAuth` and
  `LimiterIsPrivate`: a module takes from its neighbours what its header says.

## 6. What is not modelled

- *Memory-level races.* A slice header of `chatHistory` that is read while it is
  written (`ChatPipeline` takes each read and write as whole), and the data race on
  `irc.tok` between the connect loop and the health endpoint.
- *Texts.* Prompts, cleaning of answers, keywords, the similarity search (its result
  is a list of entries in order), the parameters of the moderation tools.
- *Delivery by others.* Whether Discord delivers an alert and in which order; what
  the IRC library does with a line said to a client that is not connected.
- *Code nothing calls*: `Controller.Stop` (which would wait for a goroutine that
  needs its lock), the Mem Palace writer, classifier, detector and query tool,
  `RegenerateAllEmbeddings`, `CleanupOldCooldowns`, `UpdateThreshold`,
  `ProcessMessageAsync`, `EndSession`, most endpoints of the Helix client.
- *The broker's context.* `Cancel` is the contract of `Start`; the bot itself never
  cancels.
- *What the palace stores*: the rooms of a batch, and what a search for context finds;
  `ChatPipeline` has that the search takes place, and when.
- *A third session*: none can begin, the process exits first.
- *Delivery of the authorization URL* by Discord: it arrives or does not.
- *Pure I/O*: metrics, logging, the DuckDuckGo client's HTTP, YAML, the values of the
  flags that select no part.

## 7. Plan

The order followed the message: broker and its abstract log first, with proofs,
then the consumers of a message by what depends on them (moderation, FAQ, chat),
then what keeps the bot alive (keep-alive, authorization), then memory (sessions,
Mem Palace), then the tool that fills the FAQ table. Next:

1. *Model*: what is left is small or is not reached by the program (section 6);
   durations and bans of the Helix client would be the next to add.
2. *Abstract specifications*: the response channel (each answer said at most once,
   in order of sending for one connection), implemented by `ChatPipeline`; a cooldown
   as one atomic check-and-set, implemented by `FAQService` where checks do not
   overlap; the FAQ table as a set of entries replaced at once, implemented by
   `FAQSync` for a clean sync.
3. *Prove*: no safety property of a run is left. The theorems to add are those of the
   abstract specifications of 2, in the way of `Refinement`.
