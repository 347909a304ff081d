------------------------------ MODULE MemPalace ------------------------------
(***************************************************************************)
(* internal/mempalace: a controller polls Twitch and turns what it sees    *)
(* into session events (lifecycle/controller.go); the goroutine of         *)
(* MemPalace.Start takes them from a bounded channel, opens a SQLite file  *)
(* per stream (store/store.go) and moves it to the archive when the stream *)
(* has ended (archive/archiver.go).                                        *)
(*                                                                         *)
(* Nothing calls Controller.Stop or MemPalace.Stop, and writer.Start is    *)
(* not called either: no message is ever written to a file, so a file is   *)
(* the set of the sessions it was opened for. A session is the number of   *)
(* its start event. A bot that was killed may have left the file of one    *)
(* broadcast, live still or ended meanwhile, for the next to find.         *)
(*                                                                         *)
(* The names of the specification begin with Palace: its proofs are beside *)
(* those of PalaceSession, in one module.                                  *)
(***************************************************************************)
EXTENDS Integers, Sequences

CONSTANTS
  Streams,     \* ids of broadcasts
  Offline,     \* Twitch's answer between two broadcasts
  EventCap,    \* capacity of Controller.events (10 in the code)
  MaxSessions, MaxTime    \* bounds: sessions; minutes

ConstantsOK == /\ Offline \notin Streams
               /\ EventCap \in Nat \ {0}
               /\ MaxSessions \in Nat /\ MaxTime \in Nat

ASSUME MemPalaceAssumption == ConstantsOK

Time == 0..MaxTime
Sessions == 1..MaxSessions
NoStore == 0
Earlier == 0    \* not a session: what an earlier process had of a broadcast

VARIABLES
  live,        \* what Twitch would answer
  past,        \* history: streams that have ended
  returned,    \* history: streams that had ended and were live again
  now,         \* in minutes, the grain of an archive's name
  sameDir,     \* MEMPALACE_DATA_DIR is the archiver's activeDir
  started,     \* Controller.Start has returned
  active, streamID, startedAt, events,   \* the controller's fields
  sessions,    \* history: the stream of each session
  unended,     \* history: sessions whose end event found the channel full
  handler,     \* where the event goroutine is
  event,       \* the event it took last
  store,       \* m.store: its session
  open,        \* sessions whose database handle is open
  prior,       \* history: the broadcast whose file an earlier process left
  made,        \* history: sessions that have had a file
  forgotten,   \* history: sessions whose Init failed with the handle open
  activeFiles, \* per stream: its file in the store's directory, {}: none
  archive      \* per name: the file in archiveDir

twitch == <<live, past, returned, prior>>
controller == <<started, active, streamID, startedAt, events, sessions, unended>>
files == <<activeFiles, archive>>
palaceVars == <<twitch, now, sameDir, controller, handler, event, store, open, made,
                forgotten, files>>

\* GetBroadcasterStreamStatus, when it has an answer: the stream, or none.
StreamStatus == live

Event == [type : {"start", "end"}, stream : Streams, session : 0..MaxSessions]
Name == [minute : Time, stream : Streams]

PalaceInit ==
  /\ live \in Streams \cup {Offline} /\ past = {} /\ returned = {}
  /\ now = 0
  /\ sameDir \in BOOLEAN
  /\ started = FALSE
  /\ active = FALSE /\ streamID = Offline /\ startedAt = 0
  /\ events = <<>> /\ sessions = <<>> /\ unended = {}
  /\ handler = "select"
  /\ event = [type |-> "none", stream |-> Offline, session |-> 0]
  /\ store = NoStore
  /\ open = {} /\ forgotten = {}
  /\ prior \in Streams \cup {Offline}
  /\ made = IF prior = Offline THEN {} ELSE {Earlier}
  /\ activeFiles = [s \in Streams |-> IF s = prior THEN {Earlier} ELSE {}]
  /\ archive = [n \in Name |-> {}]

\* The select with a default: a full channel drops the event.
Full == Len(events) >= EventCap
Emit(e) == events' = IF Full THEN events ELSE Append(events, e)

-----------------------------------------------------------------------------
(* Faulty variants of the operations below, one per bug the properties     *)
(* must tell from the code. No action of PalaceNext uses them.             *)

\* The archive's name is the time alone.
NameOfTime(stream) == [minute |-> startedAt, stream |-> CHOOSE s \in Streams : TRUE]

\* The store is forgotten before it is closed.
ForgetStore ==
  /\ handler = "end"
  /\ store' = NoStore
  /\ handler' = "archive"
  /\ UNCHANGED <<twitch, now, sameDir, controller, event, open, made, forgotten, files>>

\* The end of a session is noticed but not announced.
SilentEnd ==
  /\ started /\ live = Offline /\ active
  /\ active' = FALSE /\ streamID' = Offline
  /\ UNCHANGED <<twitch, now, sameDir, started, startedAt, events, unended, sessions,
                 handler, event, store, open, made, forgotten, files>>

-----------------------------------------------------------------------------
(* Twitch and the clock.                                                   *)

GoLive(s) ==
  /\ live # s
  /\ live' = s
  /\ past' = IF live = Offline THEN past ELSE past \cup {live}
  /\ returned' = returned \cup ({s} \cap past)
  /\ UNCHANGED <<prior, now, sameDir, controller, handler, event, store, open, made,
                 forgotten, files>>

GoOffline ==
  /\ live # Offline
  /\ live' = Offline
  /\ past' = past \cup {live}
  /\ UNCHANGED <<returned, prior, now, sameDir, controller, handler, event, store, open, made,
                 forgotten, files>>

Tick == /\ now < MaxTime
        /\ now' = now + 1
        /\ UNCHANGED <<twitch, sameDir, controller, handler, event, store, open, made,
                       forgotten, files>>

-----------------------------------------------------------------------------
(* The controller. A call to Twitch that fails changes nothing, but that   *)
(* of Start fails MemPalace.Start, and the bot goes on without.            *)

\* checkAndAttachExisting: a stream found live is entered without an event.
Start ==
  /\ ~ started
  /\ started' = TRUE
  /\ IF StreamStatus # Offline
     THEN active' = TRUE /\ streamID' = StreamStatus /\ startedAt' = now
     ELSE UNCHANGED <<active, streamID, startedAt>>
  /\ UNCHANGED <<twitch, now, sameDir, events, sessions, unended, handler, event, store,
                 open, made, forgotten, files>>

\* checkStream, with the stream live. An active controller does not compare
\* the id: one broadcast right after another passes for the first.
StreamStarts ==
  /\ started /\ StreamStatus # Offline /\ ~ active
  /\ Len(sessions) < MaxSessions
  /\ active' = TRUE /\ streamID' = StreamStatus /\ startedAt' = now
  /\ sessions' = Append(sessions, StreamStatus)
  /\ Emit([type |-> "start", stream |-> StreamStatus, session |-> Len(sessions) + 1])
  /\ UNCHANGED <<twitch, now, sameDir, started, unended, handler, event, store, open, made,
                 forgotten, files>>

StreamEnds ==
  /\ started /\ StreamStatus = Offline /\ active
  /\ active' = FALSE /\ streamID' = Offline
  /\ Emit([type |-> "end", stream |-> streamID, session |-> 0])
  /\ unended' = IF Full THEN unended \cup {Len(sessions)} ELSE unended
  /\ UNCHANGED <<twitch, now, sameDir, started, startedAt, sessions, handler, event, store,
                 open, made, forgotten, files>>

-----------------------------------------------------------------------------
(* The event goroutine.                                                    *)

Receive ==
  /\ handler = "select" /\ events # <<>>
  /\ event' = Head(events)
  /\ events' = Tail(events)
  /\ handler' = Head(events).type
  /\ UNCHANGED <<twitch, now, sameDir, started, active, streamID, startedAt, sessions,
                 unended, store, open, made, forgotten, files>>

\* Store.Init opens the stream's file, or makes one; the last store is
\* replaced, not closed.
OpenStore ==
  /\ handler = "start"
  /\ activeFiles' = [activeFiles EXCEPT ![event.stream] = @ \cup {event.session}]
  /\ store' = event.session
  /\ open' = open \cup {event.session}
  /\ made' = made \cup {event.session}
  /\ handler' = "select"
  /\ UNCHANGED <<twitch, now, sameDir, controller, event, forgotten, archive>>

\* Init fails before the database is open, or at a table, with it open: the
\* last store stays, and no session gets a handle to close this one by.
StoreInitFails ==
  /\ handler = "start"
  /\ \/ UNCHANGED <<open, made, forgotten, activeFiles>>
     \/ /\ activeFiles' = [activeFiles EXCEPT ![event.stream] = @ \cup {event.session}]
        /\ open' = open \cup {event.session}
        /\ made' = made \cup {event.session}
        /\ forgotten' = forgotten \cup {event.session}
  /\ handler' = "select"
  /\ UNCHANGED <<twitch, now, sameDir, controller, event, store, archive>>

CloseStore ==
  /\ handler = "end"
  /\ open' = open \ {store}
  /\ store' = NoStore
  /\ handler' = "archive"
  /\ UNCHANGED <<twitch, now, sameDir, controller, event, made, forgotten, files>>

\* GetStartedAt is the controller's field of now, which may already be that of
\* the next stream.
ArchiveName(stream) == [minute |-> startedAt, stream |-> stream]

\* os.Rename replaces a file of that name.
Archive ==
  /\ handler = "archive"
  /\ sameDir /\ activeFiles[event.stream] # {}
  /\ archive' = [archive EXCEPT ![ArchiveName(event.stream)] = activeFiles[event.stream]]
  /\ activeFiles' = [activeFiles EXCEPT ![event.stream] = {}]
  /\ handler' = "select"
  /\ UNCHANGED <<twitch, now, sameDir, controller, event, store, open, made, forgotten>>

\* No such file, or an error of the file system; it is ignored.
ArchiveFails ==
  /\ handler = "archive"
  /\ handler' = "select"
  /\ UNCHANGED <<twitch, now, sameDir, controller, event, store, open, made, forgotten, files>>

-----------------------------------------------------------------------------
Poll == StreamStarts \/ StreamEnds
HandleSessionEvent == \/ Receive \/ OpenStore \/ StoreInitFails \/ CloseStore
                      \/ Archive \/ ArchiveFails

PalaceNext ==
  \/ (\E s \in Streams : GoLive(s)) \/ GoOffline \/ Tick
  \/ Start \/ Poll
  \/ HandleSessionEvent

PalaceSpec == PalaceInit /\ [][PalaceNext]_palaceVars

\* The poller's ticker and the event goroutine keep running.
FairPalaceSpec == PalaceSpec /\ WF_palaceVars(Poll) /\ WF_palaceVars(HandleSessionEvent)

-----------------------------------------------------------------------------
Files == Sessions \cup {Earlier}

(* Every variable has its type, and the events channel its capacity.       *)
PalaceTypeOK ==
  /\ live \in Streams \cup {Offline} /\ past \subseteq Streams /\ returned \subseteq past
  /\ prior \in Streams \cup {Offline}
  /\ now \in Time /\ sameDir \in BOOLEAN
  /\ started \in BOOLEAN /\ active \in BOOLEAN
  /\ streamID \in Streams \cup {Offline} /\ (active <=> streamID # Offline)
  /\ startedAt \in 0..now
  /\ events \in Seq(Event) /\ Len(events) <= EventCap
  /\ sessions \in Seq(Streams) /\ Len(sessions) <= MaxSessions
  /\ unended \subseteq Files /\ forgotten \subseteq made
  /\ handler \in {"select", "start", "end", "archive"}
  /\ handler # "select" => event \in Event
  /\ store \in Sessions \cup {NoStore}
  /\ made \subseteq Files /\ open \subseteq made \cap Sessions
  /\ activeFiles \in [Streams -> SUBSET Files]
  /\ archive \in [Name -> SUBSET Files]

(* The file of a session stays where it was made or is moved to the        *)
(* archive, also under the starting time of the next stream, also when the *)
(* bot was killed in the middle of the broadcast. What os.Rename destroys  *)
(* are earlier files of the same broadcast, and only when Twitch reported  *)
(* it live again after its end.                                            *)
Stream(s) == IF s = Earlier THEN prior ELSE sessions[s]
Kept(s) == s \in activeFiles[Stream(s)] \/ \E n \in Name : s \in archive[n]
Overwritten(s) ==
  \E n \in Name : /\ n.stream = Stream(s) /\ archive[n] # {}
                  /\ \A t \in archive[n] : s < t
SessionsAreKept ==
  \A s \in made : Kept(s) \/ (Stream(s) \in returned /\ Overwritten(s))

(* The store of m.store is open. A handle that is open beside it, and that *)
(* nobody can close any more, is that of a session whose own end event     *)
(* found the channel full, or whose Init failed at a table: no other       *)
(* dropped event and no other failure leaks one, whatever Twitch reports.  *)
LeaksAreExplained ==
  /\ store # NoStore => store \in open
  /\ open \subseteq {store} \cup unended \cup forgotten

(* A session whose stream has ended does not keep its store: the handler   *)
(* closes it, unless its own end event was dropped or the stream is back.  *)
EndedIsClosed ==
  (store # NoStore /\ ~ active) ~> (store = NoStore \/ active \/ store \in unended)

=============================================================================
