# Verification of laffybot

TLA+ specifications of laffybot, a single-user agent service (FastAPI + asyncio +
SQLite) with a web client: what each component does, written action by action from
the Python code, checked with TLC on small instances and, for the properties that
carry the others, proved with TLAPS for every value of the constants.

All paths are relative to the repository; `SessionManager!Claim` names the definition
`Claim` of module `SessionManager`. The source lines of every definition are in
`PROJECT.json` under `map`.

## 1. The system

The service is one Python process with one asyncio event loop. HTTP handlers, the
watchdog and background tasks are coroutines of that loop; the database is one SQLite
connection served by one thread.

    web client --POST /messages--> api/routes --> SseAdapter --> SessionManager.send_message
        ^                             |  ring buffer                 |  lock, row, token
        |                             |                              v
        +--GET /events-- EventBus <---+            AgentRunner.run_stream --events--> (back up)
                            ^                         |              |
                            |               model call (task)   ToolRegistry --> file tools, exec,
              background tasks: titles,               |                          skill_view,
              compression, memories         OpenAI-compatible provider           MCP servers
                            |
                 stores on one connection (sessions, messages, memories, configuration)

| Component | State it keeps | Operations | What is hard about it | What makes it correct |
|---|---|---|---|---|
| Session lock (`service/local_lock_port.py`) | lock object and key per session | `try_lock`, `unlock`, `force_unlock` | objects are abandoned while coroutines queue; timeout races with wake-up | nobody stays queued; a remembered object is held by somebody alive |
| Session manager (`service/session_manager.py`) | row in `sessions`, `messages`, `_active_tokens`, locals of every `send_message` | `send_message`, watchdog, cancel, delete, archive, unarchive; configuration | any exit at any await; clean-up of one request meets another; restarts; disconnects | a busy row has an owner who will reset it; nothing remembered outlives its request; conversations are well formed; every request ends |
| Stores (`db/*.py`) | rows and counters on one shared connection | create, status, archive, delete, save, replace, settings | statements of several coroutines in one transaction; failing and cancelled statements | what was acknowledged is on disk; no transaction is left behind; counters agree |
| Agent runner (`agent_runtime/runner.py`) | loop position, event queue, background model call | `run_stream` | queue timeout against late answer, cancellation between a check and its use, a consumer that leaves | the order of events; cancelled runs wind down; calls do not mix; every run ends |
| Model provider (`agent_runtime/providers/openai.py`) | chunks of the call under way | stream, assemble, sanitize | pieces of calls mixed, without number or id; streams that end early | the calls are those meant; each call of the turn is answered in the history sent |
| Tools (`agent_runtime/tools/*`) | registry with cached definitions; read state per tool; processes | register, disable, define, execute; read, write, edit; exec | cache invalidation; a file changed between two looks; kill and cancellation | the cache is what it caches; "unchanged" is true; an edit is local; no process outlives its call |
| MCP servers (`agent_runtime/tools/mcp/*`) | clients by name, start tasks, transports, pending requests | start, call, disconnect, hot swap, disable | disconnect callbacks act by name after a swap; late answers | a tool leads to a ready server; what is replaced is closed; an answer goes to its request |
| Event streams (`api/sse_adapter.py`, `service/ring_buffer.py`, `eventbus/bus.py`) | frame numbers, replay buffer, subscriber queues | stream, replay, ping, publish, shut down | buffers shared by responses; the wait for a ping cancels what it waits for | numbers increase; nothing is lost or leaked; streams end |
| Background tasks (`service/async_events.py`, `service/context`, `memory`) | running tasks, memories | titles, compression, extraction, consolidation, automatic archiving | each decides on data read before a model call | no late title; nothing said is forgotten; each memory is merged once |
| Configuration (`db/provider_store.py`, `app_setting_store.py`) | providers, models, choices | create, delete, choose, use | several look-ups, statement by statement, between the changes of others | what is chosen was offered |
| Skills (`agent_runtime/skills`) | enabled set and directory, both cached | switch, list, view, set directory | caches filled after an await | switches are not lost; the cache agrees with the setting |
| Web client (`ui/src`) | chat store, abort controllers | submit, cancel | its "over" is earlier than the server's | one stream per session |

What is hard to test in this code is listed with its lines under `hazards` in
`PROJECT.json`, each with the properties that are about it.

## 2. The modules

| Modules | Model | Extend |
|---|---|---|
| `SessionLock` | `LocalSessionLockPort` over `asyncio.Lock`, one session | |
| `RunnerEvents` | the vocabulary of runner events: which may follow which | |
| `SessionManager` | `send_message` step by step, watchdog, administrative calls, disconnects, restarts | `SessionLock`, `RunnerEvents` |
| `SessionClients`, `SessionClaims` | the same service with clients that wait or behave like the web client; statements of the documents about it | `SessionManager` |
| `RunnerProtocol` | abstract: what `run_stream` promises its consumer | `RunnerEvents` |
| `AgentRunner`, `RunnerProperties` | `run_stream` and its background call; its properties, `Refines` among them | `RunnerEvents`, instance of `RunnerProtocol` |
| `OpenAIProvider`, `ToolRegistry`, `ShellTool` | one streamed call of the model; the registry; the exec tool | |
| `ModelTurn` | a turn by its data: what is sent, answered and executed | the three above |
| `FileState`, `EditText`, `FileTools` | the tracker of reads; finding and replacing text; the calls of the file tools | in this order |
| `McpServers` | the manager of servers, with generations of managers in a hot swap | |
| `McpClient` | requests of several callers over each transport | |
| `SharedConnection` | the stores statement by statement on the one connection | |
| `Conversation` | sessions and messages as the background tasks meet them | |
| `TitleTask`, `CompressionTask`, `MemoryTasks`, `BackgroundTasks` | the tasks, and all of them with the requests and the user | `Conversation` |
| `RingBuffer`, `EventBus`, `EventStreams` | replay buffer; subscriber queues; the streams that use them | |
| `StatementLine` | requests that take turns on the connection, first come first served | |
| `ProviderSettings`, `SkillSettings`, `Configuration` | look-ups and changes of the configuration; of skills; both | `StatementLine` |
| `SessionManagerProofs` | theorems of `SessionManager` and `SessionClients` | `SessionClients`, `TLAPS` |
| `RunnerProofs` | theorems of `AgentRunner` | `RunnerProperties`, `TLAPS` |
| `McpProofs` | theorems of `McpServers` and `McpClient` | both, `TLAPS` |
| other `*Proofs` | theorems of the module of that name | it, `TLAPS` |
| `MC*` | instances for TLC | |

How they compose. `SessionManager` treats the runner as *any* stream that
`RunnerEvents!RunnerSteps` and `MayRaise` allow; `AgentRunner` is shown to produce only
such streams (`RunnerImplementsProtocol`), so what is shown of the session manager holds
with the real runner below it. `ModelTurn` puts provider, registry and exec tool into the
runner's loop, seen by data instead of by events. `BackgroundTasks` takes the operations
of the store as atomic and `SharedConnection` looks inside them: `AcknowledgedIsStored`
and `CountsRight` say under which conditions they may be taken so. `McpServers` knows of a
call only that it ends or is lost, which is what `McpClient` shows (`UntimedCallsEnd`).

### Atomicity

A coroutine runs undisturbed from one suspension to the next, so an action is "resume,
run to the next suspension". A store call is queued to the database thread when it is
made and that queue is first in first out: its effect belongs to the step that makes the
call, what the coroutine concludes from the answer to the next step.
`Configuration` makes the queue itself a variable (`line`), because there the order of the
statements of several requests is the question; a query takes three turns, as the cursor
is opened, read and closed. `SharedConnection` lets statements of different coroutines
interleave freely, which is more than the queue allows.

### Correspondence with the code

`SessionManager`. One session: every dictionary of the service is indexed by session id.
`exists, status, reqId, archived` are the row; `history` the messages in saving order;
`activeToken` the entry of `_active_tokens`; `cancelled` the requests whose token is
cancelled; `pc[r]` where `send_message` of r is suspended; `runner[r]`, `event[r]` the
runner's state and the event handed over; `chunks` the requests whose accumulator holds
text; `unsendable` those whose context the provider refuses; `watchdog`, `admin`, `target`
the two-step calls in progress; `crashes` counts restarts. `send_message` is `Send`,
`Admit`/`LockAcquired`/`LockTimeout` (`try_lock`), `Claim` (idle to busy), `Prepare`,
`RunnerEvent`/`RunFails`/`RunLost`, `DeadlinePasses`, `DeliverEvent`,
`DeliverDone`/`Finish`, `Unlock`, `Report` and, from every way out, `Finally` followed by
`Reset` or `Interrupt`. `StreamClosed` is a disconnect at any suspension.

`AgentRunner`. `pc` is the suspension point; `"wait"` is the inner loop around
`event_queue.get()`. `call` is the background task, `queue` the one `event_queue`, each
item tagged with the iteration whose call put it (the tag is not in the code; it lets a
property say whose stream an item belongs to). `QueueTimeout` and `KillCall` are the two
halves of the 120 s timeout, `Drop` a consumer that stops.

`ModelTurn`. `messages` is the list the runner collects, from a stored history on
(`Histories`, any sequence of messages with a question last, calls of earlier turns
included); `sent` what the provider made of
it and of the definitions for the endpoint, `todo` the calls left. Identifiers are pairs
of where they came from and their value: an endpoint's own becomes a digest, a missing one
a short one made up per call. `OpenAIProvider!plan` is what the endpoint is about to say,
sent in pieces in any mixture, with or without numbers and ids, and cut off anywhere;
`parsed` is what `_parse_chunks` makes of the pieces so far, kept instead of the chunks.
`ShellTool` tells bash (`process`) from what it started (`children`).

`FileTools`. One file; a call is split at its file operations because other programs change the
file between them. `tracker` has one entry per tool, as the code makes one `FileState` each,
whichever session calls; `latest[o]` is a history of what the tool read at its last full look at
the range `o`, `shown[s][o]` of what it showed to session s. Texts are sequences of a few tokens
(two words, a blank, two kinds of line end, two kinds of quotes), which is what the ways of
matching in `_find_matches` tell apart. Modification times are numbers that may repeat.

`McpServers`. `hot_swap` builds a second manager and takes over its dictionaries, so state is
kept by generation and `cur` says whose dictionaries the kept manager holds; callbacks and
wrapped tools refer to the manager that made them. Starts are `Connected`, `ToolsListed`,
`ServerReady`, `StartFails`, `StartCloses`; `PeerDies` runs the disconnect callback. Disabling a
server writes its row, then `SwapStops` takes its tools out and asks for the configurations, and
`SwapReads` goes on with the answer and begins the new manager; another request may come between
any two of these. `Wired` says whether the session manager was given the manager: the
application does not do so (`api/app.py:106`), which leaves the switches of section 5 without
effect; the run takes the wired case, where there is more to go wrong.

`McpClient`. `holder` and `queue` are the lock of `send_request`; `inbox` what the
transport has and no receive has looked at, `pending` what the server was asked. Of what a server
may send unasked there are notifications, requests of its own (with any number that was given
to a call), noise and lines that cannot be read. The three
transports differ in where answers arrive and what an end looks like.

`SharedConnection`. `work` is the database the connection sees, `disk` the committed one;
`unsaved` are the operations with statements in the open transaction. Seven kinds of
operations stand for all writes: a save in its transaction, a single update, a setting, an
insert that may be refused, the save of a memory, the deletion of a session, the
replacement of a region.

`BackgroundTasks`. The tasks of `AsyncEventProcessor`, each a few steps between awaits.
`Conversation!Messages` carry what they cover, so that a summary's loss would show.
`titling` holds the title tasks and the user's renames, which read the session in one step and
write it by the same optimistic update in another. `Starts` are the ways to begin: how many
identifiers, which all sessions share, others took before, and which features are configured.

`EventStreams`. `client[c]` is a connection; the heartbeat's `wait_for` makes `Pings` of a
response its last frame, as the cancelled generator ends with the next step.

`ProviderSettings`, `SkillSettings`. `Steps` lists the statements of each request; the four
choices (default, summary, extraction, consolidation) are stored alike and one stands for
them. `since[r]` remembers whether the pair asked for has been a model since r came.
`SkillSettings` has the two caches (`cache`, `loader`) beside the settings they copy.

## 3. What is checked

| Run | Question | Instance |
|---|---|---|
| `session_concurrent` | Requests at any time, all administrative calls, disconnects, a restart: is a session's state sound? | 2 requests, 4 calls, 1 restart, requests symmetric; 1.3 M states |
| `session_fair` | Does every request end, is every busy session freed? | 2 requests, no administrative calls, no restart; 111 k states |
| `session_serial` | What does the service owe clients that wait for their turn? | 3 requests in turn, cancel, 1 restart; 55 k states |
| `agent_runner` | Is a run's event stream the promised one, does it wind down and end? | 4 iterations, threshold 3, 2 tools per answer, 3 queued items; 32 k states |
| `model_turn` | Does what is said, executed and sent back belong together? | 2 model calls, 2 pieces per call, tools exec and one of a server, 2 commands (one denied), 2 rounds, 4 histories to begin with; 336 k states |
| `file_tools` | Is an edit local, is "unchanged" true? | 2 sessions on the same tools, 3 calls of which 1 edits, 1 change from outside, 5 texts × 6 old × 3 new ones, 2 ranges, times that repeat; 1.4 M states |
| `mcp_servers` | Do tools, clients and transports agree through deaths, switches, edits and a hot swap? | a process that lists resources and an SSE server, the prefix of the first also that of the second, either one enabled at first, 1 swap, 1 call; 139 k states |
| `mcp_client` | Does every call get its own answer or an end? | 3 calls (2 with a limit), 2 messages nobody asked for (notifications, requests of the server, noise, unreadable lines), all three transports; 682 k states |
| `shared_connection` | What do the stores keep of what they acknowledge? | 3 operations of 7 kinds, 2 sessions, a kill, failures and cancellations anywhere |
| `background_tasks` | Are titles, summaries and memories right although each is decided on data read earlier? | 1 session, 2 tasks and renames at a time, 5 messages said, ids up to 9, contexts of 4, identifiers shifted by 0 or 1; 1.6 M states |
| `event_streams` | Numbers, replay, pings, subscribers, shutdown | 2 responses, 1 subscriber, replay buffer of 3, 3 events each, 2 published |
| `configuration` | Overlapping requests about models and skills: is what is chosen what was offered, is a switch kept? | 3 requests, 2 providers, 2 skills, 2 directories, restarts; 1.3 M states |

### What the properties say

* Session manager: `BusyHasOwner` - a busy row names a request that still has its cleanup ahead
  of it, or was killed before the cleanup's write; `BusyIsCleared` - busy does not last.
  `IdleNamesNobody` - the row never reports a stale id. `NothingLeaks` - token, lock object and
  key belong to requests before their `finally`. `QueuedOnce` - a coroutine is queued on one
  lock object exactly while it is suspended there. `HistoryWellFormed` - one question and at
  most one answer per request, no answer without its question. `RequestsEnd`. `Protected`,
  `NeverQueues`, `ConversationInTurns` - what clients that wait their turn get.
* Runner: `StreamsApart` - the shared queue never mixes two calls unless it timed out. `Refines`
  - the stream obeys `RunnerProtocol`. `CancelIsFinal`, `RunEnds`.
* Model turn: `CallsAssembled` - the calls of an answer are those the endpoint meant, from any
  mixture of their pieces (those with an index or an id). `PairsKept` - in what the endpoint is
  sent, each call of the turn has one result behind it, and each result a call before it; of the
  calls of stored answers this is not true (section 5). `ProcessGone`, `CacheFresh`.
* File tools: `EditIsSplice` - what is written is what was read with the new text at every match
  and all else byte for byte, whichever way of matching found it. It is stated without the
  matchers: `EditText!IsSplice` cuts both texts into pieces and asks what may stand for the old
  text and what for the new. A file with any CRLF gets CRLF at every line end first, which the
  property says and section 5 contrasts with what one would expect; edits of which one match
  reaches into the next are excepted. `UnchangedIsShown` - "unchanged" is said only of the text
  that the *tool* showed at its last full look, to whichever session; what a session may
  conclude from it is in section 5, and so are the two cases excepted: a last look that failed,
  and a write between the reading and the recording of one.
* MCP: `ToolsHaveServer` - a registered tool leads to a ready server. `ReplacedAreClosed`.
  `SwapEndsUnlessStuck`. `AnswerIsOwn` - a call returns no other call's answer, also while the
  server sends requests of its own; that one of these may be taken for an answer is
  `NeverAmbiguous` in section 5. `UntimedCallsEnd` - the lock is never kept by who timed out.
* Stores: `AcknowledgedIsStored`, `ConnectionFreed`, `CountsRight`; each names the operation of
  another that breaks it, and is true of all else.
* Background tasks: `NothingIsForgotten` - what was said is in the history or covered by a
  summary. `TailKept` - the latest pairs of a context are spared by a compression asked for
  then. `MergedOnce`. `TitleSpacing` - among tasks and renames that overlap, a task writes a
  title only for the user messages there are at that moment, a first title replaces none, and a
  later one replaces only a title that is due or was given at the same number; that the last
  case happens, and that a user's title is replaced, is in section 5.
* Streams: `NumbersIncrease` - a client is sent no number twice nor one below another, if the
  frames kept from the one it names on are of one response. `BufferHasStream`, `GlobalComplete`,
  `StreamsEnd`.
* Configuration: `ChosenWasOffered`, `SkillsAsSwitched`, `LoaderAgrees`.

Every one has a mutant in `PROJECT.json`: a plausible mistake, written as an operator
before the definition it replaces, under which TLC finds the property violated.

### Bounds, and why they are enough

* Two requests give every pair of positions in `send_message`, with a cleanup of one in
  any step of the other; three where a third party matters. The theorems cover any set.
  After a restart only row and messages are left, so a second one starts from the same
  shape.
* `EmptyThreshold` is the code's 3; four iterations leave room around it; two tools tell
  "next" from "last", three queued items first, middle and last.
* Two model calls show one history with results and the next with more; two pieces per
  call are the least that can be mixed and cut off between.
* The five texts and six old ones of `MCFileTools` were chosen so that each way of matching is
  the first to find something, with several matches on a line, on several lines and touching,
  line ends of both kinds in one file, a blank old text that is found by trimming, and a
  deletion before a line end. Three calls are the least in which two sessions look at different
  texts and one of them looks again; one of them may be an edit.
* One swap has two generations, so that a start, a callback and a call of the old one meet
  the new one; a second swap meets the same pair again. Two names: one kept, one edited.
* Three calls of a client: one that gave up, one that waits, one behind it. Three
  operations on the connection: one that fails, one inside whose transaction it does, and
  a bystander.
* Two tasks of one type are what a lost race takes; the thresholds (title every 2nd
  message, 1 kept pair, 1 memory to merge) are the least, so that five messages pass them
  twice and the context's limit (the code's 50 messages, here 4) once. One identifier taken
  before makes identifiers differ from positions. Compressions, with titles of the model,
  and memories, with titles cut from the first message, are run apart (two and one of the
  three `Starts`): they share no data but the history.
* A buffer of 3 with two responses of 3 events overflows; two responses share one numbering.
  A frame of a third one, which `NumbersIncrease` excepts, needs three responses: TLC found the
  property true of three with one event each as well, and the theorem is of any number.
* Three requests of configuration: one between the look-up and the write of another, and
  one after both.

`CHECK_DEADLOCK FALSE` stands in every configuration: a service whose requests are over,
or that has been shut down, rightly stops, and the bounds stop the rest. That nothing
stops too early is what the liveness properties are for.

### Fairness

`SessionManager!Fairness`: each request's own step is weakly fair (the loop schedules ready
coroutines; a client reads or disappears; the wait for the lock is bounded by 30 s); the
end of the runner's stream is strongly fair because `AgentRunner` ends (`RunEnds`) and every
event it yields is taken; the watchdog wakes every minute. Nothing is assumed of clients,
administrative calls or disconnects. `session_fair` has no restart: one during a turn
leaves the same row as an interrupted cleanup, which the run has.

`AgentRunner!Fairness`: `run_stream` goes on when it can (a tool is bounded by
`tool_timeout_s`); the provider's limits (120 s per request, 90 s between chunks, no
retries) bound a call. Chunks, cancellation and timeouts need none.

`McpServers!ServersFairness`: starts and the steps of a swap, each of which a transport ends by an
answer, an end or its connect limit; not the SSE handshake, which waits for a task that
waits for it (`"stuck"`). `McpClient!Fairness`: a call's own steps, the expiry of its limit
and a server that answers what it was asked; `UntimedCallsEnd` needs the last one, since
`read_resource` has no limit. `EventStreams!FairSpec`: each stream
goes on once it has something to send, a silence is ended by the ping interval, and a
response ends as its request does.

## 4. What is proved

With TLAPS, for every value of the constants. Assumptions are the named `ASSUME`s of the
modules: a value that is not a request, call or manager; counters and limits that are
natural numbers, finite sets of operations; that a title's distance is a number
(`TitleAssumption`) and a kept pair positive (`PairsAssumption`); that an endpoint makes
finitely many calls (`ProviderAssumption`); that a turn begins with a sequence of messages
the last of which is a question (`HistoriesAssumption`). Two theorems state one more
themselves, named below: `TurnIsProtected` and `TailStaysAlone`; `TailStays` is of the runs in
which no summary is put in another session's place.

Every module has its invariant as a conjunction of named parts, one lemma per action or
group of actions, and the theorem from these by temporal logic. What each invariant adds
to the property, and why it must:

`SessionManagerProofs`

* `TypeCorrect` - `[]TypeOK`; the lemmas on the lock show that queues stay sequences of
  requests when a waiter leaves from the middle.
* `BusyAlwaysOwned` - not inductive by itself: a step of a request whose row was deleted
  would have to be excluded, hence `GoneIsIdle`. `OwnerInv` is the conjunction; its heart is
  that whoever finds `Busy` in its `finally` goes on to `Reset`, and only a write to the row
  ends ownership.
* `IdleNeverNames` - from `TypeOK`.
* `NothingOutlives` - in two halves: `RemembersActive` (every `Finally` drops all three
  entries) and `FoundIsHeld` (the object in the dictionary is released only together with
  its removal).
* `NobodyStaysQueued` - `[]QueuedOnce`. `QueueInv` speaks of all queues at once: nobody is
  in two of them or twice in one, and whoever is suspended in `try_lock` is in one. Abandoned
  objects keep their queues, so that nothing may be said of the current object alone.
* `ConversationWellFormed` - `[]HistoryWellFormed`. `SavedByPlace` tells from where a request
  is suspended which of its messages may be stored, and `RunnerFollows` which events the
  runner may still send; without the latter a second done event would save a second answer.
* `WaitersNeverQueue`, `TurnIsProtected`, `AnswersFollowQuestions` - of `SerialSpec`, whose
  clients wait for their turn. `TurnInv`: at most one request is live, and one that is about
  to ask for the lock does not find an earlier request's. `ProtectedInv` says for each
  suspension point what is kept for the request. It needs that the session is not deleted
  (`"delete" \notin AdminOps`), as `delete_session` checks the status a step before it
  deletes. `ConversationInv`: while a run is on, its question is the last message.

`RunnerProofs`

* `RunTypeCorrect`, with `ClosedIsOver` and `EmptiesBelow` (the loop never goes on at the
  threshold).
* `StreamsNeverMix` - inductive given `TypeOK`: `None` is put exactly when the call is over,
  and the inner loop is left exactly at `None`.
* `CancelHolds` - "cancelled and at rest" is preserved by every step, because each way to
  begin work checks the token after its last suspension.
* `RunnerImplementsProtocol` - `Spec => Refines`; the mapping reads the protocol's state off
  `pc`, and "lost" off the last event.

`SharedConnectionProofs`

* `ConnectionTypeCorrect` - types, and that outside a transaction the connection sees what
  is on disk and nobody has statements waiting.
* `AcknowledgedStays` - `[]AcknowledgedIsStored`. The strengthening `AckInv` speaks of the
  database the connection sees, and of operations whose statement was run and not yet
  acknowledged: what they wrote is there for the connection, and on disk unless the open
  transaction holds it; whoever commits, commits these too, whoever rolls back marks them
  as undone.
* `ConnectionIsFreed` - from `OpenIsHeld`: an open transaction belongs to an operation under
  way that will end it, or something was cancelled or refused.
* `CountsStayRight` - `[]CountsRight`. `CountInv` holds at every moment, the property only
  when nothing is under way: in what the connection sees the count lacks the saves between
  their INSERT and their UPDATE, on disk also those whose UPDATE is in the open transaction.
  The COMMIT of anybody turns the second set into the first.

`EventStreamsProofs`

* `StreamTypes`, `BufferIsReleased` - `[]BufferHasStream`, from `StreamInv`: only responses
  stream into a buffer, a connection has one place, and leaving it drops the buffer.
* `SubscribersMissNothing` - `[]GlobalComplete`; `Subscription` adds that nobody who has left
  has a queue, and that nobody came after what was published.
* `NumbersGoUp` - `[]NumbersIncrease`. The numbers a client has seen, and those it is about to
  be sent again, increase up to the index of its response; the buffer holds what a response
  sent in that order and nothing it has not sent. The attempt showed that the property had
  been false of three responses: a client may resume after two that were open at once, and
  meets numbers of both. `OneSource` excepts it.

`McpProofs`

* `ToolsLeadToServers` - `[]ToolsHaveServer`. The property speaks of the manager a wrapper looks
  in, and a swap changes that for all wrappers of the first manager at once. `GensInv`: a swap
  that has not begun has no clients, and whatever was replaced was installed. `StartInv` follows
  one server through its start; its heart is that one whose start is over has no tool of the
  *first* manager left when its swap is installed: a start that succeeded took the tool over,
  and the clean-up of one that failed removed it, which it does only because the status was set
  to failed before. `CallsInv`: the start of a call's client is over, so that the loss of a
  server under a call never meets a start. Of all steps but the reading of the configurations,
  which begins the new manager, and the installing of a swap the proof uses only what they have
  in common (`Moves`): each variable's changes server by server.
* `ReplacedTransportsClose` - `[]ReplacedAreClosed`, from the same invariant; `ClosedInv`: what
  is not left to be closed is closed. A start that goes on after its manager was replaced would
  open a transport again; `OvertakenInv` says that only overtaken servers have one.
* `AnswersAreOwn` - `[]AnswerIsOwn`, whatever the server sends, requests of its own included.
  `ClientInv`: numbers are never given twice, and an answer with a number, asked for or arrived,
  belongs to the call that got that number. The answers nobody waits for need no clause of their
  own: they keep an old number.

`ConfigurationProofs`

* `ChoicesWereOffered` - `[]ChosenWasOffered`. Of a request it is not enough to know what it
  chose: it may have read the provider and not yet the model. `ConfigurationInv` adds that
  `since` holds from the moment the pair was seen (`Noted`), and the lemmas follow a request
  through its statements (`Onward`), the tables through those of others (`TableChanges`) and
  the pair into its place (`PairTaken`).
* `LoaderReadsWhatIsSet` - `[]LoaderAgrees`. `LineInv`: the line holds each request at most
  once. `LoaderInv`: the loader may have another directory than the one set, and several
  requests may be about to give it an old one, but each of these is followed in the line by one
  that read the directory that is set.
* `SwitchesAreKept` - `[]SkillsAsSwitched`. `SwitchInv`: unless two requests filled the cache
  at once, the cache is the list as switched last, and a list handed in to be stored is that
  list or is followed by it (`Overtaken`).

`ModelTurnProofs`

* `ProcessesEnd` - `[]ProcessGone`, from `ShellInv`: a process runs only for a call that
  waits for it.
* `DefinitionsFresh` - `[]CacheFresh`, inductive by itself over every change of the registry.
* `CallsAreAssembled` - `[]CallsAssembled`. `CallsInv`: calls begin in order, the list so far is
  numbered without gaps, and each call in it is the part of the meant one that was sent. The
  lemmas follow one piece through the buffer of its call (`PutIn`).
* `HistoryIsPaired` - `[]PairsKept`. `TurnInv` is about `messages` and `todo` together: the
  calls not executed yet are the last of the history's last answer, in order, and every other
  call of the turn is answered right behind it. Sanitizing then maps calls and results alike.
  The attempt showed that the model had been too kind: it began every turn with a single
  question. With stored answers that carry calls the property is true of the turn only
  (`StoredPairsKept` in section 5).

`BackgroundTasksProofs`

* `TitlesAreSpaced` - `TitleSpacing`, an action property, with any number of tasks and renames.
  `Due`: if the session has as many user messages as when a task read it, the title that is
  there now is due for another, or was given, by a task or by the user, at just this number;
  a task that read it at another number is refused by the optimistic lock. A rename writes at
  any number, which is why the second case cannot be left out.
* `NothingSaidIsLost` - `[]NothingIsForgotten`. `ForgetInv`: identifiers are given in order and
  once, so that a compression, which deletes by identifiers, deletes only messages that it
  has read, however many were saved, compressed or deleted since.
* `NewestStay` - `[]RegionSparesNewest`, of any number of sessions: the `2 * Pairs` messages of a
  context that were saved last have identifiers above the region, a range of positions taken for
  identifiers. Identifiers are given once and in order (`IdsInv` in `ForgetInv`), so that of n
  messages the k-th last saved has at least n - k + 1.
* `TailStays` - `Spec /\ [][OwnPlaces]_vars => []TailKept`. `TailKept` speaks of the messages that
  are *last in the context*, which a summary may have moved. `TailInv`: places in the history are
  distinct, and no message has one beyond its identifier; so a message before which there are n
  others has an identifier above n. A summary takes the place of what it replaces, which with a
  second session need not be of its own (section 5). `OwnPlaces` excludes just that step, and
  `TailStaysAlone` shows that it never happens with one session. The service has several; both
  are kept because they say exactly what makes the property false.
* `MemoriesMergeOnce` - `[]MergedOnce`. `MergeInv`: what the merge that holds the lock has read
  is still on record, and what it is about to merge is not.

### Only model-checked

* Liveness (`RequestsEnd`, `BusyIsCleared`, `RunEnds`, `UntimedCallsEnd`, `SwapEndsUnlessStuck`,
  `StreamsEnd`) is beyond the prover.
* `EditIsSplice` and `UnchangedIsShown` speak of texts computed by recursive functions and folds
  over their data; what these compute for every text would need an induction the prover cannot
  instantiate.
* `TailKept` of more than one session is not true; of one it is `TailStaysAlone`. The types of
  all variables of `BackgroundTasks` together are left to the invariants above, each of which
  carries the types it needs.

Every other invariant and action property of a run is stated by a theorem.

## 5. What documents and comments say, and the code does not do

Beside statements of the documents there are a few of what one would take for granted, marked
with the line that decides otherwise. Each is a definition beside the others; TLC finds it
violated when a configuration of the run named has it instead of its properties (as `INVARIANT`
or `PROPERTY`, as given; for the session claims module `MCSessionClients`, three requests,
`MaxCrashes = 0`).

| Property | As | Instance | Says | Does |
|---|---|---|---|---|
| `SerialExecution` | INVARIANT | `session_serial`, `Spec`, no calls | requests of a session run one after another (docs/session-manager.md:920) | the cleanup of a rejected request releases the running one's lock |
| `TokenLivesWithRequest` | INVARIANT | the same, `UiSpec` | the token lives as long as its request (:949) | the cleanup of the one before drops the next one's |
| `ErrorAcceptsRetry` | PROPERTY | the same, `Spec` | a session in error accepts a request (:896, :904) | the optimistic update expects idle |
| `ArchiveWaits` | PROPERTY | `{"archive"}` | archiving waits for the stream (docs/api.md:317) | it only checks, a step earlier |
| `CancelDiscardsPartial` | INVARIANT | `{"cancel"}` | a cancelled run leaves no answer (docs/session-manager.md:964) | the text streamed so far is saved as the answer |
| `CleanupAlwaysResets` | INVARIANT | `Spec` | the cleanup resets the row in any case (:870) | a second cancellation interrupts it |
| `IdleAcceptsRequest` | INVARIANT | `SerialSpec`, `{"cancel"}` | an idle session takes a request | two questions in a row are refused by the provider |
| `RunCleansUp` | INVARIANT | `agent_runner` | the runner has cleaned up at the end (:959) | a consumer that leaves leaves the model call running |
| `SaveIsAtomic` | INVARIANT | `shared_connection` | insert and counter in one transaction (:443, :560) | a commit of another separates them |
| `OneMemoryEach` | INVARIANT | `background_tasks` | one memory per session (docs/archive/memory-extraction-timing-fix-2026-05-16.md:24) | two extractions overlap |
| `RegionIsRead` | INVARIANT | `background_tasks` | the region found is compressed (compressor.py:130) | positions are taken for ids |
| `TailKept` | INVARIANT | `background_tasks`, two sessions, eight compressions asked for and six at a time, contexts of 9; found along a given order of steps, which an exhaustive search does not reach | the most recent pairs are preserved (context/types.py:69) | a summary takes the latest time of what has the region's ids, whichever session it is of (session_store.py:615): several summaries share a place, and a recent message's id falls below its position |
| `StartReturns` | PROPERTY | `mcp_servers` | start returns a status per server (manager.py:137) | an SSE handshake that fails waits for itself |
| `StoredPairsKept` | INVARIANT | `model_turn` | stored calls are sent in the format of OpenAI (docs/archive/ui-streaming-data-model-rework-2026-05-20.md:165, :370), where each has its result behind it | the calls of an answer are stored with it (session_manager.py:487) and sent again without their results (builder.py:108) |
| `AssembledAlways`, `ExecutedWhole` | INVARIANT | `model_turn` | pieces become the calls meant | pieces without index and id become one call; what was cut off is repaired and run |
| `NothingRuns` | INVARIANT | `model_turn` | a timed out command is killed | only bash is killed (shell.py:227) |
| `ChoiceStands` | INVARIANT | `configuration` | a choice names a model | deletions leave choices and sessions |
| `SkillsNeverLost` | INVARIANT | `configuration` | a switch is kept | two first fills of the cache overlap (registry.py:30) |
| `ViewFinds` | INVARIANT | `configuration` | an enabled skill can be viewed | after a restart not before skills were listed (loader.py:81) |
| `UnchangedIsKnown`, `ReadIsEnough` | PROPERTY | `file_tools` | the file state is the session's (file_state.py:33) | each tool has its own, for all sessions: a session is told "unchanged" of a text another was shown, or of one whose showing failed |
| `LookIsRecorded` | PROPERTY | `file_tools` | the file that was read is recorded (file_state.py:47) | the hash is of a second reading, so that what was written between the two counts as seen |
| `MatchesApart` | PROPERTY | `file_tools` | matches are replaced one by one | windows of lines may overlap |
| `EditKeepsLineEnds` | PROPERTY | `file_tools` | what is outside the matches is kept (filesystem.py:837) | in a file with line ends of both kinds every LF becomes CRLF (:841) |
| `EditKeepsOthers` | PROPERTY | `file_tools` | an edit replaces the text it read | it writes over what came since (filesystem.py:844) |
| `NeverAmbiguous` | INVARIANT | `mcp_client` | the pairing of answers is never ambiguous (client.py:67) | a request of the server with the number waited for is taken for the answer (:105), and the call returns nothing |
| `TitleStaysDue` | PROPERTY | `background_tasks` | of two tasks only one passes the lock (docs/auto-title-design.md:120) | the lock compares the number of user messages, which both read |
| `UserTitleStays` | PROPERTY | `background_tasks` | a title the user gave is never replaced (docs/auto-title-design.md:22, :57, :123) | the rename writes `title_auto_generated = 1` as well (session_store.py:693) |
| `AcknowledgedAlways` | INVARIANT | `shared_connection` | what was acknowledged is on disk | a rollback takes what others wrote in the same transaction (session_store.py:664) |
| `TransactionsEnd` | INVARIANT | `shared_connection` | no transaction stays open | a refused INSERT is not rolled back (provider_store.py:171) |
| `NumbersAlwaysIncrease` | INVARIANT | `event_streams`, three responses, no subscriber, nothing published | a client meets increasing numbers | it may be sent frames of two responses that were open at once (sse_adapter.py:88) |
| `CancelSparesTool` | PROPERTY | `agent_runner` | no tool begins after a cancellation | one whose event is out is executed (runner.py:198) |

Further ones that reading the code for the models showed, each visible in the actions:

* Session: `delete_session` checks busy and deletes two steps apart (docs/session-manager.md:895
  promises `SessionBusyError`); `cancel_request` returns the id of a row read earlier, while the
  token it cancels is the one registered now (:191); a lock timeout leaves the session as it
  was, not in error (:932). A rename that lost against a new message is dropped, although the
  route answers as if it had been made (api/routes/sessions.py:272). After a queue timeout the
  later calls of a run are delivered one iteration late, and the error is followed by no done
  event (docs/agent-runner-streaming-design.md:275); `empty_response_count` counts across tool
  rounds (runner.py:271). A long session's context is its oldest 50 messages
  (session_store.py:580).
* MCP: the application never gives the manager to the session manager (app.py:106), so switches
  of servers only change rows. The old transport's callback of a first swap marks the new client
  disconnected. `hot_swap` is "atomic" (manager.py:476) in its assignments only. The probe of a
  server keeps its transport when it fails (session_manager.py:904). Registering a server's
  tools again forgets that one was disabled; tools go by name prefix (manager.py:516). The stdio
  transport gives up after 100 lines that are not JSON (transports.py:156).
* Stores: identifiers of models and providers are derived from names and may collide; the
  address and key of a provider are read in two queries (provider_store.py:335); the replacement
  of a region lowers the counter by the number asked for (session_store.py:635) and takes the
  latest time over all sessions (:615). The table of consolidated memories is announced after
  the database was opened (memory/manager.py:61), so that the application never makes it:
  `TableThere = FALSE` is the service as it starts, under which no merge is written; the run
  takes `TRUE`, where there is something to go wrong.
* Streams: a silence makes one ping and ends the response without a done event
  (docs/agent-runner-streaming-design.md:398); its buffer goes with it, so that a resumed client
  finds nothing unless another response of the session is live. Queues of the bus are unbounded.
* `render_skills_block` is never called (api/dependencies.py:119): the skills are not announced.

## 6. Not modelled, and why

* Several sessions in `SessionManager`: its dictionaries are indexed by session and share nothing
  but the connection, which `SharedConnection` models for two.
* Contents: prompts, contexts cut to a budget, text of messages, summaries and skills, encryption,
  token counts. They decide nothing the properties tell apart, except whether a context is too
  long, which is a choice.
* Listing, search and statistics: single reads.
* Schema creation, migrations, import of memories: run once, before or beside the service.
* `list_dir`, `workspace.py`, the patterns of the exec guard: pure checks of names; the guard is
  a set of commands.
* Reading PDF files, images and office documents; web search: pure I/O.
* The parsing of raw bytes in the providers and transports, beyond a message being readable or
  not; the answer without streaming.
* Observability: nothing reads it to decide.
* The web client's views; of its store only when it takes a stream for over.
* Threads: one event loop, one database thread in order; the file tools run in the loop.

## 7. Running the checks

    tlc -workers 2 -config <run>.cfg <module>      # module and cfg of each run: PROJECT.json
    tlapm <module>.tla                             # SessionManagerProofs, RunnerProofs,
                                                   # SharedConnectionProofs, McpProofs,
                                                   # ConfigurationProofs, ModelTurnProofs,
                                                   # EventStreamsProofs, BackgroundTasksProofs

`PROJECT.json` lists the runs with their properties, a mutant for each, the lines every
definition models, the hazards and the theorems.
