# Verification of AI Terminal Coach

TLA+ models of AI Terminal Coach (the daemon `aicoachd`, its Rust and Zsh
clients, and the command line that sets them up), TLC configurations that check
them on small instances, and TLAPS proofs for every instance. Every definition
is translated from the source under `src/`; `PROJECT.json` maps it to the lines
it stands for, and lists hazards, runs, mutants and theorems.

    tlc -workers 2 -config Requests.cfg MCRequests.tla
    tlapm ProviderRequestsProofs.tla

1. [The system](#1-the-system)
2. [The modules](#2-the-modules)
3. [The runs](#3-the-runs)
4. [Fairness](#4-fairness)
5. [What is proved](#5-what-is-proved)
6. [What is not modelled, and the plan](#6-what-is-not-modelled-and-the-plan)

## 1. The system

`aicoachd` (Rust, multi-threaded tokio) listens on a Unix socket. Every
connection has a task that dispatches its frames one at a time, a bounded
outbound queue and a writer task. Shared state is a `SessionManager` behind one
mutex (`state.rs`) and a few maps behind RwLocks in `Daemon` (`server.rs`). No
lock is held across an `await`, so whatever spans two locks or an await may be
interleaved with anything else. Around the daemon, several processes (daemons,
CLI commands, Coach windows, shells) share files in the runtime, data and
configuration directories without locks.

| Component | State | Operations | Hard because | Correct when |
|---|---|---|---|---|
| Provider-bound requests (`server.rs`, `state.rs`) | airlock flag, table of active requests, tokens, chat, origin of each request | begin, route, attempt, stream, answer, receipt, end; seal, open, cancel, erase, hang-up | every operation is several lock regions with provider calls between them | a sealed session is quiet, one completion is live, receipts are true, nothing is left over, everything received is answered |
| Session table (`state.rs`) | sessions with owner, recency, activity; focus | register, focus, use, detach, evict | old and new connection of one shell overlap; eviction at the limit | what is in use is kept, the oldest idle goes first, clean-up releases only its own |
| Event delivery (`server.rs`) | outbound queues, writers, connection tasks, shutdown | dispatch, announce, write, leave, drain | bounded queues filled from several tasks, clients that do not read | every frame is dispatched, shutdown ends, gone clients are forgotten |
| Retained data of a session (`state.rs`, `server.rs`) | commands in flight, context, erased ids, checkpoint, environment baseline | start, finish, probe Git, capture the screen, checkpoint, capsule, erase | late and lost frames, probes that end after an erasure | bounded; what was erased stays erased; facts stand at their own command |
| Twin baselines (`state.rs`, CLI `twin.rs`) | named snapshots | mark, list, compare, clear | a snapshot is read step by step while files change | baselines last, differences are real |
| Failure memory (`failure_memory.rs`) | fingerprints, unresolved failures, a file | observe, prune, persist, clear | outcomes before and after a clear, failed writes, clocks set back | entries tell what followed; a clear is final |
| Runtime files (`runtime.rs`, `main.rs`, CLI `stop`) | PID file, socket | acquire, bind, clean up, crash, stop | daemons started by every prompt at once; removal by path | one reserves, late ones give way, what is left behind blocks nobody |
| Provider client (`openai.rs`) | semaphore, deadline, retries, stream channel | acquire, post with retries, read, stream | retry, deadline and cancellation race; a slow consumer holds a permit | bounded concurrency, faithful streams, every call ends |
| IPC client and framing (`aicoach-ipc`) | pending table, writer lock, reader, closed flag | send, time out, close, read | close races send; answers out of turn | a call returns, with its own answer or none |
| Coach window (`aicoach-tui`) | messages, input line, list, queue of events, history file | ask, insert, toggle the airlock, handle events, save | events wait while a response is awaited; the file is shared | questions are kept, answers are not mixed, cleared history stays cleared |
| Shell plug-in (`aicoach.zsh`) | request ids, buffer, labels, connection, loaded settings | complete, explain, chat, apply, cancel, reconnect, reload | the user types on | only a matching answer changes the line; nobody waits in vain |
| Rules and patches (`safety.rs`, `risk_lens.rs`, `command_patch.rs`) | none | assess a line, review a completion, show the change | wrappers, substitutions, pipes; limits | danger surfaces; what is applied was reviewed |
| Set-up (CLI `provider_setup.rs`, `main.rs`, `onboarding.rs`) | configuration, authorization, launcher, Keychain, `.zshrc`, settings | setup, set-key, delete-key, install, uninstall, start, stop | files change between review and save; several commands at once | a credential goes only where the user agreed; the user's lines are kept; a stopped daemon stays stopped |

Clients send requests; the daemon answers on the same connection and sends
*request events* to the originating connection, *session events* to the owning
shell and subscribed windows, and *shell mutations* to the owning shell only.
Provider tasks are spawned by the dispatching task and share the session through
its mutex, the token and the routing map.

All hazards, each with its line and with the properties aimed at it or the
reason why there is none, are in `PROJECT.json`.

## 2. The modules

One action stands for one lock region, one system call, one read or write of a
file, or one pass of a loop between two awaits, with everything that happens in
it. Text is abstracted to what the properties tell apart.

| Module | Models | State and actions in terms of the code |
|---|---|---|
| `AirlockBoundary` | the promise of the Session Airlock | open and sealed sessions, live and spent requests; `Admit`, `Seal`, `Reopen`, `LetGo` |
| `ProviderRequests` | provider-bound requests of the daemon | `access`, `active`, `chat` are the session's fields, `cancelled` the tokens, `conn` and `origins` the maps of `Daemon`, `pc`/`outcome`/`partial` the locals of a dispatch. `Register`/`Refuse` are the results of `begin_provider_request`, `FindOrigin`/`RecordOrigin` the locks of `route_request`, `OpenStream` to `DecideStream` the streaming loop, `EndRequest`/`Unroute` the end |
| `RequestQueues` | the same daemon with the queues of its clients | a task goes on once its last messages (`queueing`) are in the queues of the clients they are for, as `mpsc::Sender::send` makes it; a client may read no more (`stalled`). `Step` is every step of a task of `ProviderRequests`; liveness is stated here |
| `SessionRegistry` | the table of sessions | `recency` gives, for each session in the table, those accessed less recently, which is all that is kept of `last_accessed`; `Pruned` is `prune_for_new_session`, `DetachConnection` the late clean-up of a connection |
| `EventDelivery` | queues, dispatch, shutdown | a queue is its length; `SendTo` is `mpsc::Sender::send` |
| `CommandHistory` | what is retained of commands | frames wait in `inbox`; `started`, `records`, `discarded`, `success`, `checkpoint` are the session's; `jobs` are reports that wait for a capture or a probe |
| `EnvironmentDrift` | baseline and comparison of the environment | `looks` and `reports` ask Git beside the user's next steps; a Git that fails is observed as no repository, one that is late as nothing |
| `FailureMemory` | fingerprints and their file | `ObserveFinished` with its failure and its success branch, the two steps of a clear; `Ahead` is the sort of `prune`, `Place` an entry's place in it and `Best` the list that is left |
| `TwinTerminal` | `aicoach twin` | the CLI's snapshot one read at a time, the daemon's bounded list; `Normal` writes a place the way `normalize_path` does, from a home where it can |
| `RuntimeFiles` | PID file and socket | one action per system call of `acquire`, `bind`, both clean-ups and `aicoach stop`; a path holds one process's file |
| `AutoStart` | start, stop, restart, install, prompts | the stop marker; whoever runs the daemon, launchd or the CLI; shells with an older integration do not look at the marker |
| `ChatProvider` | `openai.rs` | permits, retries, delays, deadlines, the decoder, the bounded channel; every `select!` is biased |
| `IpcClient` | `client.rs`, `transport.rs` | pending table, writer lock, reader; frames in pieces |
| `ZshFrames` | `aicoach.zsh`, `zsh.rs`, `wire.rs` | the line protocol in both directions: escape, split, restore, parse on each side |
| `CoachWindow` | the window's loop | key, event or tick at a time; the queue of events beside the awaited response |
| `ChatHistoryFile` | `history.json` | windows and CLI read, change and rename it. A window attaches itself, loads the file and only then begins to listen for events (`Attach`, `LoadHistory`, `Subscribe`), which may also overtake it (`Lag`). A message is its session and a number, a store the messages of each session and, for its entries, those saved earlier (`updated_at_unix_ms`; a clock that is not set back). `informed` and `replaced` record who has missed no event since it listens and what an older copy put back |
| `ShellPlugin` | requests around the line editor | `plugin` holds the integration's globals: ids, snapshots of the buffer, the chat's text, the message below the line; frames in pieces; `Send` is `_aicoach_connect` with `_aicoach_send`, whose failures the widgets handle; `Handled` is the loop over the lines of a read |
| `CommandProposals` | what reaches the line untyped | review of completions, patches (the longest common subsequence), insertions |
| `RiskLens` | safety rules and impact report | a line of parsed commands, nested through shells, eval, xargs and substitutions; wrappers are words, of which `CommandIndex` skips what `command_index` skips |
| `LocalSetup` | `.zshrc`, `config.toml`, generated settings | install, uninstall, config, onboard, prompts that reload |
| `ProviderAuthorization` | who may be sent which credential | `config`, `auth`, `plist`, `wrapper` and `keychain` are what is stored; `cli` holds the locals of each command; a digest binds source, target and whether the provider is enabled |

`MCRequests`, `MCRequestQueues`, `MCClient`, `MCChatProvider`, `MCTerminal`, `MCRetained` and
`MCCli` give the instances. Those that hold several components are made of
*lanes*: a variable `lane`, chosen initially, says whose steps a behaviour
takes, and the variables of the others never change. The state spaces add up
instead of multiplying. They extend the components whose theorems are about the
very definitions the run checks (`MCChatProvider`: `ChatProvider`, `CommandProposals`;
`MCTerminal`: `RuntimeFiles`, `SessionRegistry`, `LocalSetup`, `ShellPlugin`; `MCRetained`: `CommandHistory`, `EnvironmentDrift`; `MCCli`: all
five) and instantiate the others; that is why each of these has its own names
for `Init`, `Next` and `Spec`. Components that do interact are composed inside their
modules: the daemon's requests with connections, erasures and seals; windows
with the CLI and the daemon around the history file; frames with history,
probes, captures and reports.

Abstractions a reader should know of:

- Request ids are fresh, as UUIDs are. A client that re-used the id of a request
  under way would overwrite its entry; the clients of the repository never do.
- Sessions exist throughout `ProviderRequests`; `SessionRegistry` shows that what
  is in use is not evicted.
- `ProviderRequests` takes the two locks of `remove_connection_routes` as one step,
  and a completion that fails its review (`unsafe_completion`) as an answer.
- In `RequestQueues` the windows are subscribed from the start, and a queue has room
  in the end or never; how queues fill is in `EventDelivery`.
- In `FailureMemory` the follow-up a failure is remembered with is kept as it is; the
  code normalises and shortens it.
- In `TwinTerminal` a detached HEAD stands at one of two commits, which a snapshot
  does not hold (`twin.rs:203-212`): `DifferencesAreReal` claims no more of two
  detached heads than that both are.
- In `ShellPlugin` ZLE redraws a change of the user before it looks at the
  socket, and looks at it only while a line is edited.
- In `ZshFrames` texts are sequences of units that look like escapes, fields,
  frames or variables. NUL is escaped by `zsh.rs` (3-6, 42-50), but neither
  escaped nor restored by `aicoach.zsh` (221-241): towards the shell it shows as
  `%00`, and a NUL in a buffer ends the connection. The property says just this.
- In `TwinTerminal` two different places may be written alike from two different
  homes (`$HOME/project` is another directory for another user). Then no difference
  is seen where there is one, so `DifferencesAreReal` is about snapshots that write
  paths from one home.
- Redaction, JSON and the tokenizer of the safety rules are left out; a secret is
  a command the redactor would change.

## 3. The runs

Nine runs pass, each in at most about three minutes with two workers.
`CHECK_DEADLOCK FALSE` stands where the bounded sets of commands, clients or
processes may all be over.

| Run | Instance | What it shows |
|---|---|---|
| `requests` | two completions; completion and analysis; completion and chat; a stream | at most one completion is live (`OneLiveCompletion`), a sealed session is quiet (`SealedIsQuiet`), receipts tell what happened, nothing is left of what was refused or is over, and the daemon implements `AirlockBoundary` (`KeepsTheBoundary`) |
| `answered` | a stream, an analysis, a completion with seals, erasures and hang-ups; two completions; two sessions, of one of which the window reads no more; fair | `CompletionsAreAnswered`, `RequestsFinish`: if the clients of its own session read or go away, a completion received is answered and a request ends, its last message queued |
| `delivery` | a shell and a window that may stop reading, queues of one | `DeliveryCompletes`: frames are dispatched, shutdown ends, the gone are forgotten |
| `client` | two calls, frames of two pieces, one foreign frame; texts of up to four units both ways | a call gets its own answer or none and returns; texts keep their meaning over the line protocol |
| `provider` | two lanes: a whole and a streaming call, one permit, one retry, a channel of one; lines of up to five characters, completions and two insertions | `CallsAreFaithful`, `CallsEndInTime`; lines that completions and insertions change are reviewed (`AppliedIsReviewed`), shown as a patch (`PatchIsTheChange`) and labelled (`LabelIsOfTheLine`) |
| `window` | two questions, a queue of two, a list of one | `WindowIsSound`, `QuestionIsKept`, and `WindowCatchesUp`: airlock and end of a stream are shown in the end |
| `terminal` | five lanes: three daemons and a stop; three sessions with room for two; a plug-in with three requests; lines of one or two commands and their wrappers; two consoles and a shell | reservation and late starts; `RemaindersAreRemoved`: of all that crashes leave, only a PID file without a number keeps a lone start from serving; the table; typing and questions; `DangerSurfaces`: a dangerous command is reported wherever the rules read; the user's lines and settings |
| `retained` | two commands and two CLI runs, limits of two commands and seven characters; three commands in two places | `OnlyWhatMayBeIsRetained`, `ProbesDescribeTheirCommand`; `CapsuleIsTheSpan`: a capsule is the retained commands of its span, each once, apart from the CLI's own runs; `NoFalseAlarm` |
| `cli` | five lanes: memory, history file, authorization, twins, starts | `MemoryTellsTheTruth`, `SettledHistoryIsErased`, `HistoryFileIsKept`, `KeyGoesWhereReviewed`, `ReportsTakeEffect`, `BaselinesLast`, `DifferencesAreReal`, `StoppedStaysStopped` |

Why the bounds are enough. A request meets another only through its session's
table (same kind: two completions; other kinds: one of each), while seals,
cancels, erasures and hang-ups are unbounded. With queues (`MCRequestQueues`) one
request meets all of these and clients that read no more; two of a session seals,
cancels and each other; two of different sessions only such clients. A queue, channel, permit or list of
one is full after one element as one of 256 is after 256; nothing depends on the
number. Tables and histories need one element more than there is room for. Three
daemons are the fewest that let two race after a third has left; two commands of
the CLI are enough for any crossing of two reads and writes. Where a lane would
grow too large, a state constraint is part of the next-state relation: `OneCli`
(two command lines, or one and an edit), `OneConsole` (likewise for set-up),
`MaxLine` 3 (completions only for short lines), `ChangeCost` 2 (a change of files
costs two of four commands), `MaxFinished` 3. The bounds of `ZshFrames` are its
texts, the verbs that follow another frame, and one place where a read is cut. The
proofs of section 5 have no bounds. `RuntimeFiles` and `CommandHistory` are
symmetric in processes and in commands; only `retained`, a run of invariants,
uses it.

### Disagreements

Three runs check a sentence of the repository against the code and end in a
counterexample; the findings in `PROJECT.json` quote the sentence.

| Run | Property | What happens |
|---|---|---|
| `erased_chat_returns` | `ErasedChatStaysErased` | a cancelled stream retains its partial answer after the erasure (`server.rs:1805`; `docs/ARCHITECTURE.md:145`) |
| `inserted_unassessed` | `FinalBufferIsAssessed` | an inserted completion loses its blanks after it was assessed (`server.rs:2608`; `docs/ARCHITECTURE.md:94`) |
| `slow_observer` | `ShellIsNotBlocked` | a window that does not read blocks its shell's dispatch (`server.rs:2002`; `docs/PROTOCOL.md:108`) |

Further configurations end in a counterexample as well. They are kept for who
changes the code in question:

| Configuration, module | Sentence | What the code does |
|---|---|---|
| `StreamEndUntold`, `MCRequestQueues` | the client of a stream is told of its end (`docs/PROTOCOL.md:93`) | a stream cancelled before it is routed ends without an event (`server.rs:694`) |
| `LostConnectionKeepsSession`, `MCTerminal` | "Disconnected sessions use an LRU limit and TTL" (`docs/PROTOCOL.md:118`) | a read error leaves `handle_connection` by `?` past its clean-up; the session stays owned (`server.rs:390`) |
| `IncompleteProbe`, `MCRetained` | "incomplete Git probes are omitted" (`src/README.md:820`; the test `environment_drift.rs:271`) | a Git that fails in an unchanged repository is reported as having left or entered it (`server.rs:2389-2394`, `git.rs:68-70`) |
| `ErasedHistoryReturns`, `MCCli` | "Every open Coach window must receive the clear event ... Otherwise that window could write deleted history back to disk" (`state.rs:640`, `src/README.md:498`) | a window loads its history, a clear comes, and only then the window listens, or it loses the event to lag: it keeps the erased chat and saves it back (`aicoach-tui/src/main.rs:340-348`, `364`) |
| `EmptyPidFileStays`, `MCTerminal` | a stale PID file is removed (`runtime.rs:51-59`) | one whose daemon died before it wrote its number is never judged stale, so every start fails until `aicoach stop` removes it (`runtime.rs:70-71`) |
| `TwoDaemonsServe`, `MCTerminal` | "Returns `AlreadyRunning` for a live daemon" (`runtime.rs:49`) | the second clean-up of a leaving daemon removes its successor's files by path (`runtime.rs:98`) |
| `ErasedContextIsAnalyzed`, `MCRetained` | clearing a session covers its output and the work under way for it (`src/README.md:487`, `846`, `src/CHANGELOG.md:75`) | a report that waits for a capture or a probe keeps the context it copied (`server.rs:1272-1296`) |
| `RuleGaps`, `MCTerminal`, `ProgramsAreAssessed` | "Commands whose payload is another program need a second parse" (`safety.rs:171`) | what a shell runs is assessed after `-c` alone, not after `-ec` or `-lc` (`safety.rs:174`) |
| `RuleGaps` (`tlc -continue`), `UnfamiliarIsUnrated` | an unrecognised command shows as `UNRATED`, never as low risk (`src/README.md:368`, `397`) | some lines with a command no rule knows are reported low (`risk_lens.rs:97-148`, `320`) |
| `SettingsMissed`, `MCTerminal` | "Changed shortcuts reload automatically at the next prompt" (`onboarding.rs:244`) | settings and version are replaced one after the other, so a prompt between them may note the version of settings it does not have (`aicoach.zsh:964-989`) |
| `StopUndone`, `MCCli` | "`aicoach stop` keeps the daemon stopped across prompts" (`src/README.md:616`) | a start that a prompt began before the stop clears the marker afterwards (CLI `main.rs:698-721`, `aicoach.zsh:351-360`) |

The passing properties say what does hold around these: `SettledHistoryIsErased`
is about windows that showed nothing erased when they began to listen and have missed
no event and lost no save since, and about entries that neither another window nor the
CLI has put back from an older copy; `CompletionsAreAnswered` and `RequestsFinish`
about sessions whose clients read or go away; `RemaindersAreRemoved` about every
remainder of a crash but one; `DangerSurfaces` about what the rules read (`Readable`:
no option of sudo, env or xargs whose word they take for the command, no program
given to a shell by other flags than `-c` or by xargs), and about lines within the
limit of the Risk Lens; `NoFalseAlarm` about probes whose Git answered;
`StoppedStaysStopped` about stops no start crosses, `ReservationIsExclusive` and
`LateStartIsHarmless` about the time until a daemon has left or crashed,
`OwnersAreNotClosed` about orderly ends.

## 4. Fairness

Safety is checked under `Init /\ [][Next]_vars`, except where a run also checks
liveness; fairness removes no reachable state.

- `RequestQueues` (`ProviderRequests` has none): weak, for each dispatch or provider
  task once its frame was received and its last messages are queued, for a
  canceller's announcements and for the clean-up of a connection; weak, too, for
  queueing a message for a client that still reads: its queue has room again, and
  tokio's channel serves its senders in order. Strong for the end of a stream, which
  may forward any number of deltas before, each of which waits for room: its answer is
  bounded and its call has a deadline. tokio polls every runnable task and no lock is
  held across an await. Clients owe nothing: one that reads no more holds every task
  that writes to it. That the clients of the request's own session read, or go away
  in the end, is the premise of the properties (`AreRead`), which fail without it.
- `EventDelivery`: weak for writers, ends and the drain (a timer); strong for
  dispatch, because tokio's bounded channel hands out room first come, first
  served. Only clients in `Prompt` read and only those in `Leavers` go away for
  sure.
- `ChatProvider`: weak for steps of a task that wait for nothing the service does,
  for deadlines, and for the daemon taking items of its stream. The service may
  stay silent for good.
- `IpcClient`: weak for the steps of caller and reader and for time limits; strong
  for the writer lock (tokio's mutex is fair) and the write, which ends once there
  is room or the socket is broken. Nothing is assumed of the daemon.
- `CoachWindow`: strong for handling an event, since `select!` picks any ready
  branch; weak for taking an answer, for the tick's refresh, and for the daemon
  serving requests, announcing and ending its streams.

## 5. What is proved

Eight modules of proofs hold for all values of the constants, under the named
assumptions of the modules, which TLC evaluates in a passing run. They say what the
code or the shape of its data gives: kinds of requests are disjoint and each has a
session and a connection; a piece of text is not one of the provider's marks or errors; limits are natural numbers, and those of the tables of
sessions, baselines, commands and messages are not zero; a process is not `NoProc`,
nor a connection `NoConn`; a shell has one session; a text is a sequence of characters; a directory name is within the
limit of the context; `None` is neither a source nor a digest, a configuration file
is not the absent one; the shape of a command is not that of no failure; every store
that may be found on disk has its entries in an order and its messages under their
session (`HistoryAssumption`); two places written alike from one home are one place
(`TwinAssumption`); the first `.zshrc` has one START at most, and inside the block no
line of the user's (`SetupAssumption`).

**`ProviderRequestsProofs`.** `TypesAreKept`; `AirlockIsKept`, the inductive
invariant; from it `TableMatches`, `SealedSessionIsQuiet`, `AtMostOneCompletion`
and `DaemonKeepsTheBoundary`, the refinement of `AirlockBoundary` step by step
(`Register` is `Admit`, `Seal` is `Seal`, `Open` is `Reopen`, what cancels or ends
is `LetGo`, the rest stutters). `SealedIsQuiet` speaks of tokens, but `Seal`
cancels what the table holds: the step needs that table and tokens agree, this
needs that a request not yet registered has a live token, and "one completion"
needs that the table lists one, so that superseding the one found supersedes all.
`ReceiptsAreTrue` and `NoTracesAreLeft` come from `TracesAreKept`. What holds once a request is over rests on where its traces can
begin and end: a receipt is the outcome from the phase in which it is published,
a route exists only between its recording and its removal, a chat entry only
after the dispatch. That a lost connection cancels what it started needs that a
completion or chat is dispatched on a live connection and routed as long as it is
live and under way. `QueuesOnlyDelay`: `RequestQueues` takes no other steps than these,
whoever reads and whoever does not, so that all of this holds for it as well.

**`TerminalProofs`**, of four components. *Runtime files:* `OneProcessReserves` and
`LateStartGivesWay` from `ReservationIsKept`, `RemaindersGo` from
`RemainsAreKept`. Exclusive reservation is not inductive: a process that has read a
number and not yet looked at `/bin/ps` could remove the file. The invariant adds that
a number read is that of a process still reserved, and that whoever is past its
creation has written its number. What is left behind needs that every file on disk
has an owner under way or crashed, who has written its number unless it died before
that, and what a process that runs alone has read.
*Session table:* `TableGivesUpItsOldest` from `TableIsKept`. The sessions have to stay
in one order of access for "the oldest" to mean anything, and owners, focus and work
have to be of sessions in the table. Every step leaves these sessions alone or prunes
them and adds one (`KnownChanges`); of the idle sessions that pruning leaves, those
accessed before the oldest are all gone, and as many as were too many (`PrunedIsSmall`).
*Set-up:* `ShellsFollowSettings` from `SettingsAreKept`. Settings are replaced before
their version. In between, the version on disk is not the version of those settings,
so it is not called fresh; a new version is greater than any a shell has seen, so a
shell that has the fresh version read it last, and read the settings before or after:
the shell between its two reads is the case the invariant spells out.
`UsersLinesStay` from `LinesAreKept`, for any number of consoles and edits. A command
writes what it read many steps before, so the invariant says of each copy under way
what it says of the file (`Tidy`: one START at most, and nothing of the user's between
it and an END), and that the copy has the user's lines unless somebody edited since
(`CopyIsHeld`). A removal then takes nothing of theirs, and an install adds a START
where there was none. What `Only`, a recursive function, leaves of a file at some
places, in which order, is proved from the smallest length that would fail.
*Plug-in:* `TypingStays` and `QuestionsAreAnswered` from `GlobalsAreSound`. An awaited
completion is of the line as it is, or the user has not typed that (`Current`); typing
breaks this until the redraw that follows, which ends the completion. Without a
connection nothing is awaited (`Silent`); a widget breaks that between asking and the
failure to send. Each handler of a frame keeps both, and so does a read: the function
that handles its frames one after the other exists and stays sound, by the smallest
number of frames for which it would not.

**`IpcClientProofs`.** `CallsStayApart` from `EntriesAreKept`: an entry in the
table means a call under way whose channel is empty, because whoever answers takes
the entry out first; nothing enters a channel before the entry is made.

**`RetainedProofs`**, of two components. *History:* `RetainedIsAllowed` and
`ProbesAreTrue` from `MarkersAreKept`. What was erased is not recorded again because a
command in flight at an erasure has its marker until its finish frame is taken, and
has one such frame at most. The latest command survives every trim because each record
alone is within the limit. The proof goes through the trim's smallest number of records
to drop by the least element of a set of naturals. `CapsulesAreSpans` from
`SpansAreKept`: a capsule is cut at two identifiers, so every command must be recorded
at most once (`RecordedOnce`), the records must end with what was recorded since the
checkpoint as far as it is retained (`Aligned`), and the CLI runs that set and resolved
the checkpoint must stand at the ends of the span or have been dropped (`Boundary`).
*Environment:* `AlarmsAreTrue` from `BaselinesAreKept`: a baseline observed where
nothing changed since tells what is there, or that Git failed there (`TellsWhatIs`),
and a probe under way asks about its own baseline's directory, so that what it finds
is put at no other.

**`ChatProviderProofs`**, of two components. *Calls:* `CallsStayFaithful` from `CallsAreKept`, for answers of any
length that arrive in chunks of any size. Holders of permits are the calls at work,
and never too many, because a call takes its permit when it leaves the queue and gives
it back where its task ends. What a caller can still read and has read is the text of
the first `k` events of the answer, none of them the marker (`Read`); the events from
`k` on are those decoded and not handed over, then those not received (`Ahead`); and a
stream that has ended while its caller holds it has an item that is an error, or all
of the text and the marker. The text of a prefix is a recursive function, and what is
needed of it (of nothing, of one item more, of two sequences joined) is proved from
the smallest length that would fail.
*Proposals:* `CompletionsAreReviewed` and `LabelsAreOfTheLine` from `ProposalsAreKept`.
The first needs that the line a completion was asked for is kept as long as it is
awaited, so that the daemon's composition of line and command (`Candidate`) and the
shell's (`Applied`) agree but for the blanks `sanitize_inline` takes; the second that
the words of a line, which the rules look at, are the same without these blanks
(`InlineIsWritten`). Words, the line joined from them and a text without blanks are
recursive functions too, and the facts about them are proved in the same way.
`PatchesAreTheChange` needs no more of the state than that the line asked for is
kept; its argument is about the two tables of `lcs_hunks`. Their recursion goes
from the ends of two texts to their beginnings: tables exist because they can be
filled that way (`Filled`), and facts about them are proved that way, by the last
pair of places that would fail (`InductionOverPlaces`). Of the table of edits, by
this argument: what stands at two places leads from the rest of the one text to the
rest of the other, and keeps as many words as `Lengths` says there (`Leads`). Of the
table of lengths: no common subsequence of the two rests is longer (`NoLonger`);
without the pair at the first places, if there is one, it is one of shorter rests.

**`CoachWindowProofs`.** `WindowStaysSound` and the action property `QuestionStays`
from `OrderHolds`: a handler waits for the last request only, which names the
question still on the line; and, while nothing was late or cut, all that is told of
a stream comes before its last word, no other stream runs, and the window leaves
the streaming state no earlier.

**`ProviderAuthorizationProofs`.** `KeysGoWhereReviewed` from `DigestsAreAgreed`: a
daemon may have been launched long after the review, from files other commands
wrote meanwhile, so nothing relates its key to the review but the digest on its
command line. Every digest of an enabled target and a source, in the authorization
file, the launch agent, the daemon's arguments or the locals of a command under
way, was agreed to; what setup has still to save was agreed to before there is a
digest of it; and a key is of the source it was launched with. A target that
changed without a question asked is possible only when there was no credential to
propose (`NothingUnasked`).

In the same module, `ReportsAreTrue` from `CommandsKnow`: what a command reports at
its end rests on what it found or wrote many steps before. The invariant says, for
each step of each command that has had the machine for itself so far, what it knows of
configuration, authorization, launcher, Keychain and daemon; any other command, edit
or damage ends that knowledge (`OthersAreDisturbed`).

**`CliProofs`**, of four components. *History file:* `ErasedStaysErased` from
`HistoryIsKept`: a window that began to listen with nothing erased, has missed no
event since and has handled what it was told shows nothing erased, so what it saves is
clean whatever copy of the file it saves it into (`KnowsOfClears`). A window that has
just loaded shows what its entry held, and saves nothing yet (`Unopened`,
`ShowsItsEntry`). `HistoryFileStays` from `OrderInv`: a bound that drops
the oldest entries keeps the one just saved because the saves are in one order, and
just enough of the others by the argument of smallest rank.
*Starts:* `StopLasts` from `StopIsKept`: from the marker on, nothing under way would
start the daemon (`Quiet`): shells that look at the marker see it, and what older
shells begin gives up at its look. *Failure memory:* `MemoryIsTrue` from
`MemoryIsKept`: every entry, in memory or in the file, was `Told` by a failure and a
success that followed it; a session's `Unresolved` failure is its last command but for
those that only looked; and every entry in memory is of a failure `Late` enough for its
session's last clear, unless a start crossed that, as is every entry of the file but
while a clear is under way. *Twins:* `BaselinesStay` from `BaselinesAreInOrder`: the baselines kept are in the
order of the last marks of their names, so what a mark drops has as many other names
marked after it as are kept. `AnswersAreReal` from `SnapshotsAreFaithful`: at each of
its steps a run has collected what was there if nothing changed since it began
(`Collected`), and what it sent, or the daemon kept, describes it (`Describes`); that
two unequal tools give unequal words needs that `Normal` is injective for one home.

**Only model-checked.** All liveness (`CompletionsAreAnswered`, `RequestsFinish`,
`DeliveryCompletes`, `CallsReturn`, `CallsEndInTime`, `WindowCatchesUp`): the
prover has no rule for fairness or ENABLED. And two properties of what recursion
and folds compute: `DangerSurfaces`, since `RiskLens` is made of RECURSIVE operators,
which the prover does not read; and `FramesKeepTheirMeaning`, since `ZshFrames`
replaces and splits by folds, of whose operator the prover cannot expand anything.

## 6. What is not modelled, and the plan

Left out: the two marker files of the active shell (two renames that place the
Coach window; see the hazard at `runtime.rs:39`); the local analyzer, source cards
and redaction (patterns over text without state); JSON encoding, configuration
ranges, status, export and support archives, wizards' wording, rendering, colours
and layout; packaging, the window script and benchmarks. `PROJECT.json` says of
each component how much of it is modelled.

Next, in this order:

1. `FramesKeepTheirMeaning`, once its folds are written as recursive functions.
2. `ReservationIsExclusive` across departures, once the clean-up of the code no
   longer removes by path.
