# Addison in TLA+

A verification project for Addison, the desktop assistant of this repository:
TLA+ models of the parts where order, failure and several actors decide whether
the program is right, runs of TLC on small instances, and theorems checked by
TLAPS for every value of the constants.

## The system

Addison is three processes.

    React webview (shell/src)  <->  Tauri shell (shell/src-tauri)  <->  Agent Core (agent_core)

The webview and the Agent Core speak JSON-RPC through the shell, which relays
frames, supervises the core and performs what only the operating system may do:
files, keychain, commands, scheduled automations. The core keeps the store
(SQLite), talks to model providers, tool servers and messaging services, and
runs tools.

Inside the core there are two threads that matter. The **read loop** takes one
frame at a time; it enqueues most methods as jobs and answers a few inline. The
**worker** runs one job at a time. Other threads are the poll loops of messaging
channels, which only ever enqueue jobs, and the folder picker, which only waits
for the shell. Most state is therefore touched by one thread, and what makes the
program hard is everything that goes on meanwhile: the person and the disk
between two jobs, the window and the shell during one, a failure in the middle
of one, and the end of the process anywhere.

### Inventory

| Component | State | Operations | What is hard | What makes it correct |
|---|---|---|---|---|
| Consent round-trip (`main.py`) | job queue, stop flag, table of permission waiters | ask, answer, stop, poll; worker and read loop share one lock | Stop, an answer and a request in any order; a blocking wait with no time limit | a card is answered by its own answer or by Stop, never left waiting, never granted by something else |
| Consent in the webview (`useTurn.ts`, `App.tsx`, `usePendingConsentResync.ts`) | turn on screen, card on screen, expired flag, poll | send, stop, answer, show, poll | notifications cross answers on the way, and may be lost | a card the core waits on comes up |
| Permission gate (`permissions/gate.py`, `policy.py`) | grants, refusals, Ask-once approvals | authorize and its six branches, revoke, clear | which branch wins, and which memory answers, as profile and guards change | approvals do not leak; a refusal holds; arming always asks |
| Guards and profile (`rpc/guards.py`, `rpc/profile.py`) | profile, two guards | set, restore | partial failure around a restore point | a weak guard has a way back |
| Conversation (`rpc/conversation.py`, `rpc/undo.py`, `memory/store.py`) | messages in memory, their ids, rows | send, continue, rewind, new, load | failure between three accounts of one history; the end of the process anywhere | what the model is shown is well formed and is what is on disk |
| Restore points (`snapshots/snapshot_manager.py`) | rows, sidecar files, the walk marker | capture, verify, restore, walk back, delete, prune, recover | failure between row, file and setting; retention under a walk | a proven point did run, and each press goes back |
| Routing (`orchestrator.py`, `providers/router.py`, `rpc/routing.py`, `rpc/providers.py`) | pool, catalog, provider rows, cooldowns, the turn | connect, disconnect, restore, send, try a candidate, fall forward | two accounts of one provider's models; a failure after text was shown; a keychain that cannot be read | a local turn stays local, the relay answers only who has no key, one answer is one model's |
| Undo (`snapshots/undo_manager.py`, `snapshots/file_revert.py`, `rpc/workspace.py`) | action rows, redo stack, the shell's ledgers, the disk | write, save, undo, redo, revert, list, diff | a person at the same disk; a tool undone whose row cannot be marked; ledgers that die before the rows | nothing else on the disk is touched; what is offered works |
| Automations (`tools/*_automation.py`, `rpc/automations.py`, `automation.rs`) | rows, launchd's files and jobs | create, arm, disarm, undo, remove | a call that times out and is carried out all the same; `launchctl` that does not answer | reported off is off; a row goes after its job |
| Shell bridge and supervisor (`shell_bridge.py`, `agent_process.rs`) | pending calls, pump, tasks, the child process and its generation | call, resolve, time out, respawn | late answers, answers out of order, the answers of a core that died | a caller gets its own answer or none |
| Channels (`rpc/channels.py`, `channel_service.py`, `channel_pairing.py`, `channels/telegram.py`) | poll threads, pairings, windows, cursor | poll, pair, answer, switch on and off | a message twice or never; a loop that outlives its switch; a token that is refused late | one reachable loop; acknowledged is handed on; a code pairs once |
| Tool servers (`rpc/mcp.py`, `mcp_catalog.py`, `mcp_client.py`, `net_vetting.py`, `redaction.py`) | rows, what a check found, registered ids, the exchange on the wire | add, remove, check, call, compose an answer | a registration that breaks half-way; a server that dribbles, redirects or hides a key | catalog and registry agree; a call ends, in a bounded time; no credential of one word is read by a model |
| Routines (`routines/*.py`, `rpc/routines.py`) | plans, drafts, run log, results and taint of a run | draft, import, save, run, pause, stop, delete | order of steps, failures in the middle, text that travels, Stop at any point | a run keeps to its plan; text of a file is announced on the card it reaches |
| Providers and catalogs (`providers/*`, `models_catalog.py`, `rpc/models.py`) | static tables, HTTP adapters | list, send, stream | errors of many kinds | their outcomes are those `Routing` has; the adapters are I/O |
| Screening (`screening/*`) | rules | screen, redact | patterns | redaction is in `ToolAnswer`; the screener's patterns are text |
| Skills, widgets, knowledge, memory facts | rows | create, read, delete, by one thread | little | left out |
| Shell: filesystem, keychain, exec (`src-tauri/src/*.rs`) | ledgers of paths | read, write, restore, run | path checks | the ledgers are in `ProjectFiles`; the rest is system calls |
| React components | view state | render | presentation | left out |

## The modules

| Module | Models | Composes |
|---|---|---|
| `ConsentCore` | both threads of the core around a permission request, with the lock's critical sections as actions, under any order of inbound frames | |
| `ConsentSession` | the same, behind an honest window and two FIFO pipes, with lost card notifications and the resync poll | `ConsentCore` |
| `PermissionGate` | `authorize`, its callers (chat turn, turn from a phone, routine, widget), profile, guards and restore | |
| `Transcript` | the three accounts of a conversation through every operation that changes one of them | |
| `RestorePoints` | restore points in the table and on disk, the button that walks back through them, retention, relaunch and the rebuild of a lost database | |
| `Channels` | poll loops, the worker's turns for messages, pairing, the desk, the transport's cursor | |
| `ProjectFiles` | the files Addison writes, the rows about them, undo, redo and revert, and a person at the same disk | |
| `Routing` | providers, catalog and pool, the chain of candidates and the walk along it | |
| `ShellCalls` | what the core expects of a call to the shell: the abstract specification | |
| `Automations` | the bridge, the supervisor and the automations that go through them | implements `ShellCalls` |
| `McpServers` | saved tool servers, what a check finds, the registry | |
| `Routines` | routines from draft to run, on the worker and the registry they share with the servers | `McpServers` |
| `ToolAnswer` | what a model reads of a server's answer: cleaning, redaction, caps, notes | |
| `McpExchange` | one call to a server on the wire, in time | `ToolAnswer` |
| `MCRestorePoints`, `MCRouting`, `MCAutomations`, `MCRoutines`, `MCMcpExchange` | values of constants and symmetry for TLC | |
| `ConsentProofs` | theorems about `ConsentCore` and `ConsentSession` | `ConsentSession` |
| `PostureProofs` | theorems about `PermissionGate` and `RestorePoints`, the posture and the way back to an earlier one | both |
| `McpProofs` | theorems about `McpServers`, `Routines`, `ToolAnswer` and `McpExchange` | `Routines`, `McpExchange` |
| `TranscriptProofs`, `ChannelsProofs`, `ProjectFilesProofs`, `AutomationsProofs`, `RoutingProofs` | theorems about the module each is named after | |

Where one module of theorems extends two components, the specification of one of them
has names of its own (`GateSpec`, `ExchangeSpec`).

Every property that a run checks is paired with a slip: an altered form of a
definition the property depends on, as a change to the code could make it
(`StopWithoutWaking`, `RewindOffByOne`, `StillTheAskingCore` against
`SomeCoreIsThere`, ...). The slips stand in the modules right before the
definitions they alter and are used by no specification.

### ConsentCore

`pc` is where the worker is: at `queue.get()`, about to lower the stop flag, in a
job, or in one of the five points of `_ask_once` between which the lock is free.
`waiters` and `entry` are `_permission_waiters`; `cards` numbers the cards in the
order they are composed, so that a verdict can be traced to the card it was read
from (`outcome`). `AskOncePop` is the second critical section of `_ask_once`
together with the decision `_ask_with_keyword` takes on it, since nothing shared
is touched in between. A minted code is the number of its request; what the
person typed is any code minted so far or none. `allowed` is history: the cards the
last word on which was yes, Stop's no included. `Enqueue`, `PermissionRespond`
and `ConversationStop` may happen at any time, in any order: nothing is assumed of
the window, and an answer handled after Stop and before the worker has popped its
waiter is stored over Stop's.

The build-error branch of the worker loop, which answers every job with one
sentence, and the end of the process are not modelled: neither meets a waiter.

### ConsentSession

`toCore` and `toView` are the pipes. The window's state is the turn on screen
(`currentTurnRef` and `isWorking`, which change together), the card on screen,
its `expired` flag and the resync poll, whose reply is ignored once its effect
was torn down (`cancelled`). A run from the routine list needs no turn and so is
offered no poll. `pressedOn` is history: which card the person was looking at
when they gave the answer now stored.

### PermissionGate

Jobs run one at a time and block while a card is up, so one call of the gate is
one action, card and answer included. `Requests` is what a caller passes; `Route`
is the order of `authorize`'s branches; the six actions of `Authorize` are what
can come of a route. The callers differ in which requests they can make: the
refusals above the gate (`_run_tool_calls`, `_pre_gate_refusal`) are the guards
of `TurnCall` and `RoutineCall`. A preview that cannot be built is a request
with `requires` and no `preview`. `saved` is one restore point of the list:
whatever would write another may replace it or keep it, so that it stands for any
entry one may go back to.

### Transcript

`mem` is `conversation.messages`, `ids` is `_message_ids`, `store` the rows.
`shown` holds the ids the window may rewind to. Messages are their kind, the
number of tools they ask for and their store id; text is left out. A turn is
`Send`, then rounds of `AskForTools` and `ToolResult`, then `Answer`, one
`PersistMessage` per message, and `TurnSaved`; `TurnFails` and `PersistFails`
are the `except` and `finally` clauses. `Continue` is a whole continuation: the
worker does nothing else meanwhile, and whether the chat is over its budget and
whether the summary could be had are left open (`CarryOn` is always possible
too). `Relaunch` is the end of the process at any point.

Two things are left open on purpose. The order of rows is the order they were
written in, where the store sorts by wall-clock seconds. And a store write may
fail once between two openings of a conversation, which is the bound on failures.
`slipped` remembers that it did, and keeps on remembering when a continuation takes
over: what a rewind by misplaced ids cut in the middle of a call goes on in the seed.

### RestorePoints

A restore point is the number of its creation, so that "older" is "smaller";
`points` keeps the content of every one ever saved, and `rows`, `verified` and
`rotten`, `files` and `stamped` say what the table and the sidecar files still
hold of it. A configuration is what the person chose (`setup`) and how often a
captured timestamp had moved (`at`): `updated_at`, `run_count` and `last_run_at`
are columns of captured tables and so part of the fingerprint, and two
configurations are identical to the code only when both agree. `known` is the
one uncaptured column that matters, `secret_presence`: a restore resets it, and
the next look into the keychain writes it together with `updated_at`.

The place of a walk is kept three times: `memory` (`_last_restored_id`), `note`
(the walk-position file) and the target on the newest `pre_restore` row.
`WalkMarker` is the order they are asked in. `PressWalks`, `PressReadsFiles` and
`PressAtTheBottom` are the three ways `restore_last_working` can go, each with
the escape it saves first and the sentence it ends in (`said`). How a write ends
is chosen from `Saves` and `Writes`: both copies, the row alone or nothing; the
file written, kept as it was or emptied by an attempt that failed after the
truncation. `proven` and `standing` are history: what did answer a message, and
where the last restore landed for as long as the person has changed nothing.

The clock of the age floor is the wall clock, so the points past it may be any
prefix; the module takes none or all (`Ages`). At most one file is tried in vain
before the one applied (`Tries`).

### Channels

`loop` holds the poll threads of one launch, numbered in the order they start,
and where each is in `_poll_loop`: at the top, where the event and the token are
looked at, in the poll, handing over a batch (the numbers of its updates), waiting
after a failure, or gone.
`current` is the thread a channel has (`_threads` and `_stops`, which move
together). Switching off sets an event and forgets the thread; the thread ends
when it next looks, so it may run beside its successor, and `_token_rejected`,
called by either, stops whichever loop the channel has then. `sent` is everything
written to the bot, an update's id its place in it; `acked` is what the transport
has forgotten, because a poll that asks from `cursor` acknowledges all before.

The worker's part is `Turn`: each disjunct is one way through
`_run_channel_turn`, from a row that is gone to a turn that runs. What a turn does
is left open but for what it leaves: a note for the desk. A stranger's message is
a code or is not; a window counts wrong codes and times out. The desk's methods
are jobs, hence single steps; those that refuse change nothing and are left out.
`StopAll` goes over the channels that have a loop, as `stop_all` does: a pairing window
that `BeginPairing` opened on a channel without one stays open.
Tokens are pasted, removed and revoked at any time, and any poll may fail for
another reason.

### ProjectFiles

`disk` maps a name to nothing, a file or a link; files have numbers (the inode)
and `text` their contents, so that "the same file under another name" and
"another file under the same name" can be told apart, as `file_revert.py` does.
`log` is `action_snapshots`, `redo` the redo stack, `written`, `created` and
`deleted` the ledgers of the Tauri shell, which decide whether it will put a path
back. A chain (`Chain`) is the connected set of rows of one name or one file.
`ListEdits` and `ReadEditDiff` are the payloads of the review surface and change
nothing; `RevertFile` is the whole of `revert_path`, adoption included. The person
edits, replaces, removes, moves, links and hard-links files, changes trust and
profile. `Restart` empties the ledgers and the redo stack and prunes the rows.
A row may fail to be marked after the file was put back.

### Routing

`catalog` and `pool` are the two places a provider's models live in, and they
differ: `ProviderConnect` replaces the provider's slice of the catalog but only
adds to the pool. `RunTurn` builds the chain from the pool, with the catalog
asked for each model's provider and rank; `Attempt` is one send with its three
outcomes (an answer, calls of tools, a failure of one of four kinds), any of them
after part of the text was shown. `Candidate` is the next in the chain, of the
same provider once a tool round is done. A model whose catalog entry is gone has
the provider `unknown`, as in `find_cloud_model`. A local server may refuse a call as if
for a key, like any other. `SendMessage` is the head of
`_run_send_message`: the role, the person's pick, the look into the keychain that
decides between the relay, a refusal and a turn. `voices`, `asked` and `keyed`
are history: who showed text, which server was asked, and whether the key was
there. What is kept of a list is given by the places it has there, and what is
sorted by which place goes ahead of which (`At`, `Arranged`), since nothing is known
to the prover of a sequence that is filtered by a test. The lookup of a model's client
and the failure kinds `unavailable`,
`model_gone`, `key_rejected` and `rejected` stand for the error classes of
`providers/base.py`.

### ShellCalls and Automations

`ShellCalls` is what a caller relies on: a request is carried out at most once,
and its thread comes back with the answer to that very request or with none, or
dies with the core. `Automations` is the bridge as it is: `pending` and its
counter, which starts again at 1 with every core; frames read by a pump that
waits for folder dialogs and hands everything else to tasks; tasks that note the
core's `generation` in their first step, act at any time later, and answer the
core of that generation or nobody. A time-out (`Return` with no answer) may come
at any time, an answer just in or not. The refinement is by the variables
`asked`, `waiting`, `answered` and `told`, which are history in the detailed
module: the property `CallsComeBack` is the abstract specification as a whole, its
fairness included.

The automations themselves are `rows`, launchd's `file` and `loaded` job for each
label, and the worker's calls: `arm` and `disarm` as `automation.rs` carries them
out. `launchctl bootout` works, hangs with its part done or not, or answers that it
could not; only the second keeps the file. A list is of what was seen in the folder,
which is any part of what is there when the folder or an entry cannot be read. Three
variables are history: `refused`, the labels whose job launchctl last would not
unload; `blind`, the calls answered with an incomplete list; `lost`, the labels of an
arming nobody waits for any longer.

`Respawn` relies on `RespawnTakesSeconds`: in the second and a half the supervisor
sleeps, each task that was spawned has taken its first step and noted its core's
generation. That is an assumption about the scheduler; `agent_process.rs:281` states
it, and nothing in the code enforces it.

### McpServers and Routines

`McpServers` has the rows (`servers`), what the last check of each came to
(`found`), the ids registered for it (`idsOf`) and the one `registry` that every
dispatch asks. A check is whole: the handshake, the pages (`ListTools`), then
the registrations, which may raise half-way (`RecordBroken`). `NewIds` is the set of
ids a round of `registry.register` adds; `Refused` are the tools whose id is taken
already. `Forget` serves removal and restore. With the names the code admits `Refused`
is always empty: server names are unique whatever their case, a tool's name has no
colon (`_PLAUSIBLE_NAME`), no native tool's id starts with `mcp:`, and one check never
admits a name twice. It is kept, since the row's count of what was not taken adds it up,
but no run shows a tool refused.

`Routines` puts the library and the runs beside them. A plan is a sequence of
steps with what they wait for, what they quote and what to do on failure. `Visit`
is the depth-first order of `engine.topologically_sorted`, a recursive function on
a step and the state of the sort; `TakenOut` is the other reading of the same
words, in `portable._check_dependencies`: what its rounds take out is the least set
that holds every step whose needs it holds. A run is a job:
`Unresolved`, `StepRefused`, `GateAsks`, `GateDenies`, `ToolRuns`, `KeepGoing` are
the points at which the engine goes on, and each result carries the set of file
steps whose text it holds. What the gate says is left open, but that it has to
ask when the taint line is due; `PermissionGate` has its rules. Which arguments
fail to resolve and which paths are refused is left open as well. Stop and the
answer to a card arrive from the read loop at any time, an answer after Stop too, which
then counts; relaunch at any time.

### ToolAnswer and McpExchange

A character of an answer is its kind and the place it had. The kinds are those that
`clean_result_text`, the redactor's rules and `str.strip` tell apart: characters of
the credential alphabet (one that starts a prefix, one that starts the word ahead of a
key, any other), white space, a letter of no key, any other visible character, the
redactor's mark, and of those nobody sees the unprintable ones, the printable ones and
the fillers, which are letters to a regular expression. A rule is of one of two shapes:
a *word* (`InKey`) is a prefix at a word boundary and a body right behind it; a
*phrase* (`InPhrase`) is a word, white space, and a body, which is what the rules for
`Bearer`, the AWS secret and private keys have in common. The vendors' lengths come down
to one character of the body, and a mark of the redactor or a quote of the serializer
is one character.

A structured answer is a list of keys and values. `ScrubStrings` cleans and redacts
each by itself and rebuilds the document: keys that now read alike become one, with the
first one's place and the last one's value. `Result` is `compose_result` after that. The
properties compare it with the raw answer (`KeyPlaces`: what somebody sees who reads
past invisible characters).

`McpExchange` is `_Session` and `open_vetted`: three requests, each posted,
vetted hop by hop, tried address by address, its head awaited and its body read
in chunks, with a clock in units. The timeout is the socket's, hence for one wait:
to connect, to agree on a cipher, and for each piece in which the request goes out
and the head comes in (`HeadPiece`, at most `MaxPieces` of them ahead of the last). A
lookup of a name has no timeout in the code, so it takes up to `MaxLookup`.
`discover_tools` is the same exchange followed by the pages that `McpServers` has.

## What the runs show

| Run | Instance | States | Shows |
|---|---|---|---|
| `consent_session` | 1 tool, 2 tries, 1 request per job, 2 jobs, 2 frames per pipe, 1 lost card | 458 thousand | a grant is the last word on its card, the pending answer is the open card, a card of the running turn comes up, an arming grant is the answer to that request, Stop reaches the worker |
| `permission_gate` | 4 tools: plain, path, command, arming | 1.5 million | no approval outlives its posture, no saved spec rides on trust, a refusal holds for its job; no deadlock |
| `transcript` | 3 conversations, 6 ids, 1 round of at most 2 tools, 1 recent turn kept | 654 thousand | calls stay paired, ids follow messages, memory is on disk; no deadlock |
| `restore_points` | 2 setups (interchangeable), 3 points, 1 deletion, 2 moved timestamps, 1 failed read or write, the newest 2 kept | 629 thousand | the verified flag means what it says, the place survives a relaunch, presses only go back |
| `channels` | 1 channel, 2 phones, 2 loops, 2 messages, 1 window of 2 tries, 4 acts | 705 thousand | one loop that can go on, the cursor acknowledges what was handed on, a code pairs once, a message is taken |
| `project_files` | 2 names, 3 files, 2 rows, 2 acts of the person, 1 restart, 1 row that cannot be marked | 636 thousand | no other file is touched, a promised revert works and gives what the diff showed, redo stays newest |
| `routing` | 2 providers with 3 models and 2 lists, 1 local model, 2 rounds, 1 call, 3 acts | 310 thousand | local stays local, the relay needs a missing key, one voice, substitutes are told, turns end |
| `automations` | 2 labels, 2 commands, 3 acts, 3 calls, 2 cores | 210 thousand | the bridge implements `ShellCalls`; off is off, a removed row leaves no file, but where launchctl or the folder failed |
| `routines` | 1 server name, 2 rows, 4 replies, 3 turns, 3 files, 1 run, 7 acts, 1 fault | 309 thousand | registry and catalog agree, nothing is dropped unsaid, plans can start and are kept to, file text is told, Stop ends |
| `mcp_exchange` | budget 6, timeout 2, lookup 5, 2 redirects, 3 addresses, 2 pieces of a head, 3 chunks; all texts of up to 3 characters and chosen longer ones | 114 thousand | in time, no key, what is left out is told, the call ends |

Why the bounds are enough. In the consent modules what matters is one request
meeting the remains of another: two jobs and two tries give a later request of the
same tool, with another code, and a later card of the same request. Another tool only
makes an answer miss, and that the properties hold with any number of tools and
requests is proved; `stop_denies` has two of each. Two frames in a pipe let a Stop cross an answer and
a card cross a poll. In the gate the tools are one per class the code tells
apart, and nothing is counted, so the state space is the whole of it. In the
transcript two stored turns are needed for a cut, a third conversation for a
continuation after a continuation, and two calls for a half-answered round.
Three restore points are a place, what it is left from and what is pruned or
deleted under it; two setups are the one escaped and the one returned to; one
failure at a time is what the code promises to survive; `KEEP_LAST` is 2 instead
of 50 so that retention bites. Two loops are the one told to stop and its
successor; a second phone makes a code used twice possible, and a second message
a batch of which one part is handed on. Two names are a file and where it went;
three files are the person's, Addison's and the one put in its place; two rows
make a chain with an oldest and a newest, and a redo stack of two. Two providers
give a chain that crosses from one to the other and a catalog entry two of them
claim; three acts are connect, reconnect with a shorter list, and send. Three
calls are an arming that times out, another core's call under the same id, and
the removal that meets them. One run of a routine is enough because nothing of a
run outlives it but its row. With a budget of three timeouts every wait can begin
before the budget's end and finish after it.

`CHECK_DEADLOCK FALSE` stands in all runs but `stop_denies`, `permission_gate`
and `transcript`. In a session, at a disk or at the desk the person may do nothing
more, so the system really may rest, and an exchange with a server is over when
it is over.

Two runs show where the code does otherwise than it says:

| Run | The code says | The run shows |
|---|---|---|
| `stop_denies` | after Stop "the blocked worker gets `DENIED` and its tool never runs", and a late answer "finds no waiter" (`main.py:2283-2292`) | the waiter stays in the table until the worker pops it; an Allow handled in between replaces the refusal, and the stopped call is granted |
| `disconnect_drops` | `provider.disconnect` drops that provider's models from the picker union and the router pool (`rpc/providers.py:463`) | it unregisters the models the catalog has at that time; those of an older, longer list stay in the pool and may be asked |

### Other disagreements met while modelling

These were seen in the models. No run checks them, and the properties are stated
so that they hold beside them.

- A Stop for a turn that is still queued is lowered by that very turn, where
  `main.py:1569` says the job being dequeued is never the one it was aimed at.
- An answer finds its waiter by tool id, so an answer to an earlier card can grant
  a later one of the same tool, against `main.py:2085`; arming cards are safe, their
  code belongs to the request.
- A refusal given in a routine or widget run is remembered into the next one, where
  `gate.py:526` speaks of the rest of its turn.
- After a row could not be written, messages and ids are no longer aligned, against
  `conversation.py:342`; after a continuation the ids handed out for "Rewind to
  here" belong to the conversation just left (`conversation.py:370`).
- A message answered between two presses of the restore button moves `updated_at`;
  the walk takes its place as left and starts from the top
  (`snapshot_manager.py:919`).
- A message handed to the worker's queue is acknowledged by the next poll and lost
  with the process, where `channel_service.py:586` calls the delivery at-least-once.
- Undoing a save goes by the path alone and deletes whatever stands there by then
  (`filesystem.rs:400`), where `save_file.py:71` speaks of the file it created.
- Undoing an arming looks at no answer (`arm_automation.py:542`), where line 518
  calls it a real undo, and a complete one.
- When recording an action for undo raises in the middle of a run, the run's row
  stays `running` (`routines/engine.py:464`).
- The one budget that "covers the WHOLE exchange" (`mcp_client.py:38`, and
  `_read_answer`, which calls the body "the only loop that can run for hours") does not
  cover the sending of a request and the head of its response: each piece of them has
  the socket's timeout anew and no clock is asked (`net_vetting.py:343-354`). `InTime`
  therefore adds one timeout for each piece.
- A switched-off automation "won't run any more" (`disarm_automation.py:115`). A
  bootout that answers with an error is taken for a job that was not loaded
  (`automation.rs:316`, by intent): the file goes, and a job launchd would not unload
  runs until the login session ends.
- `_disarm_before_forgetting` says that "I could not find out" and "there is nothing
  to switch off" must never be collapsed (`rpc/automations.py:370`). The shell
  collapses them: a folder it cannot read is an empty list, and supported
  (`automation.rs:216-222`, 627-631). The row is then forgotten with its file there.
- A local model whose server answers as if a key had been refused is replaced by the
  next candidate with no note and nothing on record; `rpc/providers.py:313-315` says so,
  "silently", where the note exists to surface a quiet substitution.
- `stop_all`, "every channel, off", leaves open the pairing window of a channel without
  a loop (`channel_service.py:325-328`).
- A credential of several words comes through where a character nobody sees stands beside
  its white space: white space is of no key's alphabet, so `clean_result_text`
  (`mcp_client.py:512-514`) keeps the character and the rule misses. A filler right
  ahead of a prefix is a letter to `\b` and hides the boundary from the rules anchored by
  it. Other shapes of white space that cleaning removes, and the rules that end in `\b`,
  are finer than the model.
- Keys of a structured answer that read alike after cleaning become one, and the values
  of all but the last are gone with no word of it. `_scrub_strings` calls that "the
  correct answer" (`mcp_client.py:673-674`).

## Fairness

`ConsentCore` assumes weak fairness of the worker: a thread of the process,
blocked only by an event or an empty queue. `ConsentSession` adds the read loop,
the two pipes and the resync interval, which are all loops of running processes.
Nothing is assumed of the person, who may never answer and never press Stop, and
a notification may be lost. `Channels` assumes each poll loop goes on, since every
wait of it has a deadline; nothing is assumed of the worker, who may sit at a card
for ever. `Routing` assumes that a send comes back, as the provider's own timeout
has it. `Automations` assumes only that `event.wait` of the bridge ends by itself;
the shell may never answer. `Routines` assumes the worker; people answer cards
when they like, and `StopEndsTheRun` needs nobody to. `McpExchange` assumes that a
wait on a socket ends at its timeout. The other modules have safety properties
only.

## What is proved

All theorems hold for every value of the constants that meets the named
assumptions (`ConsentAssumption`, `ToolAssumption`, `TimesAssumption`,
`ChannelsAssumption`, `TranscriptAssumption`, `RoutingAssumption`,
`ModelsAssumption`, `ServersAssumption`, `RoutinesAssumption`,
`ExchangeAssumption`); those about `Automations`, `ProjectFiles` and `RestorePoints`
use none. Of the inputs these assumptions ask what Python's types give: pages,
entries, steps and needs come in lists, and an answer (`IsAnswer`) is made of lists
of texts. That each character of an answer has a place of its own is how the model
tells characters apart, and excludes no answer. Every
safety property and every action property of a passing run is stated by a theorem.

`ConsentProofs` proves the safety properties of the `consent_session` run and
the ones they rest on, for any number of tools, tries, requests and jobs. The
argument is in three layers.
`OneRequestAtATime` ties `pc` to the request: a request is in progress exactly
between its start and its verdict, and the waiter table is then either empty or
holds its tool alone. From it follow the table's contents, and that Stop holds:
registration is refused under the lock that raised the flag, and a waiter
registered earlier was woken. `WaitersAgree` says what a waiter can look like: an
event is set exactly when an answer is stored, and a stored "allow" is the last word on
this card. It is needed for grants, since the verdict is read two steps after
the answer. `TriesAddUp` counts: the cards of a request and its tries left sum
to the budget, which is not visible in `CardBudget` alone.

It proves too that `ConsentSession` implements `ConsentCore`: each of its steps is a
step of the core or leaves the core alone (`SessionImplementsCore`), so that what is
proved of the core's steps holds with the window and the pipes around it
(`SessionIsSafe`). The one thing to show is that the window sends no answer
`ConsentCore` does not allow for, that is, no code that was not minted. It comes with
the invariant for `ArmingGrantIsItsOwn` (`SessionInv`). A code is in four places on
its way: on a card toward the window, on the screen, in an answer toward the core, and
on a waiter. `Meant` says of each that the code was minted, and that if it is the
code of the request now open, the card it travels with came after that request
began. A new request makes none of this false, since its code is newer than every
code under way (`AskFollows`); only that a request reuses no code is needed of the
core, and the proof fails without it.

`PostureProofs` proves every property of the `permission_gate` run, and
that memories stay apart, weak guards are anchored, arming always asks and a turn
from a phone never does.
`SavedIsAnchored` strengthens `WeakGuardsAreAnchored`: a restore may bring back a
weak pair, so the saved one must be anchored as well. `RemoteInterlock` keeps
what `StartRemote` checked true for the whole turn (the posture cannot move while
a job runs), so that every call of a remote turn is granted by itself.
`NoIsRemembered` says that a tool refused on a card is in `denied`, and
`NoRouteAround` that no branch grants such a tool.

The same module proves the three properties of the `restore_points` run. That a
point called verified did answer a message needs only that rows, files and what is
said of them are of points once saved (`PointsInv`). That a press goes back needs
nothing more of the invariant, and a look at every way one press can go. For the
relaunch, `PlaceInv` says that where the note could not be written, and nothing else
went wrong, the escape saved last names the place, and that if its row is there its
file is there too; and `Unhurt`, that before the first failure no row is rotten, so
that the one failure allowed is the note's and the row can be read.

`ChannelsProofs` proves that at most one poll thread has not been told to stop, that
a code pairs once, and that the transport forgets nothing that was not handed on.
For the first, `LoopInv` says that the table names threads
that were started, for their own channel (`TableIsOfLoops`), that a thread nobody
told to stop is the one in the table (`UnstoppedIsCurrent`), and that one channel
listens at a time (`OneListens`); without the table nothing would relate the
thread being started to the ones before it. Most actions only move a thread along
or end it (`Went`), so one lemma about them serves all. For the second, `CodeInv`
says that no two open windows have the same code, that the code of an open window
was used by no pairing, present or past, and that every used code was issued. For the
third, `CursorInv` says that what lies before a loop's cursor was handed on or is
still in its batch, and a loop that polls, which acknowledges, has handed on all of it.

`AutomationsProofs` proves the safety part of the refinement: every step of the
bridge, the supervisor and the automations is a step of `ShellCalls` or a stutter.
The pump answers by an id that starts again at 1 in a new core, while `ShellCalls`
numbers calls for good. The invariant is that the distance between the two,
`asked - counter`, is the same for all that belongs to the living core: requests in
the pipe, the one the pump holds, tasks that bear this core's generation, answers
on their way and the waiters (`Mine`, `BridgeInv`). An answer that carries a waiter's
id is then the answer to that waiter's call. `DeadInv` says that no waiter and no
answer outlives a core, and `TasksInv` that a task of an earlier core is known by
its generation and is the only one with its call.

That off is off and that a forgotten row has no job are proved from `ToldInv`. An
answer may lie on its way while other calls are carried out, so that what it says must
still be so when it is heard (`HeardInv`): a job found off stays off unless a request
to arm it is still under way, and such a request is the worker's own or that of a
label in `lost` (`SentInv`). What launchctl answered and whether the folder was read to
its end lies with the answer on its way (`refused`, `blind`). `RowsInv` says that an id has one label, so that the row
that goes is that of the label asked about.

`ProjectFilesProofs` proves that undo, redo and revert leave every other file alone,
that a revert gives what the diff showed, that what is called revertable is reverted,
and that redo stays newest.
The first two are about single steps, and need of the invariant only what the disk
and the rows can be (`DiskInv`, `LogInv`) and that the oldest row of a chain and the
newest one in force exist, which follows from the well-foundedness of the
naturals. `RedoInv` adds to `RedoIsNewest` that what may be done again is a row
that was undone.

`TranscriptProofs` proves the three properties of the `transcript` run from one
invariant. None of them holds of itself from step to step, for each speaks of some
states only: `PairInv` says what is paired while a call is still owed results
(`OpenAsk`), `IdsInv` how far the ids have got while a turn is written, and
`TurnInv` where the turn began. `DiskInv` is what makes a rewind safe: ids grow,
and a row the window may rewind to has its place in memory, where a message of the
person stands, so that the cut is never in the middle of a call
(`StretchIsPaired`). That rows have ids in the order they were written in
(`RowsInv`) carries this through a reload, whose places are taken in order
(`PlacesInOrder`), and that nothing has an id to come (`FreshInv`) through a
continuation.

`RoutingProofs` proves the four safety properties of the `routing` run.
`RoutesInv` says what catalog, pool and rows are made of, and `WalkInv` what a walk
knows: every candidate is of this computer or of the pool, those of a local turn are
all of this computer, what is on the screen is the text of the candidate the walk is
at, and a person's choice that refused its key has that on record. The chain is
filtered, sorted and put together from lists. What those operators do rests on one
lemma, `PlaceOfEach`: to count what is ahead gives each place of a finite set a number
of its own. An arranged list is then made of the members of the list it comes from.

`McpProofs` proves `InTime` for any budget, timeout, lookup time and
number of redirects, addresses, pieces and chunks. `InTime` is not inductive, since it
says nothing of how late a wait may begin; `Clock` adds what each phase knows. An
address is tried before the budget has run out; connecting and agreeing on a cipher
are two waits, each piece of the head is one and so is the last, and the body is read
under the clock from then on.

It proves `ToolsBelongToServers` for any number of servers, tools and restore
points. A check keeps what is known of its own server and what is registered for it
together; that it leaves every other server alone needs that an id belongs to one
server (`CatalogInv`), and a restore, which brings rows back, needs that a server's
id has had one row for good (`RowsInv`). The property itself says neither.
`FileTextIsTold` holds of any plan. `JobInv` says that every text anywhere in a run's
results is that of a step of this run, that a step which read a recognisable text is
among the sources (`TextsAreKnown`), so that the gate sees what the property speaks
of, and that a card which is up said what the gate had to say.

The loops over lists in these modules (the pages of a check, the visits of a sort,
the texts of an answer) are recursive functions, and to say what they compute takes
an induction that the provers cannot take from the library. Two arguments stand in
for it. That such a definition has a value is shown by taking its steps one after the
other (`Repeated`, `Folded`); for the sort, whose visits call each other, by rounds
that each use the one before and settle for every call, since a visit goes only to a
step that no visit around it is at (`CallInduction`, `RoundsSettle`). And where the
value were wrong there would be a least place where it is (`UpTo`, `NatHasLeast`), which
one step contradicts.

`NothingIsDroppedSilently` follows for one entry after the other: it is admitted, or
counted among the skipped, a repeated one too. A walk that ends adds one to the count
exactly when its last page named a page no page before it had named, which is when a
limit ended it. The tools shown are the admitted ones, each once, so that numbers shown
and numbers told add up.

`EveryRoutineCanStart` compares the two readings of a plan's dependencies. A plan
that `_check_dependencies` passes has no cycle; a visit of the depth-first sort then
comes to an end, never meets a step it is in the middle of, and leaves the step and
all it waits for in the list, once and in order. `PlansInv` says that every plan that is
saved, kept in a restore point or drafted is one that was passed, which holds because all three ways
in (a turn's calls, a file, a restore) check or bring back what was checked.
`ReplayFollowsThePlan` needs of this only that the steps of a job are such a list;
`RunInv` says that the results are of the steps before the one the run is at, and that
each failure among them is one the step or the person excuses.

`KeysStayBehind` follows a credential of one word from what the tool sent to what is
read of it. It is seen by somebody who reads past invisible characters, and it begins
where such a reader sees it begin; `Clean` takes away the invisible characters inside
it, so that it stands in one piece with a boundary ahead of it; putting texts together
and stripping leave it so, because what they put or take there is white space; `Redact`
takes it whole, and its second pass and the cap, which comes last, only take more. For
the structured answer this is done to each key and value, before they are written out:
with `ScrubsTheDocument`, the other order, the proof fails where the escape becomes part
of the text. `LeftOutIsTold` is arithmetic of the lengths in `Compose` (`ResultTells`),
with a case of its own for what is left of a text: something is not blank in it
(`SealShows`), so that a cut always has a text to be of. Both need of the exchange only
that what is taken for an answer is one that a server gave (`AnswerInv`).

Model-checked only: liveness (`StopReleasesTheWorker`, `OpenCardIsShown`,
`MessageIsTaken`, `TurnEnds`, `StopEndsTheRun`, `CallEnds` and the fairness part of
`CallsComeBack`), which is beyond the prover. `StopDenies` and `DisconnectDropsThePool`,
which say what a comment says and the code does not do, are refuted by their runs.

Preconditions that bound what is claimed. `PressGoesBack` speaks
of a place whose row and file can still be read. `PlaceSurvivesRelaunch` assumes a
note that is absent or current: a note that could not be overwritten and was left
whole names an older place and outranks the row that knows better. The properties
of `Transcript` except a conversation in which a row could not be written, or
one that continues it.
`SwitchedOffIsOff` and `RemovedIsNotInstalled` except a label whose arming somebody
stopped waiting for: that arming may still come true. The first excepts a loaded job
that launchctl would not unload, the second a file that was left out of the list;
everything about tasks and cores rests on `RespawnTakesSeconds`. `KeysStayBehind` is
about credentials of one word that begin where a reader sees them begin, and
`LeftOutIsTold` about the text and the document after redaction, where keys that read
alike are one.

## Plan

Done: the core and its window, the gate, the transcript, restore points, channels,
files and their ways back, routing, the bridge with automations as an
implementation of `ShellCalls`, tool servers, routines and the exchange on the
wire. What is left:

1. A stack of distinct proven configurations, popped one at a time, as the
   abstract specification of `RestorePoints` while nothing is changed in between.
2. The clock of the store: rows sorted by wall-clock seconds.

## Not modelled, and why

The HTTP adapters of providers, the static catalogs, prompts and the wording of
explanations are conversions of text. The screener is a list of patterns. Skills,
knowledge, memory facts and widget rows are created, read and deleted by one
thread, and nothing there relates two pieces of state. The keychain, the running of
commands and the path checks of the shell are effects of the operating system
behind checks of one argument. React components are presentation. Titles, renames
and listings change no message; previews and schedules of automations change no
job. Each is listed in `PROJECT.json`.
