# OpenClaw sandbox blueprint in TLA+

Specifications, model checking and proofs for the OpenClaw sandbox blueprint
node: the instance store, the lifecycle jobs, the Docker runtime adapter, the
queries that refresh records, the terminal and chat sessions of the operator API;
and of the owner UI in the browser, with the server it talks to in demo mode.
`PROJECT.json` maps every definition to the lines of Rust, TypeScript or
JavaScript it stands for. Paths below are relative to `src/`; `lib/` is short for
`openclaw-sandbox-blueprint-lib/src/`.

## 1. The system

A Tangle operator runs one node process. Jobs arrive from the chain through the
blueprint runner; owners and operators talk HTTP to the operator API of the same
process. Both work on the same records, through one runtime adapter, and neither
locks an instance while it works on it.

```
  chain jobs --> lifecycle jobs --+                       +--> Docker daemon (CLI)
                                  +--> runtime adapter ---+
  HTTP -> auth -> operator API ---+    (one per process)  +--> instance store -> instances.json
                    |                                                (mutex, temp file, rename)
                    +--> query layer (refresh + save)
                    +--> terminal / chat sessions (memory only), SSH, TEE proxy
   ^
   |   owner UI (browser): API client --> operator API, or the demo server
   +-- wallet, target chain <-- panel with selection, sessions, jobs
```

### Components

| component | state | operations | what makes it correct |
|---|---|---|---|
| instance store (`lib/state.rs`) | `Mutex<BTreeMap>`, `instances.json`, temporary files | open, insert (clone, write, fsync, rename, fsync directory, install), get, list | an acknowledged insert survives crashes; the file always parses; a failed insert leaves memory alone |
| lifecycle jobs (`lib/jobs/lifecycle.rs`) | none of their own; a copy of one record while they run | create, start, stop, delete | only the owner acts; only the transitions of the job table; deleted stays deleted; failures are visible in the record |
| create profile (same file) | none | validation, JSON parsing, sanitize_subdomain | total, within the length limits, no clashing subdomains |
| Docker adapter (`lib/runtime_adapter.rs`) | settings read once; containers, through the CLI | create, start, stop, rm, exec, inspect; refresh, trigger_setup, SSH key, command | record and container agree; no container without a record; the published URL is right |
| local-state adapter (same file) | none | the same hooks, as no-ops | like the Docker adapter without a container |
| query layer (`lib/query.rs`) | none; copies while it runs | list views, get view (each refreshes and saves), template packs | reading never damages what jobs wrote |
| operator API (`lib/operator_api.rs`) | terminal sessions, chat sessions, runs, event channels | about 25 routes | owner scope on every route; a session ends once; events reach the stream |
| auth (`lib/auth.rs`) | challenges, session tokens | challenge, verify, token login, resolve | challenges are used once; tokens expire; a scoped token stays in its instance |
| node process (`openclaw-sandbox-blueprint-bin`, TEE variant) | runner, server, shutdown channel | start, test mode, shutdown | shutdown ends |
| owner UI: panel (`ui/src/App.tsx`) | list, selection, token, scoped sessions, what the panels show, spinners, an open dialog | refresh, the buttons of an instance, login for an instance, jobs, provisioning | answers go to the selection they belong to; jobs are for the instance that was confirmed; a spinner means work |
| owner UI: wallet and chain (same file) | connection, last chain seen; the wallet's chain and RPC are outside | connect, check or force the chain, self-heal the RPC, sign | a check that succeeds means the target chain; it ends; it fails only for a reason |
| owner UI: delayed deletion (same file) | one timer ref, one pending deletion, a toast | queue, undo, settle | Undo reaches the timer it is shown for |
| API client (`ui/src/lib/api.ts`) | none; flows of several requests | terminal command, quick chat, login, provisioning, single requests | what a flow opened it closes |
| demo server (`scripts/dev/ui-demo-server.js`) | instances, chats, challenges, terminals, event streams | about 25 routes | streams mirror the history; a session is for its challenge |
| Docker daemon | containers and their published ports | create, start, stop, rm, inspect, exec | external |
| scripts, contract registration script, templates, embedded bundle, vendored libp2p | - | - | tooling, generated or third-party; outside the project |

### How they interact, and what is hard

* Handlers are asynchronous functions on a multi-threaded runtime. A handler
  reads a record, runs docker commands that take from milliseconds to minutes
  (`on_start_instance` alone sleeps one second), and writes its *copy* back. Any
  other handler may read and write the record in between. Nothing in the source
  orders jobs against HTTP requests, and we assume nothing orders jobs against
  each other either.
* Queries write. `GET /instances` inspects every container and saves every
  record that looks different.
* Containers change on their own: a process exits, somebody uses the docker CLI,
  the host reboots.
* Every docker command and every file operation may fail, each with its own error
  path, and the process may die between any two steps. After a restart the node
  loads `instances.json` and reconciles nothing.
* Docker chooses a new host port whenever a container starts.
* Sending a chat message and running a terminal command take as long as the
  command in the container. The chat handler looks its session up *after* the
  command, the terminal handler takes the session's sender *before* it; sessions
  are closed, renamed and written by other requests meanwhile, and event streams
  come, go and fall behind.
* The UI has one timer ref and one pending deletion, shared by all deletions that
  are at some stage.
* Every handler of the UI is an async function that keeps the selection, wallet
  and token of the render it was clicked in, while its answers change the state of
  today. Two handlers of one kind share a spinner.
* The wallet is a process of its own: prompts stay open after their request has
  timed out, the user moves to another chain during a check, and an RPC that the
  wallet saved long ago is dead or of another network.

The full list, each at its line, is under `hazards` in `PROJECT.json`.

## 2. Modules

| module | models | lines of thought |
|---|---|---|
| `DurableMap` | what the store promises | a map in memory, a file, and the versions a power loss may bring back; used as the store by `ClawLifecycle` |
| `InstanceStore` | `InstanceStore::insert`, `persist`, `open` | one action per file operation, under the mutex, each may fail; process crash; power loss |
| `InstanceStoreProofs` | | invariants and refinement of `DurableMap`, proved |
| `ClawRecord` | `InstanceRecord`, `RuntimeBinding` | the record after each outcome of an adapter call, as operators |
| `DockerDaemon` | the daemon behind the CLI (external) | a container's status and published port |
| `ClawLifecycle` | `jobs/lifecycle.rs`, `query.rs`, the instance routes of `operator_api.rs`, the Docker adapter | tasks in flight; safety properties; the inductive invariant |
| `ClawLifecycleProofs` | | the node's safety properties and its refinement of the contract, proved |
| `LifecycleContract` | the job table of `docs/ARCHITECTURE.md` | abstract: every step is one row of the table |
| `ClawPromises` | sentences of the docs and comments | action properties, refinement of the contract, fairness and convergence |
| `SessionGate` | `lib/auth.rs`, `load_scoped_instance` | tokens with their claims; the check every session route begins with |
| `Broadcast` | event channels and SSE responses (external) | a queue per stream, bounded; the oldest events are lost |
| `BroadcastProofs` | | lemmas about queues and streams, for the two modules that use them |
| `ChatSessions` | the chat routes of `operator_api.rs` | one step per route; sending a message in three |
| `ChatLog` | what a chat session is to its owner | abstract: a log that only grows until it is closed |
| `ChatPromises` | | properties of the chat routes, refinement of `ChatLog` |
| `ChatSessionsProofs` | | the safety properties of the chat routes and the refinement, proved |
| `TerminalSessions` | the terminal routes of `operator_api.rs` | one step per route, and one per piece of output; its properties |
| `TerminalSessionsProofs` | | its safety properties, proved |
| `SessionDeletion` | `queueSessionDelete`, `undoPendingSessionDelete` in `ui/src/App.tsx` | the stages of several deletions, one ref, one pending deletion; its properties |
| `OwnerConsole` | the panel of `ui/src/App.tsx` | list, selection, sessions and the handlers behind the buttons; its properties |
| `OwnerConsoleProofs` | | the panel's safety properties, proved |
| `WalletChain` | `connectWallet`, `forceWalletToTargetChain`, `ensureTargetChain`, `signWithConnectedWallet` in the same file | one flow per call, a step per request to the wallet; its properties |
| `OwnerFlowsProofs` | | the safety properties of `WalletChain` and of `SessionDeletion`, proved |
| `DemoServer` | `scripts/dev/ui-demo-server.js` and the flows of `ui/src/lib/api.ts` | one step per request; requests and answers get lost; its properties |
| `DemoServerProofs` | | its safety properties, proved |
| `MCInstanceStore`, `MCClawLifecycle`, `MCChatSessions`, `MCTerminalSessions`, `MCOwnerConsole`, `MCOwnerFlows`, `MCDemoServer` | | instances for TLC |

`InstanceStore` implements `DurableMap` (checked and proved), and `ClawLifecycle`
instantiates `DurableMap` as its store instead of repeating the file operations.
`ChatSessions` and `TerminalSessions` extend `SessionGate` and `Broadcast`, and
`ChatSessions` implements `ChatLog`. They do not share state with the lifecycle:
a session handler reads the owner and the variant of a record, which never change.
`OwnerConsole` and `WalletChain` stand on the two sides of `ensureTargetChain`: the
panel knows that it succeeds or not, and `WalletChain` says what either means.

### From code to state and actions

*Store.* `mem` is the `BTreeMap`, `file` what the operating system shows as
`instances.json`, `durable` what the disk may hold after a power loss. `Acquire`,
`CreateTmp`, `WriteTmp`, `SyncTmp`, `Rename`, `SyncDir`, `Commit` follow the
lines of `insert` and `persist` in their order; `Fail` is the `?` of each of
them; `Reopen` is `open` in the next process. A rename that was not followed by a
directory sync may or may not be found later; data that was not synced may come
back torn.

*Node.* `task[t]` is a handler in flight: its kind, the step it is at (`pc`), the
instance, the caller, the copy it will write back (`rec`), and for queries the
copies still to be refreshed (`todo`). One step is one docker command or one store
operation together with the computation up to the next one; reading the record
and checking owner and state is the `Begin` step. A rejected request changes
nothing and is the absence of that step. Failures of docker commands and saves are
disjuncts of the step, and lead where the code's `?`, `let _ =` or `match` leads.
`acked` remembers the ids whose create returned Ok, for `AckedCreateSurvives`
only; `used` the uuids generated so far.

Records keep `state`, `owner`, `container_status`, `setup_status`, `last_error`
and `ui_host_port`. `last_error` is reduced to who set it. Names, images, tokens,
timestamps and messages are left out: no handler decides by them. Because two
docker errors may differ in text, a refresh that fails again may or may not save
(`Refreshed`).

*Daemon.* One container per instance, with the status that `docker inspect`
reports and the host port it currently publishes. `restarting` and `dead` are not
modelled: the adapter sets no restart policy.

*Sessions.* `chat` and `term` are the maps of `LiveSessionStore`; each call on it
is under its mutex and so one step, `update_chat` with its closure included. `req`
and `run` are the requests that take longer: `BeginSend`, `ExecuteCommand` and
`CreateAndRun` are the checks up to the command, `RunChatCommand` and `RunCommand` the command,
`UpdateChat` the rest of `send_session_message`, and `Publish` one `send` of
`publish_terminal_output`. The two events of an answer are one, because what an
abort may send between them it could as well have sent before or after. Reading
routes and refused requests change nothing. Owners are compared as lower-case
addresses in the code and as values here. A stream (`stream[x]`) has the events
that wait in the channel and those the client has read; `Capacity` is 128 or 256
in the code and 2 or 3 in the runs, so that streams do lag.

*Panel.* `task[t]` is a handler between two awaits, with what its closure has
captured: the instance (`of`), the wallet (`by`), the token (`with`), and for a
confirmed job the instance the dialog names (`named`). The node is a set of
instances that only grows. It makes a list in a step of its own, `NodeLists`: what
it has then and the token may see (`Sees`: an operator's token all, a scoped one its
own instance); the list is shown later, by `ShowList`, when the node has more, a
newer list is on the screen, or token and wallet are others. Tokens in `Refused` may
be refused, because they have expired or the node does not know them. `due` is the effect on token and refresh that React has yet to run; `shown` what
the panels of access, terminal and TEE contain, with whether it arrived for an
instance no longer selected. Buttons are off as the code has them off, except for
the status of a transaction in flight, without which more jobs overlap; the
confirmation is a modal dialog, so only answers, the timer and the wallet go on
behind it. `submitJob` comes from a package outside the repository; it is given no
account, so the wallet that is connected when it is called signs.

*Wallet.* `chain` and `rpc` are the wallet's, changed by the user, by granted
prompts and by prompts answered after their timeout (`open`). A flow remembers the
chain of its render (`cap`), and two marks for the properties: `drift`, the user has
moved the wallet since the flow looked, and `cause`, something refused, failed or
timed out. Stages are named after the requests; `switch2`, `add2` and their like
are the repetitions further down in `forceWalletToTargetChain` and the self-heal of
`ensureTargetChain`. `Builds` are the combinations of `STRICT_WALLET_RPC_MATCH`, a
contract address in the environment, and a provider in the page. We assume that a
provider in the page is the wallet that wagmi is connected to.

*Demo server.* Node runs one handler at a time, and each reads the body before
it touches the state, so each is one step. `flow[c]` is a function of the API
client at its n-th request; `orphans` are the terminals whose name or removal
got lost.

*Deletion.* `slot[d]` is one call of `queueSessionDelete` on its way: timer armed,
request sent, handled by the node, settled. `timer`, `pending` and `toast` are the
ref, the React state, and the session the Undo button on the screen has captured.
The mutation hook comes from a package outside the repository; as TanStack Query
does, it runs the callbacks of the request sent last only.

`InspectNamesMissing` says whether `docker inspect` of a removed container
answers with the words `No such container` that `is_container_missing_error`
looks for (`lib/runtime_adapter.rs:1247`). Docker releases word it `No such
object` as well. The runs take it to be TRUE, the proofs hold for both values, and
section 6 says what FALSE means.

## 3. Runs

Bounds are in `Budget`: how many steps of each class (jobs, setup requests,
queries, docker faults, store faults, crashes, power losses, outside changes) a
behaviour may have; -1 is no bound. The state itself is finite, so most classes
need none. `MaxMoves`, `MaxStarts` and `MaxLost` bound in the same way what users do
and what gets lost in the UI's modules. `CHECK_DEADLOCK FALSE` stands in the
configurations of the node, the panel and the demo server because these do rest:
when no request arrives and no budget is left nothing happens, which is no
deadlock of the code.

| run | instance | question, and what it shows |
|---|---|---|
| `store_faults` | 2 threads, 2 ids, 2 records, 3 failures | `TypeOK`, `NoTornFile`, `AckedWriteSurvives`; and `ImplementsDurableMap`. Three failures allow a failed insert, a crash during the retry and a power loss after it. All hold. |
| `claw_overlap` | 1 instance, 2 owners, 2 handlers at a time; 4 jobs, 1 setup, 1 query; 1 docker fault, 1 failing save, 1 power loss, 1 outside change | `DeletedMeansRemoved`: wherever a copy of a record says deleted, even a stale one, the container is gone. `OnlyOwnerActs`: a handler is let in only for the owner that the record names, which stays the owner until it returns. `AckedCreateSurvives`: an acknowledged instance is in every map a restart can load. `NoOrphanContainer`: while only saves fail, create removes its container again. Two handlers make every pairwise race, four jobs a whole life with one step repeated. All hold. |
| `claw_contract` | 2 instances, 1 handler at a time, 1 port to compete for; 3 jobs, 1 setup, 2 queries; 1 docker fault, 1 failing save, 1 restart of the process, 1 outside change | `KeepsContract`: without overlap, the map that is served changes only by rows of the job table. Holds. A power loss is left out: after a save whose directory sync failed and a restart, the node serves a file that was never synced, and a power loss takes it back (`stopped` to none; TLC finds that in six steps). |
| `claw_converges` | 1 instance, 2 handlers, 2 jobs, 1 docker fault, 1 failing save, 1 outside change, any number of queries | `Converges`: if somebody goes on asking for the instance, record and container agree in the end, whatever stale copies were written and whatever failed. Holds. |
| `chat_sessions` | 2 sessions, 2 instances of one owner, 1 token, 2 sends, 1 abort, 1 stream on a channel of 2 | `HistoryIsPaired`, `MessagesFromOwner`, `StreamsFollowHistory`, `ImplementsChatLog`; `EveryAnswerIsShown` under fairness. One owner with two instances makes a session the caller's and yet of another instance; three events on a channel of two make the stream lag. All hold. |
| `terminal_sessions` | 2 terminals, 2 commands, 1 stream | `OutputInOrder`: order, completeness and no crosstalk, also when a terminal is closed in the middle; `EveryExitIsShown` and `StreamsOfClosedTerminalsEnd` under fairness. All hold. |
| `owner_console` | 2 instances of 2 wallets, one by access token; 2 tokens, one sees a single instance and may be refused; 2 handlers at a time, 4 clicks or changes; demo mode or not | `SelectionIsListed`, `SessionsOfTheOwner`, `PanelsFollowSelection`, `BusyMeansWork`. Two handlers make every race of two answers, an older list after a newer one among them, and four moves are enough to click twice, change selection, token or wallet under the answers, and click again. All hold, with the exceptions that the properties name. |
| `owner_flows` | wallet: every build, 1 flow after the other, 2 connectors, 2 moves of the user; deletions: 2 sessions, 3 deletions at a time | Wallet: `EnsuredOnTarget`, `NoFailureWithoutCause`, and `ChecksEnd` under fairness. One flow at a time and open prompts of earlier ones: those are what the wallet carries from one flow to the next. Deletions: `UndoReachesTheTimer`, and `PendingResolves` under fairness. Two sessions and three stages at once include a slow request, its successor and an orphaned timer. The two share no state, so each behaviour moves one of them only (`MCOwnerFlows`). All hold. |
| `demo_server` | 2 clients, 1 stream, 2 wallets, 4 ids, 3 starts, 1 loss | `ReplyAfterPrompt`, `EventsMirrorHistory`, `SessionAsChallenged`; `TerminalsAreClosed` under fairness. Two flows of two or three requests interleave in every way, one of them with a loss. All hold. |

Three runs show a disagreement between the repository's own words and what the code
does. Each checks one property that a document or comment states:

| run | says | what happens |
|---|---|---|
| `claw_deleted_is_final` | "The record is kept for audit purposes but marked as deleted." (`lib/jobs/lifecycle.rs:357`) | A query copies the record; a delete job removes the container and saves `deleted`; the query's inspect answers; the query saves its copy, and the instance is stopped again. The overlap alone is to blame: without it a deleted record stays deleted, whatever else fails (`DeletedFinalAlone`, section 4). |
| `ui_undo_in_time` | "Deleting ... in 8 seconds. Undo if this was accidental." (`ui/src/App.tsx:1053`) | The request for one session is slow; a second deletion is queued; the first one's callbacks set ref and pending deletion to null; Undo finds no timer to clear, and the second session is deleted. |
| `ui_confirm_names` | "This will permanently delete "${...instanceName}". This action cannot be undone." (`ui/src/App.tsx:3006`) | One wallet owns two instances. A refresh is answered before the second is there, the answer takes its time; another refresh lists both. The owner selects the second and opens its dialog. Now the older answer arrives and moves the selection to the first. The dialog still names the second, and confirming submits the job for the first (`App.tsx:1536`). |

Six more were met while modelling and have no run of their own:

* "Keep create successful but surface startup failure in record state."
  (`lib/jobs/lifecycle.rs:258`): `docker start` fails, and the first query inspects
  the container, gets `created`, and clears `last_error` (`lib/runtime_adapter.rs:812`).
* Queries include the "local UI URL" (`README.md:241` of the repository): stop and
  start publish a new port, and the record keeps the old one, because it is looked
  up only while it is empty (`lib/runtime_adapter.rs:828`).
* "All writes persist to disk immediately." (`docs/ARCHITECTURE.md:130`): the first
  insert creates the state directory and never syncs its parent, so that a power
  loss may lose both. With `StateDirDurable = FALSE` TLC finds `AckedWriteSurvives`
  violated; all the runs and proofs assume a directory that was there before.
* "All state mutations go through on-chain jobs." (`docs/ARCHITECTURE.md:72`): a
  container exits, and the next `GET` saves `stopped`. That change is
  a row of the job table again, so `KeepsContract` holds.
* "Deletion canceled for ..." (`ui/src/App.tsx:1038`): the notice with Undo
  outlives the timer by half a second, and Undo reports a cancellation although
  the request has been sent.
* "Connected wallet does not own this instance. Lifecycle transactions are
  disabled." (`ui/src/App.tsx:2718`): the owner clicks, the check of the chain is
  awaited, the wallet changes accounts, and `submitJob` has the other account sign
  (`App.tsx:1504`). The node refuses such a job (`OnlyOwnerActs`), after the
  transaction. `SubmitAnswer` has this step.

`mutants` in `PROJECT.json` lists for every property a plausible defect of the
code under which TLC finds it violated: a dropped fsync, a skipped cleanup, a
missing owner check. They show that the properties depend on the code they are
about. The mutated definitions stand in the modules before the originals.

### Fairness

`Converges` assumes that a handler that has begun runs on (`WF` of `Progress(t)`:
the runtime schedules every task, and the model lets every docker command answer).
That anybody asks for an instance is not assumed but is the premise of the property
(`KeepsAsking`): nothing in the node looks at a container by itself, and the UI asks
only when token or wallet change (`App.tsx:1174`), when the owner clicks Refresh, and
once after a job (`App.tsx:1451`, `1519`). A client that asks no more keeps what it
was told. No fairness is given to jobs, to faults or to the environment; it is
their budget that ends them, so the property speaks of quiet periods. With an
unending race of stale writes nothing would settle.

The session properties assume that a handler whose command has ended is carried
on (`UpdateChat`, `Publish`), and that the server writes to a client that reads
and ends a stream whose channel is closed (`Streams`). Commands in the container
get no fairness: they have no timeout and may run for ever, so the properties
begin where the command has ended. `PendingResolves` assumes that the browser
fires timers and that every request is answered or fails. No user action is fair.

`ChecksEnd` assumes no answer of the owner: the timers of `withTimeout` fire, and only
the two requests without one (`eth_getCode` of the target RPC and of the wallet) are
answered. `TerminalsAreClosed` assumes that
the server answers what reaches it and that the browser goes on with what arrives.

## 4. Proofs

TLAPS checks these for every value of the constants, with no bound on requests,
failures or crashes (where a theorem has an assumption of its own, it is named).

`InstanceStoreProofs`
* `StoreTypeOK` and `NeverTorn`. The invariant ties each stage of an insert to
  the mutex and to `dataSynced`: only the holder of the mutex is past `idle`, and
  from `synced` on its data is on the disk, so `Rename` never exposes a torn file.
* `AckedWritesSurvive`, assuming `StateDirDurable`. Every map on disk, in memory
  or prepared by the thread in the critical section holds for each key the
  acknowledged value or a later one. Without it the
  property is false (section 3).
* `StoreRefinesDurableMap`. `served` is the map after the directory sync, when
  the mutex already hides the old one. Each action is a `DurableMap` step or a
  stutter: `Rename` exposes, `SyncDir` puts, crashes map to crashes.

`ClawLifecycleProofs`, in four parts
* `Invariance`: the inductive invariant `IInv`, from which the others follow.
  `DeletedMeansRemoved` alone is not inductive: a container could appear after
  a record says deleted. Only `docker create` makes one appear, and it runs when
  no copy of the record exists yet, neither in memory, nor on disk, nor in the
  hands of any task. `Good` says that of a copy, `Sound` of all that a task
  holds at its stage, `OneCreator` that no two creates share a uuid. TLC checked
  `IInv` before it was proved.
* `LifecycleTypeOK`, `DeletedContainersAreGone`, `AckedCreatesSurvive`.
* `OwnershipHolds`. `OnlyOwnerActs` compares a handler with the store, which
  others write while it runs. `Owned` says that all copies of an instance's record
  name one owner, in every map and in every handler's hands; `Acts` that a setup
  request holds copies of its own instance only, as its answer is a query. A step
  may only pass on what its handler held or what the store has now (`Passes`), so
  the copies go on agreeing. The first record is no exception: by `IInv`, when
  `docker create` runs there is no other.
* `NothingIsOrphaned`, for bounds on faults and crashes that are not negative (a
  negative one stands for none, and then nothing tells that a fault has happened).
  `Stage` says where a create answers for its container itself (`Before` its first
  save) and where its record does (`After`). `Bounded` says that what is left of
  a bound never grows back, so that `OnlySavesFailed`, once false, stays false.
* `ContractKept`, while handlers do not overlap (`NoOverlap`) and no power is lost
  (a bound of 0): `Spec => KeepsContract`, a refinement. `Expected` says for each
  stage of a handler what the record and the handler's copy say: before its save
  the copy is where the record is or one row ahead. `OneRow` says the same of the
  file, which a failed save may have left one row ahead of memory. Then every
  action is a stutter of the contract, except a save, which moves to the copy, and
  a restart, which moves to the file. (TLC checked `TableInv` on `claw_contract`
  before it was proved.) The adapter's own part is the lemma
  `Statuses`: what each of its operations does to the state of any record.
* `DeletedFinalAlone`, under the same two assumptions: `Spec => DeletedIsFinal`. It
  is the sentence that the run `claw_deleted_is_final` refutes for two handlers; the
  theorem says that failing commands and saves, restarts and outside changes never
  break it by themselves. It follows from `OneRow`, since no row leads away from
  `deleted`.

`BroadcastProofs`
* No theorem of its own, but what both users of the channels need: pushing and
  delivering keep the type of a stream and the bound of its queue, and keep it
  showing the latest part of a list of events that grows at its end (`ShowsLatest`:
  gaps only where the stream is marked as lagged). Both properties about streams
  are stated with it, in terms of positions in a sequence; with the `SelectSeq` of
  the library, which is recursive, they would be out of the prover's reach.

`ChatSessionsProofs`
* `TypeCorrect`: among others, no stream is more than `Capacity` events behind.
* `OwnersWrite`. `MessagesFromOwner` is not inductive: a later request could
  change the fields it reads. `Provenance` adds that the writer of a message has
  finished, and finished requests do not change (`HistoriesKept`). Only
  `UpdateChat` writes, after comparing the session with its own request.
* `HistoriesPaired`. That prompt and answer stand side by side is inductive by
  itself (`AllPaired`); that no exchange is there twice is not: `Once` says it of
  all sessions together, because a request could also be answered in two. It rests on
  `Provenance`: who answers is not finished yet, so it is not in any history.
* `StreamsFollow`. What a stream has shown and what waits in its queue are the
  latest answers of the history, in order. It needs `GivenOut`: a stream is opened
  on an id that was given out, so a new session, with its empty history, has no
  streams from before.
* `ChatImplementsLog`. Each action is a step of `ChatLog` for one session or a
  stutter: creating begins a log, `UpdateChat` appends one answer, deleting closes
  it, a restart closes all.

`TerminalSessionsProofs`
* `TypeCorrect` and `OutputOrdered`. `RunsSound` says that what a handler still has
  to send is the end of its output; `Shown` that a stream shows of each command the latest part of
  what was sent of it (`SentBy`), although the pieces of others stand between them;
  `NoCrosstalk` that it has only the pieces of commands of its own terminal, also
  after the terminal was closed and its id forgotten by everybody but the handler
  that took the sender.

`OwnerConsoleProofs`
* `Types`, `SessionsOwned`, `PanelsFollow`, `SpinnersWork`. What a handler acts on it
  put into its own record when it was clicked, or the node did (the list). `Fit`
  says what such a record can be at each stage (the wallet that signs in is the
  owner of the instance), and no other handler changes it. `SpinnersWork` counts
  handlers: each step starts or ends the work of at most one flag, and resets the
  flag with it.
* `SelectionListed`. Nothing is known of a list that arrives: it may lack what is on
  the screen and what is selected. The property holds because list and selection are
  set in one step and from one list (`ReselectListed`), and because whatever else
  changes either keeps it: provisioning adds what it selects, and an empty token
  empties the list.

`OwnerFlowsProofs`, in two parts, about two modules that share no state
* `WalletTypeOK`, `EnsuredIsOnTarget`, `FailuresHaveACause`. Nobody but the user
  takes the wallet off the target chain or gives it another RPC than that of the
  app (`Moves`): prompts approved late only lead there too. `Placed` says for each
  stage what the flow has seen, which stays true until the user moves the wallet;
  `Caused` what its own granted requests have done. Both are kept by the steps of
  other flows, so that two checks at a time do not harm each other, which the run
  with one flow does not show.
* `DeletionTypes`, `PendingHasItsTimer`. Every step that resets the ref resets the
  pending deletion with it, and a slot keeps its session until it is free. It is the
  invariant that the finding of the UI leaves intact: nothing is wrong while
  something is pending; it is the notice that outlives it.

`DemoServerProofs`
* `DemoTypeOK`, `RepliesFollowPrompts`, `SessionsMatchChallenges`. A flow relies on
  what an earlier request of it was answered, while other clients go on. `Fits` says
  what that is at each step: the id it was given is in use, its challenge names
  its own instance and wallet, its prompt is in its session, and a list of messages
  that it was answered ends with an answer after it. All that stays true because ids
  are given once and histories only grow, until the session is gone for good
  (`Grows`). So a handler need not know of the flows it does not answer
  (`StepKeeps`): it shows `Grows`, and that its answer suits the one it does
  (`Suits`).
* `StreamsMirrorHistory`. Inductive by itself, given that a stream is among the
  subscribers of the session it listens to and of no other (`DemoTypeOK`): a prompt
  adds one answer to the history and one event to each of its streams, and nothing
  else adds either. The property matches answers and events by positions
  (`Mirrors`): a map that is increasing and misses no event.
* `TerminalsHeld`, the safety half of `TerminalsAreClosed`: a terminal is never
  without a flow that will ask for its deletion, unless that request, or the answer
  that named it, got lost. `Holds` says who that is at each step of
  `runTerminalCommand`; a step of a flow goes on holding the terminal, or closes it,
  or loses it to `orphans`, and touches no other flow. (TLC checked it on
  `demo_server`, also that it fails without the `finally`.) What is left to liveness
  is that the flow goes on.

Constants are assumed to be what the code makes them: the model values for
"nothing" are different from the real ones, flags are Booleans
(`StoreAssumption`, `RecordAssumption`, `NoRecordAssumption`,
`LifecycleAssumption`, `GateAssumption`, `BroadcastAssumption`, `ChatAssumption`,
`TerminalAssumption`, `DeletionAssumption`, `ConsoleAssumption`,
`WalletAssumption`, `DemoAssumption`); the owner of an instance is a constant
of the session modules and of the panel.

Only model-checked: `Converges`, `EveryAnswerIsShown`, `EveryExitIsShown`,
`StreamsOfClosedTerminalsEnd`, `PendingResolves`, `ChecksEnd` and
`TerminalsAreClosed`, because liveness is out of the prover's reach. Every invariant
and every refinement that a run checks is proved. Of the three sentences that runs
refute, `DeletedIsFinal` is proved for the case where it does hold.

## 5. Plan

1. Done: `DurableMap`, `InstanceStore`, `ClawRecord`, `DockerDaemon`,
   `ClawLifecycle`, `LifecycleContract`, `ClawPromises`, and the proofs above.
   Done as well: `SessionGate`, `Broadcast`, `ChatSessions`, `ChatLog`,
   `TerminalSessions`, `SessionDeletion`, with the proofs listed.
   And the owner UI: `OwnerConsole`, `WalletChain` and their proofs, `DemoServer`.
   All safety properties that the runs check are proved, those of the demo server
   as well.
2. `Auth`: which mode of login an instance takes, with the fallback of
   `auth.rs` from wallet to access token, as a refinement of `SessionGate`. The
   life of a challenge (its expiry, whether it can be used twice) is decided in
   `sandbox_runtime::scoped_session_auth`, which is not in the repository: no
   property can be about it.
3. `CreateProfile` and `ProxyBody`: the pure functions (variant and target
   parsing, `sanitize_subdomain`, `trim_http_error_body`) against reference
   definitions over bounded inputs.
4. `NodeProcess`: runner, server and shutdown with open streams; the adapter cell.

## 6. Not modelled, and limits

* A container left behind by a failed port inspection (`lib/runtime_adapter.rs:583`)
  or by a crash between `docker create` and the first save: the model has these
  steps, and nothing in the code promises otherwise, so `NoOrphanContainer` is
  stated while nothing but saves has failed.
* A `docker inspect` that does not say `No such container` of a removed container
  (`InspectNamesMissing = FALSE`): the refresh fails with another error and keeps the
  state (`lib/runtime_adapter.rs:1247`). An instance that was created, started and
  removed behind the node's back says `running` for ever, however often somebody
  asks; TLC then refutes `Converges`. Which wording docker uses is not decided in the
  repository, and no document promises anything for the other.
* Hanging docker commands; a state file the process cannot stat; disks that lie
  about fsync.
* The local-state adapter, SSH keys, template packs, ingress tokens, image and
  port selection from the environment.
* Whether an instance runs when a terminal is created, and what `docker exec`
  finds later: a terminal command may have any output, exit code or failure.
* A terminal whose first command cannot be run stays in the map
  (`lib/operator_api.rs:786`) and is known to nobody: modelled, with no promise to
  check it against. The same holds for `abort`, which stops nothing
  (`lib/operator_api.rs:1253`).
* A setup command that runs twice, because two requests pass the check, or because
  the save after it failed; a first setup with a stale container status: the model
  has these steps, and nothing in the code promises otherwise.
* How logins work in the node, the TEE proxy, the create profile and process
  shutdown, which the plan above takes up.
* In the UI: rendering, forms and the wizard, notices, the balance display, what
  the environment of a build resolves to (with `VITE_RPC_PORT` set,
  `Web3Provider.tsx` uses that port and `App.tsx:81` does not), and the provider
  configuration, which is static. The buttons that a transaction in flight turns
  off stay on in `OwnerConsole`, so it has more overlap than the program; that a
  transaction counts as stale after 90 seconds is noticed at the next render only
  (`App.tsx:1714`).
* The exceptions of `EnsuredOnTarget` are the code's: a check before a job reads no
  RPC unless `STRICT_WALLET_RPC_MATCH` is set, and a wallet that is not the provider of
  the page cannot be asked. For such a wallet `NoFailureWithoutCause` does not hold
  either: the chain of the render is looked at after the switch (`App.tsx:582`), and
  the user who approved it is told that it failed.
* An older list that arrives late drops an instance that was provisioned meanwhile
  from the screen, until the next refresh, and moves the selection away from it: the
  model has it, and `SelectionIsListed` only says that the selection goes to
  something that is listed. Answers of the panels that arrive late are shown
  (`late`), and `PanelsFollowSelection` excuses them.
* That a spinner stops some day: requests without a timeout and a wallet whose owner
  never answers may keep it on (`BusyMeansWork` says only that somebody is at work).
* `UpdateChat` is one step for both events of an answer (section 2), and
  `UndoInTimeCancels` is about deletions whose timer is still running; what Undo says
  of a deletion already sent is in the list of section 3 and has no run.
* A session login whose verification fails passes the fallback to the development
  token, because the promise is returned and not awaited (`App.tsx:1274`); and an
  unauthorized answer to an old request replaces a token saved meanwhile by the
  demo token (`App.tsx:1129`). The model has both.
* In the demo server (whose terminal routes look up neither instance nor terminal,
  unlike those of its chats): titles, texts, the setup status, and the routes that only
  read.
* Vendored crates, scripts, the embedded bundle and the registration script.

## 7. Running

```
tlc -config store_faults.cfg MCInstanceStore
tlc -config claw_overlap.cfg MCClawLifecycle
tlc -config chat_sessions.cfg MCChatSessions
tlc -config terminal_sessions.cfg MCTerminalSessions
tlc -config owner_console.cfg MCOwnerConsole
tlc -config owner_flows.cfg MCOwnerFlows
tlc -config demo_server.cfg MCDemoServer
tlapm InstanceStoreProofs.tla
tlapm ClawLifecycleProofs.tla
tlapm BroadcastProofs.tla
tlapm ChatSessionsProofs.tla
tlapm TerminalSessionsProofs.tla
tlapm OwnerConsoleProofs.tla
tlapm OwnerFlowsProofs.tla
tlapm DemoServerProofs.tla
```
