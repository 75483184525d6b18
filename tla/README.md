# Verification of AliangGate

AliangGate is a local gateway: an HTTP or TUN proxy on the user's machine that
sends the traffic of AI tools through a relay, and an agent that lets a phone
drive terminals and AI sessions on that machine. Everything it does for the user
hangs on one *session* with a cloud service (called official-website in the
code). This directory models that session (who may change it, what every change
must take with it, and how the rest of the process learns of it) and four parts
that live beside it: the commit of the configuration, the outbound link, the
guard of an AI session's turns, and the chat page with its socket.

All paths below are relative to `src/`.

Contents

1. [Inventory](#1-inventory)
2. [Plan](#2-plan)
3. [The modules and the code](#3-the-modules-and-the-code)
4. [The runs](#4-the-runs)
5. [Bounds](#5-bounds)
6. [Fairness](#6-fairness)
7. [What is proved](#7-what-is-proved)
8. [Findings](#8-findings)
9. [What is only model-checked, and what is not modelled](#9-what-is-only-model-checked-and-what-is-not-modelled)
10. [Running it](#10-running-it)

## 1. Inventory

### The session

| Component | State it keeps | Operations | Interacts with |
|---|---|---|---|
| **SessionAuthority** `processor/auth/session_authority.go` | snapshot (state, user, generation, revision), operations in progress, proxy leases, listeners, a counter of forced closes; all behind `mu` | begin / commit / close an operation; forced transitions (`NotifyAccessRejected`, `NotifyRefreshFailed`, `NotifyLoggedOut`, `NotifyLoggedIn`/`Refreshed`); acquire / release a lease | calls flow closers and listeners *after* releasing `mu` |
| **Credential store** `processor/auth/user_info.go` | `currentUserInfo` in memory, a token record in SQLite | save, load, delete | written inside commits, by the profile update, by lazy loads and by two teardowns |
| **Session flows** `processor/auth/token_activate.go`, `errors.go`, `app/http/services/auth_service.go` | `refreshSessionMu`, the periodic refresher | login, refresh, restore, logout, expiry | the cloud, the store, the authority |
| **Soft-expiry recovery** `processor/auth/soft_expiry.go` | `softExpiryRunning`, one goroutine | start, loop | refreshes until the session is renewed or ended |
| **Ingress control (HTTP)** `app/http/services/auth_runtime_hooks.go`, `run.go`, `inbound/http/server.go` | start-up state, `isRunning`, `proxyPausedForSoftExpiry`, `isHttpRunning`, listener, context | `onSessionEvent`, start, stop, accept loop | a listener of the authority; user requests |
| **Session events** `app/http/services/session_event_broker.go`, `app/http/middleware/dashboard_session.go`, `app/website/src/stores/*.js` | a one-place channel per client; the page's cookie, its pinned login view and its view of the session | publish, subscribe, stream, GET with its answer or 401, bootstrap, the page's login and logout | a listener of the authority; the browser |

### Beside the session

| Component | State it keeps | Operations | Interacts with |
|---|---|---|---|
| **Configuration commit** `processor/config/runtime_commit_coordinator.go`, `routing_apply_state.go`, `global.go`, `app/http/services/core_config_service.go`, `customer_config_service.go`, `cmd/config.go` | running configuration, committed snapshot, files, database; routing store and `routing.json` | save of the core or the customer part, update of the routing schema, start | files and SQLite, which may fail; the outbound, which it refreshes |
| **Outbound link** `outbound/proxy/aliang/*.go`, `outbound/registry.go` | instance in the registry, link status, health monitor | refresh, close, probe, dial | the relay; commits of the core configuration |
| **Run guard** `app/http/services/agent_ai_run_guard.go`, `agent_ai.go`, `agent_ai_agentcore.go`, `agent_ai_identity.go` | the session's run, guard, numbers of turns, history, native binding | message, `/clear`, create and `ai.run.start` with an id to resume, stop, kill, grace timer, forced finalisation | the kernel's run, which may be late or never return |
| **Chat page** `app/website/src/composables/useAliangChat.js` | conversations and bubbles, `sending`, pending creates, one idle watchdog, one socket, localStorage | send, stop, select, delete, reload, leave and enter; every frame; three timers | the host's socket |
| **AI sockets and journal** `app/http/services/agent_ai_sockets.go`, `agent_ai_run_journal.go` | sockets with their subscriptions, journal rows | create, message, stop, subscribe, snapshot, fan-out | the chat page |

What is hard about all of them, and so what the properties are about:

* **Concurrency.** Every operation above may run on several goroutines. A refresh
  of the session may be started by the timer, by the recovery loop, by a 401 of
  any request and by the page, all at once. The authority serialises them with
  generations, not with a lock held over the network call.
* **Steps after an unlock.** Closers and listeners run outside `mu`; so does the
  second half of stopping the HTTP server, the merge of a configuration, and the
  test a run makes before it writes its answer. Between the halves anything may
  happen.
* **Order.** Listeners of two transitions may run at the same time or the wrong
  way round; so may an HTTP answer and a server-sent event, a late answer and the
  next question, an acknowledged create and the message that waits for it.
* **Partial failure.** The cloud rotates a token and the answer is lost, or it
  arrives and may no longer be committed; SQLite refuses a write after the file
  was written; the process crashes between the two; a closer panics.
* **Retries and timeouts.** The recovery loop retries for ever on transient
  failures and is single-flight: a start that comes too late must not be lost. A
  grace timer races with the return of the run it waits for. A socket that closes
  is opened again, a limited number of times.

For each component, correct means:

* *Authority*: no lease outside an active session; no connection that a demotion
  neither closed nor will close; an answer is committed only onto the snapshot its
  request began under; each closer runs once; the counter is exact.
* *Store and flows*: an ended session leaves no credentials; a live one can be
  restored from the record; a token is used up by one refresh only; nothing but a
  login revives an ended session.
* *Recovery*: it ends for a reason, it exists while it is needed, it concludes
  once the cloud answers.
* *Ingress*: an ended session leaves no open port; the process does not exit
  because its own port is taken; start-up state and pause follow the session.
* *Events*: a page never goes back, not even to a process that was replaced; a
  stream loses nothing; polling alone converges, and shows nothing but the login view
  while that is pinned.
* *Configuration*: an acknowledged save is the same in memory, file and database;
  a start from the file last saved runs what was last acknowledged; `routing.json`
  follows the store.
* *Outbound*: exactly one monitor, of the registered instance; a close returns; a
  relay that answers is found connected.
* *Run guard*: a turn leaves the session by itself or by being declared dead, a
  dead one of itself touches neither the history nor the resume point of the next,
  every turn comes to an end.
* *Chat*: a stream stays in its conversation, in order, once and whole; a
  conversation shows one running answer, which ends; no message overtakes its
  create; what ended stands; reconnections stop.

### The rest of the system

Listed with the reason in `PROJECT.json`. In short:

* **Inbound**: TUN engine and tunnel, HTTP relay, TLS interception, watchers. The
  life of a flow towards the session is in SessionAuthority; bytes are not.
* **Outbound**: the other proxy protocols (wire formats).
* **Agent**: approval policy (classification of text), terminals and their ring
  buffer, remote WebSocket, session events forwarded to it and registration
  keepalive, transfers, inventory, goals, peer tools.
* **agentcore**: an AI turn loop with retries and compaction.
* **Routing data**: IP-domain cache, DNS, GeoIP, rules.
* **Accounting**: usage tracker and reporter, statistics, mirror.
* **Platform**: user-agent runtime, IPC, single instance, tray companion,
  certificates, set-up, software update, quick set-up, commands.
* **Web interface**: except the session store and the chat.
* **Vendored and generated**: `gemini-cli-main`, `node_modules`,
  `alianggate-transfer`; they make up most of the repository.

## 2. Plan

Order, most important first. Steps 1 to 10 are done.

| # | Module | What | Composes |
|---|---|---|---|
| 1 | `SessionGate` | abstract specification: what the authority promises | |
| 2 | `SessionAuthority`, `SessionAuthorityProofs` | the authority, its invariants, the refinement of 1, proofs | 1 |
| 3 | `SessionEvents`, `SessionListenersProofs` | broker, stream, GET, dashboard session and page | 2 |
| 4 | `SoftExpiryRecovery`, `SessionListenersProofs` | the recovery loop | 2 |
| 5 | `IngressControl`, `IngressControlProofs` | `onSessionEvent`, RunService, HTTP server | 2 |
| 6 | `SessionLifecycle`, `SessionLifecycleProofs` | store, login, refresh, restore, logout, expiry, refresher, cloud | 2 |
| 7 | `OutboundLink`, `OutboundLinkProofs` | status, health monitor and registry of `outbound/proxy/aliang`; proofs | |
| 8 | `RunGuard`, `RunGuardProofs` | one AI session and the guard of its turns | |
| 9 | `ConfigCommit`, `ConfigCommitProofs` | commit coordinator, routing store, failures, crash and start; proofs | |
| 10 | `ChatPage`, `ChatPageProofs` | the chat page, its socket, and what it meets of the host; proofs | |
| 11 | `ChatPage` with a second closure | leaving the page for another of the website and entering it again, with the old closure's timers alive | extends 10 |
| 12 | `ConfigCommit` with `Activate` | the third user of the coordinator | extends 9 |
| 13 | `AgentLink` | session events forwarded to the user agent, remote WebSocket, registration keepalive, channel health | 2 |
| 14 | TUN mode and mode switching | extends 5 | 5 |
| 15 | `IPDomainCache`, terminal ring | data structures against a reference definition | |

Abstract specifications still worth stating: for 9, an atomic configuration
register with crash; for 13, "enabled and registered once ⇒ eventually online".

Theorem still worth proving: `RestoredIsWhole` of 10. All modules are free of
`RECURSIVE` operators, and 3 to 6 extend `SessionAuthority`, so that its invariant
and lemmas are used in their proofs.

Runs: one passing run per module, and a violation run where the code contradicts
what it says of itself.

## 3. The modules and the code

A step of a model is one critical section, or one piece of work between two
points where another goroutine could observe or change something. Names are those
of the code. Every definition and the lines it stands for are in `PROJECT.json`,
"map".

An operator `X_Fault` next to an operator `X` is `X` with a plausible bug. It is
not part of any specification: substituting it for `X` shows that the property
listed with it in `PROJECT.json`, "mutants", can tell the difference.

### SessionGate

The promise without the mechanism: a state, the set of operations whose result may
still be committed, the flows admitted, the flows revoked and still to be cut off.
A transition invalidates all operations; one that leaves the active state revokes
all admitted flows in the same step; revoked flows are cut off eventually.

### SessionAuthority

| Model | Code |
|---|---|
| `snapshot` | `a.snapshot` (`user` is a model value, `NoUser` is nil) |
| `operations`, `captured`, `phase`, `published` | `a.operations` and, for each `SessionOperation` handed out, the generation it captured, where its owner is, and the generation it published |
| `proxyFlows`, `flow` | `a.proxyFlows` and the goroutine serving each connection |
| `transitions` | the calls of `finishSessionTransition` in progress: the event, the closers still to be called, the number of listeners called |
| `closed`, `forcedProxyFlowCloses` | flows whose closer has run (history); the counter |
| `Publish` | `publishLocked`, with `cancelOperationsLocked` |
| `CommitOperation` | `CommitAuthenticatedSnapshot`, `CommitSoftExpired`, `CommitUnauthenticated` |
| `CommitFails` | the same when stale, or when the persist callback fails |
| `ForceTerminal`, `NotifyAccessRejected`, `PublishAuthenticated` | forced transitions |
| `AcquireProxyLease`, `ReleaseProxyLease` | admission and `Release` (deferred in every caller) |
| `CloseFlow`, `CallListener` | one callback of `finishSessionTransition` each |

Choices:

* The three listeners (`onSessionEvent`, the event broker, the forwarder to the
  user agent) are registered in `init` functions of `app/http/services` and never
  removed: their number is a constant, and each of the modules below models the one it
  is about.
* All callers of `AcquireProxyLease` pass a closer, so the nil case is left out.
* A closer that panics is recovered and the next one called; a closer that returns
  and one that panics differ only in whether the connection was closed, which is
  the closer's business. The mutant `CloseFlow_PanicSkipsRest` is the code without
  the recover.
* `NotifyLoggedIn` and `NotifyRefreshed` (`PublishAuthenticated`) have no caller
  in production code. They are part of the type's interface, and stand in the
  other modules for logins and refreshes that are not spelled out there.

### SessionEvents

Extends the authority with `instance` (restarts of the process), and for each
browser the subscription (`client`), its one-place channel (`slot`), the snapshots on
their way (`wire`), a GET in progress (`request`), its dashboard session (`dashboard`)
and the reduced view (`view`).

| Model | Code |
|---|---|
| `Broadcast` | `SessionEventBroker.Publish`, the listener of the authority; it may be called out of order, which `overtaken` records |
| `Accepts`, `Reduce` | `reduceSessionSnapshot` |
| `Applied` | `applySessionSnapshot`: while the login view is pinned no snapshot shows the page as logged in |
| `dashboard` | `dashboardSessionReady`, `dashboardSessionRequired`, whether the process accepts the page's cookie, and how far a login or logout of its own has come |
| `AnswerGet`, `ApplyAnswer`, `ApplyRefusal` | a GET is answered with the snapshot, or with 401, which changes the status line and makes the page ask for its cookie anew |
| `MarkDashboardSessionRequired` | the pin: `quickSetupApi.js` sets it when a quick-set-up request is answered with 401, for want of a cookie or of a fresh upstream token |
| `ServeLogin` … `Reconcile` | the page's own commands up to `reconcileAfterAuthCommand`, which releases the pin and forces a GET |
| `Restart` | a new process under a new instance counts revisions from 1. It severs every connection; what has left the old process (messages not yet read, answers to GETs) still arrives |

History: `met`, the processes whose snapshots the page has shown; `masked`, that the
snapshot shown was reduced under the pin. `Strayed` says that a page has retired the
process that runs: ids of processes have no order, and a delayed snapshot of a process
it had not met looks to it like a restart.

### SoftExpiryRecovery

The loop's program counter `loop`, its flag `running`, the generation its refresh
captured (`attempt`), whether credentials exist, one caller of
`RecoverOrExpireLocalSession`, and one teardown elsewhere. All outcomes of a refresh are
actions: committed, stale, reused (another refresh rotated the token), rejected
and wiped, transient. In every state of the authority an operation is current
exactly if its generation is the snapshot's (`RegisteredIsCurrent`, proved), so the
loop's handle is kept as that generation.

### IngressControl

Thread *g* is the goroutine that published generation *g* and runs
`onSessionEvent` for it; thread 0 serves the user's start, stop and login
requests. A member of `Starts` is one call of `StartMitmHttp` together with the
listener it may bind. `httpCtx` and `httpListener` are package variables, so a
stop acts on the newest start (`current`), and an old accept loop looks at the
newest context. `overlapped` records that a transition was handled while another
was, or while an older one was still to be, or that somebody published while a login
was under way; `desynced` that `isHttpRunning` was cleared while a listener was open.

### SessionLifecycle

A job is one call of login, refresh, restore, logout, profile update or
`GetCurrentUserInfoOrLoad`, on a goroutine of its own. Its record holds where it
is, the token it works with, the token it first read, and whether it holds
`refreshSessionMu`. `memory` and `disk` are the two copies of the credentials,
`accepted` the tokens the cloud takes.

A commit saves to memory and record under `mu` and is one step with the
transition; a load reads the record in one step and replaces memory in another; a
teardown publishes, stops the refresher, deletes the record, and empties memory in
four. Five orders in which memory or the record go astray are recorded in
`diverged` when they happen, and the properties say what holds when they do not:

| In `diverged` | Happens when |
|---|---|
| `stale_load` | a record read before a commit or deletion replaces memory after it |
| `stale_profile` | a profile update saves credentials that have been replaced or deleted |
| `disk_error` | SQLite refused a write or a deletion (`SaveUserInfo` reports success) |
| `late_teardown` | a session is committed while the teardown of an older one is still deleting |
| `late_read` | a refresh reads the credentials while a teardown is deleting them |

Each of them is reachable; they are exceptions because the code does not exclude
them, not because they are unlikely. `late_read` is the subject of a finding.

### ConfigCommit

| Model | Code |
|---|---|
| `request` | one call of a save: `next` is the configuration it merged, outside any lock |
| `lock` | `mu` of `EffectiveConfigCommitCoordinator` |
| `files`, `db`, `global`, `committed` | the three places a configuration is written to, the database's latest snapshot, `SetGlobalConfig`'s value, `c.committed` |
| `Path`, `Source` | where a part is written, and the order in which a start looks for it; the daemon keeps both parts in its runtime directory |
| `SaveFile` … `Commit` | the steps of `Commit` in their order; `FileFails`, `DbFails`, `RefreshFails` leave it; `Rollback` is `rollbackFileToCommittedSnapshot` |
| `ReadSwitch`, `Apply`, `PersistRead`, `PersistWrite` | the customer part's refresh of the routing store, and the page's own updates |
| `Crash`, `Restart` | the end of the process between any two steps, and `cmd/config.go` |

A part of the configuration is named by the request that set it. `log` is history:
what was last acknowledged, and what was tried since and might be found. A torn
file is the outcome of a write that was not atomic (`os.WriteFile`); a start that
meets one stops (fail-fast), which is why deadlock is not checked.

### OutboundLink

An instance, the refresh that makes it and the monitor that refresh starts bear
one name. A refresh is `RefreshAliang`, `Close` of the old instance and
`StartAliangHealthMonitor`, in the steps in which the monitor, a probe or a dial
may come between; it runs inside the commit mutex (`core_config_service.go:152`),
or at start-up. The mutant `Swap_Unlocked` shows what that prevents. A degraded
link counts as connected.

### RunGuard

One session of the manager (`session`), and per message its handler, run, guard
and emitter (`turn`). `owner` stands for `cancel`, `activity` and `activeWriter`,
set and reset together. A native session id is named by the turn that began it.

Native ids leave the agent: `ai.session.bound` and the `done` frame report them, and the
server fills them into later requests (`agent_ai_agentcore.go:1573-1576`). Create of an
existing session takes such an id over, busy or not (`CreateAgain`,
`agent_ai.go:1994-1996`), and `ai.run.start` does when the session has no binding
(`RunStart`, `:2507-2592`). `Supplied` are the ids a caller may know: those of turns
whose run has begun its native session (`named`), which may be dead by then. `fedBack`
records that a caller supplied the id of a turn already declared dead.

The scanner finds a victim under the mutex and kills it after (`Condemn`, `Kill`),
whatever has become of the turn meanwhile. An id that is not the binding's cancels the
run, which goes on until it notices (`Bind`, then `Fail`).

`torn` is history: the turn was declared dead between a test and the write it
allowed (`agent_ai_agentcore.go:1054-1062`, `1521-1531`: two critical sections
each); two properties make an exception for it.

### ChatPage

| Model | Code |
|---|---|
| `page` | `conversations`, `activeId`, `sending`, `idleWatchdogTimer`, `pendingCreates`, and in `chains` the calls of `sendMessage` that await something |
| `stored` | `localStorage` |
| `socket` | `aiSocket`, `reconnectAttempts`, the retry timers, and what to subscribe to when it opens |
| `toHost`, `toPage` | the frames under way on the present socket, in order |
| `host` | per conversation: session, run, whether its frames reach this socket, journal |

One handler of the page is one step, up to its next `await`. `Reload` is the browser's
reload, which ends every timer. Leaving the page for another of the website keeps the
create time-outs and the retry timer of the old closure alive, and is left out. A run is
one turn of the kernel: its row reaches the journal at its end, which is what makes a
page that was reloaded in the middle fetch it. The window in which a delta is dropped after a snapshot
(`snapshotCatchupAt`) is not modelled: the snapshot's text is that of whole turns,
and the window is a matter of 1.5 seconds. When both wait for one opening, creates
go before subscriptions. A stop is sent over an open socket only, and only
conversations with messages are deleted. `filter` is `Filtered`, the elements at a set of
positions, and not the library's `SelectSeq`, whose definition is recursive: what is
proved of it has to be proved for every list.

## 4. The runs

| Run | Result | Asks |
|---|---|---|
| `authority` | pass | Two operations and two flows against all forced transitions: type, leases, flows, closers, commits; revoked flows are cut; the authority implements `SessionGate` |
| `events` | pass | Stream, GETs and their refusal, a pinned login view, logins and logouts of the page, a reconnection or a lost cookie, and a restart that leaves delayed snapshots behind: the page never goes back, the stream loses nothing, polling converges |
| `soft_expiry` | pass | The loop is there unless its start was swallowed, and concludes |
| `ingress` | pass | An ended session leaves no port open, the process exits on a taken port only after a lost flag, start-up state and pause follow the session while transitions do not overlap |
| `lifecycle` | pass | Credentials, refresher and rejections over three concurrent jobs |
| `lifecycle_revived` | violation | Nothing but a login revives an ended session |
| `config_commit` | pass | Three saves, one routing update, every failure and a crash: settled copies agree, `routing.json` follows the store, a restart keeps what was acknowledged |
| `outbound` | pass | Refreshes, probes, dials and a relay that comes and goes: one monitor, closes return, the link heals |
| `run_guard` | pass | Two turns and a `/clear` with kills, runs that return late or never, and callers that supply a native id, a dead one included |
| `run_guard_clear` | violation | After `/clear` the next turn is a fresh native session |
| `chat` | pass | Two conversations, a socket that closes, a watchdog, a stop, a deletion, a reload |
| `chat_healed` | violation | A healed socket leaves no answer running for ever |

The type invariant of every module is stated in it. Those of `SessionAuthority` and
`RunGuard` are checked in a run; all are proved. What is not in a run
holds on the same instances and is there to be added when a module is changed.

Forms that are stronger and do *not* hold:

* A quiet stream has shown the newest snapshot *always*: two transitions'
  listeners may call the broker in the wrong order, the older snapshot replaces the newer one in
  the channel, and the stream stays behind until the next event. The comment on
  `SessionEventBroker` says such a client "always converges to the newest authority
  revision"; in fact the page's periodic GET makes it converge
  (`PageConverges`).
* Start-up state follows the session *also when transitions overlap*: the login
  handler writes READY after `Login` has returned, whatever has happened to the
  session meanwhile.
* `SoftExpiredIsDriven`, `EndedHasNoListener`, `ActiveIsResumed`,
  `NeverDropsTheToken`, `LossIsNoticed`, `InputFollowsRun`, `LoginReleasesPin`,
  `PollingIsAuthoritative`, `ResumeIsItsOwn`: stated in their
  modules, and violated; section 8 says how.

## 5. Bounds

* `MaxRevision` bounds the number of transitions, by a guard in `Publish`. It is
  the only thing that stops the system, which is why the configurations say
  `CHECK_DEADLOCK FALSE`. The process starts at revision 1. With 4
  (`authority`, `ingress`, `lifecycle`) there are three transitions: one that makes
  the session active, one that ends it, and one that races with either; the hazards of these modules
  involve no more. With 3 (`events`) there are two in one process, or one before a restart and
  one after: what a page must put in order is pairs of snapshots. With 7 (`soft_expiry`) there are
  six, so that a session can expire, be recovered, and expire again during the
  end of the loop, and the loop still has a transition left to conclude with.
* `authority`: two operations (rivals of one generation, or of two) and two flows
  (one released while the other is closed); a third of either only repeats a role.
  No listeners: what they see is the business of the other modules, and the proofs cover
  any number.
* `events`: one browser (browsers do not affect one another: each has its own
  channel and view), on loopback, one restart (`MaxInstance = 2`), one dropped connection or lost
  cookie (`MaxDrops = 1`); 998,025 states. `InBudget` lets a later process make fewer transitions
  (`revision + instance` is bounded by `MaxRevision`), so that the last transition of a process is
  followed by no restart. The page's polling never stops, so this run does check for deadlock.
* `soft_expiry`: one loop at a time (that is a property), one rejecter, one
  teardown.
* `ingress`: two starts (the old and the new server), at most `MaxPending = 2`
  transitions with listeners still to run.
* `config_commit`: three saves (one acknowledged, one refused, one that holds a
  base older than both), one routing update of the page beside them, one crash;
  834,002 states. Saves are alike and symmetric.
* `outbound`: two instances (the one replaced and the one that replaces it), one
  dial at a time, the code's own threshold and attempts (3 and 3); 114,274 states.
* `run_guard`: two turns (one declared dead and the next) and one `/clear`, one
  socket (`Overlap = FALSE`); callers supply the id of one of the turns (`Supply = {t1}`), which
  may be the first or the second, the one that dies or the one that runs; 1,246,693 states. Two
  supplied ids would only be exchanged for each other. With messages of two sockets the
  busy check and the start of a turn overlap, and the properties fail (section 8).
  `run_guard_clear` has `Supply = {}`: no caller is to blame for what it shows.
* `chat`: two conversations, two turns each, two deltas per run (`Pieces = 2`), two acts
  (sends, stops and reloads together), any number of closed sockets within the budget of
  reconnections; 199,777 states. Two deltas are what it takes for a restored answer to hold
  some of the text and then get the longer one of the journal. `Apart` allows the second of
  them only after a reload, where that happens, and keeps stops, reloads and closed sockets
  to behaviours with one conversation: what they do to another one is what they do
  to the first, while a second conversation matters for selection, deletion, the
  watchdog and routing of frames.
* `lifecycle`: three jobs of any kinds, two tokens (the old one and the one that
  replaces it). Operations and tokens are interchangeable and symmetric.

Types with unbounded counters (`uint64` revisions and generations) are naturals:
at one transition a second they do not wrap in the life of a machine.

## 6. Fairness

* `SessionAuthority`: weak fairness of calling a closer. A goroutine inside
  `finishSessionTransition` runs on, and the closers close a socket and return.
  Nothing makes an operation finish, a flow end or a cloud answer.
* `SessionEvents`: weak fairness of the page's poll (a JavaScript interval that
  runs as long as the page is open), of the process answering it, and of the bootstrap
  of the dashboard session that precedes it. Nothing is assumed of the stream, nor of
  commands.
* `SoftExpiryRecovery`: weak fairness of the loop, of listeners, of the direct
  start and of a teardown that has begun: goroutines between two instructions.
  Strong fairness of a definite answer of the cloud: it may be unreachable for any
  length of time, but a loop that asks again and again gets through at last. The
  loop retries for ever in production (`softExpiryMaxAttempts` is 0), which is
  what makes this assumption enough. Nothing is assumed of rejections, logins or
  logouts.
* `OutboundLink`: weak fairness of refreshes, monitors and dials that have begun.
  Strong fairness of a cancelled monitor's exit: Go's `select` takes either of two
  ready cases with the same chance, so that it does not take the timer for ever.
  Nobody is obliged to dial or to change the configuration; the relay is assumed to
  answer for good only in the premise of `LinkHeals`.
* `RunGuard`: weak fairness of handlers that have begun, of a run that has its
  result, of timers, and of the scanner that kills what has been silent
  (`scanStaleRuns`, a ticker). A run that works owes nothing: it may ignore its
  cancellation for ever.
* `ChatPage`: weak fairness of one step of the system: the event loop delivers
  frames and timers, the host handles what it receives and its runs end. While one
  of these can happen one does, and which one is not said. Nothing obliges the user
  or the network.
* `IngressControl`, `SessionLifecycle`, `ConfigCommit`: safety only.

## 7. What is proved

`SessionAuthorityProofs`, for any sets of operations, flows and users, any number
of listeners and any bound on revisions. Assumption: `ConstantsAssumption` of
`SessionAuthority` (finite flows, a `NoUser` that is no user, natural numbers).

| Theorem | States |
|---|---|
| `Invariance` | `SafetySpec => []IInv` |
| `TypeCorrect` | `TypeOK` |
| `LeasesSafe` | no lease outside the active session |
| `FlowsSafe` | every served connection is registered or owed a close, the counter of forced closes is exact |
| `ClosedOnce` | no close is owed by two transitions, nor again after it ran |
| `CommitsSafe` | commits are exclusive |
| `RegistrationExact` | a registered operation is under way and of the snapshot's generation |
| `Refinement` | every step of the authority is a step of `SessionGate` or a stutter |

The properties are not inductive one by one. That a closer is owed once needs that
owed flows have left the registry (`ClosedAtMostOnce`), which needs that flows in
the registry are being served and flows handed to a demotion were (`FlowsInv`);
that commits are exclusive needs that no handle's generation, captured or
published, lies ahead of the snapshot (`HandlesInv`), and that the ids still
registered are those of the snapshot's generation. `IInv` joins these:

    IInv == TypeOK /\ OpSide /\ FlowSide
    OpSide   == HandlesInv /\ RegisteredIsCurrent /\ CommitsAreExclusive
    FlowSide == LeasesOnlyWhileActive /\ FlowsInv /\ ClosedAtMostOnce
                /\ NoFlowEscapes /\ ForcedCountIsExact

All actions that publish share one lemma per side (`PublishKeepsTypes`,
`PublishKeepsOpSide`, `PublishKeepsFlowSide`); the steps of a transition in
progress rest on two lemmas about the set of closers owed (`PendingAfterPublish`,
`PendingAfterClose`). The refinement maps `valid` to the running operations that
are current, `admitted` to the registry, and `revoked` to the closers owed.

The modules that extend the authority prove their invariants on top of this one: a
step of the authority inside them keeps `IInv`, so that what their own steps need of
it (that a registered operation is current, that generations run ahead of nobody) is
cited, not proved again.

`SessionListenersProofs` holds what is proved of the two small listeners, `SessionEvents` and
`SoftExpiryRecovery`.

`SessionEvents`, for any number of pages, restarts, dropped connections and
transitions. Assumptions: `EventsAssumption` (one listener, the broker, and a process
that runs) and `NoEventAssumption` (no event is `NoEvent`).

| Theorem | States |
|---|---|
| `EventsTypeCorrect` | `EventsTypeOK`; a page that shows the session ended shows no account, and one that is pinned is not shown as logged in |
| `StreamLosesNothingAlways` | `StreamLosesNothing`: a quiet stream has shown its page the newest snapshot, unless the broker was called out of order or the page has retired the process that runs |
| `NeverBack` | `ViewNeverMovesBack`: no step takes a page to an earlier snapshot, or back to a process it has shown before, though what left that process still arrives |

`EventsInv` adds that what is under way happened, in the running process or an older
one: only the channel is always of the running process and no newer than its snapshot
(`UnderWay`). A page shows no process and no revision that has not been, and every
process it has met is the one it shows or one it has retired, so that the reducer
refuses it (`Shown`). The newest snapshot is still to be broadcast, in the channel, on
the wire or shown, or the page has strayed (`Reach`).

`SoftExpiryRecovery`, for any number of users and transitions. Assumption:
`RecoveryAssumption` (one listener, the one that starts the loop).

| Theorem | States |
|---|---|
| `RecoveryTypeCorrect` | `RecoveryTypeOK`; the single-flight flag is set exactly while a loop runs |
| `DrivenAlways` | `DrivenUnlessSwallowed`: an expired session with credentials has its loop, unless a start met the last one on its way out |

The property speaks of moments at which every start was made. `Driven` speaks of all: the
loop is at a place from which it comes back to the session, or a transition that
expired it is still to call the listener.

`IngressControlProofs`, for any number of starts and transitions. Assumption:
`IngressAssumption` (one listener, `NoStart` is no start, a bound on revisions and on
transitions in progress that is not zero).

| Theorem | States |
|---|---|
| `IngressTypeCorrect` | `IngressTypeOK`; at most one listener is bound, whatever the flags say |
| `ExitsOnlyDesyncedAlways` | `ExitsOnlyDesynced`: no start meets a bound port, unless `isHttpRunning` was lost |
| `EndedIsStoppedAlways` | `EndedIsStopped`: an ended session leaves no open port, with the same exception |
| `DerivedInOrderAlways` | `DerivedInOrder`: start-up state and pause follow the session while nothing overlaps |

One thread decides what an ended session leaves behind, the one that handles the newest
transition. `Stopping` says, place by place, what it has made true by then; while the
session stays ended no other thread can undo it, because a start checks the session when
it commits. Start-up state and pause can be undone by others, so that `Deriving`, which
does the same for them, holds only while nothing overlaps, and needs that the newest
transition is then handled last and alone (`InOrder`). `Numbered` ties a transition to its
thread, `OneListener` the open port to the newest start.

`SessionLifecycleProofs`, for any number of jobs and tokens. Assumption: the authority's
alone.

| Theorem | States |
|---|---|
| `LifecycleInvariance` | `LifecycleSpec => []LifecycleInv` |
| `LifecycleTypeCorrect` | `LifecycleTypeOK`; `refreshSessionMu` has one holder |
| `EndedIsClearedAlways` | `EndedIsCleared`: an ended session leaves no credentials |
| `SessionIsBackedAlways` | `SessionIsBacked`: snapshot, memory and record hold one token |
| `RefresherFollowsAlways` | `RefresherFollowsSession` |
| `RejectedForAReasonAlways` | `RejectedForAReason`: no two refreshes use up the same token |
| `OnlyLoginsReviveAlways` | `OnlyLoginsReviveInOrder`: a step that revives an ended session is a login's |

As in the runs, these speak of behaviours in which none of the orders in `diverged`
happened; the refresher's excepts one of them, `late_teardown`, and no more. The invariant has four layers, each proved from the ones before it:

    LifecycleInv == IInv /\ LifecycleTypeOK /\ Shape /\ SessionSide /\ StoreSide /\ TokenSide

* `Shape`: what a job at a place can be, and that it holds the mutex where it must.
* `SessionSide`: only the first snapshot is `restoring`; no teardown is under way in a live
  session; the refresher follows it.
* `StoreSide`: the copies of the credentials. The delicate case is a refresh that begins
  after the session has ended: it is current, so nothing in the authority stops it, and it
  may commit. `Vain` says that it has not got past the mutex and has nothing in its hands,
  `Emptied` that there is nothing left to find, `Found` that a current refresh beyond the mutex
  has found a token; together they say that there is no such refresh. Without
  `late_read` among the exceptions this fails, which is the finding `lifecycle_revived`.
* `TokenSide`: the cloud's view. A token that was handed out is known to its job alone
  (`Private`), a token that was replaced is nobody's who might send it (`Unspent`), and it is
  still in memory or in the record only while the job that replaced it holds the mutex
  (`Replacing`), so that whoever reads next reads the new one.

Steps that the session does not notice, that write nothing, or that bring no new token
share one lemma per layer (`AsideKeepsSession`, `AdvanceKeepsStore`, `BorrowKeepsTokens`).

`RunGuardProofs`, for any number of turns and of `/clear`, under the hypothesis
`~Overlap`: one socket sends the messages. With two, the busy check and the start of a
turn are separate critical sections, and the properties fail (section 8). Assumption:
`RunGuardAssumption` (`None` is no turn and no `/clear`, and the turns whose ids callers
supply are turns: any of them).

| Theorem | States |
|---|---|
| `RunGuardTypeCorrect` | `RunGuardTypeOK`: a busy session is busy with a turn that has begun and not gone, declared dead or not, its guard is that turn's |
| `AnswerFollowsQuestionAlways` | an answer stands right after its own question |
| `DeadIsForgottenAlways` | of itself the agent does not resume a dead turn's native session, however late it reports its id; it does if a caller supplies the id after the turn was declared dead |
| `ReleasedByItsOwnAlways` | a turn leaves the session by its own return or by being declared dead |

Numbers cannot identify a turn, for `/clear` makes them start again. `Guarded` says
that the turn which owns the session has its number and its guard, whatever
numbers others have; `OneHandler` that a session has one handler at a time; `Fenced` that a
dead turn is not before a write, unless it was torn there; `Names` that whoever's
native id the session or a later turn holds began afresh and is not dead, unless its
question was torn or a caller has supplied the id since (`fedBack`);
`QuestionLast` that the question of a working turn is the last sound message. Most steps touch
none of this and share one lemma (`QuietKeeps`).

`ConfigCommitProofs`, for any sets of saves and routing updates and any number of
crashes. Assumptions: `ConfigAssumption` of `ConfigCommit` (the names of requests
are distinct from the model values, and updates from routing updates) and
`NoneAssumption` (nothing is neither a configuration nor a place).

| Theorem | States |
|---|---|
| `ConfigTypeCorrect` | `ConfigTypeOK`; in particular a start finds what `Source` says it will |
| `SettledAlwaysAgrees` | `SettledAgrees`: after an acknowledged save, with none under way, memory, committed snapshot, file and database agree |
| `PersistedIsAlwaysActive` | `PersistedIsActive`: once every writer has written, `routing.json` holds what the store holds |
| `RestartAlwaysKeepsAcked` | `RestartKeepsAcked`: a start from the file last saved runs what was acknowledged, or what was under way or not undone |

`SettledAgrees` speaks of moments at which no save is under way; what makes it true
happens in between. `CommitInv` adds that a save is in its critical part exactly if
it holds the mutex (`Holder`), that it has written the file, the database and memory
as far as its place says (`Written`), and that neither the mutex nor the committed
snapshot outlives its process (`DownIsFree`). A save that is refused leaves the copies in disagreement,
which the property allows until the next one is acknowledged; a rollback therefore
needs no more than `Holder`.

`PersistedIsActive` needs to know what the writer carries. `PersistInv` adds that
the mutex of the writers is held exactly by the one that writes (`Writer`), and that
the latest schema is still to be read by somebody, carried by the writer, or on disk
unless the latest write failed (`Fresh`). An `Apply` between the read and the write
of another makes the first disjunct true: it has still to write itself.

`RestartKeepsAcked` needs to know which save a file may come from. `RestartInv` adds that
the place last saved to holds what was acknowledged, what was tried since, or nothing
a process can start from (`Recorded`), and that the committed snapshot, which a rollback
puts back, is the save acknowledged last (`Acknowledged`). A rollback also takes the
save off the record, which is sound only if no other file holds it: a save writes the
file of its part and no other (`Elsewhere`), and what it has not begun to write is found
nowhere, though saves merge into one another (`Unseen`, `Own`).

`OutboundLinkProofs`, for any number of instances, monitors and dials. Assumption:
`OutboundAssumption` of `OutboundLink` (`NoInst` is no instance; the threshold and the
attempts of a dial are positive).

| Theorem | States |
|---|---|
| `OutboundTypeCorrect` | `OutboundTypeOK`; in particular no dial exceeds its attempts |
| `OneMonitorAlways` | `OneMonitorOfTheCurrent`: between refreshes one monitor runs, that of the registered, open instance |

During a refresh the property says nothing, and that is when it is at stake.
`LinkInv` adds who holds the mutex (`Holder`), that an instance whose refresh is not
over is untouched (`Fresh`, so that the monitor a refresh starts is the first of its
instance), and how far the refresh has taken the old monitor apart (`Phase`): it is
watched until it is cancelled, then at most the awaited one runs, then none. Probes,
dials and the relay change nothing of this but for a cancelled monitor that leaves
(`Beside`), so they share one lemma (`BesideKeeps`).

`ChatPageProofs`, for any conversations and any number of turns, pieces and acts of the
user, with a socket that closes or does not. Assumption: `ChatAssumption` of `ChatPage`
(`NoConv` is no conversation, the bounds are natural numbers).

| Theorem | States |
|---|---|
| `ChatTypeCorrect` | `ChatTypeOK`; the conversation shown is a listed one |
| `OneAnswerRuns` | `OneRunningBubble`: a conversation shows one running answer at most |
| `AnswersStand` | `EndedStands`: no step changes or removes an answer that ended, but for the longer text of the journal |
| `NoRunBeforeCreate` | `NoLazyCreate`: no message reaches the host before its session is acknowledged |
| `StreamsStayApart` | `OwnText`: a listed conversation's stream is shown nowhere else |
| `TextComesInOrder` | `TextInOrder`: pieces are shown in order and once, while the socket holds and the page is not reloaded |

The handlers share a vocabulary and not much else, so the proof has two storeys. Below,
`Moves` says all that one step may do to the bubbles of one conversation: leave them, append a
question with its placeholder, take the placeholder back, end the running answer, give it one more
piece that a frame delivered, fill it from a snapshot, or replace the text of a restored answer. That
every handler does one of these and nothing to other conversations is proved once (`PageMoves`,
and `Grown` for the text alone). Above, the invariants argue about `Moves`:

* `PageInv` joins the types with what they need: the running answer is the last bubble (so that
  two can never be running, and an appended one is the only one), and storage holds every
  answer that has ended (`Synced`), so that a reload takes none back.
* `Acknowledged`: a `created` frame, and a message, is there only for a session the host knows.
  A message leaves the page only in answer to a `created` frame, and the
  socket delivers both ways in order.
* `OwnInv`: whatever is under way or shown was produced for a conversation in which something was
  sent (`FramesUsed`, `AwaitsUsed`, `HostUsed`, `Own`). Such a conversation is never opened anew
  (`KeptOpen`); without this a deleted one could come back to the list while its text stands
  where it fell.
* `OrderInv`, on an unbroken socket under a page that was not reloaded. Nothing is fetched from the
  journal (`Calm`), so that all text comes from deltas. `Turns` lines up the turns of a conversation
  along the way they take: what the host runs, what is on its way to the host, what waits for its
  create, what the user sent last. `Stream` does the same for the pieces: those shown, those on
  their way to the page, those still to be produced.

Sequences need lemmas of their own: that `Filtered` keeps the order and the elements, and
that flattened rows consist of the rows' pieces. Both are recursive at heart and induction is not to
be had; they are proved from the least number at which they would fail (`LeastNatural`).

## 8. Findings

Shown by runs:

* **A logout undone** (`app/http/services/auth_service.go:24`,
  `lifecycle_revived`). A refresh that begins between the logout's transition and
  the deletion of the credentials is current, reads them, and commits.
* **A `/clear` that does not clear** (`app/http/services/agent_ai.go:2757`,
  `run_guard_clear`). The binding keeps the native id: the create before the next
  message brings the old conversation back; without it the fresh id is refused
  (`agent_ai_identity.go:239-242`). `ai.run.start` takes the id from the binding as well
  (`agent_ai.go:2535`).
* **A send that waits for ever** (`useAliangChat.js:1264`, `chat_healed`). A socket
  that closes before it opened never settles the promise its callers await; the
  reconnection's snapshot is ignored because that send counts as in flight.

Shown by the models, without a run of their own. To see the counterexample, put the
property in the place of the invariants and properties of the module's
configuration:

* **A swallowed start** (`processor/auth/soft_expiry.go:62`;
  `SoftExpiredIsDriven`). The loop clears its single-flight flag in a deferred
  function, after it has decided to end. A rejection in between publishes
  SoftExpired, and both of its starts are no-ops.
* **A lost `isHttpRunning`** (`inbound/http/server.go:72`; `EndedHasNoListener`).
  The flag is cleared by the old accept loop and at the end of a stop, after the
  lock was given up. A start in between loses it: a later stop finds nothing to stop
  and the port stays open, and a later start exits the process.
* **A pause that outlives its recovery**
  (`app/http/services/auth_runtime_hooks.go:49`; `ActiveIsResumed`). The pause is
  remembered after the stop has returned; a recovery that publishes meanwhile
  resumes nothing.
* **A token thrown away** (`processor/auth/token_activate.go:413`;
  `NeverDropsTheToken`). The answer to a refresh whose operation was invalidated
  meanwhile is discarded, although the cloud has already replaced the token; the
  next refresh is rejected and wipes the session.
* **A loss nobody notices** (`outbound/proxy/aliang/health_monitor.go:79`;
  `LossIsNoticed`). A connected link is never probed, though the comment at `:63`
  calls the healthy cadence "a backstop for when there is no traffic".
* **A login that is not shown** (`app/website/src/stores/auth.js:71`;
  `LoginReleasesPin`). The process publishes a login before it replies, so that the stream
  may bring the new snapshot while the login view is still pinned. The reply releases the
  pin and forces a GET, which brings the same revision and is refused as known
  (`sessionSnapshot.js:61`). The page stays at the login view with an active session until
  the next transition. The comment at `auth.js:161` says that the pin is released for the
  snapshots that follow to be authoritative again; none need follow.
* **A page that goes astray** (`app/website/src/stores/sessionSnapshot.js:63`;
  `PollingIsAuthoritative`). A page meets a restarted process, and then a delayed answer of
  an older one it had not met before. Ids of processes have no order: it takes the old one
  for the newer, retires the one that runs, and refuses everything it sends. The comment at
  `auth.js:247` calls the periodic GET authoritative.
* **An id revoked that is not the turn's own** (`app/http/services/agent_ai.go:1994`;
  `ResumeIsItsOwn`). A forced finalisation takes the session's resume id away on the ground
  that a turn which began without one must have written it (`agent_ai_run_guard.go:66-67`,
  `454-456`). Create and `ai.run.start` write it while a turn runs.
* **An input that stays locked** (`useAliangChat.js:1678`; `InputFollowsRun`). A run
  that ends while another conversation is shown does not clear `sending`.

Seen while modelling, and outside the bounds or the properties of the runs:

* *Run guard*: an id the server fills back is taken over unseen, so that the native session of
  a turn declared dead can be resumed after all (`agent_ai.go:1994-1996`; `fedBack`). The busy check (`agent_ai.go:2388`) and the start of the turn
  (`:3352`) are separate critical sections, so that messages of two sockets may both
  begin a turn (`Overlap = TRUE`). `ai.stop` and goal preemption leave the guard
  alone (the TODO at `:3792`).
* *Configuration*: a save merges its part into the running configuration before it
  takes the mutex, so that one of two saves at once is lost. When the database
  refuses the first commit, the rollback removes `./config.json`, though it was there
  at the start. A refresh that fails after memory and database were written leaves
  both with the refused configuration. A rollback writes the committed snapshot to
  *its* file, which need not be the file that was just written. The core part's
  `./config.json` hides later customer saves in the home directory at the next start
  (`RestartKeepsAcked` speaks of a start from the file last saved). A switch the user
  sets between the two halves of a customer save is set back
  (`customer_config_service.go:201-232`). `SoftwareConfigService.Activate` shares the
  coordinator and its committed snapshot: a core or customer save that the database refuses
  afterwards rolls back by writing the other program's snapshot, decoded as a configuration
  of this one, to the other program's file (or fails to decode it), and leaves the refused
  configuration in its own file, where the next start finds it.
* *Chat*: terminal frames carry no turn that the page would compare; those of a
  deleted conversation end the run of the active one. The watchdog follows whichever
  conversation had the last frame. A stopped run ends with a status the page does not
  take for an end (`agent_ai_agentcore.go:1463-1483`), so that its answer runs until
  the watchdog ends it. A status shown in an empty bubble keeps a snapshot from
  filling it. Leaving the page for another of the website leaves the create time-outs (`:562`) and
  the retry timer (`:1287`) of its closure alive; after it is entered again they act on the old
  conversations and save them over the new ones. After a reconnection (not a reload) the text that was missed stays
  missing. The time-out of one create removes the entry a newer one has set.
* *Outbound*: dials given up by their callers count as failures of the link.

## 9. What is only model-checked, and what is not modelled

Only model-checked: liveness (`RevokedFlowsAreCut`, `RecoveryConcludes`,
`PageConverges`, `RefreshReturns`, `LinkHeals`, `TurnComesToAnEnd`, `RunEnds`,
`RetriesEnd`, the fairness half of the refinement): temporal proofs
under fairness and `ENABLED` are out of the prover's reach. So is one safety property,
`RestoredIsWhole` of `ChatPage`, for another reason. It speaks of the moment at which everything
has settled; an invariant that implies it must say, for every moment before, by which of the
frames on their way the restored answer will be completed, and so tie the text of the bubble, the
rows of the journal, the flag that the page has recovered the run, and each subscription,
snapshot and terminal frame under way to one another, across any number of reloads. It is the
next step of the plan. The findings are
counterexamples of TLC, and so are the violations named in section 8. Every other
safety property that a passing run checks is proved.

Left out of the modelled components:

* processes that do not own the session (`IsSessionOwnerProcess`): they read only;
* the legacy `--token` activation, which also starts the refresher without asking
  the authority (`token_activate.go:42-46`), and refreshes with a token the caller
  supplies;
* times: back-off, lead time of the refresher, expiry. A timer may fire at any
  moment;
* TUN mode and mode switching, and the update gate of `StartService`, which only
  refuses starts;
* of the page's session view: the snapshot in `/api/startup/status`, which enters by the
  same reducer, `mergeAuthUser`, and GETs that fail for another reason than 401, which
  change only a status line. Pages that do not reach the process over loopback are in the
  model and the proofs; `PageConverges` does not speak of them, for they may have to log
  in first;
* reasons, messages, logs, profile fields;
* of the configuration: an explicit `--config` path, the coordinator's version
  and active snapshot, which nothing else reads, and, of more weight, the third service
  that uses the coordinator. `SoftwareConfigService.Activate`
  (`software_config_service.go:72-145`) commits files of other programs and replaces the
  committed snapshot that rollbacks of core and customer saves write (section 8). What is
  checked and proved of `ConfigCommit` holds for a process in which no `Activate` precedes
  a refused save;
* of the outbound: latencies, and the connection pool, which no dial uses;
* of the AI sessions: the cancellation of a run whose guard the session has lost
  (`wrapKillCancel`, which needs two sockets), approvals, steering, goals, the terminal route, providers
  other than the kernel, sub-agents, imported native sessions,
  reserved and persisted bindings, a restart of the agent;
* of the chat: leaving the page for another of the website and entering it again
  (section 8), conversations of other devices, approvals, option cards, steering,
  recall, attachments.

Not modelled at all: the components of section 1 marked so, because their
behaviour is that of data (parsing, classification, wire formats), of files and
operating-system calls, of a remote side that is not in the repository (the agent's
registration and remote WebSocket), or because the plan has not got to them.

## 10. Running it

    tlc -workers 2 -config SessionAuthority.cfg MCSessionAuthority.tla
    tlc -workers 2 -config SessionEvents.cfg MCSessionEvents.tla
    tlc -workers 2 -config SoftExpiry.cfg MCSoftExpiryRecovery.tla
    tlc -workers 2 -config Ingress.cfg MCIngressControl.tla
    tlc -workers 2 -config SessionLifecycle.cfg MCSessionLifecycle.tla
    tlc -workers 2 -config ConfigCommit.cfg MCConfigCommit.tla
    tlc -workers 2 -config Outbound.cfg MCOutboundLink.tla
    tlc -workers 2 -config RunGuard.cfg MCRunGuard.tla
    tlc -workers 2 -config Chat.cfg MCChatPage.tla
    tlapm SessionAuthorityProofs.tla
    tlapm SessionListenersProofs.tla
    tlapm IngressControlProofs.tla
    tlapm SessionLifecycleProofs.tla
    tlapm RunGuardProofs.tla
    tlapm ConfigCommitProofs.tla
    tlapm OutboundLinkProofs.tla
    tlapm ChatPageProofs.tla

and the violation runs with `LifecycleRevived.cfg`, `RunGuardClear.cfg` and
`ChatHealed.cfg`. None takes more than four minutes with two workers.
