# tmux-team, in TLA+

tmux-team lets several coding agents, each in its own terminal, work as a team. Agents do not
talk to each other directly: they leave *durable messages* in a SQLite file, and a *wake* without
content tells the recipient to look. Everything is done by short-lived `tmux-team` processes that
share nothing but that file, a TOML configuration and a few sockets. This directory holds the
specifications of that machinery, the TLC configurations that check them on small instances, and
the TLAPS proofs that hold for every instance.

    tlc -workers 2 -config MCMessageStore.cfg MCMessageStore      # model-check one run
    tlapm MessageStoreProofs.tla                                  # check the proofs of one module

`PROJECT.json` lists the runs, the theorems, the source lines each definition stands for, a
mutation for every property, the disagreements with the documentation, and the hazards.

## Inventory

| component | source | state | operations | how it is hit |
|---|---|---|---|---|
| message store | `store.py` | `messages`: state, lease, sender, recipient, priority, kind, related_to | create, claim, ack, complete, complete-replies, mark notified; pending queries | by every process, in any order; claims expire by the clock |
| todos | `store.py` | `todos`: state, message, superseded_by | add, done, reopen, supersede, clear | races with the message's own transitions |
| role registry | `store.py`, `config.py` | `roles`: state, binding, capabilities | sync, set state, bind | read by send, sleep, switch and dashboard, written by operators |
| inbox and send commands | `cli.py`, `service.py` | none of its own; what it read, while it runs | send, broadcast, notify, inbox *, todo *, role * | several transactions each; may die, or be stopped by a hook, between two |
| wakes | `store.py`, `acp_tui.py`, `app_server.py` | `notifications`; the queue of the terminal UI | tmux display/send-keys, app-server turn, control-socket prompt | submission fails, wakes coalesce, the agent is in a turn |
| agent | (external) | the message it works on | the role loop: claim, work, complete, look again | stops when its inbox is empty |
| watchdog | `store.py`, `cli.py`, `watchdog_runner.py` | `watchdog_runners` | start, run, pause, resume, update, stop; escalate | a run that finishes after its runner was paused |
| obligations | `store.py` | `obligations` | start, update, pause, resume, complete | checked state goes stale |
| bootstrap, sleep and resume | `bootstrap.py`, `lifecycle.py` | `team.toml`, snapshots, role states, panes, sessions | provision, spawn, prompt, bind; drain, quiesce, hand off, snapshot, pause, tear down; restore | each step may fail; rollback; tried again after a failure |
| runtime switch | `runtime_switch.py` | handoff files, locks, bindings | prepare, configure, switch | three copies of the binding; a turn between check and respawn; failure after the old runtime stopped |
| hooks | `extensions/` | event log, the open transaction | before/after each service call | may rewrite, refuse, fail closed, hang, or call tmux-team |
| configuration | `config.py` | `team.toml` | locked read-modify-replace | concurrent writers |
| MCP server | `mcp_server.py` | one connection | one request after another | a failing request leaves its transaction open |
| dashboard, display, provider tables, policy | the rest | - | presentation, dispatch, pure checks | not protocols |

What makes each of them correct:

* **message store** - a claim always ends; one lease at a time; acknowledged work is never offered
  again; only claimed work is closed; the order is urgent first, then oldest; every view of
  "pending" counts the same messages, and one that is cut off begins with what is claimed next.
* **todos** - open todos sit on work somebody took; the audit trail of superseded todos is a set
  of unbroken chains.
* **commands** - one completion, at most one reply, to the role that asked, never in answer to a
  reply; documented refusals (open todos, paused roles) hold across interleavings.
* **wakes** - a message that can be claimed is eventually claimed: no wake is lost in the races.
* **watchdog, obligations** - a paused runner stays paused and wakes nobody; one active escalation
  per finding; a row tells one story, so that a missed deadline is always reported.
* **sleep/resume, switch** - no turn is killed unseen; what is saved or bound is what runs; no session
  is open twice; a role works again only when its session is bound and has been told to recover.
* **hooks** - no work completed without the hooks before it; nobody writes while a hook decides, and
  nobody waits for ever for the lock it decides under.
* **configuration** - no update is lost.

The hazards behind these, each at its line, are in `PROJECT.json`.

## Modules

    WorkQueue                     what an inbox promises (abstract)
       ^ implemented by
    MessageStore                  the messages table            <- MessageStoreProofs
       ^ extends
    TodoStore                     the todos table
       ^ extends
    InboxCommands                 commands as processes         <- InboxCommandsProofs
       ^ extends
    WakeDelivery                  terminal UI, wakes, agents    <- WakeDeliveryProofs

    WorkQueue
       ^ instance (what everybody else does to messages)
    Watchdog                      runners, their processes, operators  <- WatchdogProofs

    Obligations                   the obligations table                <- ObligationsProofs

    RuntimeSwitch                 prepare, switch, configure           <- RuntimeSwitchProofs

    RoleSessions                  what a role's sessions promise (abstract)
       ^ implemented by
    AcpLifecycle                  bootstrap, sleep, resume             <- AcpLifecycleProofs

    ExtensionHooks                hooks, MCP server, the write lock    <- ExtensionHooksProofs

`MC*.tla` add the symmetry sets; `MC*.cfg` give the constants their values.

**MessageStore.** An action is one transaction of `Store`. SQLite serialises writers, and each
UPDATE repeats in its WHERE clause the check an earlier SELECT made, so the UPDATE is the whole
transition. `state` and `lease` are the columns `state` and `claim_expires_at`, `row` the columns
written once (kind, priority, recipient, created_at), `now` is `utc_now()` in whole seconds. The
model keeps the comparisons (`<=` at the end of a lease, ORDER BY priority, created_at with ties
open) and leaves out texts, attempts, notification and event logs. The five
`blocked_by_role_<state>` values are one state, since no code distinguishes them; `retrying`
appears in the code's lists of states but nothing ever writes it, so the model has no way into it.
`--limit` of `complete-replies` is `ReplyLimit`; which of the read replies its SELECT returns is
left open, and rows no longer read when the UPDATE runs are not among those it closes. `--limit` of
`inbox list` and `inbox reclaimable` is `ListLimit`: `FirstRows` is the set of listings that ORDER BY
and LIMIT allow, each as the set of its rows, since rows that compare equal come in any order. A
limit or a lease of zero or less, which the command line does not refuse, is left out.

**TodoStore.** One transaction per action; a row removed by `todo clear` is kept in the state
`deleted`, so that identifiers are never reused (they are random in the code).

**InboxCommands.** `job[p]` is what process `p` runs next and what it read before: the draft of a
message whose state was decided from the role's state, a count of open todos that allowed a
completion, a reply still owed, and so on. Between any two transactions other processes run, and
`Abort` ends a process where it stands - a crash, a locked database, or a hook that fails closed.
Hooks that rewrite a message choose values the sender could have chosen. A wake is an action that
is accepted or not (`Notify`), followed by the UPDATE (`Mark`). The recipients of a broadcast are
served one after the other, each like a send. `--related-to` on a sent task is never read by the
code and is dropped. A task whose body has the form of a reply (the fallback in
`is_completion_reply`, for databases older than the kind column) is not answered, which is what a
completion without `--reply-to-sender` does.

**WakeDelivery.** The control socket's terminal UI is external: from `kb/13_acp_tui_control_socket.md`
and the request `notify_role_control_socket_prompt` sends, it holds at most one unstarted prompt
with `coalesceKey` "inbox" and starts it when no turn is running. The agent follows the role loop of
`docs/receiving-and-hooks.md`: claim one, complete it, look again, and stop when `inbox next` finds
nothing. That answer (`LastLook`) and the end of the turn (`EndTurn`) are two steps: a message that
arrives in between is seen by nobody in this turn, and the terminal UI starts the next one only when
it is over. Agents are processes of `InboxCommands`; `Shell` processes are other people's. Nothing
fails in this module; that is its scope, not a claim about sockets.

**Watchdog.** `runner`, `target` and `pane` are the columns `state`, `notify_role` with
`delivery_method`, and `pane` of `watchdog_runners`; `loop[l]` is the `watchdog run` process in
pane `l` and `command[o]` what an operator's command still has to write. A pass is the loop body of
`cmd_watchdog_run`: `Preflight` (read the row), `Find`, `Record` and `Upsert` (the SELECT and the
INSERT of `record_watchdog_runner_run`), `Recheck` (the row it returns), `Deliver` (the duplicate
search), `Raise`, `Wake`, then `Rest`, `SeeStop` or, after the last iteration, `Finish`. `start`
opens the pane before it writes the row, `stop` kills the pane before it does, `pause` checks before
it writes; each is two actions. A message is what `WorkQueue` says it is, so that what agents do
meanwhile (`Others`) is any step of `WorkQueue`, which the store implements. Abstracted: the scope
is always the whole team; intervals, review times and iteration counts only say when a pass begins
and which is the last, so that is left open; held messages, obligations and paused runners that are
overdue are findings that may be there or not; a row is taken for stale when its process has ended
(a slow process, or one run with `--once`, whose row has no next run, would look stale too); a pane
of a process that ended is no pane, which `stop` treats as the failure of `kill-pane`.

**Obligations.** `obligation[o]` is the row, `work[p]` the command process `p` has begun: its read
(`_obligation_for_role`, with what the command refuses at once) and its UPDATE are two actions, and
other processes run in between. The UPDATE of each command is modelled with its own WHERE clause,
which is where the commands differ: `pause` repeats nothing. A deadline is none, ahead or past, and
`PassTime` moves it; what `watchdog_findings` reports of a row are `Overdue` and `ReviewDue`.

**RuntimeSwitch.** One role and three copies of its binding: `toml` (the capabilities in team.toml),
`row` (their image in SQLite) and `tui` (the session that really runs). `cmd[c]` is one invocation:
it loads team.toml (`Start`), opens the store, which copies what it loaded into the row (`Connect`),
and then goes through `prepare_runtime_handoff`, `switch_runtime` or `configure_runtime_options` with
one action for each request to the terminal UI, each transaction, each locked step of
`update_role_capabilities`. `StartTurn`, `EndTurn`, `Boot` and `Crash` are the UI's own; `Stop` ends a
command anywhere and drops its locks, as the kernel does. Abstracted: of the capabilities the session
and one config option are kept; the capsule is the session it was taken from; operators' role
commands are `SetRoleState` (what they load and sync, other commands can too). Sessions are numbered
as they are opened, so that a smaller one is an older one (`RowBehindFile`).

**AcpLifecycle.** One operator runs `bootstrap`, `sleep` and `resume` of a visible ACP team one after
another; `life` is where the command is and what its loops have collected. The terminal UIs
(`tui[r]`, external) take turns, come up and die whenever they like; `stray[r]` are the sessions of
UIs whose socket a newer one took over, `latest` is `sleeps/latest.toml`. A loop over the roles visits
them in any order, one action per request to a UI; a loop of commits that talks to nobody is one
action, and `Drain` may fail in the midst of it. `Unquiesce` and `Restore` are the rollback; `Fail` kills the command between any two steps.
Abstracted: only the grouped layout (one window for all roles); commands on single roles do not run
meanwhile (that is `RuntimeSwitch`); a resume takes the snapshot of `latest.toml`, never one named
with `--snapshot` (`lifecycle.py:234`); `latest.toml` is written in one step, while the code writes it
in place (`lifecycle.py:1739`) and a command killed in the midst could leave half a file; texts of
capsules and prompts.

**ExtensionHooks.** `HookRunner` around `ack_message` and `complete_message`, the command `inbox
complete-replies`, which completes replies without it (`cli.py:1924`), and the one write lock of
`team.sqlite`. No document promises a hook for every completion, only for the service's; what
complete-replies must not do is close anything but replies (`Selected`). `hooks` is a list of modes for each event; `cmd[p]` walks through the hooks before, the
SELECT, the UPDATE and the hooks after. `Invoke` inserts the invocation, which takes the lock
(`writer`); `HookReturns` and `HookTimesOut` commit it with the outcome; `RecordFails` and `WriteFails`
are the exceptions in between, which end a command line and its transaction but only the request of an
MCP server (`Server`), whose connection keeps what is written (`draft`). `Nest` is a hook that runs
tmux-team. `message.by` remembers which hooks let the operation pass and whose patches it carries;
of a patch nothing else is kept. Everybody is about one message, which is work or a reply; the next one
is looked at when all commands on it have ended (`NextMessage`). Of the replies that complete-replies
may close at a time one is followed, its limit and the others being the matter of `MessageStore`.

**WorkQueue.** Items are absent, parked, waiting, leased, lapsed, accepted or finished. It says
that acknowledged work is never offered again, a lapsed lease may be taken over, and only work
that was leased is finished; `MessageStore!QueueStatus` maps a message to its status and time is
what makes a lease lapse (several at once).

**RoleSessions.** `own[r]` are the sessions of role `r` that something still names, `live[r]` those
that run, `bound[r]` the one in team.toml. A session is opened or loaded only where none runs, a load
takes one of the role's own, the sets of different roles never meet, and what runs or is bound is
owned. In `AcpLifecycle` a role owns what is in its pane, in team.toml, in `latest.toml` or in the
command's hands (`Known`): nothing in the code says that these agree, so that a snapshot, a recovery
or a stale binding could load one role's session for another. `RuntimeSwitch` follows a single role,
of which this says too little; what could go wrong there is stated in its own invariants.

Operators named `Slip_...` are plausible mistakes that the mutation runs put in place of the
operator after them; no specification uses them.

## Runs

| run | instance | shows |
|---|---|---|
| `message_store` | 2 roles, 3 messages, priorities 0 and 2, clock 0..1, lease 1 | `ClaimsExpire`, `ClosedWasClaimed`, `PendingViewsAgree`, `ClaimsInOrder`, `ClaimsAreListed`, and that the store implements `WorkQueue` |
| `inbox_replies` | 2 commands, 2 roles, 2 messages | `ReplySound`, `ReplyAtMostOnce` |
| `inbox_todos` | 2 commands, 1 role, 1 message, 3 todos, role states active and paused | `TodosOnClaimedWork`, `SupersedeChain` |
| `wake_delivery` | 2 agents, 2 shells, 2 messages | `NoLostWake`, `EveryMessageTaken` (liveness) |
| `watchdog` | 1 runner, 1 pane, 1 operator, 1 role, 2 messages | `OneEscalation`, `PressureIsRaised` (liveness) |
| `obligations` | 3 processes, 2 obligations | `RowConsistent`, `MissedIsReported` |
| `runtime_switch` | 2 processes, one of which may switch, 2 option values, 3 sessions, 2 `--set` | `QuiesceBarrier`, `PersistsLiveOption`, `ActivationReady`, `OnlyOwnKeys`, `RowBehindFile` |
| `acp_lifecycle` | 2 roles, 4 sessions | `SleepBarrier`, `SnapshotIsLive`, `ResumeBindsLive`, `SessionOpenOnce`, and that the commands implement `RoleSessions` |
| `extension_hooks` | 1 command line, 1 MCP server, up to 2 hooks per event | `CompletionApproved`, `LockOnlyForHooks`, `NobodyWritesUnderHook`, `CommandsEnd` (liveness) |
| `paused_watchdog`, `acp_resume`, `sleep_rollback` | those of `watchdog` and, with 2 sessions, `acp_lifecycle` | each violates a sentence of the documentation, see below |

Every module has one type invariant, which a passing run checks as well.

*Bounds.* `MaxTime` = 1 with `ClaimSeconds` = 1 lets a lease be taken, run out and be taken over;
later times only shift this. Three messages are needed for order to matter among two that wait
and one that is claimed, and are more than a listing of `ListLimit` = 2 can show; two commands are what every race here needs (each relates what one
command read to what one other command wrote); two messages are a task and its reply, and the
reply is itself completed with `--reply-to-sender`; three todos make a chain. In `watchdog` one
process and one operator already overtake each other at every step of a pass, a process may be
killed and another started in its pane, and two messages are the urgent work and its escalation, or
an escalation and its duplicate; processes side by side are covered by the proof. `Room`
in `WakeDelivery` begins a message only while an identifier is left, so that no command waits for
one. Three processes let an obligation change twice between the read and the UPDATE of a third; the
second obligation is there for jobs that point elsewhere. In `runtime_switch` three sessions are two
switches one after another, the second from a capsule of the first one's session, each beside a
configure of two `--set` or a prepare. Four sessions in `acp_lifecycle` are two bootstraps of two
roles, or one and a handoff resume of both, or retries that failed half way; an exact resume opens none. Two hooks are enough for an order, for a
patch on a patched message and for a failure after a success; one command line and one server are
enough for each to wait for the other, and a hook of the server may run the command line.
The proofs lift the bounds for everything except the properties listed below as only model-checked.
Symmetry is used in runs that check no liveness, over identities no operator compares otherwise.
Deadlock is not an error in `message_store` and `wake_delivery`, where messages and time run out,
nor in the watchdog runs, whose messages run out; in the others an operator can always act.

*Fairness* (`WakeSpec`): weak fairness of `Continue(p)`, since the operating system runs a started
command to its end, and of `Agent(r)`, since a terminal UI starts a queued wake when the turn is
over and the role loop tells a running agent to go on. Sends, polls and the clock get none.
The watchdog's `Spec` has weak fairness of `Step(l)`: a running process makes its rounds. Operators,
agents, interrupts and kills get none, and `PressureIsRaised` gives up when the work is dealt with,
when the runner is paused, stopped, retargeted or left without a process, or when every message
identifier of the instance is used. `ExtensionHooks` has weak fairness of `Proceed(p)`: a process
runs, sqlite gives up waiting after its busy timeout and `subprocess.run` kills a hook after its
`timeout_ms`. That a hook returns by itself is not assumed. The other modules check safety only.

## Where the documentation says more than the code does

Checked by a run that must fail:

* `paused_watchdog`: "the store returns the paused row without mutating it back to running"
  (`cli.py:2235`) and "Paused watchdog runners must not emit repeated findings or wake roles while
  paused" (`docs/invariants.md:302`). `record_watchdog_runner_run` looks for the pause at
  `store.py:1241`, in no transaction, and then upserts `running` whatever the row has become; a pause
  in between is lost for good.
* `acp_resume`: "Resume reactivates roles by default" (`docs/invariants.md:347`). `resume_acp_team`
  writes `state = "active"` to team.toml only; `sync_roles` never changes the state of a row that
  exists, and the `set_role_state` of the Codex path (`lifecycle.py:400`) has no counterpart. After a
  sleep and a resume every role is still paused in SQLite.
* `sleep_rollback`: "any pre-teardown failure unquiesces roles and restores their prior state"
  (`docs/invariants.md:342`). A role is on the list of quiesced roles only once its answer has
  arrived, and the rollback reopens those on the list if there are any (`lifecycle.py:972`). When the
  second role closes its queue but its answer is lost, it stays closed.

Stated in the modules, found violated by TLC, and kept by no run (add the name to the `PROPERTIES` of
a configuration of that module to see the counterexample):

* `PendingListComplete` in `MessageStore`: "`inbox list --state pending` must match the `status
  pending=N` count" (`docs/invariants.md:254`). The list ends at its LIMIT (`store.py:463`; 50 unless
  `--limit` says otherwise, `cli.py:522`) and does not say that there is more; the count has no limit.
  Three pending messages and a `ListLimit` of 2 show it. What does hold is `PendingViewsAgree`: the
  list is full or complete, and shows nothing that is not pending.
* `OpenTodosBlockCompletion` in `InboxCommands`: "`tmux-team inbox complete` must refuse completion
  while open todos remain" (`docs/invariants.md:167`). The count is read at `cli.py:1891`, the message
  is completed in a later transaction that does not look again; a todo added in between stays open on
  completed work.
* `PausedRoleGetsNoNormalWork` in `InboxCommands`: "A role that is paused or draining must not receive
  normal new work unless explicitly forced" (`docs/invariants.md:357`). `service.py:101` decides from
  the role state it read; a pause before the INSERT is not seen.
* `AutoAckAtomic` in `InboxCommands`: "`inbox next --auto-ack` may claim and acknowledge a message
  atomically" (`docs/invariants.md:261`). They are two transactions (`cli.py:1858`); if the command
  ends in between, the message is claimed only, and comes back when its lease expires.
* `FinishedStaysFinished` in `Obligations`: "Cannot pause obligation ... in state done"
  (`store.py:964`). The UPDATE does not repeat the check; an obligation completed in between is paused,
  and can be resumed.

The modules also show what the documents leave open. `watchdog start` on a paused runner opens a
second process of that name, and the two may each send an escalation (`OneEscalation` is therefore
about one pane); a pass overwrites a `watchdog update` made since it read its row; a process that
sleeps through its interval runs once more after a stop that spared its pane. Two switches of one role
take no lock, so that `ActivationReady` is stated for one switcher; a switch that fails after quiesce
leaves the prompt queue closed; the rollback of a prepare overwrites a pause made meanwhile; a command
that loaded team.toml before a switch rewrote it syncs the old session into the row after it. A request
of the MCP server that fails after its first write keeps the write lock until the next request, which
commits what the failed one wrote (`LockOnlyForHooks` therefore exempts servers).

## Proofs

The theorems hold for every set of roles, messages, todos, processes, runners, panes, operators,
obligations and option values, for every number of sessions and hooks, every lease length and clock
bound. Assumptions (named where the constants are declared, and evaluated by TLC in the runs):
priorities are ranks 0..3 and contain normal and low, `ClaimSeconds`, `ReplyLimit` and `ListLimit` are positive
(the defaults are 3600, 50 and 50), identifiers are finitely many, roles are senders, "no message", "no todo"
and "no envelope" are not values, the report-only method is no role and "no pane" no pane; switchers
and servers are processes and "nobody" is none, there is an option value, an operator can set at least
active and draining, at least one session is possible, and "no role" is no role. `Obligations` needs
none. The fairness in a specification is not used by any proof.

* **Store.** `StoreInv` is the conjunction of `StoreTypeOK`, `ClaimsExpire`, `ClosedWasClaimed`
  and two facts they need: notices are born completed or blocked and stay so, since otherwise a
  claim could lease one; a row not yet inserted has no lease, since otherwise a new notice would.
  One lemma per transaction shows it inductive (`ack`, `complete` and `complete-replies` share
  `CloseInv`). `PendingViewsAgree` follows from the types by counting disjoint sets,
  and from what a LIMIT leaves of a set (`ListingFills`). `ClaimsInOrder` and `ClaimsAreListed` rest on
  the fact that only a claim writes a lease (`StepsThatLease`): the row it takes is preceded by no
  other, so a listing without it is full of its equals.
* **Refinement.** One lemma per transaction maps it to a `Move` of `WorkQueue` or to a stutter: a
  wake is a stutter (queued and notified both wait), a tick lapses the set of leases that end with it.
* **Commands.** `CommandsInv` adds the types of todos and jobs, `SupersedeChain` with the fact that
  a replacement is no fresh identifier, and `JobsOK`: what a command read and still relies on -
  the sender it will answer is a role, and the message it adds a todo to was claimed. That last is
  why the check in `add_todo`, apart from its INSERT, is enough: a lease is never reset
  (`StoreKeeps`). `CommandsStep` also shows every step to be a transaction of `MessageStore` or a
  stutter on it, hence `CommandsImplementStore` and with it all the store's theorems for the
  running system. `WorkIsClosedForGood` is drawn from the refinement alone: acknowledged work is never
  offered again, completed work never reopened, blocked work never delivered.
* **Replies.** A reply takes three steps (the UPDATE that completes, the reading of the sender, the
  INSERT), and the command may be anywhere between them. `ReplyInv` follows it: at each of them the
  message is completed and names the roles that the reply will (`AnswersOK`), and a message has one
  reply or one command that owes it, never two (`OneAnswer`). What starts it is a completion that
  succeeds, and that happens once, since nothing leaves `completed` and a row is written once
  (`Settles`).
* **Wakes.** A step of `WakeDelivery` is a step of the commands or none of their business, so that all
  of the above holds there too (`WakesRunCommands`). `NoLostWake` is inductive with the types and
  `WakesWanted`: every command that inserts a message goes on to `notify`. The step that needs care is
  the count that finds nothing, after which the command sends no wake: it is zero only if no message
  waits, for which the messages have to be finitely many.
* **Watchdog.** `EscalationInv` adds to `WatchdogTypeOK` and `OneEscalation` what a process may rely on
  between two steps: a pass that delivers has a role to deliver to (`AimIsRole`), messages a
  watchdog sent are on record (`SentIsRecorded`), and once the duplicate search found nothing, no
  active escalation with this key comes from this pane until the pass sends its own
  (`ClearToRaise`). The last holds because only the process in the pane sends from it and, by the
  steps of `WorkQueue`, a message on record that is not active never becomes active
  (`InboxKeeps`). Most actions are covered by one lemma (`QuietStep`): they send nothing and put no
  process past its search.

* **Obligations.** `RowConsistent` is inductive with the types: each UPDATE leaves a consistent row
  whenever its WHERE clause lets it through. That of `update` relies on what `RowConsistent` says of
  the row it finds (only open rows have no review and no reason); the others set every column that
  matters, which is why the missing check of `pause` revives a row but leaves none inconsistent.
* **Runtime switch.** `SwitchInv` adds what each step relies on: `Bookkeeping` (a process at a step of a
  command runs it), `NoFutureSession` (no session id is known before the session exists, or a booting
  UI might take the one a command speaks to), `TomlLocked` and `RoleLocked` (the two file locks
  exclude, and what is rewritten is still the file), and `SwitchProgress` (how far the only switch has
  come: from its status until respawn the session is the one it checked; from the wait until it
  activates, the one it waited for). `OnlyOwnKeys` follows from `TomlLocked`, `PersistsLiveOption` from
  `RoleLocked` and `Bookkeeping`. `RowBehindFile` needs that what a command has loaded and may still
  sync is not newer than what team.toml names now (`CopiesBehind`), and that the session bound there
  only ever moves on: the copy a rewrite starts from is the file itself, and the only switch binds the
  newest session (`BoundExists`).
* **Lifecycle.** Each property speaks of the end of a command, and what it says is reached role by role.
  `LifecycleInv` adds how far each loop has come: inspected roles answer with the session that is bound
  and cannot come up again, since no UI of theirs is booting; quiesced roles are closed
  (`SleepProgress`); an exact resume still wants what was saved (`WantsSaved`), and the roles it has
  been at are bound to what runs (`ResumeProgress`).
* **Sessions.** `PanesInv` says that a role which a loop has yet to visit has no pane (`PanesWait`),
  because `OpenWindow` looked and nobody else opens panes; that therefore no UI ever loses its socket to
  another (`NothingDisplaced`); and that `Known` keeps the roles apart (`SessionsApart`), since every
  command copies a session only from what is known of the role to what is known of the role.
  `SessionOpenOnce` follows. `LifecycleImplementsSessions` takes each step either as one that opens
  the next session, one that loads what its role knows, or one after which no more is known
  (`Remembers`).
* **Hooks.** What is completed is approved because what a command is about to write is
  (`CommandsSound`: it carries the hooks it has passed, all of them once it is past them, or it has
  found a reply to close in bulk), and because an open transaction contains nothing else
  (`StoreApproved` is about the draft too, `NothingOpen` says when there is none).
  `NobodyWritesUnderHook` follows from `HookHoldsLock`.

Model-checked only: `PressureIsRaised`, `EveryMessageTaken` and `CommandsEnd`, since liveness under
fairness is out of the prover's reach; every other property of the passing runs is a theorem. The
violated properties are TLC's counterexamples. Nothing in the models is recursive, so neither
induction over data nor recursive operators, which are out of its reach as well, come up.

## Not modelled

* The Codex path of bootstrap, sleep and resume (saved thread ids, app-server restarts): which thread is
  a role's is found by comparing lists of loaded threads (`bootstrap.py:1136`), whose behaviour is that
  of an external server no code here describes.
* The restart of watchdog panes by resume (`lifecycle.py:1204`), which opens panes from a saved list.
* Wakes that are refused, and terminal UIs that restart while a wake is queued: no code retries a wake,
  so nothing can be promised beyond what the watchdog escalates.
* Worktrees and scratchpads of bootstrap, the layout with one window per role, provider tables and
  policy checks (pure), dashboard and display (read only), milestones, stable commits, memory notes,
  notification and event logs (append-only, read by no transition of the modelled components).

## Plan

1. *done* - `WorkQueue`, `MessageStore`, `TodoStore`, `InboxCommands`, `WakeDelivery`, `Watchdog`.
2. *done* - `Obligations`, `RuntimeSwitch`, `AcpLifecycle`, `ExtensionHooks`, with their types and
   safety invariants proved.
3. *done* - the invariants about replies, wakes and panes proved; `RoleSessions`, which
   `AcpLifecycle` implements; what a LIMIT leaves of the listings.
4. Two abstract specifications and their refinements: an escalation as its recipient sees it (raised
   once, suppressed while active), for `Watchdog`, and an approved completion in one step, for
   `ExtensionHooks`.
5. Steps of the proofs of liveness that need no fairness: that the escape clauses of
   `PressureIsRaised` are stable, and that a wake that waits is not withdrawn.
