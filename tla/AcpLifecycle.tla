------------------------------ MODULE AcpLifecycle ------------------------------
(***************************************************************************)
(* The life of a visible ACP team: bootstrap (bootstrap.py), sleep and     *)
(* resume (lifecycle.py), run one after another by one operator against    *)
(* terminal UIs that go on working meanwhile.                              *)
(*                                                                         *)
(* Each command walks through the roles and talks to one control socket at *)
(* a time; a request may fail or its answer may be lost, a pane may die,   *)
(* and the command itself may be killed between any two steps.  The roles  *)
(* are visited in any order (the code takes that of team.toml), and the    *)
(* per-role commits of one loop that talks to nobody are one step.  The    *)
(* layout is the grouped one, in which all roles share a tmux window.      *)
(* Commands on single roles (role, runtime) do not run at the same time.   *)
(***************************************************************************)
EXTENDS Naturals

CONSTANTS
  Role,        \* configured roles
  NoRole,      \* not a role
  MaxSession   \* bound: provider sessions created

ASSUME LifecycleAssumption ==
  /\ NoRole \notin Role
  /\ MaxSession \in Nat

VARIABLES
  toml,        \* the role entries of team.toml
  roleState,   \* roles.state in SQLite
  tui,         \* tui[r]: the terminal UI that answers on the socket of r
  stray,       \* stray[r]: sessions of UIs of r that a newer one displaced
  sessions,    \* number of provider sessions created
  latest,      \* sleeps/latest.toml
  life         \* the command that runs

vars == <<toml, roleState, tui, stray, sessions, latest, life>>

Session == 1..MaxSession
NoSession == 0
SavedSession == [Role -> Session \cup {NoSession}]

Policy == {"exact", "handoff"}
State == {"absent", "active", "draining", "paused"}
Snapshot == [policy : Policy, session : SavedSession]
NoSnapshot == [policy |-> "none"]

(* What team.toml says of a role: its state, its session, and whether it    *)
(* names a handoff capsule (last_handoff_file).                             *)
Entry == [state : {"none", "active", "paused"}, session : Session \cup {NoSession}, capsule : BOOLEAN]
NoEntry == [state |-> "none", session |-> NoSession, capsule |-> FALSE]

Step ==
  {"idle", "window", "spawn", "wait", "prompt", "settle", "bind", "goal",
   "inspect", "drain", "quiesce", "handoff", "snapshot", "pause", "teardown",
   "unquiesce", "restore",
   "check", "rebind", "sync", "notify"}

(* todo: roles the present loop has still to visit; role: the one it is at; *)
(* session: prepared, or the saved bindings; original, quiesced: the lists  *)
(* of prepare_acp_roles_for_sleep.                                          *)
Command ==
  [op : {"none", "bootstrap", "sleep", "resume"}, pc : Step, todo : SUBSET Role, role : Role \cup {NoRole},
   policy : Policy, reactivate : BOOLEAN, session : SavedSession,
   original : [Role -> State], quiesced : SUBSET Role]

(* What runs in a pane, and whether its prompt queue is open.               *)
TuiState ==
  [phase : {"none", "starting", "up"}, session : Session \cup {NoSession},
   busy : BOOLEAN, accepting : BOOLEAN]

LifecycleTypeOK ==
  /\ toml \in [Role -> Entry]
  /\ roleState \in [Role -> State]
  /\ tui \in [Role -> TuiState]
  /\ stray \in [Role -> SUBSET Session]
  /\ sessions \in 0..MaxSession
  /\ latest \in Snapshot \cup {NoSnapshot}
  /\ life \in Command

NoTui == [phase |-> "none", session |-> NoSession, busy |-> FALSE, accepting |-> TRUE]

Idle ==
  [op |-> "none", pc |-> "idle", todo |-> {}, role |-> NoRole,
   policy |-> "exact", reactivate |-> TRUE, session |-> [r \in Role |-> NoSession],
   original |-> [r \in Role |-> "absent"], quiesced |-> {}]

Init ==
  /\ toml = [r \in Role |-> NoEntry]
  /\ roleState = [r \in Role |-> "absent"]
  /\ tui = [r \in Role |-> NoTui]
  /\ stray = [r \in Role |-> {}]
  /\ sessions = 0
  /\ latest = NoSnapshot
  /\ life = Idle

At(op, pc) == life.op = op /\ life.pc = pc
Goto(pc) == life' = [life EXCEPT !.pc = pc]

(* The next loop of the command begins: it will visit every role.           *)
Loop(pc) == life' = [life EXCEPT !.pc = pc, !.todo = Role]

(* One role done; after the last one the command goes on at pc.             *)
Visited(r, loop, pc) ==
  [life EXCEPT !.todo = @ \ {r}, !.pc = IF life.todo = {r} THEN pc ELSE loop]

Configured == \A r \in Role : toml[r].state # "none"

(* What any command's Store.connect does to the rows: sync_roles inserts    *)
(* the missing ones and never touches the state of one that exists.         *)
Synced == [r \in Role |-> IF roleState[r] = "absent" THEN toml[r].state ELSE roleState[r]]

(* The panes of the grouped layout live and die with one tmux window.       *)
WindowExists == \E r \in Role : tui[r].phase # "none" \/ stray[r] # {}

Answers(r) == tui[r].phase = "up"
Rests(r) == Answers(r) /\ ~tui[r].busy

-----------------------------------------------------------------------------
(* The terminal UIs, and the death of a command. *)

TuiUnchanged == UNCHANGED <<toml, roleState, stray, latest, life>>

(* A wake, a nudge or a person at the keyboard starts a turn.               *)
StartTurn(r) ==
  /\ Rests(r) /\ tui[r].accepting
  /\ tui' = [tui EXCEPT ![r].busy = TRUE]
  /\ UNCHANGED sessions /\ TuiUnchanged

EndTurn(r) ==
  /\ tui[r].busy
  /\ tui' = [tui EXCEPT ![r].busy = FALSE]
  /\ UNCHANGED sessions /\ TuiUnchanged

(* A UI that was asked to load a session loads it, or opens a new one.      *)
Boot(r) ==
  /\ tui[r].phase = "starting"
  /\ \/ /\ tui[r].session # NoSession
        /\ tui' = [tui EXCEPT ![r].phase = "up"]
        /\ UNCHANGED sessions
     \/ /\ sessions < MaxSession
        /\ sessions' = sessions + 1
        /\ tui' = [tui EXCEPT ![r].phase = "up", ![r].session = sessions + 1]
  /\ TuiUnchanged

Die(r) ==
  /\ tui[r].phase # "none"
  /\ tui' = [tui EXCEPT ![r] = NoTui]
  /\ UNCHANGED sessions /\ TuiUnchanged

Tui == \E r \in Role : StartTurn(r) \/ EndTurn(r) \/ Boot(r) \/ Die(r)

(* The command is killed, or an exception ends it where it undoes nothing.  *)
Fail ==
  /\ life.pc # "idle"
  /\ life' = Idle
  /\ UNCHANGED <<toml, roleState, tui, stray, sessions, latest>>

-----------------------------------------------------------------------------
(* Panes: acp_role_spawn_command, for bootstrap and for resume. *)

Slip_OpenWindow ==
  /\ life.pc = "window"
  /\ Loop("spawn")
  /\ UNCHANGED <<toml, roleState, tui, stray, sessions, latest>>

(* prepare_grouped_agent_window refuses to add to a window that is there.   *)
OpenWindow ==
  /\ life.pc = "window"
  /\ ~WindowExists
  /\ Loop("spawn")
  /\ UNCHANGED <<toml, roleState, tui, stray, sessions, latest>>

Spawn(r) ==
  /\ life.pc = "spawn" /\ r \in life.todo
  /\ tui' = [tui EXCEPT ![r] = [NoTui EXCEPT !.phase = "starting", !.session =
                                  IF life.op = "resume" /\ life.policy = "exact"
                                  THEN life.session[r] ELSE NoSession]]
  /\ stray' = [stray EXCEPT ![r] = @ \cup (IF Answers(r) THEN {tui[r].session} ELSE {})]
  /\ life' = [life EXCEPT !.pc = IF life.op = "resume" THEN "check" ELSE "wait", !.role = r]
  /\ UNCHANGED <<toml, roleState, sessions, latest>>

-----------------------------------------------------------------------------
(* bootstrap. *)

(* --force-config: an existing file is replaced before anything is looked   *)
(* at; the provisional file has no sessions.                                *)
Provision ==
  /\ life.pc = "idle"
  /\ toml' = [r \in Role |-> [NoEntry EXCEPT !.state = "active"]]
  /\ life' = [Idle EXCEPT !.op = "bootstrap", !.pc = "window"]
  /\ UNCHANGED <<roleState, tui, stray, sessions, latest>>

(* wait_for_acp_tui, then apply_acp_initial_config sets options of the      *)
(* session that answered.                                                   *)
Configure ==
  /\ At("bootstrap", "wait")
  /\ Answers(life.role)
  /\ Goto("prompt")
  /\ UNCHANGED <<toml, roleState, tui, stray, sessions, latest>>

(* The startup prompt.                                                      *)
Prompt ==
  /\ At("bootstrap", "prompt")
  /\ Rests(life.role) /\ tui[life.role].accepting
  /\ tui' = [tui EXCEPT ![life.role].busy = TRUE]
  /\ Goto("settle")
  /\ UNCHANGED <<toml, roleState, stray, sessions, latest>>

(* Three seconds later the session id is read.                              *)
Settle ==
  LET r == life.role IN
  /\ At("bootstrap", "settle")
  /\ Answers(r)
  /\ life' = [Visited(r, "spawn", "bind") EXCEPT !.session[r] = tui[r].session]
  /\ UNCHANGED <<toml, roleState, tui, stray, sessions, latest>>

Bind ==
  /\ At("bootstrap", "bind")
  /\ toml' = [r \in Role |-> [NoEntry EXCEPT !.state = "active", !.session = life.session[r]]]
  /\ Goto("goal")
  /\ UNCHANGED <<roleState, tui, stray, sessions, latest>>

(* The goal's Store.connect creates the rows; the wake starts a turn of the *)
(* role that gets the goal, or fails.                                       *)
SendGoal ==
  /\ At("bootstrap", "goal")
  /\ roleState' = Synced
  /\ \E r \in Role :
       \/ Rests(r) /\ tui[r].accepting /\ tui' = [tui EXCEPT ![r].busy = TRUE]
       \/ UNCHANGED tui
  /\ life' = Idle
  /\ UNCHANGED <<toml, stray, sessions, latest>>

Bootstrap == Configure \/ Prompt \/ Settle \/ Bind \/ SendGoal

-----------------------------------------------------------------------------
(* sleep. *)

Slip_StartSleep ==
  /\ life.pc = "idle"
  /\ roleState' = Synced
  /\ \E policy \in Policy :
       life' = [Idle EXCEPT !.op = "sleep", !.pc = "inspect", !.todo = Role, !.policy = policy]
  /\ UNCHANGED <<toml, tui, stray, sessions, latest>>

StartSleep ==
  /\ life.pc = "idle" /\ Configured
  /\ roleState' = Synced
  /\ \E policy \in Policy :
       life' = [Idle EXCEPT !.op = "sleep", !.pc = "inspect", !.todo = Role, !.policy = policy]
  /\ UNCHANGED <<toml, tui, stray, sessions, latest>>

Slip_Inspect(r) ==
  /\ life.pc = "inspect" /\ r \in life.todo
  /\ toml[r].session # NoSession
  /\ Rests(r)
  /\ life' = [Visited(r, "inspect", "drain") EXCEPT !.session[r] = tui[r].session,
                                                    !.original[r] = roleState[r]]
  /\ UNCHANGED <<toml, roleState, tui, stray, sessions, latest>>

(* _validate_acp_sleep_status of the first loop.  Nothing has been changed  *)
(* yet, so a failure needs no rollback.                                     *)
Inspect(r) ==
  /\ life.pc = "inspect" /\ r \in life.todo
  /\ toml[r].session # NoSession
  /\ Rests(r) /\ tui[r].session = toml[r].session
  /\ life' = [Visited(r, "inspect", "drain") EXCEPT !.session[r] = tui[r].session,
                                                    !.original[r] = roleState[r]]
  /\ UNCHANGED <<toml, roleState, tui, stray, sessions, latest>>

(* Role by role in SQLite; when one cannot be written all is rolled back.   *)
Drain ==
  /\ life.pc = "drain"
  /\ \/ roleState' = [r \in Role |-> "draining"] /\ Loop("quiesce")
     \/ /\ \E done \in SUBSET Role :
             roleState' = [r \in Role |-> IF r \in done THEN "draining" ELSE roleState[r]]
        /\ Goto("unquiesce")
  /\ UNCHANGED <<toml, tui, stray, sessions, latest>>

Slip_Quiesce(r) ==
  /\ life.pc = "quiesce" /\ r \in life.todo
  /\ Rests(r) /\ tui[r].session = life.session[r]
  /\ life' = [Visited(r, "quiesce", "handoff") EXCEPT
                !.quiesced = @ \cup {r},
                !.todo = IF life.todo = {r} THEN Role ELSE @]
  /\ UNCHANGED <<toml, roleState, tui, stray, sessions, latest>>

(* The UI stops taking prompts and says whether a turn is under way; then,  *)
(* and when there is no answer, what has been prepared is rolled back.  The *)
(* role is on the list if an answer came.                                   *)
Quiesce(r) ==
  /\ life.pc = "quiesce" /\ r \in life.todo
  /\ Answers(r) /\ tui[r].session = life.session[r]
  /\ tui' = [tui EXCEPT ![r].accepting = FALSE]
  /\ life' = IF tui[r].busy
             THEN [life EXCEPT !.pc = "unquiesce", !.quiesced = @ \cup {r}]
             ELSE [Visited(r, "quiesce", "handoff") EXCEPT
                     !.quiesced = @ \cup {r},
                     !.todo = IF life.todo = {r} THEN Role ELSE @]
  /\ UNCHANGED <<toml, roleState, stray, sessions, latest>>

AnswerLost(r) ==
  /\ life.pc = "quiesce" /\ r \in life.todo
  /\ \/ /\ Answers(r) /\ tui[r].session = life.session[r]
        /\ tui' = [tui EXCEPT ![r].accepting = FALSE]
     \/ UNCHANGED tui
  /\ Goto("unquiesce")
  /\ UNCHANGED <<toml, roleState, stray, sessions, latest>>

(* prepare_runtime_handoff; the role drains already.  Once it is done the   *)
(* list of quiesced roles is out of scope.                                  *)
Handoff(r) ==
  /\ life.pc = "handoff" /\ r \in life.todo
  /\ \/ /\ Rests(r)
        /\ life' = [Visited(r, "handoff", "snapshot") EXCEPT
                      !.quiesced = IF life.todo = {r} THEN {} ELSE @]
     \/ Goto("unquiesce")
  /\ UNCHANGED <<toml, roleState, tui, stray, sessions, latest>>

(* write_sleep_snapshot and its event, then pause_active_roles; when one of *)
(* them fails latest.toml, if it is written, is unlinked.                   *)
WriteSnapshot ==
  /\ life.pc = "snapshot"
  /\ \/ latest' = [policy |-> life.policy, session |-> life.session] /\ Goto("pause")
     \/ UNCHANGED latest /\ Goto("unquiesce")
  /\ UNCHANGED <<toml, roleState, tui, stray, sessions>>

(* --no-pause-roles leaves them draining.                                   *)
PauseRoles ==
  /\ life.pc = "pause"
  /\ \/ /\ roleState' = [r \in Role |-> IF roleState[r] \in {"active", "draining"}
                                        THEN "paused" ELSE roleState[r]]
        /\ Goto("teardown") /\ UNCHANGED latest
     \/ Goto("teardown") /\ UNCHANGED <<roleState, latest>>
     \/ latest' = NoSnapshot /\ Goto("unquiesce") /\ UNCHANGED roleState
  /\ UNCHANGED <<toml, tui, stray, sessions>>

(* tmux kill-window: every pane of the team goes.                           *)
Teardown ==
  /\ life.pc = "teardown"
  /\ tui' = [r \in Role |-> NoTui]
  /\ stray' = [r \in Role |-> {}]
  /\ life' = Idle
  /\ UNCHANGED <<toml, roleState, sessions, latest>>

(* rollback_acp_sleep_preparation: the roles on the list, or all of them if *)
(* it is empty; errors are swallowed.                                       *)
Targets == IF life.quiesced = {} THEN Role ELSE life.quiesced

Unquiesce ==
  /\ life.pc = "unquiesce"
  /\ tui' = [r \in Role |->
               IF r \in Targets /\ Answers(r) /\ tui[r].session = life.session[r]
               THEN [tui[r] EXCEPT !.accepting = TRUE] ELSE tui[r]]
  /\ Goto("restore")
  /\ UNCHANGED <<toml, roleState, stray, sessions, latest>>

Restore ==
  /\ life.pc = "restore"
  /\ roleState' = life.original
  /\ life' = Idle
  /\ UNCHANGED <<toml, tui, stray, sessions, latest>>

Sleep ==
  \/ \E r \in Role : Inspect(r) \/ Quiesce(r) \/ AnswerLost(r) \/ Handoff(r)
  \/ Drain \/ WriteSnapshot \/ PauseRoles \/ Teardown \/ Unquiesce \/ Restore

-----------------------------------------------------------------------------
(* resume. *)

(* build_recovery_snapshot: what team.toml still knows.                     *)
Recovered == [policy |-> "exact", session |-> [r \in Role |-> toml[r].session]]

(* load_resume_snapshot.                                                    *)
Saved == IF latest # NoSnapshot THEN latest ELSE Recovered

(* snapshot_acp_metadata: a sleep saves the capsule it has prepared, and    *)
(* team.toml may name an older one.                                         *)
HasCapsule(r) == latest # NoSnapshot \/ toml[r].capsule

(* All roles are validated before the first pane is opened.                 *)
Resumable(policy) ==
  \A r \in Role : IF policy = "exact" THEN Saved.session[r] # NoSession ELSE HasCapsule(r)

StartResume ==
  /\ life.pc = "idle" /\ Configured
  /\ roleState' = Synced
  /\ \E policy \in {p \in Policy : Resumable(p)}, reactivate \in BOOLEAN :
       life' = [Idle EXCEPT !.op = "resume", !.pc = "window", !.policy = policy,
                            !.reactivate = reactivate, !.session = Saved.session]
  /\ UNCHANGED <<toml, tui, stray, sessions, latest>>

Slip_ResumeCheck ==
  LET r == life.role IN
  /\ At("resume", "check")
  /\ Answers(r)
  /\ tui' = [tui EXCEPT ![r].busy = @ \/ life.policy = "handoff"]
  /\ life' = [life EXCEPT !.pc = "rebind", !.session[r] = tui[r].session]
  /\ UNCHANGED <<toml, roleState, stray, sessions, latest>>

(* The pane is up.  An exact resume must have got the saved session, else   *)
(* the command fails; any other session gets the recovery prompt.           *)
ResumeCheck ==
  LET r == life.role IN
  /\ At("resume", "check")
  /\ Answers(r)
  /\ life.policy = "exact" => tui[r].session = life.session[r]
  /\ tui' = [tui EXCEPT ![r].busy = @ \/ life.policy = "handoff"]
  /\ life' = [life EXCEPT !.pc = "rebind", !.session[r] = tui[r].session]
  /\ UNCHANGED <<toml, roleState, stray, sessions, latest>>

(* update_role_runtime_binding writes the role's entry of team.toml, its    *)
(* state included.                                                          *)
ResumeBind ==
  LET r == life.role IN
  /\ At("resume", "rebind")
  /\ toml' = [toml EXCEPT ![r] = [state |-> IF life.reactivate THEN "active" ELSE "paused",
                                  session |-> life.session[r],
                                  capsule |-> HasCapsule(r)]]
  /\ life' = Visited(r, "spawn", "sync")
  /\ UNCHANGED <<roleState, tui, stray, sessions, latest>>

(* load_config and sync_roles; the watchdogs are started again.             *)
ResumeSync ==
  /\ At("resume", "sync")
  /\ roleState' = Synced
  /\ Goto("notify")
  /\ UNCHANGED <<toml, tui, stray, sessions, latest>>

(* Roles with pending messages are woken if the roles are reactivated; a    *)
(* wake that fails is ignored.                                              *)
ResumeNotify ==
  /\ At("resume", "notify")
  /\ \E woken \in SUBSET {r \in Role : Rests(r) /\ tui[r].accepting /\ life.reactivate} :
       tui' = [r \in Role |-> [tui[r] EXCEPT !.busy = @ \/ r \in woken]]
  /\ life' = Idle
  /\ UNCHANGED <<toml, roleState, stray, sessions, latest>>

Resume == ResumeCheck \/ ResumeBind \/ ResumeSync \/ ResumeNotify

-----------------------------------------------------------------------------

Start == Provision \/ StartSleep \/ StartResume

Proceed == OpenWindow \/ (\E r \in Role : Spawn(r)) \/ Bootstrap \/ Sleep \/ Resume

Next == Tui \/ Start \/ Proceed \/ Fail

Spec == Init /\ [][Next]_vars

-----------------------------------------------------------------------------
(* What becomes of sessions, for RoleSessions. *)

(* Every session that runs for a role, or that some file or the command     *)
(* remembers for it.                                                        *)
Known(r) ==
  (stray[r] \cup {tui[r].session, toml[r].session, life.session[r]}
   \cup (IF latest = NoSnapshot THEN {} ELSE {latest.session[r]})) \ {NoSession}

Sessions == INSTANCE RoleSessions WITH
  used <- sessions,
  own <- [r \in Role |-> Known(r)],
  live <- [r \in Role |-> stray[r] \cup (IF Answers(r) THEN {tui[r].session} ELSE {})],
  bound <- [r \in Role |-> toml[r].session]

-----------------------------------------------------------------------------
(* Properties. *)

(* "ACP sleep drains and atomically quiesces every role before snapshot and *)
(* teardown" (docs/invariants.md): from the snapshot until kill-window no   *)
(* role that is still there runs a turn or can start one, whoever wakes it  *)
(* while the other roles are being prepared.                                *)
SleepBarrier ==
  life.pc \in {"snapshot", "pause", "teardown"} =>
    \A r \in Role : Answers(r) => ~tui[r].busy /\ ~tui[r].accepting

(* What a sleep saves is what it kills: at the teardown latest.toml names   *)
(* the session of every role that is still there, which is the one          *)
(* team.toml binds.                                                         *)
SnapshotIsLive ==
  life.pc = "teardown" =>
    \A r \in Role : Answers(r) => /\ latest.session[r] = tui[r].session
                                  /\ toml[r].session = tui[r].session

(* resume binds what runs: when every role has been resumed, team.toml      *)
(* names the session of every role that is still there, and after an exact  *)
(* resume it is the saved one ("Never silently fall back from exact to      *)
(* handoff", docs/invariants.md).                                           *)
ResumeBindsLive ==
  life.pc \in {"sync", "notify"} =>
    \A r \in Role : Answers(r) =>
      /\ toml[r].session = tui[r].session
      /\ life.policy = "exact" => tui[r].session = Saved.session[r]

(* No provider session is open in two terminal UIs, however often bootstrap *)
(* and resume are tried again after a failure: prepare_grouped_agent_window *)
(* looks before they open a pane.                                           *)
SessionOpenOnce ==
  \A r \in Role :
    /\ Answers(r) => tui[r].session \notin stray[r]
    /\ \A q \in Role \ {r} : Answers(r) /\ Answers(q) => tui[r].session # tui[q].session

(* A resume that reactivates roles leaves none of them paused ("Resume      *)
(* reactivates roles by default", docs/invariants.md).                      *)
ResumeReactivates ==
  At("resume", "notify") /\ life.reactivate => \A r \in Role : roleState[r] = "active"

(* "Any pre-teardown failure unquiesces roles and restores their prior      *)
(* state" (docs/invariants.md): when a sleep that failed has gone through   *)
(* unquiesce, the roles that are there take prompts again.                  *)
RollbackReopens ==
  At("sleep", "restore") => \A r \in Role : Answers(r) => tui[r].accepting

(* Bootstrap, sleep and resume keep the promises of RoleSessions, in        *)
(* whatever order they are run and wherever they fail: none of them moves a *)
(* session from one role to another, by the snapshot, the recovery from     *)
(* team.toml or a pane that is given a new session while the old one is     *)
(* there.                                                                   *)
SessionsImplementation == Sessions!Spec

=============================================================================
