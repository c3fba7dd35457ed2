----------------------------- MODULE RuntimeSwitch -----------------------------
(***************************************************************************)
(* Commands on the provider session behind one ACP role: runtime prepare,  *)
(* runtime switch and runtime configure (runtime_switch.py), beside role   *)
(* commands, which set the role's state.  Three copies of the truth meet:  *)
(* the capabilities in team.toml, their image in the SQLite row, and the   *)
(* session that really runs in the pane's terminal UI.                     *)
(*                                                                         *)
(* Every process is one tmux-team invocation at a time.  It loads          *)
(* team.toml, opens the store (which copies what it loaded into the row)   *)
(* and goes on step by step; between two steps any other process, the      *)
(* agent or the UI may act.  It may also stop at any step: killed, or by   *)
(* an exception on a timeout, a lost answer or a failing tmux.  The kernel *)
(* then drops its locks; only prepare undoes something first.  Of the      *)
(* capabilities two are kept: the session id and one config option.  Of a  *)
(* capsule only its source session is kept; a capsule that is not the      *)
(* latest one, or has been tampered with, is refused and changes nothing.  *)
(***************************************************************************)
EXTENDS Naturals

CONSTANTS
  Cmd,         \* processes that run one command after another
  Switcher,    \* those that may run runtime switch
  Option,      \* values of the config option
  RoleState,   \* role states an operator sets
  MaxSession,  \* bound: provider sessions created
  MaxSet,      \* bound: --set arguments of one configure
  Nobody       \* holder of a free lock

ASSUME SwitchAssumption ==
  /\ Switcher \subseteq Cmd
  /\ Nobody \notin Cmd
  /\ Option # {}
  /\ {"active", "draining"} \subseteq RoleState
  /\ MaxSession \in Nat \ {0}
  /\ MaxSet \in Nat \ {0}

VARIABLES
  roleState,   \* roles.state of the role
  toml,        \* the role's capabilities in team.toml
  row,         \* the session id in roles.capabilities_json
  tui,         \* the terminal UI in the role's pane
  prepared,    \* source session of the latest prepared capsule, 0 if none
  roleLock,    \* holder of handoffs/<role>/runtime.lock
  tomlLock,    \* holder of team.toml.lock
  cmd          \* cmd[c]: what process c is doing

vars == <<roleState, toml, row, tui, prepared, roleLock, tomlLock, cmd>>

Session == 1..MaxSession

(* A handoff capsule, reduced to the session it was taken from.             *)
Capsule == Session
NoCapsule == 0

(* The values the UI offers for the option when it is asked for             *)
(* configOptions; a --set to any other is refused before it is sent.        *)
Advertised == Option

Binding == [session : Session, option : Option]

Operation == {"none", "prepare", "switch", "configure"}

Step ==
  {"idle", "connect", "begin",
   "drain", "status", "record", "restore",
   "check", "cancel", "quiesce", "respawn", "wait",
   "request", "set",
   "update", "replace", "load", "sync", "recover", "activate"}

(* What a process knows of its command: the role state it found, the        *)
(* session it speaks to, the option it sets, how many --set are left, the   *)
(* session it loaded from team.toml and the file it is rewriting.           *)
Command ==
  [op : Operation, pc : Step, before : RoleState, session : 0..MaxSession, option : Option,
   left : 0..MaxSet, loaded : Session, copy : Binding]

SwitchTypeOK ==
  /\ roleState \in RoleState
  /\ toml \in Binding /\ row \in Session
  /\ tui \in [phase : {"ready", "starting", "down"}, session : Session, option : Option,
              busy : BOOLEAN, accepting : BOOLEAN, recovered : BOOLEAN]
  /\ prepared \in Capsule \cup {NoCapsule}
  /\ roleLock \in Cmd \cup {Nobody}
  /\ tomlLock \in Cmd \cup {Nobody}
  /\ cmd \in [Cmd -> Command]

(* The first value of the option; what it is does not matter.               *)
SomeOption == CHOOSE o \in Option : TRUE

Idle ==
  [op |-> "none", pc |-> "idle", before |-> "active", session |-> 0, option |-> SomeOption, left |-> 0,
   loaded |-> 1, copy |-> [session |-> 1, option |-> SomeOption]]

(* A role that bootstrap has brought up: the three copies agree.            *)
Init ==
  /\ roleState = "active"
  /\ toml = [session |-> 1, option |-> SomeOption]
  /\ row = 1
  /\ tui = [phase |-> "ready", session |-> 1, option |-> SomeOption,
            busy |-> FALSE, accepting |-> TRUE, recovered |-> FALSE]
  /\ prepared = NoCapsule
  /\ roleLock = Nobody /\ tomlLock = Nobody
  /\ cmd = [c \in Cmd |-> Idle]

At(c, pc) == cmd[c].pc = pc
Goto(c, pc) == cmd' = [cmd EXCEPT ![c].pc = pc]

(* What the command had loaded is of no more use to it.                     *)
Leave(c, pc) == cmd' = [cmd EXCEPT ![c].pc = pc, ![c].loaded = Idle.loaded]

(* _require_idle on a status answer.                                        *)
TuiIdle == tui.phase = "ready" /\ ~tui.busy

-----------------------------------------------------------------------------
(* The terminal UI and the agent in it. *)

TuiUnchanged == UNCHANGED <<roleState, toml, row, prepared, roleLock, tomlLock, cmd>>

(* A wake, an urgent notice or a nudge starts a turn; draining stops only   *)
(* ordinary sends, so the state of the role does not matter here.           *)
StartTurn ==
  /\ TuiIdle /\ tui.accepting
  /\ tui' = [tui EXCEPT !.busy = TRUE]
  /\ TuiUnchanged

EndTurn ==
  /\ tui.busy
  /\ tui' = [tui EXCEPT !.busy = FALSE]
  /\ TuiUnchanged

(* The replacement has created its session, with options of its own.        *)
Boot ==
  /\ tui.phase = "starting"
  /\ tui.session < MaxSession
  /\ \E o \in Option :
       tui' = [phase |-> "ready", session |-> tui.session + 1, option |-> o,
               busy |-> FALSE, accepting |-> TRUE, recovered |-> FALSE]
  /\ TuiUnchanged

Crash ==
  /\ tui.phase # "down"
  /\ tui' = [tui EXCEPT !.phase = "down", !.busy = FALSE]
  /\ TuiUnchanged

Tui == StartTurn \/ EndTurn \/ Boot \/ Crash

-----------------------------------------------------------------------------
(* Every command: load_config, then Store.connect with its sync_roles. *)

Start(c, op) ==
  /\ At(c, "idle")
  /\ op = "switch" => c \in Switcher
  /\ cmd' = [cmd EXCEPT ![c] = [Idle EXCEPT !.op = op, !.pc = "connect", !.loaded = toml.session]]
  /\ UNCHANGED <<roleState, toml, row, tui, prepared, roleLock, tomlLock>>

Connect(c) ==
  /\ At(c, "connect")
  /\ row' = cmd[c].loaded
  /\ Leave(c, "begin")
  /\ UNCHANGED <<roleState, toml, tui, prepared, roleLock, tomlLock>>

(* role pause, resume, drain, retire, fail, from another shell.  What such  *)
(* a command loads and syncs any other command may load and sync too.       *)
SetRoleState ==
  /\ roleState' \in RoleState
  /\ UNCHANGED <<toml, row, tui, prepared, roleLock, tomlLock, cmd>>

Release(lock, c) == IF lock = c THEN Nobody ELSE lock

(* The command ends here, by an exception or a signal.                      *)
Stop(c) ==
  /\ ~At(c, "idle")
  /\ cmd' = [cmd EXCEPT ![c] = Idle]
  /\ roleLock' = Release(roleLock, c)
  /\ tomlLock' = Release(tomlLock, c)
  /\ UNCHANGED <<roleState, toml, row, tui, prepared>>

-----------------------------------------------------------------------------
(* runtime prepare. *)

(* previous_state is read here and written back if something fails.         *)
PrepareRead(c) ==
  /\ At(c, "begin") /\ cmd[c].op = "prepare"
  /\ cmd' = [cmd EXCEPT ![c].pc = "drain", ![c].before = roleState]
  /\ UNCHANGED <<roleState, toml, row, tui, prepared, roleLock, tomlLock>>

PrepareDrain(c) ==
  /\ At(c, "drain")
  /\ roleState' = IF cmd[c].before = "draining" THEN roleState ELSE "draining"
  /\ Goto(c, "status")
  /\ UNCHANGED <<toml, row, tui, prepared, roleLock, tomlLock>>

PrepareStatus(c) ==
  /\ At(c, "status")
  /\ \/ TuiIdle /\ cmd' = [cmd EXCEPT ![c].pc = "record", ![c].session = tui.session]
     \/ Goto(c, "restore")
  /\ UNCHANGED <<roleState, toml, row, tui, prepared, roleLock, tomlLock>>

(* Between the two try blocks the capsule is written: a failure there, like *)
(* a signal, leaves the role draining.                                      *)
PrepareRecord(c) ==
  /\ At(c, "record")
  /\ \/ /\ prepared' = cmd[c].session
        /\ cmd' = [cmd EXCEPT ![c] = Idle]
     \/ Goto(c, "restore") /\ UNCHANGED prepared
  /\ UNCHANGED <<roleState, toml, row, tui, roleLock, tomlLock>>

PrepareRestore(c) ==
  /\ At(c, "restore")
  /\ roleState' = IF cmd[c].before = "draining" THEN roleState ELSE cmd[c].before
  /\ cmd' = [cmd EXCEPT ![c] = Idle]
  /\ UNCHANGED <<toml, row, tui, prepared, roleLock, tomlLock>>

Prepare(c) ==
  \/ PrepareRead(c) \/ PrepareDrain(c) \/ PrepareStatus(c)
  \/ PrepareRecord(c) \/ PrepareRestore(c)

-----------------------------------------------------------------------------
(* runtime switch.  It takes no lock of its own. *)

(* validate_prepared_handoff: the latest capsule, of a role that drains.     *)
ValidHandoff == roleState = "draining" /\ prepared # NoCapsule

(* What is checked before the UI is asked anything, and before --dry-run    *)
(* returns: the handoff, and that it is of the configured session.          *)
SwitchValidate(c) ==
  /\ At(c, "begin") /\ cmd[c].op = "switch"
  /\ ValidHandoff /\ prepared = row
  /\ cmd' = [cmd EXCEPT ![c].pc = "check", ![c].session = prepared]
  /\ UNCHANGED <<roleState, toml, row, tui, prepared, roleLock, tomlLock>>

(* A running turn is refused, or cancelled with --cancel-active.            *)
SwitchStatus(c) ==
  /\ At(c, "check")
  /\ tui.phase = "ready" /\ tui.session = cmd[c].session
  /\ Goto(c, IF tui.busy THEN "cancel" ELSE "quiesce")
  /\ UNCHANGED <<roleState, toml, row, tui, prepared, roleLock, tomlLock>>

(* wait_for_idle: the turn ends by itself or because it is cancelled.       *)
SwitchCancel(c) ==
  /\ At(c, "cancel")
  /\ TuiIdle
  /\ Goto(c, "quiesce")
  /\ UNCHANGED <<roleState, toml, row, tui, prepared, roleLock, tomlLock>>

Slip_SwitchQuiesce(c) ==
  /\ At(c, "quiesce")
  /\ TuiIdle /\ tui.session = cmd[c].session
  /\ Goto(c, "respawn")
  /\ UNCHANGED <<roleState, toml, row, tui, prepared, roleLock, tomlLock>>

(* The UI closes its prompt queue and answers with its state, in one step.  *)
(* A turn that slipped in, or a lost answer, ends the command and leaves    *)
(* the queue closed: nothing in the command opens it again.                 *)
SwitchQuiesce(c) ==
  /\ At(c, "quiesce")
  /\ tui.phase = "ready" /\ tui.session = cmd[c].session
  /\ tui' = [tui EXCEPT !.accepting = FALSE]
  /\ \/ ~tui.busy /\ Goto(c, "respawn")
     \/ cmd' = [cmd EXCEPT ![c] = Idle]
  /\ UNCHANGED <<roleState, toml, row, prepared, roleLock, tomlLock>>

(* tmux respawn-pane -k.  The old UI may answer until the new one has bound *)
(* the socket, hence the old session id.                                    *)
SwitchRespawn(c) ==
  /\ At(c, "respawn")
  /\ tui' = [tui EXCEPT !.phase = "starting", !.busy = FALSE]
  /\ Goto(c, "wait")
  /\ UNCHANGED <<roleState, toml, row, prepared, roleLock, tomlLock>>

Slip_SwitchWait(c) ==
  /\ At(c, "wait")
  /\ tui.phase # "down" /\ ~tui.busy
  /\ cmd' = [cmd EXCEPT ![c].pc = "update", ![c].session = tui.session]
  /\ UNCHANGED <<roleState, toml, row, tui, prepared, roleLock, tomlLock>>

(* wait_for_replacement_session: whoever answers must be idle and name      *)
(* another session than the one that was replaced.                          *)
SwitchWait(c) ==
  /\ At(c, "wait")
  /\ tui.phase # "down" /\ ~tui.busy
  /\ tui.session # cmd[c].session
  /\ cmd' = [cmd EXCEPT ![c].pc = "update", ![c].session = tui.session]
  /\ UNCHANGED <<roleState, toml, row, tui, prepared, roleLock, tomlLock>>

(* The recovery prompt names no session: whoever listens gets it.           *)
SwitchRecover(c) ==
  /\ At(c, "recover")
  /\ tui.phase = "ready" /\ tui.accepting
  /\ tui' = [tui EXCEPT !.recovered = TRUE, !.busy = TRUE]
  /\ Goto(c, "activate")
  /\ UNCHANGED <<roleState, toml, row, prepared, roleLock, tomlLock>>

SwitchActivate(c) ==
  /\ At(c, "activate")
  /\ roleState' = "active"
  /\ cmd' = [cmd EXCEPT ![c] = Idle]
  /\ UNCHANGED <<toml, row, tui, prepared, roleLock, tomlLock>>

Switch(c) ==
  \/ SwitchValidate(c) \/ SwitchStatus(c) \/ SwitchCancel(c) \/ SwitchQuiesce(c)
  \/ SwitchRespawn(c) \/ SwitchWait(c) \/ SwitchRecover(c) \/ SwitchActivate(c)

-----------------------------------------------------------------------------
(* runtime configure, under the role's lock. *)

Slip_ConfigureLock(c) ==
  /\ At(c, "begin") /\ cmd[c].op = "configure"
  /\ roleLock' = c
  /\ \E n \in 1..MaxSet : cmd' = [cmd EXCEPT ![c].pc = "request", ![c].left = n]
  /\ UNCHANGED <<roleState, toml, row, tui, prepared, tomlLock>>

ConfigureLock(c) ==
  /\ At(c, "begin") /\ cmd[c].op = "configure"
  /\ roleLock = Nobody
  /\ roleLock' = c
  /\ \E n \in 1..MaxSet : cmd' = [cmd EXCEPT ![c].pc = "request", ![c].left = n]
  /\ UNCHANGED <<roleState, toml, row, tui, prepared, tomlLock>>

(* configOptions and status must name the configured session; the UI must   *)
(* be idle and open.                                                        *)
ConfigureRequest(c) ==
  /\ At(c, "request")
  /\ TuiIdle /\ tui.accepting /\ tui.session = row
  /\ cmd' = [cmd EXCEPT ![c].pc = "set", ![c].session = tui.session]
  /\ UNCHANGED <<roleState, toml, row, tui, prepared, roleLock, tomlLock>>

(* One --set: the UI changes the option and confirms it, or the answer is   *)
(* lost and the command ends with the option changed.                       *)
ConfigureSet(c) ==
  /\ At(c, "set")
  /\ tui.phase = "ready" /\ tui.session = cmd[c].session
  /\ \E o \in Advertised :
       /\ tui' = [tui EXCEPT !.option = o]
       /\ \/ /\ cmd' = [cmd EXCEPT ![c].pc = "update", ![c].option = o, ![c].left = @ - 1]
             /\ UNCHANGED roleLock
          \/ cmd' = [cmd EXCEPT ![c] = Idle] /\ roleLock' = Nobody
  /\ UNCHANGED <<roleState, toml, row, prepared, tomlLock>>

Configure(c) == ConfigureLock(c) \/ ConfigureRequest(c) \/ ConfigureSet(c)

-----------------------------------------------------------------------------
(* update_role_capabilities, load_config, sync_roles: switch and configure. *)

Slip_UpdateRead(c) ==
  /\ At(c, "update")
  /\ tomlLock' = c
  /\ cmd' = [cmd EXCEPT ![c].pc = "replace", ![c].copy = toml]
  /\ UNCHANGED <<roleState, toml, row, tui, prepared, roleLock>>

Slip_SyncFirst(c) ==
  /\ At(c, "update")
  /\ tomlLock = Nobody
  /\ tomlLock' = c
  /\ row' = IF cmd[c].op = "switch" THEN cmd[c].session ELSE row
  /\ cmd' = [cmd EXCEPT ![c].pc = "replace", ![c].copy = toml]
  /\ UNCHANGED <<roleState, toml, tui, prepared, roleLock>>

UpdateRead(c) ==
  /\ At(c, "update")
  /\ tomlLock = Nobody
  /\ tomlLock' = c
  /\ cmd' = [cmd EXCEPT ![c].pc = "replace", ![c].copy = toml]
  /\ UNCHANGED <<roleState, toml, row, tui, prepared, roleLock>>

Slip_UpdateReplace(c) ==
  /\ At(c, "replace")
  /\ toml' = IF cmd[c].op = "switch"
             THEN [cmd[c].copy EXCEPT !.session = cmd[c].session]
             ELSE [session |-> 0, option |-> cmd[c].option]
  /\ tomlLock' = Release(tomlLock, c)
  /\ cmd' = [cmd EXCEPT ![c].pc = "load", ![c].copy = Idle.copy]
  /\ UNCHANGED <<roleState, row, tui, prepared, roleLock>>

(* The whole file is written back, with the keys of the command changed.    *)
UpdateReplace(c) ==
  /\ At(c, "replace")
  /\ toml' = IF cmd[c].op = "switch"
             THEN [cmd[c].copy EXCEPT !.session = cmd[c].session]
             ELSE [cmd[c].copy EXCEPT !.option = cmd[c].option]
  /\ tomlLock' = Release(tomlLock, c)
  /\ cmd' = [cmd EXCEPT ![c].pc = "load", ![c].copy = Idle.copy]
  /\ UNCHANGED <<roleState, row, tui, prepared, roleLock>>

Load(c) ==
  /\ At(c, "load")
  /\ cmd' = [cmd EXCEPT ![c].pc = "sync", ![c].loaded = toml.session]
  /\ UNCHANGED <<roleState, toml, row, tui, prepared, roleLock, tomlLock>>

(* After the row and its event configure takes the next --set or ends.      *)
Sync(c) ==
  /\ At(c, "sync")
  /\ row' = cmd[c].loaded
  /\ \/ cmd[c].op = "switch" /\ Leave(c, "recover") /\ UNCHANGED roleLock
     \/ cmd[c].op = "configure" /\ cmd[c].left > 0 /\ Leave(c, "set") /\ UNCHANGED roleLock
     \/ /\ cmd[c].op = "configure" /\ cmd[c].left = 0
        /\ cmd' = [cmd EXCEPT ![c] = Idle] /\ roleLock' = Release(roleLock, c)
  /\ UNCHANGED <<roleState, toml, tui, prepared, tomlLock>>

Persist(c) == UpdateRead(c) \/ UpdateReplace(c) \/ Load(c) \/ Sync(c)

-----------------------------------------------------------------------------

Proceed(c) == Connect(c) \/ Prepare(c) \/ Switch(c) \/ Configure(c) \/ Persist(c)

Next ==
  \/ Tui \/ SetRoleState
  \/ \E c \in Cmd :
       \/ \E op \in Operation \ {"none"} : Start(c, op)
       \/ Proceed(c) \/ Stop(c)

Spec == Init /\ [][Next]_vars

-----------------------------------------------------------------------------
(* Properties. *)

(* "Use the TUI control-socket quiesce barrier before pane replacement;     *)
(* status polling alone cannot close the prompt race" (docs/invariants.md): *)
(* from the answer to quiesce until respawn-pane the session a switch is    *)
(* about to replace runs no turn and accepts no prompt, whoever wakes it.   *)
QuiesceBarrier ==
  \A c \in Cmd :
    At(c, "respawn") /\ tui.session = cmd[c].session => ~tui.busy /\ ~tui.accepting

(* _config_update_lock: two commands that rewrite team.toml at once lose    *)
(* nothing of each other's.  The session id changes only to the one a       *)
(* switch writes, the option only to the one a configure writes.            *)
Writes(c, op) == At(c, "replace") /\ cmd[c].op = op

OnlyOwnKeys ==
  [][/\ toml'.session # toml.session =>
          \E c \in Cmd : Writes(c, "switch") /\ toml'.session = cmd[c].session
     /\ toml'.option # toml.option =>
          \E c \in Cmd : Writes(c, "configure") /\ toml'.option = cmd[c].option]_vars

(* _runtime_role_lock: what a configure is about to persist is what its     *)
(* session runs with; no other configure has set the option since.          *)
PersistsLiveOption ==
  \A c \in Cmd :
    /\ At(c, "update") \/ At(c, "replace")
    /\ cmd[c].op = "configure"
    /\ tui.session = cmd[c].session
    => tui.option = cmd[c].option

(* "Reactivate the role only after config ... and the recovery prompt are   *)
(* updated" (docs/invariants.md), as long as only one process switches the  *)
(* role: when switch_runtime activates it, the live session is the one      *)
(* bound in team.toml and has been told to recover.                         *)
OneSwitcher == \A c, d \in Switcher : c = d

ActivationReady ==
  OneSwitcher =>
    \A c \in Cmd :
      At(c, "activate") => tui.session = cmd[c].session /\ toml.session = tui.session /\ tui.recovered

(* team.toml is written before its image in SQLite: under one switcher the  *)
(* row may fall behind the file, by a command that dies between the two or  *)
(* one that syncs what it loaded long ago, but never names a session that   *)
(* the file has not named, so that loading the file again repairs it        *)
(* (update_role_capabilities, load_config and sync_roles, in this order).   *)
RowBehindFile == OneSwitcher => row <= toml.session

=============================================================================
