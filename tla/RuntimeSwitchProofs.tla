-------------------------- MODULE RuntimeSwitchProofs --------------------------
(***************************************************************************)
(* Proofs about RuntimeSwitch, for any number of processes, sessions and   *)
(* option values: its types, its four safety invariants and OnlyOwnKeys.   *)
(*                                                                         *)
(* No invariant here is inductive.  SwitchInv adds what the code relies on:*)
(* that a process at a step of a command runs that command and has what    *)
(* the step needs (Bookkeeping); that no session id is known before the    *)
(* session exists, so that a booting UI never takes one a command speaks   *)
(* to (NoFutureSession); that the two file locks exclude (TomlLocked,      *)
(* RoleLocked); and how far the only switch has come (SwitchProgress).     *)
(* One lemma per action shows that it keeps every part.  RowBehindFile     *)
(* needs in addition that team.toml names what has been opened             *)
(* (BoundExists) and that no loaded copy is ahead of it (CopiesBehind).    *)
(***************************************************************************)
EXTENDS RuntimeSwitch, TLAPS

(* Steps of the three groups of actions.                                    *)
SwitchStep == {"check", "cancel", "quiesce", "respawn", "wait", "recover", "activate"}
ConfigureStep == {"request", "set"}
PersistStep == {"update", "replace", "load", "sync"}

(* A process is at a step of the command it runs, and has what it needs.    *)
Bookkeeping ==
  \A c \in Cmd :
    /\ cmd[c].pc \in SwitchStep => cmd[c].op = "switch"
    /\ cmd[c].pc \in ConfigureStep => cmd[c].op = "configure" /\ cmd[c].left > 0
    /\ cmd[c].pc \in PersistStep => cmd[c].op \in {"switch", "configure"}
    /\ cmd[c].op = "switch" => c \in Switcher
    /\ cmd[c].pc \in SwitchStep \cup PersistStep /\ cmd[c].op = "switch" => cmd[c].session # 0

(* Sessions are numbered as they are created, and nobody has heard of one   *)
(* that is still to come.                                                   *)
NoFutureSession == prepared <= tui.session /\ \A c \in Cmd : cmd[c].session <= tui.session

(* _config_update_lock excludes: what a process rewrites is still the file. *)
TomlLocked == \A c \in Cmd : At(c, "replace") => tomlLock = c /\ cmd[c].copy = toml

(* _runtime_role_lock is held by the configure that has begun.              *)
RoleLocked ==
  \A c \in Cmd :
    cmd[c].op = "configure" /\ cmd[c].pc \in ConfigureStep \cup PersistStep => roleLock = c

(* How far the only switch has come.                                        *)
Progress(c) ==
  /\ cmd[c].pc \in {"cancel", "quiesce", "respawn"} =>
       tui.session = cmd[c].session /\ tui.phase # "starting"
  /\ At(c, "wait") => tui.session = cmd[c].session \/ tui.phase # "starting"
  /\ cmd[c].op = "switch" /\ cmd[c].pc \in PersistStep \cup {"recover", "activate"} =>
       tui.session = cmd[c].session /\ tui.phase # "starting"
  /\ cmd[c].op = "switch" /\ cmd[c].pc \in {"load", "sync", "recover", "activate"} =>
       toml.session = cmd[c].session
  /\ At(c, "activate") => tui.recovered

SwitchProgress == OneSwitcher => \A c \in Cmd : Progress(c)

SwitchInv ==
  /\ SwitchTypeOK
  /\ Bookkeeping
  /\ NoFutureSession
  /\ TomlLocked
  /\ RoleLocked
  /\ QuiesceBarrier
  /\ PersistsLiveOption
  /\ SwitchProgress

-----------------------------------------------------------------------------

LEMMA IdleType == Idle \in Command
<1>1. SomeOption \in Option
  BY SwitchAssumption DEF SomeOption
<1> QED
  BY <1>1, SwitchAssumption DEF Idle, Command, Operation, Step, Session, Binding

-----------------------------------------------------------------------------
(* The terminal UI. *)

LEMMA StartTurnKeeps ==
  ASSUME SwitchInv, StartTurn
  PROVE  SwitchInv'
<1> USE SwitchAssumption DEF SwitchInv
<1>1. SwitchTypeOK'
  BY SwitchAssumption DEF SwitchTypeOK, Session, Binding, Capsule, StartTurn, TuiIdle, TuiUnchanged
<1>2. Bookkeeping'
  BY DEF Bookkeeping, StartTurn, TuiIdle, TuiUnchanged
<1>3. NoFutureSession'
  BY DEF NoFutureSession, StartTurn, TuiIdle, TuiUnchanged
<1>4. TomlLocked'
  BY DEF TomlLocked, StartTurn, TuiIdle, TuiUnchanged, At
<1>5. RoleLocked'
  BY DEF RoleLocked, StartTurn, TuiIdle, TuiUnchanged
<1>6. QuiesceBarrier'
  BY DEF QuiesceBarrier, StartTurn, TuiIdle, TuiUnchanged, At
<1>7. PersistsLiveOption'
  BY DEF PersistsLiveOption, StartTurn, TuiIdle, TuiUnchanged, At
<1>8. SwitchProgress'
  BY DEF SwitchProgress, Progress, StartTurn, TuiIdle, TuiUnchanged, At
<1> QED
  BY <1>1, <1>2, <1>3, <1>4, <1>5, <1>6, <1>7, <1>8

LEMMA EndTurnKeeps ==
  ASSUME SwitchInv, EndTurn
  PROVE  SwitchInv'
<1> USE SwitchAssumption DEF SwitchInv
<1>1. SwitchTypeOK'
  BY SwitchAssumption DEF SwitchTypeOK, Session, Binding, Capsule, EndTurn, TuiUnchanged
<1>2. Bookkeeping'
  BY DEF Bookkeeping, EndTurn, TuiUnchanged
<1>3. NoFutureSession'
  BY DEF NoFutureSession, EndTurn, TuiUnchanged
<1>4. TomlLocked'
  BY DEF TomlLocked, EndTurn, TuiUnchanged, At
<1>5. RoleLocked'
  BY DEF RoleLocked, EndTurn, TuiUnchanged
<1>6. QuiesceBarrier'
  BY DEF QuiesceBarrier, EndTurn, TuiUnchanged, At
<1>7. PersistsLiveOption'
  BY DEF PersistsLiveOption, EndTurn, TuiUnchanged, At
<1>8. SwitchProgress'
  BY DEF SwitchProgress, Progress, EndTurn, TuiUnchanged, At
<1> QED
  BY <1>1, <1>2, <1>3, <1>4, <1>5, <1>6, <1>7, <1>8

LEMMA BootKeeps ==
  ASSUME SwitchInv, Boot
  PROVE  SwitchInv'
<1> USE SwitchAssumption DEF SwitchInv
<1>1. SwitchTypeOK'
  BY SwitchAssumption DEF SwitchTypeOK, Session, Binding, Capsule, Boot, TuiUnchanged
<1>2. Bookkeeping'
  BY DEF Bookkeeping, Boot, TuiUnchanged
<1>3. NoFutureSession'
  BY DEF NoFutureSession, SwitchTypeOK, Command, Capsule, NoCapsule, Session, Boot, TuiUnchanged
<1>4. TomlLocked'
  BY DEF TomlLocked, Boot, TuiUnchanged, At
<1>5. RoleLocked'
  BY DEF RoleLocked, Boot, TuiUnchanged
<1>6. QuiesceBarrier'
  BY DEF QuiesceBarrier, NoFutureSession, Session, SwitchTypeOK, Command, Boot, TuiUnchanged, At
<1>7. PersistsLiveOption'
  BY DEF PersistsLiveOption, RoleLocked, Bookkeeping, NoFutureSession, Session, SwitchTypeOK,
         Command, SwitchStep, ConfigureStep, PersistStep, Boot, TuiUnchanged, At
<1>8. SwitchProgress'
  BY DEF SwitchProgress, Progress, Bookkeeping, SwitchTypeOK, SwitchStep, ConfigureStep,
         PersistStep, Boot, TuiUnchanged, At
<1> QED
  BY <1>1, <1>2, <1>3, <1>4, <1>5, <1>6, <1>7, <1>8

LEMMA CrashKeeps ==
  ASSUME SwitchInv, Crash
  PROVE  SwitchInv'
<1> USE SwitchAssumption DEF SwitchInv
<1>1. SwitchTypeOK'
  BY SwitchAssumption DEF SwitchTypeOK, Session, Binding, Capsule, Crash, TuiUnchanged
<1>2. Bookkeeping'
  BY DEF Bookkeeping, Crash, TuiUnchanged
<1>3. NoFutureSession'
  BY DEF NoFutureSession, Crash, TuiUnchanged
<1>4. TomlLocked'
  BY DEF TomlLocked, Crash, TuiUnchanged, At
<1>5. RoleLocked'
  BY DEF RoleLocked, Crash, TuiUnchanged
<1>6. QuiesceBarrier'
  BY DEF QuiesceBarrier, Crash, TuiUnchanged, At
<1>7. PersistsLiveOption'
  BY DEF PersistsLiveOption, Crash, TuiUnchanged, At
<1>8. SwitchProgress'
  BY DEF SwitchProgress, Progress, Crash, TuiUnchanged, At
<1> QED
  BY <1>1, <1>2, <1>3, <1>4, <1>5, <1>6, <1>7, <1>8

-----------------------------------------------------------------------------
(* Every command, and role commands beside them. *)

LEMMA StartKeeps ==
  ASSUME SwitchInv, NEW c \in Cmd, NEW op \in Operation \ {"none"}, Start(c, op)
  PROVE  SwitchInv'
<1> USE SwitchAssumption DEF SwitchInv
<1>1. SwitchTypeOK'
  <2>1. cmd[c] \in Command
    BY DEF SwitchTypeOK
  <2>2. {"connect", "idle"} \subseteq Step
    BY DEF Step
  <2>3. cmd' \in [Cmd -> Command]
    BY <2>1, <2>2, IdleType, SwitchAssumption
       DEF SwitchTypeOK, Command, Session, Capsule, NoCapsule, Binding, Start, At
  <2> QED
    BY <2>3 DEF SwitchTypeOK, Binding, Session, Capsule, NoCapsule, Command, Start, At
<1>2. Bookkeeping'
  BY DEF Bookkeeping, SwitchTypeOK, SwitchStep, ConfigureStep, PersistStep, Start, At, Idle
<1>3. NoFutureSession'
  BY DEF NoFutureSession, SwitchTypeOK, Command, Capsule, NoCapsule, Session, Start, At, Idle
<1>4. TomlLocked'
  BY DEF TomlLocked, Start, At, Idle
<1>5. RoleLocked'
  BY DEF RoleLocked, Bookkeeping, SwitchTypeOK, SwitchStep, ConfigureStep, PersistStep, Start, At,
         Idle
<1>6. QuiesceBarrier'
  BY DEF QuiesceBarrier, Start, At, Idle
<1>7. PersistsLiveOption'
  BY DEF PersistsLiveOption, Start, At, Idle
<1>8. SwitchProgress'
  BY DEF SwitchProgress, Progress, Bookkeeping, SwitchTypeOK, SwitchStep, ConfigureStep,
         PersistStep, Start, At, Idle
<1> QED
  BY <1>1, <1>2, <1>3, <1>4, <1>5, <1>6, <1>7, <1>8

LEMMA ConnectKeeps ==
  ASSUME SwitchInv, NEW c \in Cmd, Connect(c)
  PROVE  SwitchInv'
<1> USE SwitchAssumption DEF SwitchInv
<1>1. SwitchTypeOK'
  <2>1. cmd[c] \in Command
    BY DEF SwitchTypeOK
  <2>2. {"begin", "connect"} \subseteq Step
    BY DEF Step
  <2>3. cmd' \in [Cmd -> Command]
    BY <2>1, <2>2, IdleType, SwitchAssumption
       DEF SwitchTypeOK, Command, Session, Capsule, NoCapsule, Binding, Connect, At, Leave
  <2> QED
    BY <2>3 DEF SwitchTypeOK, Binding, Session, Capsule, NoCapsule, Command, Connect, At, Leave
<1>2. Bookkeeping'
  BY DEF Bookkeeping, SwitchTypeOK, SwitchStep, ConfigureStep, PersistStep, Connect, At, Leave
<1>3. NoFutureSession'
  BY DEF NoFutureSession, SwitchTypeOK, Connect, At, Leave
<1>4. TomlLocked'
  BY DEF TomlLocked, SwitchTypeOK, Connect, At, Leave
<1>5. RoleLocked'
  BY DEF RoleLocked, Bookkeeping, SwitchTypeOK, SwitchStep, ConfigureStep, PersistStep, Connect, At,
         Leave
<1>6. QuiesceBarrier'
  BY DEF QuiesceBarrier, SwitchTypeOK, Connect, At, Leave
<1>7. PersistsLiveOption'
  BY DEF PersistsLiveOption, SwitchTypeOK, Connect, At, Leave
<1>8. SwitchProgress'
  BY DEF SwitchProgress, Progress, Bookkeeping, SwitchTypeOK, SwitchStep, ConfigureStep,
         PersistStep, Connect, At, Leave
<1> QED
  BY <1>1, <1>2, <1>3, <1>4, <1>5, <1>6, <1>7, <1>8

LEMMA SetRoleStateKeeps ==
  ASSUME SwitchInv, SetRoleState
  PROVE  SwitchInv'
<1> USE SwitchAssumption DEF SwitchInv
<1>1. SwitchTypeOK'
  BY SwitchAssumption DEF SwitchTypeOK, Session, Binding, Capsule, SetRoleState
<1>2. Bookkeeping'
  BY DEF Bookkeeping, SetRoleState
<1>3. NoFutureSession'
  BY DEF NoFutureSession, SetRoleState
<1>4. TomlLocked'
  BY DEF TomlLocked, SetRoleState, At
<1>5. RoleLocked'
  BY DEF RoleLocked, SetRoleState
<1>6. QuiesceBarrier'
  BY DEF QuiesceBarrier, SetRoleState, At
<1>7. PersistsLiveOption'
  BY DEF PersistsLiveOption, SetRoleState, At
<1>8. SwitchProgress'
  BY DEF SwitchProgress, Progress, SetRoleState, At
<1> QED
  BY <1>1, <1>2, <1>3, <1>4, <1>5, <1>6, <1>7, <1>8

LEMMA StopKeeps ==
  ASSUME SwitchInv, NEW c \in Cmd, Stop(c)
  PROVE  SwitchInv'
<1> USE SwitchAssumption DEF SwitchInv
<1>1. SwitchTypeOK'
  <2>1. cmd[c] \in Command
    BY DEF SwitchTypeOK
  <2>2. {"idle"} \subseteq Step
    BY DEF Step
  <2>3. cmd' \in [Cmd -> Command]
    BY <2>1, <2>2, IdleType, SwitchAssumption
       DEF SwitchTypeOK, Command, Session, Capsule, NoCapsule, Binding, Stop, At, Release
  <2> QED
    BY <2>3 DEF SwitchTypeOK, Binding, Session, Capsule, NoCapsule, Command, Stop, At, Release
<1>2. Bookkeeping'
  BY DEF Bookkeeping, SwitchTypeOK, SwitchStep, ConfigureStep, PersistStep, Stop, At, Release, Idle
<1>3. NoFutureSession'
  BY DEF NoFutureSession, SwitchTypeOK, Command, Capsule, NoCapsule, Session, Stop, At, Release,
         Idle
<1>4. TomlLocked'
  BY DEF TomlLocked, SwitchTypeOK, Stop, At, Release, Idle
<1>5. RoleLocked'
  BY DEF RoleLocked, SwitchTypeOK, Stop, At, Release, Idle
<1>6. QuiesceBarrier'
  BY DEF QuiesceBarrier, Stop, At, Release, Idle
<1>7. PersistsLiveOption'
  BY DEF PersistsLiveOption, Stop, At, Release, Idle
<1>8. SwitchProgress'
  BY DEF SwitchProgress, Progress, Stop, At, Release, Idle
<1> QED
  BY <1>1, <1>2, <1>3, <1>4, <1>5, <1>6, <1>7, <1>8

-----------------------------------------------------------------------------
(* runtime prepare. *)

LEMMA PrepareReadKeeps ==
  ASSUME SwitchInv, NEW c \in Cmd, PrepareRead(c)
  PROVE  SwitchInv'
<1> USE SwitchAssumption DEF SwitchInv
<1>1. SwitchTypeOK'
  <2>1. cmd[c] \in Command
    BY DEF SwitchTypeOK
  <2>2. {"begin", "drain"} \subseteq Step
    BY DEF Step
  <2>3. cmd' \in [Cmd -> Command]
    BY <2>1, <2>2, SwitchAssumption
       DEF SwitchTypeOK, Command, Session, Capsule, NoCapsule, Binding, PrepareRead, At
  <2> QED
    BY <2>3 DEF SwitchTypeOK, Binding, Session, Capsule, NoCapsule, Command, PrepareRead, At
<1>2. Bookkeeping'
  BY DEF Bookkeeping, SwitchTypeOK, SwitchStep, ConfigureStep, PersistStep, PrepareRead, At
<1>3. NoFutureSession'
  BY DEF NoFutureSession, SwitchTypeOK, PrepareRead, At
<1>4. TomlLocked'
  BY DEF TomlLocked, SwitchTypeOK, PrepareRead, At
<1>5. RoleLocked'
  BY DEF RoleLocked, SwitchTypeOK, PrepareRead, At
<1>6. QuiesceBarrier'
  BY DEF QuiesceBarrier, SwitchTypeOK, PrepareRead, At
<1>7. PersistsLiveOption'
  BY DEF PersistsLiveOption, SwitchTypeOK, PrepareRead, At
<1>8. SwitchProgress'
  BY DEF SwitchProgress, Progress, SwitchTypeOK, PrepareRead, At
<1> QED
  BY <1>1, <1>2, <1>3, <1>4, <1>5, <1>6, <1>7, <1>8

LEMMA PrepareDrainKeeps ==
  ASSUME SwitchInv, NEW c \in Cmd, PrepareDrain(c)
  PROVE  SwitchInv'
<1> USE SwitchAssumption DEF SwitchInv
<1>1. SwitchTypeOK'
  <2>1. cmd[c] \in Command
    BY DEF SwitchTypeOK
  <2>2. {"drain", "status"} \subseteq Step
    BY DEF Step
  <2>3. cmd' \in [Cmd -> Command]
    BY <2>1, <2>2, SwitchAssumption
       DEF SwitchTypeOK, Command, Session, Capsule, NoCapsule, Binding, PrepareDrain, At, Goto
  <2> QED
    BY <2>3 DEF SwitchTypeOK, Binding, Session, Capsule, NoCapsule, Command, PrepareDrain, At, Goto
<1>2. Bookkeeping'
  BY DEF Bookkeeping, SwitchTypeOK, SwitchStep, ConfigureStep, PersistStep, PrepareDrain, At, Goto
<1>3. NoFutureSession'
  BY DEF NoFutureSession, PrepareDrain, At, Goto
<1>4. TomlLocked'
  BY DEF TomlLocked, PrepareDrain, At, Goto
<1>5. RoleLocked'
  BY DEF RoleLocked, Bookkeeping, SwitchTypeOK, SwitchStep, ConfigureStep, PersistStep,
         PrepareDrain, At, Goto
<1>6. QuiesceBarrier'
  BY DEF QuiesceBarrier, PrepareDrain, At, Goto
<1>7. PersistsLiveOption'
  BY DEF PersistsLiveOption, PrepareDrain, At, Goto
<1>8. SwitchProgress'
  BY DEF SwitchProgress, Progress, Bookkeeping, SwitchTypeOK, SwitchStep, ConfigureStep,
         PersistStep, PrepareDrain, At, Goto
<1> QED
  BY <1>1, <1>2, <1>3, <1>4, <1>5, <1>6, <1>7, <1>8

LEMMA PrepareStatusKeeps ==
  ASSUME SwitchInv, NEW c \in Cmd, PrepareStatus(c)
  PROVE  SwitchInv'
<1> USE SwitchAssumption DEF SwitchInv
<1>1. SwitchTypeOK'
  <2>1. cmd[c] \in Command
    BY DEF SwitchTypeOK
  <2>2. {"record", "restore", "status"} \subseteq Step
    BY DEF Step
  <2>3. cmd' \in [Cmd -> Command]
    <3>1. tui.session \in 0..MaxSession
      BY DEF SwitchTypeOK, Session
    <3>2. /\ [cmd[c] EXCEPT !.pc = "record", !.session = tui.session] \in Command
          /\ [cmd[c] EXCEPT !.pc = "restore"] \in Command
      BY <2>1, <2>2, <3>1 DEF Command
    <3> QED
      BY <3>2 DEF SwitchTypeOK, PrepareStatus, Goto
  <2> QED
    BY <2>3
       DEF SwitchTypeOK, Binding, Session, Capsule, NoCapsule, Command, PrepareStatus, At, Goto,
           TuiIdle
<1>2. Bookkeeping'
  BY DEF Bookkeeping, SwitchTypeOK, Command, SwitchStep, ConfigureStep, PersistStep, PrepareStatus,
         At, Goto, TuiIdle
<1>3. NoFutureSession'
  BY DEF NoFutureSession, SwitchTypeOK, Command, PrepareStatus, At, Goto, TuiIdle
<1>4. TomlLocked'
  BY DEF TomlLocked, SwitchTypeOK, Command, PrepareStatus, At, Goto, TuiIdle
<1>5. RoleLocked'
  BY DEF RoleLocked, Bookkeeping, SwitchTypeOK, Command, SwitchStep, ConfigureStep, PersistStep,
         PrepareStatus, At, Goto, TuiIdle
<1>6. QuiesceBarrier'
  BY DEF QuiesceBarrier, SwitchTypeOK, Command, PrepareStatus, At, Goto, TuiIdle
<1>7. PersistsLiveOption'
  BY DEF PersistsLiveOption, Bookkeeping, SwitchTypeOK, Command, SwitchStep, ConfigureStep,
         PersistStep, PrepareStatus, At, Goto, TuiIdle
<1>8. SwitchProgress'
  BY DEF SwitchProgress, Progress, Bookkeeping, SwitchTypeOK, Command, SwitchStep, ConfigureStep,
         PersistStep, PrepareStatus, At, Goto, TuiIdle
<1> QED
  BY <1>1, <1>2, <1>3, <1>4, <1>5, <1>6, <1>7, <1>8

LEMMA PrepareRecordKeeps ==
  ASSUME SwitchInv, NEW c \in Cmd, PrepareRecord(c)
  PROVE  SwitchInv'
<1> USE SwitchAssumption DEF SwitchInv
<1>1. SwitchTypeOK'
  <2>1. cmd[c] \in Command
    BY DEF SwitchTypeOK
  <2>2. {"record", "restore"} \subseteq Step
    BY DEF Step
  <2>3. cmd' \in [Cmd -> Command]
    BY <2>1, <2>2, IdleType, SwitchAssumption
       DEF SwitchTypeOK, Command, Session, Capsule, NoCapsule, Binding, PrepareRecord, At, Goto
  <2> QED
    BY <2>3 DEF SwitchTypeOK, Binding, Session, Capsule, NoCapsule, Command, PrepareRecord, At, Goto
<1>2. Bookkeeping'
  BY DEF Bookkeeping, SwitchTypeOK, Command, SwitchStep, ConfigureStep, PersistStep, PrepareRecord,
         At, Goto, Idle
<1>3. NoFutureSession'
  BY DEF NoFutureSession, SwitchTypeOK, Command, Capsule, NoCapsule, Session, PrepareRecord, At,
         Goto, Idle
<1>4. TomlLocked'
  BY DEF TomlLocked, SwitchTypeOK, Command, PrepareRecord, At, Goto, Idle
<1>5. RoleLocked'
  BY DEF RoleLocked, Bookkeeping, SwitchTypeOK, Command, SwitchStep, ConfigureStep, PersistStep,
         PrepareRecord, At, Goto, Idle
<1>6. QuiesceBarrier'
  BY DEF QuiesceBarrier, SwitchTypeOK, Command, PrepareRecord, At, Goto, Idle
<1>7. PersistsLiveOption'
  BY DEF PersistsLiveOption, Bookkeeping, SwitchTypeOK, Command, SwitchStep, ConfigureStep,
         PersistStep, PrepareRecord, At, Goto, Idle
<1>8. SwitchProgress'
  BY DEF SwitchProgress, Progress, Bookkeeping, SwitchTypeOK, Command, SwitchStep, ConfigureStep,
         PersistStep, PrepareRecord, At, Goto, Idle
<1> QED
  BY <1>1, <1>2, <1>3, <1>4, <1>5, <1>6, <1>7, <1>8

LEMMA PrepareRestoreKeeps ==
  ASSUME SwitchInv, NEW c \in Cmd, PrepareRestore(c)
  PROVE  SwitchInv'
<1> USE SwitchAssumption DEF SwitchInv
<1>1. SwitchTypeOK'
  <2>1. cmd[c] \in Command
    BY DEF SwitchTypeOK
  <2>2. {"restore"} \subseteq Step
    BY DEF Step
  <2>3. cmd' \in [Cmd -> Command]
    BY <2>1, <2>2, IdleType, SwitchAssumption
       DEF SwitchTypeOK, Command, Session, Capsule, NoCapsule, Binding, PrepareRestore, At
  <2> QED
    BY <2>3 DEF SwitchTypeOK, Binding, Session, Capsule, NoCapsule, Command, PrepareRestore, At
<1>2. Bookkeeping'
  BY DEF Bookkeeping, SwitchTypeOK, SwitchStep, ConfigureStep, PersistStep, PrepareRestore, At, Idle
<1>3. NoFutureSession'
  BY DEF NoFutureSession, SwitchTypeOK, Command, Capsule, NoCapsule, Session, PrepareRestore, At,
         Idle
<1>4. TomlLocked'
  BY DEF TomlLocked, PrepareRestore, At, Idle
<1>5. RoleLocked'
  BY DEF RoleLocked, PrepareRestore, At, Idle
<1>6. QuiesceBarrier'
  BY DEF QuiesceBarrier, PrepareRestore, At, Idle
<1>7. PersistsLiveOption'
  BY DEF PersistsLiveOption, PrepareRestore, At, Idle
<1>8. SwitchProgress'
  BY DEF SwitchProgress, Progress, PrepareRestore, At, Idle
<1> QED
  BY <1>1, <1>2, <1>3, <1>4, <1>5, <1>6, <1>7, <1>8

-----------------------------------------------------------------------------
(* runtime switch. *)

LEMMA SwitchValidateKeeps ==
  ASSUME SwitchInv, NEW c \in Cmd, SwitchValidate(c)
  PROVE  SwitchInv'
<1> USE SwitchAssumption DEF SwitchInv
<1>1. SwitchTypeOK'
  <2>1. cmd[c] \in Command
    BY DEF SwitchTypeOK
  <2>2. {"begin", "check"} \subseteq Step
    BY DEF Step
  <2>3. prepared \in 0..MaxSession
    BY SwitchAssumption DEF SwitchTypeOK, Capsule, NoCapsule, Session
  <2>4. cmd' \in [Cmd -> Command]
    BY <2>1, <2>2, <2>3, SwitchAssumption
       DEF SwitchTypeOK, Command, Session, Capsule, NoCapsule, Binding, SwitchValidate, At,
           ValidHandoff
  <2> QED
    BY <2>4
       DEF SwitchTypeOK, Binding, Session, Capsule, NoCapsule, Command, SwitchValidate, At,
           ValidHandoff
<1>2. Bookkeeping'
  BY DEF Bookkeeping, SwitchTypeOK, Command, SwitchStep, ConfigureStep, PersistStep, Capsule,
         Session, SwitchValidate, At, ValidHandoff
<1>3. NoFutureSession'
  BY DEF NoFutureSession, SwitchTypeOK, SwitchValidate, At, ValidHandoff
<1>4. TomlLocked'
  BY DEF TomlLocked, SwitchTypeOK, SwitchValidate, At, ValidHandoff
<1>5. RoleLocked'
  BY DEF RoleLocked, SwitchTypeOK, SwitchValidate, At, ValidHandoff
<1>6. QuiesceBarrier'
  BY DEF QuiesceBarrier, SwitchTypeOK, SwitchValidate, At, ValidHandoff
<1>7. PersistsLiveOption'
  BY DEF PersistsLiveOption, SwitchTypeOK, SwitchValidate, At, ValidHandoff
<1>8. SwitchProgress'
  BY DEF SwitchProgress, Progress, Bookkeeping, SwitchTypeOK, SwitchStep, ConfigureStep,
         PersistStep, SwitchValidate, At, ValidHandoff
<1> QED
  BY <1>1, <1>2, <1>3, <1>4, <1>5, <1>6, <1>7, <1>8

LEMMA SwitchStatusKeeps ==
  ASSUME SwitchInv, NEW c \in Cmd, SwitchStatus(c)
  PROVE  SwitchInv'
<1> USE SwitchAssumption DEF SwitchInv
<1>1. SwitchTypeOK'
  <2>1. cmd[c] \in Command
    BY DEF SwitchTypeOK
  <2>2. {"cancel", "check", "quiesce"} \subseteq Step
    BY DEF Step
  <2>3. cmd' \in [Cmd -> Command]
    BY <2>1, <2>2, SwitchAssumption
       DEF SwitchTypeOK, Command, Session, Capsule, NoCapsule, Binding, SwitchStatus, At, Goto
  <2> QED
    BY <2>3 DEF SwitchTypeOK, Binding, Session, Capsule, NoCapsule, Command, SwitchStatus, At, Goto
<1>2. Bookkeeping'
  BY DEF Bookkeeping, SwitchTypeOK, SwitchStep, ConfigureStep, PersistStep, SwitchStatus, At, Goto
<1>3. NoFutureSession'
  BY DEF NoFutureSession, SwitchStatus, At, Goto
<1>4. TomlLocked'
  BY DEF TomlLocked, SwitchStatus, At, Goto
<1>5. RoleLocked'
  BY DEF RoleLocked, Bookkeeping, SwitchTypeOK, SwitchStep, ConfigureStep, PersistStep,
         SwitchStatus, At, Goto
<1>6. QuiesceBarrier'
  BY DEF QuiesceBarrier, SwitchStatus, At, Goto
<1>7. PersistsLiveOption'
  BY DEF PersistsLiveOption, SwitchStatus, At, Goto
<1>8. SwitchProgress'
  BY DEF SwitchProgress, Progress, SwitchStatus, At, Goto
<1> QED
  BY <1>1, <1>2, <1>3, <1>4, <1>5, <1>6, <1>7, <1>8

LEMMA SwitchCancelKeeps ==
  ASSUME SwitchInv, NEW c \in Cmd, SwitchCancel(c)
  PROVE  SwitchInv'
<1> USE SwitchAssumption DEF SwitchInv
<1>1. SwitchTypeOK'
  <2>1. cmd[c] \in Command
    BY DEF SwitchTypeOK
  <2>2. {"cancel", "quiesce"} \subseteq Step
    BY DEF Step
  <2>3. cmd' \in [Cmd -> Command]
    BY <2>1, <2>2, SwitchAssumption
       DEF SwitchTypeOK, Command, Session, Capsule, NoCapsule, Binding, SwitchCancel, At, Goto,
           TuiIdle
  <2> QED
    BY <2>3
       DEF SwitchTypeOK, Binding, Session, Capsule, NoCapsule, Command, SwitchCancel, At, Goto,
           TuiIdle
<1>2. Bookkeeping'
  BY DEF Bookkeeping, SwitchTypeOK, SwitchStep, ConfigureStep, PersistStep, SwitchCancel, At, Goto,
         TuiIdle
<1>3. NoFutureSession'
  BY DEF NoFutureSession, SwitchCancel, At, Goto, TuiIdle
<1>4. TomlLocked'
  BY DEF TomlLocked, SwitchCancel, At, Goto, TuiIdle
<1>5. RoleLocked'
  BY DEF RoleLocked, Bookkeeping, SwitchTypeOK, SwitchStep, ConfigureStep, PersistStep,
         SwitchCancel, At, Goto, TuiIdle
<1>6. QuiesceBarrier'
  BY DEF QuiesceBarrier, SwitchCancel, At, Goto, TuiIdle
<1>7. PersistsLiveOption'
  BY DEF PersistsLiveOption, SwitchCancel, At, Goto, TuiIdle
<1>8. SwitchProgress'
  BY DEF SwitchProgress, Progress, SwitchCancel, At, Goto, TuiIdle
<1> QED
  BY <1>1, <1>2, <1>3, <1>4, <1>5, <1>6, <1>7, <1>8

LEMMA SwitchQuiesceKeeps ==
  ASSUME SwitchInv, NEW c \in Cmd, SwitchQuiesce(c)
  PROVE  SwitchInv'
<1> USE SwitchAssumption DEF SwitchInv
<1>1. SwitchTypeOK'
  <2>1. cmd[c] \in Command
    BY DEF SwitchTypeOK
  <2>2. {"quiesce", "respawn"} \subseteq Step
    BY DEF Step
  <2>3. cmd' \in [Cmd -> Command]
    BY <2>1, <2>2, IdleType, SwitchAssumption
       DEF SwitchTypeOK, Command, Session, Capsule, NoCapsule, Binding, SwitchQuiesce, At, Goto
  <2> QED
    BY <2>3 DEF SwitchTypeOK, Binding, Session, Capsule, NoCapsule, Command, SwitchQuiesce, At, Goto
<1>2. Bookkeeping'
  BY DEF Bookkeeping, SwitchTypeOK, Command, SwitchStep, ConfigureStep, PersistStep, SwitchQuiesce,
         At, Goto, Idle
<1>3. NoFutureSession'
  BY DEF NoFutureSession, SwitchTypeOK, Command, SwitchQuiesce, At, Goto, Idle
<1>4. TomlLocked'
  BY DEF TomlLocked, SwitchTypeOK, Command, SwitchQuiesce, At, Goto, Idle
<1>5. RoleLocked'
  BY DEF RoleLocked, Bookkeeping, SwitchTypeOK, Command, SwitchStep, ConfigureStep, PersistStep,
         SwitchQuiesce, At, Goto, Idle
<1>6. QuiesceBarrier'
  BY DEF QuiesceBarrier, SwitchTypeOK, SwitchQuiesce, At, Goto, Idle
<1>7. PersistsLiveOption'
  BY DEF PersistsLiveOption, Bookkeeping, SwitchTypeOK, Command, SwitchStep, ConfigureStep,
         PersistStep, SwitchQuiesce, At, Goto, Idle
<1>8. SwitchProgress'
  BY DEF SwitchProgress, Progress, Bookkeeping, SwitchTypeOK, Command, SwitchStep, ConfigureStep,
         PersistStep, SwitchQuiesce, At, Goto, Idle
<1> QED
  BY <1>1, <1>2, <1>3, <1>4, <1>5, <1>6, <1>7, <1>8

LEMMA SwitchRespawnKeeps ==
  ASSUME SwitchInv, NEW c \in Cmd, SwitchRespawn(c)
  PROVE  SwitchInv'
<1> USE SwitchAssumption DEF SwitchInv
<1>1. SwitchTypeOK'
  <2>1. cmd[c] \in Command
    BY DEF SwitchTypeOK
  <2>2. {"respawn", "wait"} \subseteq Step
    BY DEF Step
  <2>3. cmd' \in [Cmd -> Command]
    BY <2>1, <2>2, SwitchAssumption
       DEF SwitchTypeOK, Command, Session, Capsule, NoCapsule, Binding, SwitchRespawn, At, Goto
  <2> QED
    BY <2>3 DEF SwitchTypeOK, Binding, Session, Capsule, NoCapsule, Command, SwitchRespawn, At, Goto
<1>2. Bookkeeping'
  BY DEF Bookkeeping, SwitchTypeOK, SwitchStep, ConfigureStep, PersistStep, SwitchRespawn, At, Goto
<1>3. NoFutureSession'
  BY DEF NoFutureSession, SwitchRespawn, At, Goto
<1>4. TomlLocked'
  BY DEF TomlLocked, SwitchRespawn, At, Goto
<1>5. RoleLocked'
  BY DEF RoleLocked, Bookkeeping, SwitchTypeOK, SwitchStep, ConfigureStep, PersistStep,
         SwitchRespawn, At, Goto
<1>6. QuiesceBarrier'
  BY DEF QuiesceBarrier, SwitchRespawn, At, Goto
<1>7. PersistsLiveOption'
  BY DEF PersistsLiveOption, SwitchRespawn, At, Goto
<1>8. SwitchProgress'
  BY DEF SwitchProgress, Progress, OneSwitcher, Bookkeeping, TomlLocked, NoFutureSession, Session,
         SwitchTypeOK, Command, SwitchStep, ConfigureStep, PersistStep, SwitchRespawn, At, Goto
<1> QED
  BY <1>1, <1>2, <1>3, <1>4, <1>5, <1>6, <1>7, <1>8

LEMMA SwitchWaitKeeps ==
  ASSUME SwitchInv, NEW c \in Cmd, SwitchWait(c)
  PROVE  SwitchInv'
<1> USE SwitchAssumption DEF SwitchInv
<1>1. SwitchTypeOK'
  <2>1. cmd[c] \in Command
    BY DEF SwitchTypeOK
  <2>2. {"update", "wait"} \subseteq Step
    BY DEF Step
  <2>3. cmd' \in [Cmd -> Command]
    BY <2>1, <2>2, SwitchAssumption
       DEF SwitchTypeOK, Command, Session, Capsule, NoCapsule, Binding, SwitchWait, At
  <2> QED
    BY <2>3 DEF SwitchTypeOK, Binding, Session, Capsule, NoCapsule, Command, SwitchWait, At
<1>2. Bookkeeping'
  BY DEF Bookkeeping, SwitchTypeOK, Command, SwitchStep, ConfigureStep, PersistStep, SwitchWait, At
<1>3. NoFutureSession'
  BY DEF NoFutureSession, SwitchTypeOK, Command, SwitchWait, At
<1>4. TomlLocked'
  BY DEF TomlLocked, SwitchTypeOK, SwitchWait, At
<1>5. RoleLocked'
  BY DEF RoleLocked, Bookkeeping, SwitchTypeOK, SwitchStep, ConfigureStep, PersistStep, SwitchWait,
         At
<1>6. QuiesceBarrier'
  BY DEF QuiesceBarrier, SwitchTypeOK, SwitchWait, At
<1>7. PersistsLiveOption'
  BY DEF PersistsLiveOption, Bookkeeping, SwitchTypeOK, SwitchStep, ConfigureStep, PersistStep,
         SwitchWait, At
<1>8. SwitchProgress'
  BY DEF SwitchProgress, Progress, SwitchTypeOK, SwitchWait, At
<1> QED
  BY <1>1, <1>2, <1>3, <1>4, <1>5, <1>6, <1>7, <1>8

LEMMA SwitchRecoverKeeps ==
  ASSUME SwitchInv, NEW c \in Cmd, SwitchRecover(c)
  PROVE  SwitchInv'
<1> USE SwitchAssumption DEF SwitchInv
<1>1. SwitchTypeOK'
  <2>1. cmd[c] \in Command
    BY DEF SwitchTypeOK
  <2>2. {"activate", "recover"} \subseteq Step
    BY DEF Step
  <2>3. cmd' \in [Cmd -> Command]
    BY <2>1, <2>2, SwitchAssumption
       DEF SwitchTypeOK, Command, Session, Capsule, NoCapsule, Binding, SwitchRecover, At, Goto
  <2> QED
    BY <2>3 DEF SwitchTypeOK, Binding, Session, Capsule, NoCapsule, Command, SwitchRecover, At, Goto
<1>2. Bookkeeping'
  BY DEF Bookkeeping, SwitchTypeOK, SwitchStep, ConfigureStep, PersistStep, SwitchRecover, At, Goto
<1>3. NoFutureSession'
  BY DEF NoFutureSession, SwitchRecover, At, Goto
<1>4. TomlLocked'
  BY DEF TomlLocked, SwitchRecover, At, Goto
<1>5. RoleLocked'
  BY DEF RoleLocked, Bookkeeping, SwitchTypeOK, SwitchStep, ConfigureStep, PersistStep,
         SwitchRecover, At, Goto
<1>6. QuiesceBarrier'
  BY DEF QuiesceBarrier, SwitchRecover, At, Goto
<1>7. PersistsLiveOption'
  BY DEF PersistsLiveOption, SwitchRecover, At, Goto
<1>8. SwitchProgress'
  BY DEF SwitchProgress, Progress, SwitchRecover, At, Goto
<1> QED
  BY <1>1, <1>2, <1>3, <1>4, <1>5, <1>6, <1>7, <1>8

LEMMA SwitchActivateKeeps ==
  ASSUME SwitchInv, NEW c \in Cmd, SwitchActivate(c)
  PROVE  SwitchInv'
<1> USE SwitchAssumption DEF SwitchInv
<1>1. SwitchTypeOK'
  <2>1. cmd[c] \in Command
    BY DEF SwitchTypeOK
  <2>2. {"activate"} \subseteq Step
    BY DEF Step
  <2>3. cmd' \in [Cmd -> Command]
    BY <2>1, <2>2, IdleType, SwitchAssumption
       DEF SwitchTypeOK, Command, Session, Capsule, NoCapsule, Binding, SwitchActivate, At
  <2> QED
    BY <2>3 DEF SwitchTypeOK, Binding, Session, Capsule, NoCapsule, Command, SwitchActivate, At
<1>2. Bookkeeping'
  BY DEF Bookkeeping, SwitchTypeOK, SwitchStep, ConfigureStep, PersistStep, SwitchActivate, At, Idle
<1>3. NoFutureSession'
  BY DEF NoFutureSession, SwitchTypeOK, Command, Capsule, NoCapsule, Session, SwitchActivate, At,
         Idle
<1>4. TomlLocked'
  BY DEF TomlLocked, SwitchActivate, At, Idle
<1>5. RoleLocked'
  BY DEF RoleLocked, SwitchActivate, At, Idle
<1>6. QuiesceBarrier'
  BY DEF QuiesceBarrier, SwitchActivate, At, Idle
<1>7. PersistsLiveOption'
  BY DEF PersistsLiveOption, SwitchActivate, At, Idle
<1>8. SwitchProgress'
  BY DEF SwitchProgress, Progress, SwitchActivate, At, Idle
<1> QED
  BY <1>1, <1>2, <1>3, <1>4, <1>5, <1>6, <1>7, <1>8

-----------------------------------------------------------------------------
(* runtime configure. *)

LEMMA ConfigureLockKeeps ==
  ASSUME SwitchInv, NEW c \in Cmd, ConfigureLock(c)
  PROVE  SwitchInv'
<1> USE SwitchAssumption DEF SwitchInv
<1>1. SwitchTypeOK'
  <2>1. cmd[c] \in Command
    BY DEF SwitchTypeOK
  <2>2. {"begin", "request"} \subseteq Step
    BY DEF Step
  <2>3. PICK n \in 1..MaxSet : cmd' = [cmd EXCEPT ![c].pc = "request", ![c].left = n]
    BY DEF ConfigureLock
  <2>4. n \in 0..MaxSet
    BY SwitchAssumption
  <2>5. [cmd[c] EXCEPT !.pc = "request", !.left = n] \in Command
    BY <2>1, <2>2, <2>4 DEF Command
  <2>6. cmd' \in [Cmd -> Command]
    BY <2>3, <2>5 DEF SwitchTypeOK
  <2> QED
    BY <2>6 DEF SwitchTypeOK, Binding, Session, Capsule, NoCapsule, Command, ConfigureLock, At
<1>2. Bookkeeping'
  BY DEF Bookkeeping, SwitchTypeOK, SwitchStep, ConfigureStep, PersistStep, ConfigureLock, At
<1>3. NoFutureSession'
  BY DEF NoFutureSession, SwitchTypeOK, ConfigureLock, At
<1>4. TomlLocked'
  BY DEF TomlLocked, SwitchTypeOK, ConfigureLock, At
<1>5. RoleLocked'
  BY DEF RoleLocked, SwitchTypeOK, ConfigureLock, At
<1>6. QuiesceBarrier'
  BY DEF QuiesceBarrier, SwitchTypeOK, ConfigureLock, At
<1>7. PersistsLiveOption'
  BY DEF PersistsLiveOption, SwitchTypeOK, ConfigureLock, At
<1>8. SwitchProgress'
  BY DEF SwitchProgress, Progress, SwitchTypeOK, ConfigureLock, At
<1> QED
  BY <1>1, <1>2, <1>3, <1>4, <1>5, <1>6, <1>7, <1>8

LEMMA ConfigureRequestKeeps ==
  ASSUME SwitchInv, NEW c \in Cmd, ConfigureRequest(c)
  PROVE  SwitchInv'
<1> USE SwitchAssumption DEF SwitchInv
<1>1. SwitchTypeOK'
  <2>1. cmd[c] \in Command
    BY DEF SwitchTypeOK
  <2>2. {"request", "set"} \subseteq Step
    BY DEF Step
  <2>3. tui.session \in 0..MaxSession
    BY SwitchAssumption DEF SwitchTypeOK, Capsule, NoCapsule, Session
  <2>4. cmd' \in [Cmd -> Command]
    BY <2>1, <2>2, <2>3, SwitchAssumption
       DEF SwitchTypeOK, Command, Session, Capsule, NoCapsule, Binding, ConfigureRequest, At,
           TuiIdle
  <2> QED
    BY <2>4
       DEF SwitchTypeOK, Binding, Session, Capsule, NoCapsule, Command, ConfigureRequest, At,
           TuiIdle
<1>2. Bookkeeping'
  BY DEF Bookkeeping, SwitchTypeOK, SwitchStep, ConfigureStep, PersistStep, ConfigureRequest, At,
         TuiIdle
<1>3. NoFutureSession'
  BY DEF NoFutureSession, SwitchTypeOK, Command, ConfigureRequest, At, TuiIdle
<1>4. TomlLocked'
  BY DEF TomlLocked, SwitchTypeOK, ConfigureRequest, At, TuiIdle
<1>5. RoleLocked'
  BY DEF RoleLocked, Bookkeeping, SwitchTypeOK, SwitchStep, ConfigureStep, PersistStep,
         ConfigureRequest, At, TuiIdle
<1>6. QuiesceBarrier'
  BY DEF QuiesceBarrier, SwitchTypeOK, ConfigureRequest, At, TuiIdle
<1>7. PersistsLiveOption'
  BY DEF PersistsLiveOption, SwitchTypeOK, ConfigureRequest, At, TuiIdle
<1>8. SwitchProgress'
  BY DEF SwitchProgress, Progress, SwitchTypeOK, ConfigureRequest, At, TuiIdle
<1> QED
  BY <1>1, <1>2, <1>3, <1>4, <1>5, <1>6, <1>7, <1>8

LEMMA ConfigureSetKeeps ==
  ASSUME SwitchInv, NEW c \in Cmd, ConfigureSet(c)
  PROVE  SwitchInv'
<1> USE SwitchAssumption DEF SwitchInv
<1>1. SwitchTypeOK'
  <2>1. cmd[c] \in Command
    BY DEF SwitchTypeOK
  <2>2. {"set", "update"} \subseteq Step
    BY DEF Step
  <2>3. cmd' \in [Cmd -> Command]
    BY <2>1, <2>2, IdleType, SwitchAssumption, SMTT(30)
       DEF SwitchTypeOK, Command, Session, Capsule, NoCapsule, Binding, Bookkeeping, ConfigureStep,
           ConfigureSet, At, Advertised
  <2> QED
    BY <2>3
       DEF SwitchTypeOK, Binding, Session, Capsule, NoCapsule, Command, ConfigureSet, At, Advertised
<1>2. Bookkeeping'
  BY DEF Bookkeeping, SwitchTypeOK, Command, SwitchStep, ConfigureStep, PersistStep, ConfigureSet,
         At, Advertised, Idle
<1>3. NoFutureSession'
  BY DEF NoFutureSession, SwitchTypeOK, Command, ConfigureSet, At, Advertised, Idle
<1>4. TomlLocked'
  BY DEF TomlLocked, SwitchTypeOK, Command, ConfigureSet, At, Advertised, Idle
<1>5. RoleLocked'
  BY DEF RoleLocked, Bookkeeping, SwitchTypeOK, SwitchStep, ConfigureStep, PersistStep,
         ConfigureSet, At, Advertised, Idle
<1>6. QuiesceBarrier'
  BY DEF QuiesceBarrier, SwitchTypeOK, Command, ConfigureSet, At, Advertised, Idle
<1>7. PersistsLiveOption'
  BY DEF PersistsLiveOption, RoleLocked, Bookkeeping, NoFutureSession, Session, SwitchTypeOK,
         Command, SwitchStep, ConfigureStep, PersistStep, ConfigureSet, At, Advertised, Idle
<1>8. SwitchProgress'
  <2>1. tui'.session = tui.session /\ tui'.phase = tui.phase /\ tui'.recovered = tui.recovered /\ toml' = toml
    BY DEF ConfigureSet, SwitchTypeOK
  <2>2. \A d \in Cmd \ {c} : cmd'[d] = cmd[d]
    BY DEF ConfigureSet, SwitchTypeOK
  <2>3. cmd[c].op = "configure"
    BY DEF ConfigureSet, Bookkeeping, ConfigureStep, At
  <2>4. PICK o \in Option :
          \/ cmd' = [cmd EXCEPT ![c].pc = "update", ![c].option = o, ![c].left = @ - 1]
          \/ cmd' = [cmd EXCEPT ![c] = Idle]
    BY DEF ConfigureSet, Advertised
  <2>5. cmd'[c].pc = "idle" \/ (cmd'[c].pc = "update" /\ cmd'[c].op # "switch")
    BY <2>3, <2>4 DEF SwitchTypeOK, Command, Idle
  <2> QED
    BY <2>1, <2>2, <2>5 DEF SwitchProgress, Progress, PersistStep, At
<1> QED
  BY <1>1, <1>2, <1>3, <1>4, <1>5, <1>6, <1>7, <1>8

-----------------------------------------------------------------------------
(* update_role_capabilities, load_config, sync_roles. *)

LEMMA UpdateReadKeeps ==
  ASSUME SwitchInv, NEW c \in Cmd, UpdateRead(c)
  PROVE  SwitchInv'
<1> USE SwitchAssumption DEF SwitchInv
<1>1. SwitchTypeOK'
  <2>1. cmd[c] \in Command
    BY DEF SwitchTypeOK
  <2>2. {"replace", "update"} \subseteq Step
    BY DEF Step
  <2>3. cmd' \in [Cmd -> Command]
    BY <2>1, <2>2, SwitchAssumption
       DEF SwitchTypeOK, Command, Session, Capsule, NoCapsule, Binding, UpdateRead, At
  <2> QED
    BY <2>3 DEF SwitchTypeOK, Binding, Session, Capsule, NoCapsule, Command, UpdateRead, At
<1>2. Bookkeeping'
  BY DEF Bookkeeping, SwitchTypeOK, SwitchStep, ConfigureStep, PersistStep, UpdateRead, At
<1>3. NoFutureSession'
  BY DEF NoFutureSession, SwitchTypeOK, UpdateRead, At
<1>4. TomlLocked'
  BY DEF TomlLocked, SwitchTypeOK, UpdateRead, At
<1>5. RoleLocked'
  BY DEF RoleLocked, Bookkeeping, SwitchTypeOK, SwitchStep, ConfigureStep, PersistStep, UpdateRead,
         At
<1>6. QuiesceBarrier'
  BY DEF QuiesceBarrier, SwitchTypeOK, UpdateRead, At
<1>7. PersistsLiveOption'
  BY DEF PersistsLiveOption, SwitchTypeOK, UpdateRead, At
<1>8. SwitchProgress'
  BY DEF SwitchProgress, Progress, Bookkeeping, SwitchTypeOK, SwitchStep, ConfigureStep,
         PersistStep, UpdateRead, At
<1> QED
  BY <1>1, <1>2, <1>3, <1>4, <1>5, <1>6, <1>7, <1>8

LEMMA UpdateReplaceKeeps ==
  ASSUME SwitchInv, NEW c \in Cmd, UpdateReplace(c)
  PROVE  SwitchInv'
<1> USE SwitchAssumption DEF SwitchInv
<1>1. SwitchTypeOK'
  <2>1. cmd[c] \in Command
    BY DEF SwitchTypeOK
  <2>2. {"load", "replace"} \subseteq Step
    BY DEF Step
  <2>3. cmd' \in [Cmd -> Command]
    BY <2>1, <2>2, IdleType, SwitchAssumption
       DEF SwitchTypeOK, Command, Session, Capsule, NoCapsule, Binding, UpdateReplace, At, Release
  <2> QED
    BY <2>3
       DEF SwitchTypeOK, Binding, Session, Capsule, NoCapsule, Command, Bookkeeping, PersistStep,
           UpdateReplace, At, Release
<1>2. Bookkeeping'
  BY DEF Bookkeeping, SwitchTypeOK, SwitchStep, ConfigureStep, PersistStep, UpdateReplace, At,
         Release, Idle
<1>3. NoFutureSession'
  BY DEF NoFutureSession, SwitchTypeOK, UpdateReplace, At, Release, Idle
<1>4. TomlLocked'
  BY DEF TomlLocked, SwitchTypeOK, UpdateReplace, At, Release, Idle
<1>5. RoleLocked'
  BY DEF RoleLocked, Bookkeeping, SwitchTypeOK, SwitchStep, ConfigureStep, PersistStep,
         UpdateReplace, At, Release, Idle
<1>6. QuiesceBarrier'
  BY DEF QuiesceBarrier, SwitchTypeOK, UpdateReplace, At, Release, Idle
<1>7. PersistsLiveOption'
  BY DEF PersistsLiveOption, SwitchTypeOK, UpdateReplace, At, Release, Idle
<1>8. SwitchProgress'
  BY DEF SwitchProgress, Progress, OneSwitcher, Bookkeeping, TomlLocked, NoFutureSession, Session,
         SwitchTypeOK, Command, SwitchStep, ConfigureStep, PersistStep, UpdateReplace, At, Release, Idle
<1> QED
  BY <1>1, <1>2, <1>3, <1>4, <1>5, <1>6, <1>7, <1>8

LEMMA LoadKeeps ==
  ASSUME SwitchInv, NEW c \in Cmd, Load(c)
  PROVE  SwitchInv'
<1> USE SwitchAssumption DEF SwitchInv
<1>1. SwitchTypeOK'
  <2>1. cmd[c] \in Command
    BY DEF SwitchTypeOK
  <2>2. {"load", "sync"} \subseteq Step
    BY DEF Step
  <2>3. cmd' \in [Cmd -> Command]
    BY <2>1, <2>2, SwitchAssumption
       DEF SwitchTypeOK, Command, Session, Capsule, NoCapsule, Binding, Load, At
  <2> QED
    BY <2>3 DEF SwitchTypeOK, Binding, Session, Capsule, NoCapsule, Command, Load, At
<1>2. Bookkeeping'
  BY DEF Bookkeeping, SwitchTypeOK, SwitchStep, ConfigureStep, PersistStep, Load, At
<1>3. NoFutureSession'
  BY DEF NoFutureSession, SwitchTypeOK, Load, At
<1>4. TomlLocked'
  BY DEF TomlLocked, SwitchTypeOK, Load, At
<1>5. RoleLocked'
  BY DEF RoleLocked, Bookkeeping, SwitchTypeOK, SwitchStep, ConfigureStep, PersistStep, Load, At
<1>6. QuiesceBarrier'
  BY DEF QuiesceBarrier, SwitchTypeOK, Load, At
<1>7. PersistsLiveOption'
  BY DEF PersistsLiveOption, SwitchTypeOK, Load, At
<1>8. SwitchProgress'
  BY DEF SwitchProgress, Progress, Bookkeeping, SwitchTypeOK, SwitchStep, ConfigureStep,
         PersistStep, Load, At
<1> QED
  BY <1>1, <1>2, <1>3, <1>4, <1>5, <1>6, <1>7, <1>8

LEMMA SyncKeeps ==
  ASSUME SwitchInv, NEW c \in Cmd, Sync(c)
  PROVE  SwitchInv'
<1> USE SwitchAssumption DEF SwitchInv
<1>1. SwitchTypeOK'
  <2>1. cmd[c] \in Command
    BY DEF SwitchTypeOK
  <2>2. {"recover", "set", "sync"} \subseteq Step
    BY DEF Step
  <2>3. cmd' \in [Cmd -> Command]
    BY <2>1, <2>2, IdleType, SwitchAssumption
       DEF SwitchTypeOK, Command, Session, Capsule, NoCapsule, Binding, Sync, At, Leave, Release
  <2> QED
    BY <2>3
       DEF SwitchTypeOK, Binding, Session, Capsule, NoCapsule, Command, Sync, At, Leave, Release
<1>2. Bookkeeping'
  BY DEF Bookkeeping, SwitchTypeOK, Command, SwitchStep, ConfigureStep, PersistStep, Sync, At,
         Leave, Release, Idle
<1>3. NoFutureSession'
  BY DEF NoFutureSession, SwitchTypeOK, Command, Capsule, NoCapsule, Session, Sync, At, Leave,
         Release, Idle
<1>4. TomlLocked'
  BY DEF TomlLocked, SwitchTypeOK, Command, Sync, At, Leave, Release, Idle
<1>5. RoleLocked'
  BY DEF RoleLocked, Bookkeeping, SwitchTypeOK, Command, SwitchStep, ConfigureStep, PersistStep,
         Sync, At, Leave, Release, Idle
<1>6. QuiesceBarrier'
  BY DEF QuiesceBarrier, SwitchTypeOK, Command, Sync, At, Leave, Release, Idle
<1>7. PersistsLiveOption'
  BY DEF PersistsLiveOption, Bookkeeping, SwitchTypeOK, Command, SwitchStep, ConfigureStep,
         PersistStep, Sync, At, Leave, Release, Idle
<1>8. SwitchProgress'
  BY DEF SwitchProgress, Progress, Bookkeeping, SwitchTypeOK, Command, SwitchStep, ConfigureStep,
         PersistStep, Sync, At, Leave, Release, Idle
<1> QED
  BY <1>1, <1>2, <1>3, <1>4, <1>5, <1>6, <1>7, <1>8

-----------------------------------------------------------------------------

(* SwitchInv holds at the start and after every step.                       *)
LEMMA NextKeeps ==
  ASSUME SwitchInv, [Next]_vars
  PROVE  SwitchInv'
<1>1. CASE Tui \/ SetRoleState
  BY <1>1, StartTurnKeeps, EndTurnKeeps, BootKeeps, CrashKeeps, SetRoleStateKeeps DEF Tui
<1>2. ASSUME NEW c \in Cmd, NEW op \in Operation \ {"none"}, Start(c, op)
      PROVE  SwitchInv'
  BY <1>2, StartKeeps
<1>3. ASSUME NEW c \in Cmd, Connect(c) \/ Prepare(c) \/ Stop(c)
      PROVE  SwitchInv'
  BY <1>3, ConnectKeeps, StopKeeps, PrepareReadKeeps, PrepareDrainKeeps, PrepareStatusKeeps,
     PrepareRecordKeeps, PrepareRestoreKeeps
     DEF Prepare
<1>4. ASSUME NEW c \in Cmd, Switch(c)
      PROVE  SwitchInv'
  BY <1>4, SwitchValidateKeeps, SwitchStatusKeeps, SwitchCancelKeeps, SwitchQuiesceKeeps,
     SwitchRespawnKeeps, SwitchWaitKeeps, SwitchRecoverKeeps, SwitchActivateKeeps
     DEF Switch
<1>5. ASSUME NEW c \in Cmd, Configure(c) \/ Persist(c)
      PROVE  SwitchInv'
  BY <1>5, ConfigureLockKeeps, ConfigureRequestKeeps, ConfigureSetKeeps, UpdateReadKeeps,
     UpdateReplaceKeeps, LoadKeeps, SyncKeeps
     DEF Configure, Persist
<1>6. CASE UNCHANGED vars
  BY <1>6
     DEF vars, SwitchInv, SwitchTypeOK, Bookkeeping, NoFutureSession, TomlLocked, RoleLocked,
         QuiesceBarrier, PersistsLiveOption, SwitchProgress, Progress, At
<1> QED
  BY <1>1, <1>2, <1>3, <1>4, <1>5, <1>6 DEF Next, Proceed

(* The invariant of runtime prepare, switch and configure.                  *)
THEOREM SwitchInvariant == Spec => []SwitchInv
<1>1. Init => SwitchInv
  <2> SUFFICES ASSUME Init PROVE SwitchInv
    OBVIOUS
  <2>1. Idle \in Command /\ SomeOption \in Option
    BY IdleType, SwitchAssumption DEF SomeOption
  <2>2. SwitchTypeOK
    BY <2>1, SwitchAssumption DEF Init, SwitchTypeOK, Binding, Session, Capsule, NoCapsule
  <2>3. \A c \in Cmd : cmd[c] = Idle
    BY DEF Init
  <2> QED
    BY <2>2, <2>3, SwitchAssumption
       DEF Init, Idle, SwitchInv, Bookkeeping, NoFutureSession, TomlLocked, RoleLocked,
           QuiesceBarrier, PersistsLiveOption, SwitchProgress, Progress, SwitchStep, ConfigureStep,
           PersistStep, NoCapsule, At
<1> QED
  BY <1>1, NextKeeps, PTL DEF Spec

(* Type correctness of the role, its UI, the locks and the commands.        *)
THEOREM SwitchTypeCorrect == Spec => []SwitchTypeOK
<1>1. SwitchInv => SwitchTypeOK
  BY DEF SwitchInv
<1> QED
  BY <1>1, SwitchInvariant, PTL

(* From the answer to quiesce until respawn-pane the session that is        *)
(* replaced runs no turn and takes no prompt, however many switches run.    *)
THEOREM QuiesceIsABarrier == Spec => []QuiesceBarrier
<1>1. SwitchInv => QuiesceBarrier
  BY DEF SwitchInv
<1> QED
  BY <1>1, SwitchInvariant, PTL

(* What a configure persists is what its session runs with.                 *)
THEOREM ConfigurePersistsLiveOption == Spec => []PersistsLiveOption
<1>1. SwitchInv => PersistsLiveOption
  BY DEF SwitchInv
<1> QED
  BY <1>1, SwitchInvariant, PTL

(* The only process that switches a role activates it for the session that  *)
(* runs, is bound and has been told to recover.                             *)
THEOREM SwitchActivatesReadySession == Spec => []ActivationReady
<1>1. SwitchInv => ActivationReady
  BY DEF SwitchInv, SwitchProgress, Progress, ActivationReady, OneSwitcher, Bookkeeping, SwitchStep,
         PersistStep, At
<1> QED
  BY <1>1, SwitchInvariant, PTL

(* Only the rewrite under the file lock changes team.toml.                  *)
LEMMA OnlyReplaceWrites ==
  ASSUME Next
  PROVE  (\E c \in Cmd : UpdateReplace(c)) \/ toml' = toml
<1>1. CASE Tui \/ SetRoleState
  BY <1>1 DEF Tui, StartTurn, EndTurn, Boot, Crash, TuiUnchanged, SetRoleState
<1>2. ASSUME NEW c \in Cmd, NEW op \in Operation \ {"none"}, Start(c, op)
      PROVE  toml' = toml
  BY <1>2 DEF Start
<1>3. ASSUME NEW c \in Cmd, Connect(c) \/ Prepare(c) \/ Stop(c) \/ Configure(c)
      PROVE  toml' = toml
  BY <1>3
     DEF Connect, Prepare, PrepareRead, PrepareDrain, PrepareStatus, PrepareRecord,
         PrepareRestore, Stop, Configure, ConfigureLock, ConfigureRequest, ConfigureSet
<1>4. ASSUME NEW c \in Cmd, Switch(c)
      PROVE  toml' = toml
  BY <1>4
     DEF Switch, SwitchValidate, SwitchStatus, SwitchCancel, SwitchQuiesce, SwitchRespawn,
         SwitchWait, SwitchRecover, SwitchActivate
<1>5. ASSUME NEW c \in Cmd, Persist(c)
      PROVE  UpdateReplace(c) \/ toml' = toml
  BY <1>5 DEF Persist, UpdateRead, Load, Sync
<1> QED
  BY <1>1, <1>2, <1>3, <1>4, <1>5 DEF Next, Proceed

(* update_role_capabilities of concurrent commands loses no key.            *)
THEOREM RewritesKeepOtherKeys == Spec => OnlyOwnKeys
<1> DEFINE Own == /\ toml'.session # toml.session =>
                       \E c \in Cmd : Writes(c, "switch") /\ toml'.session = cmd[c].session
                  /\ toml'.option # toml.option =>
                       \E c \in Cmd : Writes(c, "configure") /\ toml'.option = cmd[c].option
<1>1. SwitchInv /\ [Next]_vars => [Own]_vars
  <2> SUFFICES ASSUME SwitchInv, Next PROVE Own
    OBVIOUS
  <2>1. ASSUME NEW c \in Cmd, UpdateReplace(c) PROVE Own
    <3>1. cmd[c].op \in {"switch", "configure"} /\ cmd[c].copy = toml /\ At(c, "replace")
      BY <2>1 DEF SwitchInv, Bookkeeping, TomlLocked, UpdateReplace, PersistStep, At
    <3>2. toml \in Binding
      BY DEF SwitchInv, SwitchTypeOK
    <3> QED
      BY <2>1, <3>1, <3>2 DEF UpdateReplace, Writes, Binding
  <2>2. CASE toml' = toml
    BY <2>2
  <2> QED
    BY <2>1, <2>2, OnlyReplaceWrites
<1> QED
  BY <1>1, SwitchInvariant, PTL DEF Spec, OnlyOwnKeys

-----------------------------------------------------------------------------
(* The row and the file. *)

(* What team.toml names has been opened.                                    *)
BoundExists == toml.session <= tui.session

(* Nobody has loaded, or synced, more than team.toml names.                 *)
CopiesBehind ==
  OneSwitcher => row <= toml.session /\ \A c \in Cmd : cmd[c].loaded <= toml.session

LEMMA OpenedNumbers ==
  ASSUME SwitchTypeOK
  PROVE  /\ tui.session \in Nat /\ toml.session \in Nat /\ row \in Nat
         /\ 1 <= toml.session
         /\ \A c \in Cmd : cmd[c].loaded \in Nat
BY SwitchAssumption DEF SwitchTypeOK, Binding, Session, Command

(* The session a UI runs is never taken back.                               *)
LEMMA SessionsGrow ==
  ASSUME SwitchTypeOK, Next
  PROVE  tui.session <= tui'.session
<1>1. tui.session \in Nat
  BY OpenedNumbers
<1>2. tui \in [phase : {"ready", "starting", "down"}, session : Session, option : Option,
               busy : BOOLEAN, accepting : BOOLEAN, recovered : BOOLEAN]
  BY DEF SwitchTypeOK
<1>3. CASE Tui \/ SetRoleState
  <2>1. CASE Boot
    BY <1>1, <2>1 DEF Boot
  <2>2. ASSUME StartTurn \/ EndTurn \/ Crash \/ SetRoleState
        PROVE  tui'.session = tui.session
    BY <1>2, <2>2 DEF StartTurn, EndTurn, Crash, SetRoleState
  <2> QED
    BY <1>1, <1>3, <2>1, <2>2 DEF Tui
<1>4. ASSUME NEW c \in Cmd, NEW op \in Operation \ {"none"}, Start(c, op)
      PROVE  tui' = tui
  BY <1>4 DEF Start
<1>5. ASSUME NEW c \in Cmd, Connect(c) \/ Prepare(c) \/ Stop(c) \/ Persist(c)
      PROVE  tui' = tui
  BY <1>5
     DEF Connect, Prepare, PrepareRead, PrepareDrain, PrepareStatus, PrepareRecord,
         PrepareRestore, Stop, Persist, UpdateRead, UpdateReplace, Load, Sync
<1>6. ASSUME NEW c \in Cmd, Switch(c) \/ Configure(c)
      PROVE  tui'.session = tui.session
  BY <1>2, <1>6
     DEF Switch, SwitchValidate, SwitchStatus, SwitchCancel, SwitchQuiesce, SwitchRespawn,
         SwitchWait, SwitchRecover, SwitchActivate, Configure, ConfigureLock, ConfigureRequest,
         ConfigureSet
<1> QED
  BY <1>1, <1>3, <1>4, <1>5, <1>6 DEF Next, Proceed

(* What a switch writes into team.toml answers on the control socket, and   *)
(* under one switcher nothing newer is in the file; a configure leaves in   *)
(* it what was there.                                                       *)
LEMMA WritesOpened ==
  ASSUME SwitchInv, BoundExists, NEW c \in Cmd, UpdateReplace(c)
  PROVE  /\ toml'.session <= tui.session /\ tui' = tui
         /\ OneSwitcher => toml.session <= toml'.session
         /\ row' = row /\ \A d \in Cmd : cmd'[d].loaded = cmd[d].loaded
<1>1. /\ toml \in Binding /\ cmd[c].copy = toml
      /\ cmd[c].session <= tui.session
      /\ At(c, "replace") /\ cmd \in [Cmd -> Command]
  BY DEF SwitchInv, SwitchTypeOK, TomlLocked, NoFutureSession, UpdateReplace, At
<1>2. OneSwitcher /\ cmd[c].op = "switch" => cmd[c].session = tui.session
  BY <1>1 DEF SwitchInv, SwitchProgress, Progress, PersistStep, At
<1>3. toml.session \in Nat
  BY OpenedNumbers DEF SwitchInv
<1>4. toml'.session = IF cmd[c].op = "switch" THEN cmd[c].session ELSE toml.session
  BY <1>1 DEF UpdateReplace, Binding
<1>5. tui' = tui /\ row' = row /\ \A d \in Cmd : cmd'[d].loaded = cmd[d].loaded
  BY <1>1 DEF UpdateReplace
<1> QED
  BY <1>1, <1>2, <1>3, <1>4, <1>5 DEF BoundExists

LEMMA BoundStays ==
  ASSUME SwitchInv, BoundExists, [Next]_vars
  PROVE  BoundExists'
<1>1. tui.session \in Nat /\ toml.session \in Nat /\ (Next => tui'.session \in Nat)
  BY OpenedNumbers, NextKeeps DEF SwitchInv, SwitchTypeOK, Session
<1>2. ASSUME NEW c \in Cmd, UpdateReplace(c)
      PROVE  BoundExists'
  BY <1>2, WritesOpened DEF BoundExists
<1>3. CASE Next /\ toml' = toml
  BY <1>1, <1>3, SessionsGrow DEF SwitchInv, BoundExists
<1>4. CASE UNCHANGED vars
  BY <1>4 DEF vars, BoundExists
<1> QED
  BY <1>2, <1>3, <1>4, OnlyReplaceWrites

(* Only what was read from team.toml, or is still the first session, is     *)
(* kept as loaded, and only that is synced.                                 *)
LEMMA CopiesMade ==
  ASSUME SwitchInv, Next, \A c \in Cmd : ~UpdateReplace(c)
  PROVE  /\ row' = row \/ \E c \in Cmd : row' = cmd[c].loaded
         /\ \A d \in Cmd : cmd'[d].loaded \in {cmd[d].loaded, toml.session, 1}
<1> USE DEF Idle
<1>1. cmd \in [Cmd -> Command]
  BY DEF SwitchInv, SwitchTypeOK
<1>2. CASE Tui \/ SetRoleState
  BY <1>2 DEF Tui, StartTurn, EndTurn, Boot, Crash, TuiUnchanged, SetRoleState
<1>3. ASSUME NEW c \in Cmd, NEW op \in Operation \ {"none"}, Start(c, op)
      PROVE  /\ row' = row
             /\ \A d \in Cmd : cmd'[d].loaded \in {cmd[d].loaded, toml.session}
  BY <1>1, <1>3 DEF Start
<1>4. ASSUME NEW c \in Cmd, Prepare(c) \/ Stop(c)
      PROVE  row' = row /\ \A d \in Cmd : cmd'[d].loaded \in {cmd[d].loaded, 1}
  BY <1>1, <1>4
     DEF Prepare, PrepareRead, PrepareDrain, PrepareStatus, PrepareRecord, PrepareRestore, Stop,
         Goto, Command
<1>5. ASSUME NEW c \in Cmd, Switch(c)
      PROVE  row' = row /\ \A d \in Cmd : cmd'[d].loaded \in {cmd[d].loaded, 1}
  BY <1>1, <1>5
     DEF Switch, SwitchValidate, SwitchStatus, SwitchCancel, SwitchQuiesce, SwitchRespawn,
         SwitchWait, SwitchRecover, SwitchActivate, Goto, Command
<1>6. ASSUME NEW c \in Cmd, Configure(c) \/ UpdateRead(c) \/ Load(c)
      PROVE  /\ row' = row
             /\ \A d \in Cmd : cmd'[d].loaded \in {cmd[d].loaded, toml.session, 1}
  <2>1. CASE ConfigureLock(c)
    BY <1>1, <2>1 DEF ConfigureLock, Command
  <2>2. CASE ConfigureRequest(c)
    BY <1>1, <2>2 DEF ConfigureRequest, Command
  <2>3. CASE ConfigureSet(c)
    BY <1>1, <2>3 DEF ConfigureSet, Command
  <2>4. CASE UpdateRead(c) \/ Load(c)
    BY <1>1, <2>4 DEF UpdateRead, Load, Command
  <2> QED
    BY <1>6, <2>1, <2>2, <2>3, <2>4 DEF Configure
<1>7. ASSUME NEW c \in Cmd, Connect(c) \/ Sync(c)
      PROVE  /\ row' = cmd[c].loaded
             /\ \A d \in Cmd : cmd'[d].loaded \in {cmd[d].loaded, 1}
  BY <1>1, <1>7 DEF Connect, Sync, Leave, Command
<1> QED
  BY <1>2, <1>3, <1>4, <1>5, <1>6, <1>7 DEF Next, Proceed, Persist

LEMMA CopiesStay ==
  ASSUME SwitchInv, BoundExists, CopiesBehind, [Next]_vars
  PROVE  CopiesBehind'
<1>1. /\ toml.session \in Nat /\ row \in Nat /\ 1 <= toml.session
      /\ \A c \in Cmd : cmd[c].loaded \in Nat
  BY OpenedNumbers DEF SwitchInv
<1>2. ASSUME NEW c \in Cmd, UpdateReplace(c)
      PROVE  CopiesBehind'
  <2>1. toml'.session \in Nat
    BY <1>2, NextKeeps, OpenedNumbers DEF SwitchInv, SwitchTypeOK, Binding, Session, Next, Proceed, Persist
  <2> QED
    BY <1>1, <1>2, <2>1, WritesOpened DEF CopiesBehind, OneSwitcher
<1>3. CASE Next /\ \A c \in Cmd : ~UpdateReplace(c)
  <2>1. toml' = toml
    BY <1>3, OnlyReplaceWrites
  <2> QED
    BY <1>1, <1>3, <2>1, CopiesMade DEF CopiesBehind, OneSwitcher
<1>4. CASE UNCHANGED vars
  BY <1>4 DEF vars, CopiesBehind, OneSwitcher
<1> QED
  BY <1>2, <1>3, <1>4

(* Under one switcher SQLite never names a session that team.toml has not   *)
(* named, whatever dies between the file and the row and whatever stale     *)
(* copy is synced late.                                                     *)
THEOREM RowStaysBehindFile == Spec => []RowBehindFile
<1>1. Init => BoundExists /\ CopiesBehind
  BY DEF Init, BoundExists, CopiesBehind, Idle
<1>2. SwitchInv /\ BoundExists /\ [Next]_vars => BoundExists'
  BY BoundStays
<1>3. SwitchInv /\ BoundExists /\ CopiesBehind /\ [Next]_vars => CopiesBehind'
  BY CopiesStay
<1>4. CopiesBehind => RowBehindFile
  BY DEF CopiesBehind, RowBehindFile
<1> QED
  BY <1>1, <1>2, <1>3, <1>4, SwitchInvariant, PTL DEF Spec

=============================================================================
