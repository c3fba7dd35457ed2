--------------------------- MODULE AcpLifecycleProofs ---------------------------
(***************************************************************************)
(* Proofs about AcpLifecycle, for any number of roles and sessions: its    *)
(* types, its four safety invariants and that it implements RoleSessions.  *)
(*                                                                         *)
(* SleepBarrier, SnapshotIsLive and ResumeBindsLive speak of the end of a  *)
(* command, and what they say is reached role by role.  LifecycleInv adds  *)
(* how far each loop has come: the roles a sleep has inspected answer with *)
(* the session that is bound and, a role whose UI is booting being none of *)
(* them, cannot come up again; those it has quiesced are closed            *)
(* (SleepProgress); those a resume has been at are bound to what runs      *)
(* (ResumeProgress).                                                       *)
(*                                                                         *)
(* SessionOpenOnce and RoleSessions rest on PanesInv: a loop that opens    *)
(* panes never displaces one (PanesWait, NothingDisplaced), and the        *)
(* sessions of different roles are apart wherever they are written down    *)
(* (SessionsApart).                                                        *)
(***************************************************************************)
EXTENDS AcpLifecycle, TLAPS

OpensPanes == {"window", "spawn"}
BootstrapStep == {"wait", "prompt", "settle", "bind", "goal"}
SleepStep == {"drain", "quiesce", "handoff", "snapshot", "pause", "teardown"}
ResumeStep == {"check", "rebind", "sync", "notify"}

(* The command that runs is at a step of its own, with every role in        *)
(* team.toml, and a UI that answers has a session.                          *)
Bookkeeping ==
  /\ life.pc \in OpensPanes => life.op \in {"bootstrap", "resume"}
  /\ life.pc \in BootstrapStep => life.op = "bootstrap"
  /\ life.pc \in SleepStep \cup {"inspect"} => life.op = "sleep"
  /\ life.pc \in ResumeStep => life.op = "resume"
  /\ life.op # "none" => Configured
  /\ \A r \in Role : Answers(r) => tui[r].session # NoSession

(* What the first loop of a sleep has made sure of, and nothing undoes.     *)
Inspected(r) ==
  /\ tui[r].phase # "starting"
  /\ Answers(r) => tui[r].session = life.session[r] /\ tui[r].session = toml[r].session

(* What its quiesce has made sure of.                                       *)
Closed(r) == Answers(r) => ~tui[r].busy /\ ~tui[r].accepting

SleepProgress ==
  /\ life.pc = "inspect" => \A r \in Role \ life.todo : Inspected(r)
  /\ life.pc \in SleepStep => \A r \in Role : Inspected(r)
  /\ life.pc = "quiesce" => \A r \in Role \ life.todo : Closed(r)
  /\ life.pc \in {"handoff", "snapshot", "pause", "teardown"} => \A r \in Role : Closed(r)
  /\ life.pc \in {"pause", "teardown"} => latest.session = life.session

(* The sessions that an exact resume wants.                                 *)
WantsSaved ==
  life.op = "resume" /\ life.policy = "exact" => \A r \in Role : life.session[r] = Saved.session[r]

(* What a resume has made sure of for a role it has been at.                *)
Bound(r) ==
  /\ tui[r].phase # "starting"
  /\ Answers(r) => /\ toml[r].session = tui[r].session
                   /\ life.policy = "exact" => tui[r].session = life.session[r]

ResumeProgress ==
  /\ life.op = "resume" /\ life.pc \in {"spawn", "check", "rebind"} =>
       \A r \in Role \ life.todo : Bound(r)
  /\ life.pc = "rebind" =>
       /\ tui[life.role].phase # "starting"
       /\ Answers(life.role) => tui[life.role].session = life.session[life.role]
  /\ life.pc \in {"check", "rebind"} => life.role \in Role
  /\ life.pc \in {"sync", "notify"} => \A r \in Role : Bound(r)

LifecycleInv ==
  /\ LifecycleTypeOK
  /\ Bookkeeping
  /\ SleepProgress
  /\ WantsSaved
  /\ ResumeProgress

-----------------------------------------------------------------------------

LEMMA IdleType == Idle \in Command
BY DEF Idle, Command, Step, Policy, SavedSession, State

(* What is saved, or recovered, is a session for every role.                *)
LEMMA SavedType ==
  ASSUME LifecycleTypeOK
  PROVE  Saved.session \in SavedSession
BY DEF LifecycleTypeOK, Saved, Snapshot, Recovered, Entry, SavedSession

(* sync_roles gives a row to every role of a configured team.               *)
LEMMA SyncedType ==
  ASSUME LifecycleTypeOK, Configured
  PROVE  Synced \in [Role -> State]
BY DEF LifecycleTypeOK, Configured, Synced, Entry, State

(* A turn or a queue may begin or end anywhere.                             *)
LEMMA TuiType ==
  ASSUME LifecycleTypeOK, NEW r, NEW b \in BOOLEAN
  PROVE  /\ [tui EXCEPT ![r].busy = b] \in [Role -> TuiState]
         /\ [tui EXCEPT ![r].accepting = b] \in [Role -> TuiState]
<1>1. tui \in [Role -> TuiState]
  BY DEF LifecycleTypeOK
<1>2. \A q \in Role : /\ [tui[q] EXCEPT !.busy = b] \in TuiState
                      /\ [tui[q] EXCEPT !.accepting = b] \in TuiState
  BY <1>1 DEF TuiState
<1> QED
  BY <1>1, <1>2

-----------------------------------------------------------------------------
(* The terminal UIs, and the death of a command. *)

LEMMA StartTurnKeeps ==
  ASSUME LifecycleInv, NEW r \in Role, StartTurn(r)
  PROVE  LifecycleInv'
<1> USE DEF LifecycleInv
<1>1. LifecycleTypeOK'
  <2>1. tui' \in [Role -> TuiState]
    BY TuiType DEF StartTurn
  <2>2. sessions' \in 0..MaxSession
    BY LifecycleAssumption DEF LifecycleTypeOK, StartTurn, TuiUnchanged, Rests
  <2> QED
    BY <2>1, <2>2 DEF LifecycleTypeOK, StartTurn, TuiUnchanged
<1>2. Bookkeeping'
  BY DEF Bookkeeping, Configured, Answers, NoSession, StartTurn, TuiUnchanged, Rests
<1>3. SleepProgress'
  BY DEF SleepProgress, Inspected, Closed, SleepStep, LifecycleTypeOK, TuiState, Command, Answers,
         StartTurn, TuiUnchanged, Rests
<1>4. WantsSaved'
  BY DEF WantsSaved, Saved, Recovered, StartTurn, TuiUnchanged, Rests
<1>5. ResumeProgress'
  BY DEF ResumeProgress, Bound, Answers, StartTurn, TuiUnchanged, Rests
<1> QED
  BY <1>1, <1>2, <1>3, <1>4, <1>5

LEMMA EndTurnKeeps ==
  ASSUME LifecycleInv, NEW r \in Role, EndTurn(r)
  PROVE  LifecycleInv'
<1> USE DEF LifecycleInv
<1>1. LifecycleTypeOK'
  <2>1. tui' \in [Role -> TuiState]
    BY TuiType DEF EndTurn
  <2>2. sessions' \in 0..MaxSession
    BY LifecycleAssumption DEF LifecycleTypeOK, EndTurn, TuiUnchanged
  <2> QED
    BY <2>1, <2>2 DEF LifecycleTypeOK, EndTurn, TuiUnchanged
<1>2. Bookkeeping'
  BY DEF Bookkeeping, Configured, Answers, NoSession, EndTurn, TuiUnchanged
<1>3. SleepProgress'
  BY DEF SleepProgress, Inspected, Closed, SleepStep, LifecycleTypeOK, TuiState, Command, Answers,
         EndTurn, TuiUnchanged
<1>4. WantsSaved'
  BY DEF WantsSaved, Saved, Recovered, EndTurn, TuiUnchanged
<1>5. ResumeProgress'
  BY DEF ResumeProgress, Bound, Answers, EndTurn, TuiUnchanged
<1> QED
  BY <1>1, <1>2, <1>3, <1>4, <1>5

LEMMA BootKeeps ==
  ASSUME LifecycleInv, NEW r \in Role, Boot(r)
  PROVE  LifecycleInv'
<1> USE DEF LifecycleInv
<1>1. LifecycleTypeOK'
  <2>1. tui' \in [Role -> TuiState]
    BY LifecycleAssumption
       DEF LifecycleTypeOK, TuiState, Session, NoSession, NoTui, Boot, TuiUnchanged
  <2>2. sessions' \in 0..MaxSession
    BY LifecycleAssumption DEF LifecycleTypeOK, Boot, TuiUnchanged
  <2> QED
    BY <2>1, <2>2 DEF LifecycleTypeOK, Boot, TuiUnchanged
<1>2. Bookkeeping'
  BY DEF Bookkeeping, OpensPanes, BootstrapStep, SleepStep, ResumeStep, LifecycleTypeOK, TuiState,
         Command, Configured, Answers, NoSession, Boot, TuiUnchanged
<1>3. SleepProgress'
  <2>1. tui[r].phase = "starting" /\ \A q \in Role \ {r} : tui'[q] = tui[q]
    BY DEF Boot, LifecycleTypeOK
  <2>2. UNCHANGED <<toml, latest, life>>
    BY DEF Boot, TuiUnchanged
  <2> QED
    BY <2>1, <2>2 DEF SleepProgress, SleepStep, Inspected, Closed, Answers
<1>4. WantsSaved'
  BY DEF WantsSaved, Saved, Recovered, Boot, TuiUnchanged
<1>5. ResumeProgress'
  <2>1. tui[r].phase = "starting" /\ \A q \in Role \ {r} : tui'[q] = tui[q]
    BY DEF Boot, LifecycleTypeOK
  <2>2. UNCHANGED <<toml, latest, life>>
    BY DEF Boot, TuiUnchanged
  <2> QED
    BY <2>1, <2>2 DEF ResumeProgress, Bound, Answers
<1> QED
  BY <1>1, <1>2, <1>3, <1>4, <1>5

LEMMA DieKeeps ==
  ASSUME LifecycleInv, NEW r \in Role, Die(r)
  PROVE  LifecycleInv'
<1> USE DEF LifecycleInv
<1>1. LifecycleTypeOK'
  <2>1. tui' \in [Role -> TuiState]
    BY LifecycleAssumption
       DEF LifecycleTypeOK, TuiState, Session, NoSession, NoTui, Die, TuiUnchanged
  <2>2. sessions' \in 0..MaxSession
    BY LifecycleAssumption DEF LifecycleTypeOK, Die, TuiUnchanged, NoTui
  <2> QED
    BY <2>1, <2>2 DEF LifecycleTypeOK, Die, TuiUnchanged
<1>2. Bookkeeping'
  BY DEF Bookkeeping, Configured, Answers, NoSession, Die, TuiUnchanged, NoTui
<1>3. SleepProgress'
  BY DEF SleepProgress, Inspected, Closed, SleepStep, LifecycleTypeOK, TuiState, Command, Answers,
         Die, TuiUnchanged, NoTui
<1>4. WantsSaved'
  BY DEF WantsSaved, Saved, Recovered, Die, TuiUnchanged, NoTui
<1>5. ResumeProgress'
  BY DEF ResumeProgress, Bound, Answers, Die, TuiUnchanged, NoTui
<1> QED
  BY <1>1, <1>2, <1>3, <1>4, <1>5

LEMMA FailKeeps ==
  ASSUME LifecycleInv, Fail
  PROVE  LifecycleInv'
<1> USE DEF LifecycleInv
<1>1. LifecycleTypeOK'
  <2>1. life \in Command
    BY DEF LifecycleTypeOK
  <2>2. {"idle"} \subseteq Step
    BY DEF Step
  <2>3. life' \in Command
    BY <2>1, <2>2, IdleType DEF LifecycleTypeOK, TuiState, Command, SavedSession, State, Fail, Idle
  <2> QED
    BY <2>3 DEF LifecycleTypeOK, Fail
<1>2. Bookkeeping'
  BY DEF Bookkeeping, OpensPanes, BootstrapStep, SleepStep, ResumeStep, LifecycleTypeOK, Configured,
         Answers, NoSession, Fail, Idle
<1>3. SleepProgress'
  BY DEF SleepProgress, Inspected, Closed, SleepStep, LifecycleTypeOK, Fail, Idle
<1>4. WantsSaved'
  BY DEF WantsSaved, Saved, Recovered, Fail, Idle
<1>5. ResumeProgress'
  BY DEF ResumeProgress, Bound, Answers, Fail, Idle
<1> QED
  BY <1>1, <1>2, <1>3, <1>4, <1>5

-----------------------------------------------------------------------------
(* Panes. *)

LEMMA OpenWindowKeeps ==
  ASSUME LifecycleInv, OpenWindow
  PROVE  LifecycleInv'
<1> USE DEF LifecycleInv
<1>1. LifecycleTypeOK'
  <2>1. life \in Command
    BY DEF LifecycleTypeOK
  <2>2. {"spawn", "window"} \subseteq Step
    BY DEF Step
  <2>3. life' \in Command
    BY <2>1, <2>2 DEF LifecycleTypeOK, TuiState, Command, SavedSession, State, OpenWindow, Loop
  <2> QED
    BY <2>3 DEF LifecycleTypeOK, OpenWindow
<1>2. Bookkeeping'
  BY DEF Bookkeeping, OpensPanes, BootstrapStep, SleepStep, ResumeStep, LifecycleTypeOK, Configured,
         Answers, NoSession, OpenWindow, Loop
<1>3. SleepProgress'
  BY DEF SleepProgress, Inspected, Closed, SleepStep, LifecycleTypeOK, OpenWindow, Loop
<1>4. WantsSaved'
  BY DEF WantsSaved, Saved, Recovered, OpenWindow, Loop
<1>5. ResumeProgress'
  BY DEF ResumeProgress, Bound, Answers, OpenWindow, Loop
<1> QED
  BY <1>1, <1>2, <1>3, <1>4, <1>5

LEMMA SpawnKeeps ==
  ASSUME LifecycleInv, NEW r \in Role, Spawn(r)
  PROVE  LifecycleInv'
<1> USE DEF LifecycleInv
<1>1. LifecycleTypeOK'
  <2>1. life \in Command
    BY DEF LifecycleTypeOK
  <2>2. {"check", "spawn", "wait"} \subseteq Step
    BY DEF Step
  <2>3. life' \in Command
    BY <2>1, <2>2 DEF LifecycleTypeOK, TuiState, Command, SavedSession, State, Spawn, NoTui
  <2>4. tui' \in [Role -> TuiState]
    BY LifecycleAssumption
       DEF LifecycleTypeOK, TuiState, Session, NoSession, NoTui, Spawn, Command, SavedSession
  <2>5. stray' \in [Role -> SUBSET Session]
    BY LifecycleAssumption
       DEF LifecycleTypeOK, TuiState, Answers, Session, Bookkeeping, NoSession, Spawn, NoTui
  <2> QED
    BY <2>3, <2>4, <2>5 DEF LifecycleTypeOK, Spawn
<1>2. Bookkeeping'
  BY DEF Bookkeeping, OpensPanes, BootstrapStep, SleepStep, ResumeStep, LifecycleTypeOK, Configured,
         Answers, NoSession, Spawn, NoTui
<1>3. SleepProgress'
  BY DEF SleepProgress, Inspected, Closed, SleepStep, LifecycleTypeOK, Spawn, NoTui
<1>4. WantsSaved'
  BY DEF WantsSaved, Saved, Recovered, Spawn, NoTui
<1>5. ResumeProgress'
  BY DEF ResumeProgress, Bound, Answers, Spawn, NoTui
<1> QED
  BY <1>1, <1>2, <1>3, <1>4, <1>5

-----------------------------------------------------------------------------
(* bootstrap. *)

LEMMA ProvisionKeeps ==
  ASSUME LifecycleInv, Provision
  PROVE  LifecycleInv'
<1> USE DEF LifecycleInv
<1>1. LifecycleTypeOK'
  <2>1. life \in Command
    BY DEF LifecycleTypeOK
  <2>2. {"idle", "window"} \subseteq Step
    BY DEF Step
  <2>3. life' \in Command
    BY <2>1, <2>2, IdleType
       DEF LifecycleTypeOK, TuiState, Command, SavedSession, State, Provision, NoEntry, Idle
  <2>4. toml' \in [Role -> Entry]
    BY DEF LifecycleTypeOK, Entry, Session, NoSession, Provision, NoEntry
  <2> QED
    BY <2>3, <2>4 DEF LifecycleTypeOK, Provision
<1>2. Bookkeeping'
  BY DEF Bookkeeping, OpensPanes, BootstrapStep, SleepStep, ResumeStep, LifecycleTypeOK, Configured,
         Answers, NoSession, Provision, NoEntry, Idle
<1>3. SleepProgress'
  BY DEF SleepProgress, Inspected, Closed, SleepStep, LifecycleTypeOK, Provision, NoEntry, Idle
<1>4. WantsSaved'
  BY DEF WantsSaved, Saved, Recovered, Provision, NoEntry, Idle
<1>5. ResumeProgress'
  BY DEF ResumeProgress, Bound, Answers, Provision, NoEntry, Idle
<1> QED
  BY <1>1, <1>2, <1>3, <1>4, <1>5

LEMMA ConfigureKeeps ==
  ASSUME LifecycleInv, Configure
  PROVE  LifecycleInv'
<1> USE DEF LifecycleInv
<1>1. LifecycleTypeOK'
  <2>1. life \in Command
    BY DEF LifecycleTypeOK
  <2>2. {"prompt", "wait"} \subseteq Step
    BY DEF Step
  <2>3. life' \in Command
    BY <2>1, <2>2 DEF LifecycleTypeOK, TuiState, Command, SavedSession, State, Configure, At, Goto
  <2> QED
    BY <2>3 DEF LifecycleTypeOK, Configure
<1>2. Bookkeeping'
  BY DEF Bookkeeping, OpensPanes, BootstrapStep, SleepStep, ResumeStep, LifecycleTypeOK, Configured,
         Answers, NoSession, Configure, At, Goto
<1>3. SleepProgress'
  BY DEF SleepProgress, Inspected, Closed, SleepStep, LifecycleTypeOK, Configure, At, Goto
<1>4. WantsSaved'
  BY DEF WantsSaved, Saved, Recovered, Configure, At, Goto
<1>5. ResumeProgress'
  BY DEF ResumeProgress, Bound, Answers, Configure, At, Goto
<1> QED
  BY <1>1, <1>2, <1>3, <1>4, <1>5

LEMMA PromptKeeps ==
  ASSUME LifecycleInv, Prompt
  PROVE  LifecycleInv'
<1> USE DEF LifecycleInv
<1>1. LifecycleTypeOK'
  <2>1. life \in Command
    BY DEF LifecycleTypeOK
  <2>2. {"prompt", "settle"} \subseteq Step
    BY DEF Step
  <2>3. life' \in Command
    BY <2>1, <2>2
       DEF LifecycleTypeOK, TuiState, Command, SavedSession, State, Prompt, At, Goto, Rests
  <2>4. tui' \in [Role -> TuiState]
    BY TuiType DEF Prompt
  <2> QED
    BY <2>3, <2>4 DEF LifecycleTypeOK, Prompt
<1>2. Bookkeeping'
  BY DEF Bookkeeping, OpensPanes, BootstrapStep, SleepStep, ResumeStep, LifecycleTypeOK, Configured,
         Answers, NoSession, Prompt, At, Goto, Rests
<1>3. SleepProgress'
  BY DEF SleepProgress, Inspected, Closed, SleepStep, LifecycleTypeOK, Prompt, At, Goto, Rests
<1>4. WantsSaved'
  BY DEF WantsSaved, Saved, Recovered, Prompt, At, Goto, Rests
<1>5. ResumeProgress'
  BY DEF ResumeProgress, Bound, Answers, Prompt, At, Goto, Rests
<1> QED
  BY <1>1, <1>2, <1>3, <1>4, <1>5

LEMMA SettleKeeps ==
  ASSUME LifecycleInv, Settle
  PROVE  LifecycleInv'
<1> USE DEF LifecycleInv
<1>1. LifecycleTypeOK'
  <2>1. life \in Command
    BY DEF LifecycleTypeOK
  <2>2. {"bind", "settle", "spawn"} \subseteq Step
    BY DEF Step
  <2>3. life' \in Command
    BY <2>1, <2>2 DEF LifecycleTypeOK, TuiState, Command, SavedSession, State, Settle, At, Visited
  <2> QED
    BY <2>3 DEF LifecycleTypeOK, Settle
<1>2. Bookkeeping'
  BY DEF Bookkeeping, OpensPanes, BootstrapStep, SleepStep, ResumeStep, LifecycleTypeOK, Configured,
         Answers, NoSession, Settle, At, Visited
<1>3. SleepProgress'
  BY DEF SleepProgress, Inspected, Closed, SleepStep, LifecycleTypeOK, Settle, At, Visited
<1>4. WantsSaved'
  BY DEF WantsSaved, Saved, Recovered, Settle, At, Visited
<1>5. ResumeProgress'
  BY DEF ResumeProgress, Bound, Answers, Settle, At, Visited
<1> QED
  BY <1>1, <1>2, <1>3, <1>4, <1>5

LEMMA BindKeeps ==
  ASSUME LifecycleInv, Bind
  PROVE  LifecycleInv'
<1> USE DEF LifecycleInv
<1>1. LifecycleTypeOK'
  <2>1. life \in Command
    BY DEF LifecycleTypeOK
  <2>2. {"bind", "goal"} \subseteq Step
    BY DEF Step
  <2>3. life' \in Command
    BY <2>1, <2>2
       DEF LifecycleTypeOK, TuiState, Command, SavedSession, State, Bind, At, Goto, NoEntry
  <2>4. toml' \in [Role -> Entry]
    BY DEF LifecycleTypeOK, Entry, Session, NoSession, Bind, At, Goto, NoEntry, Command,
           SavedSession
  <2> QED
    BY <2>3, <2>4 DEF LifecycleTypeOK, Bind
<1>2. Bookkeeping'
  BY DEF Bookkeeping, OpensPanes, BootstrapStep, SleepStep, ResumeStep, LifecycleTypeOK, TuiState,
         Command, Configured, Answers, NoSession, Bind, At, Goto, NoEntry
<1>3. SleepProgress'
  BY DEF SleepProgress, Inspected, Closed, SleepStep, LifecycleTypeOK, TuiState, Command, Answers,
         Bind, At, Goto, NoEntry
<1>4. WantsSaved'
  BY SavedType
     DEF WantsSaved, Saved, Recovered, Bookkeeping, OpensPanes, BootstrapStep, SleepStep,
         ResumeStep, LifecycleTypeOK, TuiState, Command, SavedSession, Bind, At, Goto, NoEntry
<1>5. ResumeProgress'
  BY DEF ResumeProgress, Bound, Bookkeeping, OpensPanes, BootstrapStep, SleepStep, ResumeStep,
         LifecycleTypeOK, TuiState, Command, SavedSession, Answers, Bind, At, Goto, NoEntry
<1> QED
  BY <1>1, <1>2, <1>3, <1>4, <1>5

LEMMA SendGoalKeeps ==
  ASSUME LifecycleInv, SendGoal
  PROVE  LifecycleInv'
<1> USE DEF LifecycleInv
<1>1. LifecycleTypeOK'
  <2>1. life \in Command
    BY DEF LifecycleTypeOK
  <2>2. {"goal", "idle"} \subseteq Step
    BY DEF Step
  <2>3. life' \in Command
    BY <2>1, <2>2, IdleType, SyncedType
       DEF LifecycleTypeOK, TuiState, Command, SavedSession, State, SendGoal, At, Rests, Idle
  <2>4. roleState' \in [Role -> State]
    BY SyncedType DEF LifecycleTypeOK, State, Bookkeeping, Configured, SendGoal, At, Rests
  <2>5. tui' \in [Role -> TuiState]
    <3>1. \A r \in Role : [tui EXCEPT ![r].busy = TRUE] \in [Role -> TuiState]
      BY TuiType
    <3>2. tui \in [Role -> TuiState]
      BY DEF LifecycleTypeOK
    <3> QED
      BY <3>1, <3>2 DEF SendGoal
  <2> QED
    BY <2>3, <2>4, <2>5 DEF LifecycleTypeOK, SendGoal
<1>2. Bookkeeping'
  <2>1. \A r \in Role : tui'[r].phase = tui[r].phase /\ tui'[r].session = tui[r].session
    BY DEF LifecycleTypeOK, TuiState, SendGoal
  <2> QED
    BY <2>1 DEF Bookkeeping, OpensPanes, BootstrapStep, SleepStep, ResumeStep, Answers, SendGoal, Idle
<1>3. SleepProgress'
  BY DEF SleepProgress, Inspected, Closed, SleepStep, LifecycleTypeOK, SendGoal, At, Rests, Idle
<1>4. WantsSaved'
  BY DEF WantsSaved, Saved, Recovered, SendGoal, At, Rests, Idle
<1>5. ResumeProgress'
  BY DEF ResumeProgress, Bound, Answers, SendGoal, At, Rests, Idle
<1> QED
  BY <1>1, <1>2, <1>3, <1>4, <1>5

-----------------------------------------------------------------------------
(* sleep. *)

LEMMA StartSleepKeeps ==
  ASSUME LifecycleInv, StartSleep
  PROVE  LifecycleInv'
<1> USE DEF LifecycleInv
<1>1. LifecycleTypeOK'
  <2>1. life \in Command
    BY DEF LifecycleTypeOK
  <2>2. {"idle", "inspect"} \subseteq Step
    BY DEF Step
  <2>3. life' \in Command
    <3>1. PICK policy \in Policy :
            life' = [Idle EXCEPT !.op = "sleep", !.pc = "inspect", !.todo = Role, !.policy = policy]
      BY DEF StartSleep
    <3> QED
      BY <2>2, <3>1, IdleType DEF Command
  <2>4. roleState' \in [Role -> State]
    BY SyncedType DEF LifecycleTypeOK, State, Bookkeeping, Configured, StartSleep
  <2> QED
    BY <2>3, <2>4 DEF LifecycleTypeOK, StartSleep
<1>2. Bookkeeping'
  BY DEF Bookkeeping, OpensPanes, BootstrapStep, SleepStep, ResumeStep, LifecycleTypeOK, Configured,
         Answers, NoSession, StartSleep, Idle
<1>3. SleepProgress'
  BY DEF SleepProgress, Inspected, Closed, SleepStep, LifecycleTypeOK, StartSleep, Idle
<1>4. WantsSaved'
  BY DEF WantsSaved, Saved, Recovered, StartSleep, Idle
<1>5. ResumeProgress'
  BY DEF ResumeProgress, Bound, Answers, StartSleep, Idle
<1> QED
  BY <1>1, <1>2, <1>3, <1>4, <1>5

LEMMA InspectKeeps ==
  ASSUME LifecycleInv, NEW r \in Role, Inspect(r)
  PROVE  LifecycleInv'
<1> USE DEF LifecycleInv
<1>1. LifecycleTypeOK'
  <2>1. life \in Command
    BY DEF LifecycleTypeOK
  <2>2. {"drain", "inspect"} \subseteq Step
    BY DEF Step
  <2>3. life' \in Command
    BY <2>1, <2>2
       DEF LifecycleTypeOK, TuiState, Command, SavedSession, State, Inspect, Visited, Rests
  <2> QED
    BY <2>3 DEF LifecycleTypeOK, Inspect
<1>2. Bookkeeping'
  BY DEF Bookkeeping, OpensPanes, BootstrapStep, SleepStep, ResumeStep, LifecycleTypeOK, Configured,
         Answers, NoSession, Inspect, Visited, Rests
<1>3. SleepProgress'
  <2>1. life' = [Visited(r, "inspect", "drain") EXCEPT !.session[r] = tui[r].session,
                                                       !.original[r] = roleState[r]]
    BY DEF Inspect
  <2>2. /\ life'.pc = IF life.todo = {r} THEN "drain" ELSE "inspect"
        /\ life'.todo = life.todo \ {r}
        /\ life'.session = [life.session EXCEPT ![r] = tui[r].session]
    BY <2>1 DEF Visited, LifecycleTypeOK, Command
  <2>3. /\ life.pc = "inspect" /\ UNCHANGED <<toml, tui, latest>>
        /\ Answers(r) /\ tui[r].session = toml[r].session
    BY DEF Inspect, Rests
  <2>4. life.session \in [Role -> Session \cup {NoSession}]
    BY DEF LifecycleTypeOK, Command, SavedSession
  <2>5. \A q \in Role \ life'.todo : Inspected(q)'
    BY <2>2, <2>3, <2>4 DEF SleepProgress, Inspected, Answers
  <2> QED
    BY <2>2, <2>3, <2>5 DEF SleepProgress, SleepStep
<1>4. WantsSaved'
  BY DEF WantsSaved, Saved, Recovered, Bookkeeping, OpensPanes, BootstrapStep, SleepStep,
         ResumeStep, LifecycleTypeOK, Inspect, Visited, Rests
<1>5. ResumeProgress'
  BY DEF ResumeProgress, Bound, Answers, Inspect, Visited, Rests
<1> QED
  BY <1>1, <1>2, <1>3, <1>4, <1>5

LEMMA DrainKeeps ==
  ASSUME LifecycleInv, Drain
  PROVE  LifecycleInv'
<1> USE DEF LifecycleInv
<1>1. LifecycleTypeOK'
  <2>1. life \in Command
    BY DEF LifecycleTypeOK
  <2>2. {"drain", "quiesce", "unquiesce"} \subseteq Step
    BY DEF Step
  <2>3. life' \in Command
    BY <2>1, <2>2 DEF LifecycleTypeOK, TuiState, Command, SavedSession, State, Drain, Loop, Goto
  <2>4. roleState' \in [Role -> State]
    BY DEF LifecycleTypeOK, State, Bookkeeping, Configured, Drain, Loop, Goto
  <2> QED
    BY <2>3, <2>4 DEF LifecycleTypeOK, Drain
<1>2. /\ UNCHANGED <<toml, tui, stray, sessions, latest>>
      /\ life.pc = "drain" /\ life'.pc \in {"quiesce", "unquiesce"}
      /\ life'.pc = "quiesce" => life'.todo = Role
      /\ life'.op = life.op /\ life'.policy = life.policy /\ life'.session = life.session
  BY DEF LifecycleTypeOK, Command, Drain, Loop, Goto
<1>3. Bookkeeping'
  BY <1>2 DEF Bookkeeping, OpensPanes, BootstrapStep, SleepStep, ResumeStep, Configured, Answers
<1>4. SleepProgress'
  BY <1>2 DEF SleepProgress, Inspected, Closed, SleepStep, Answers
<1>5. WantsSaved'
  BY <1>2 DEF WantsSaved, Saved, Recovered
<1>6. ResumeProgress'
  BY <1>2 DEF Bookkeeping, SleepStep, ResumeProgress, Bound, Answers
<1> QED
  BY <1>1, <1>3, <1>4, <1>5, <1>6

LEMMA QuiesceKeeps ==
  ASSUME LifecycleInv, NEW r \in Role, Quiesce(r)
  PROVE  LifecycleInv'
<1> USE DEF LifecycleInv
<1>1. LifecycleTypeOK'
  <2>1. life \in Command
    BY DEF LifecycleTypeOK
  <2>2. {"handoff", "quiesce", "unquiesce"} \subseteq Step
    BY DEF Step
  <2>3. life' \in Command
    BY <2>1, <2>2 DEF LifecycleTypeOK, TuiState, Command, SavedSession, State, Quiesce, Visited
  <2>4. tui' \in [Role -> TuiState]
    BY TuiType DEF Quiesce
  <2> QED
    BY <2>3, <2>4 DEF LifecycleTypeOK, Quiesce
<1>2. Bookkeeping'
  BY DEF Bookkeeping, OpensPanes, BootstrapStep, SleepStep, ResumeStep, LifecycleTypeOK, Configured,
         Answers, NoSession, Quiesce, Visited
<1>3. SleepProgress'
  BY DEF SleepProgress, Inspected, Closed, SleepStep, LifecycleTypeOK, TuiState, Command, Answers,
         Quiesce, Visited
<1>4. WantsSaved'
  BY DEF WantsSaved, Saved, Recovered, Quiesce, Visited
<1>5. ResumeProgress'
  BY DEF ResumeProgress, Bound, Answers, Quiesce, Visited
<1> QED
  BY <1>1, <1>2, <1>3, <1>4, <1>5

LEMMA AnswerLostKeeps ==
  ASSUME LifecycleInv, NEW r \in Role, AnswerLost(r)
  PROVE  LifecycleInv'
<1> USE DEF LifecycleInv
<1>1. LifecycleTypeOK'
  <2>1. life \in Command
    BY DEF LifecycleTypeOK
  <2>2. {"quiesce", "unquiesce"} \subseteq Step
    BY DEF Step
  <2>3. life' \in Command
    BY <2>1, <2>2 DEF LifecycleTypeOK, TuiState, Command, SavedSession, State, AnswerLost, Goto
  <2>4. tui' \in [Role -> TuiState]
    <3>1. [tui EXCEPT ![r].accepting = FALSE] \in [Role -> TuiState]
      BY TuiType
    <3>2. tui \in [Role -> TuiState]
      BY DEF LifecycleTypeOK
    <3> QED
      BY <3>1, <3>2 DEF AnswerLost
  <2> QED
    BY <2>3, <2>4 DEF LifecycleTypeOK, AnswerLost
<1>2. Bookkeeping'
  <2>1. \A q \in Role : tui'[q].phase = tui[q].phase /\ tui'[q].session = tui[q].session
    BY DEF LifecycleTypeOK, TuiState, AnswerLost
  <2>2. life'.op = life.op /\ life'.pc = "unquiesce" /\ toml' = toml
    BY DEF LifecycleTypeOK, Command, AnswerLost, Goto
  <2>3. life.op = "sleep"
    BY DEF Bookkeeping, SleepStep, AnswerLost
  <2> QED
    BY <2>1, <2>2, <2>3
       DEF Bookkeeping, OpensPanes, BootstrapStep, SleepStep, ResumeStep, Configured, Answers
<1>3. SleepProgress'
  BY DEF SleepProgress, Inspected, Closed, SleepStep, LifecycleTypeOK, AnswerLost, Goto
<1>4. WantsSaved'
  BY DEF WantsSaved, Saved, Recovered, AnswerLost, Goto
<1>5. ResumeProgress'
  BY DEF ResumeProgress, Bound, Answers, AnswerLost, Goto
<1> QED
  BY <1>1, <1>2, <1>3, <1>4, <1>5

LEMMA HandoffKeeps ==
  ASSUME LifecycleInv, NEW r \in Role, Handoff(r)
  PROVE  LifecycleInv'
<1> USE DEF LifecycleInv
<1>1. LifecycleTypeOK'
  <2>1. life \in Command
    BY DEF LifecycleTypeOK
  <2>2. {"handoff", "snapshot", "unquiesce"} \subseteq Step
    BY DEF Step
  <2>3. life' \in Command
    <3>1. \A pc \in Step : [life EXCEPT !.pc = pc] \in Command
      BY <2>1 DEF Command
    <3>2. Visited(r, "handoff", "snapshot") \in Command
      BY <2>1, <2>2 DEF Visited, Command
    <3>3. \A c \in Command : [c EXCEPT !.quiesced = {}] \in Command /\ [c EXCEPT !.quiesced = @] \in Command
      BY DEF Command
    <3> QED
      BY <2>2, <3>1, <3>2, <3>3 DEF Handoff, Goto
  <2> QED
    BY <2>3 DEF LifecycleTypeOK, Handoff
<1>2. Bookkeeping'
  <2>1. life'.op = life.op /\ life'.pc \in {"handoff", "snapshot", "unquiesce"}
    BY DEF LifecycleTypeOK, Command, Handoff, Goto, Visited
  <2>2. life.op = "sleep"
    BY DEF Bookkeeping, SleepStep, Handoff
  <2> QED
    BY <2>1, <2>2 DEF Bookkeeping, OpensPanes, BootstrapStep, SleepStep, ResumeStep, Configured, Answers,
                      Handoff
<1>3. SleepProgress'
  <2>1. \/ life' = [Visited(r, "handoff", "snapshot") EXCEPT
                      !.quiesced = IF life.todo = {r} THEN {} ELSE @]
        \/ life' = [life EXCEPT !.pc = "unquiesce"]
    BY DEF Handoff, Goto
  <2>2. /\ life'.pc \in {"handoff", "snapshot", "unquiesce"}
        /\ life'.session = life.session
    BY <2>1 DEF Visited, LifecycleTypeOK, Command
  <2>3. life.pc = "handoff" /\ UNCHANGED <<toml, tui, latest>>
    BY DEF Handoff
  <2> QED
    BY <2>2, <2>3 DEF SleepProgress, Inspected, Closed, SleepStep, Answers
<1>4. WantsSaved'
  BY SavedType
     DEF WantsSaved, Saved, Recovered, Bookkeeping, OpensPanes, BootstrapStep, SleepStep,
         ResumeStep, LifecycleTypeOK, TuiState, Command, SavedSession, Handoff, Goto, Visited, Rests
<1>5. ResumeProgress'
  <2>1. life'.op = life.op /\ life'.pc \in {"handoff", "snapshot", "unquiesce"}
    BY DEF LifecycleTypeOK, Command, Handoff, Goto, Visited
  <2>2. life.op = "sleep"
    BY DEF Bookkeeping, SleepStep, Handoff
  <2> QED
    BY <2>1, <2>2 DEF ResumeProgress
<1> QED
  BY <1>1, <1>2, <1>3, <1>4, <1>5

LEMMA WriteSnapshotKeeps ==
  ASSUME LifecycleInv, WriteSnapshot
  PROVE  LifecycleInv'
<1> USE DEF LifecycleInv
<1>1. LifecycleTypeOK'
  <2>1. life \in Command
    BY DEF LifecycleTypeOK
  <2>2. {"pause", "snapshot", "unquiesce"} \subseteq Step
    BY DEF Step
  <2>3. life' \in Command
    BY <2>1, <2>2 DEF LifecycleTypeOK, TuiState, Command, SavedSession, State, WriteSnapshot, Goto
  <2>4. latest' \in Snapshot \cup {NoSnapshot}
    BY <2>1 DEF LifecycleTypeOK, Snapshot, NoSnapshot, Command, SavedSession, WriteSnapshot, Goto
  <2> QED
    BY <2>3, <2>4 DEF LifecycleTypeOK, WriteSnapshot
<1>2. Bookkeeping'
  BY DEF Bookkeeping, OpensPanes, BootstrapStep, SleepStep, ResumeStep, LifecycleTypeOK, TuiState,
         Command, Configured, Answers, NoSession, WriteSnapshot, Goto
<1>3. SleepProgress'
  BY DEF SleepProgress, Inspected, Closed, SleepStep, LifecycleTypeOK, TuiState, Command, Answers,
         WriteSnapshot, Goto
<1>4. WantsSaved'
  BY SavedType
     DEF WantsSaved, Saved, Recovered, Bookkeeping, OpensPanes, BootstrapStep, SleepStep,
         ResumeStep, LifecycleTypeOK, TuiState, Command, SavedSession, WriteSnapshot, Goto
<1>5. ResumeProgress'
  BY DEF ResumeProgress, Bound, Bookkeeping, OpensPanes, BootstrapStep, SleepStep, ResumeStep,
         LifecycleTypeOK, TuiState, Command, SavedSession, Answers, WriteSnapshot, Goto
<1> QED
  BY <1>1, <1>2, <1>3, <1>4, <1>5

LEMMA PauseRolesKeeps ==
  ASSUME LifecycleInv, PauseRoles
  PROVE  LifecycleInv'
<1> USE DEF LifecycleInv
<1>1. LifecycleTypeOK'
  <2>1. life \in Command
    BY DEF LifecycleTypeOK
  <2>2. {"pause", "teardown", "unquiesce"} \subseteq Step
    BY DEF Step
  <2>3. life' \in Command
    BY <2>1, <2>2
       DEF LifecycleTypeOK, TuiState, Command, SavedSession, State, PauseRoles, Goto, NoSnapshot
  <2>4. roleState' \in [Role -> State]
    BY DEF LifecycleTypeOK, PauseRoles, State
  <2>5. latest' \in Snapshot \cup {NoSnapshot}
    BY DEF LifecycleTypeOK, PauseRoles
  <2> QED
    BY <2>3, <2>4, <2>5 DEF LifecycleTypeOK, PauseRoles
<1>2. Bookkeeping'
  BY DEF Bookkeeping, OpensPanes, BootstrapStep, SleepStep, ResumeStep, LifecycleTypeOK, TuiState,
         Command, Configured, Answers, NoSession, PauseRoles, Goto, NoSnapshot
<1>3. SleepProgress'
  BY DEF SleepProgress, Inspected, Closed, SleepStep, LifecycleTypeOK, TuiState, Command, Answers,
         PauseRoles, Goto, NoSnapshot
<1>4. WantsSaved'
  BY SavedType
     DEF WantsSaved, Saved, Recovered, Bookkeeping, OpensPanes, BootstrapStep, SleepStep,
         ResumeStep, LifecycleTypeOK, TuiState, Command, SavedSession, PauseRoles, Goto, NoSnapshot
<1>5. ResumeProgress'
  BY DEF ResumeProgress, Bound, Bookkeeping, OpensPanes, BootstrapStep, SleepStep, ResumeStep,
         LifecycleTypeOK, TuiState, Command, SavedSession, Answers, PauseRoles, Goto, NoSnapshot
<1> QED
  BY <1>1, <1>2, <1>3, <1>4, <1>5

LEMMA TeardownKeeps ==
  ASSUME LifecycleInv, Teardown
  PROVE  LifecycleInv'
<1> USE DEF LifecycleInv
<1>1. LifecycleTypeOK'
  <2>1. life \in Command
    BY DEF LifecycleTypeOK
  <2>2. {"idle", "teardown"} \subseteq Step
    BY DEF Step
  <2>3. life' \in Command
    BY <2>1, <2>2, IdleType
       DEF LifecycleTypeOK, TuiState, Command, SavedSession, State, Teardown, NoTui, Idle
  <2>4. tui' \in [Role -> TuiState]
    BY LifecycleAssumption DEF LifecycleTypeOK, TuiState, Session, NoSession, NoTui, Teardown
  <2>5. stray' \in [Role -> SUBSET Session]
    BY LifecycleAssumption
       DEF LifecycleTypeOK, TuiState, Answers, Session, Bookkeeping, NoSession, Teardown, NoTui
  <2> QED
    BY <2>3, <2>4, <2>5 DEF LifecycleTypeOK, Teardown
<1>2. Bookkeeping'
  BY DEF Bookkeeping, OpensPanes, BootstrapStep, SleepStep, ResumeStep, LifecycleTypeOK, Configured,
         Answers, NoSession, Teardown, NoTui, Idle
<1>3. SleepProgress'
  BY DEF SleepProgress, Inspected, Closed, SleepStep, LifecycleTypeOK, Teardown, NoTui, Idle
<1>4. WantsSaved'
  BY DEF WantsSaved, Saved, Recovered, Teardown, NoTui, Idle
<1>5. ResumeProgress'
  BY DEF ResumeProgress, Bound, Answers, Teardown, NoTui, Idle
<1> QED
  BY <1>1, <1>2, <1>3, <1>4, <1>5

LEMMA UnquiesceKeeps ==
  ASSUME LifecycleInv, Unquiesce
  PROVE  LifecycleInv'
<1> USE DEF LifecycleInv
<1>1. LifecycleTypeOK'
  <2>1. life \in Command
    BY DEF LifecycleTypeOK
  <2>2. {"restore", "unquiesce"} \subseteq Step
    BY DEF Step
  <2>3. life' \in Command
    BY <2>1, <2>2
       DEF LifecycleTypeOK, TuiState, Command, SavedSession, State, Unquiesce, Goto, Targets
  <2>4. tui' \in [Role -> TuiState]
    <3>1. \A r \in Role : [tui[r] EXCEPT !.accepting = TRUE] \in TuiState /\ tui[r] \in TuiState
      BY DEF LifecycleTypeOK, TuiState
    <3> QED
      BY <3>1 DEF Unquiesce
  <2> QED
    BY <2>3, <2>4 DEF LifecycleTypeOK, Unquiesce
<1>2. Bookkeeping'
  BY DEF Bookkeeping, OpensPanes, BootstrapStep, SleepStep, ResumeStep, LifecycleTypeOK, Configured,
         Answers, NoSession, Unquiesce, Goto, Targets
<1>3. SleepProgress'
  BY DEF SleepProgress, Inspected, Closed, SleepStep, LifecycleTypeOK, Unquiesce, Goto, Targets
<1>4. WantsSaved'
  BY DEF WantsSaved, Saved, Recovered, Unquiesce, Goto, Targets
<1>5. ResumeProgress'
  BY DEF ResumeProgress, Bound, Answers, Unquiesce, Goto, Targets
<1> QED
  BY <1>1, <1>2, <1>3, <1>4, <1>5

LEMMA RestoreKeeps ==
  ASSUME LifecycleInv, Restore
  PROVE  LifecycleInv'
<1> USE DEF LifecycleInv
<1>1. LifecycleTypeOK'
  <2>1. life \in Command
    BY DEF LifecycleTypeOK
  <2>2. {"idle", "restore"} \subseteq Step
    BY DEF Step
  <2>3. life' \in Command
    BY <2>1, <2>2, IdleType
       DEF LifecycleTypeOK, TuiState, Command, SavedSession, State, Restore, Idle
  <2>4. roleState' \in [Role -> State]
    BY <2>1 DEF LifecycleTypeOK, State, Bookkeeping, Configured, Restore, Command
  <2> QED
    BY <2>3, <2>4 DEF LifecycleTypeOK, Restore
<1>2. Bookkeeping'
  BY DEF Bookkeeping, OpensPanes, BootstrapStep, SleepStep, ResumeStep, LifecycleTypeOK, Configured,
         Answers, NoSession, Restore, Idle
<1>3. SleepProgress'
  BY DEF SleepProgress, Inspected, Closed, SleepStep, LifecycleTypeOK, Restore, Idle
<1>4. WantsSaved'
  BY DEF WantsSaved, Saved, Recovered, Restore, Idle
<1>5. ResumeProgress'
  BY DEF ResumeProgress, Bound, Answers, Restore, Idle
<1> QED
  BY <1>1, <1>2, <1>3, <1>4, <1>5

-----------------------------------------------------------------------------
(* resume. *)

LEMMA StartResumeKeeps ==
  ASSUME LifecycleInv, StartResume
  PROVE  LifecycleInv'
<1> USE DEF LifecycleInv
<1>1. LifecycleTypeOK'
  <2>1. life \in Command
    BY DEF LifecycleTypeOK
  <2>2. {"idle", "window"} \subseteq Step
    BY DEF Step
  <2>3. life' \in Command
    <3>1. PICK policy \in Policy, reactivate \in BOOLEAN :
            life' = [Idle EXCEPT !.op = "resume", !.pc = "window", !.policy = policy,
                                 !.reactivate = reactivate, !.session = Saved.session]
      BY DEF StartResume
    <3> QED
      BY <2>2, <3>1, IdleType, SavedType DEF Command
  <2>4. roleState' \in [Role -> State]
    BY SyncedType DEF LifecycleTypeOK, State, Bookkeeping, Configured, StartResume, Resumable
  <2> QED
    BY <2>3, <2>4 DEF LifecycleTypeOK, StartResume
<1>2. Bookkeeping'
  BY DEF Bookkeeping, OpensPanes, BootstrapStep, SleepStep, ResumeStep, LifecycleTypeOK, Configured,
         Answers, NoSession, StartResume, Resumable, Idle
<1>3. SleepProgress'
  BY DEF SleepProgress, Inspected, Closed, SleepStep, LifecycleTypeOK, StartResume, Resumable, Idle
<1>4. WantsSaved'
  BY DEF WantsSaved, Saved, Recovered, StartResume, Resumable, Idle
<1>5. ResumeProgress'
  BY DEF ResumeProgress, Bound, Answers, StartResume, Resumable, Idle
<1> QED
  BY <1>1, <1>2, <1>3, <1>4, <1>5

LEMMA ResumeCheckKeeps ==
  ASSUME LifecycleInv, ResumeCheck
  PROVE  LifecycleInv'
<1> USE DEF LifecycleInv
<1>1. LifecycleTypeOK'
  <2>1. life \in Command
    BY DEF LifecycleTypeOK
  <2>2. {"check", "handoff", "rebind"} \subseteq Step
    BY DEF Step
  <2>3. life' \in Command
    BY <2>1, <2>2 DEF LifecycleTypeOK, TuiState, Command, SavedSession, State, ResumeCheck, At
  <2>4. tui' \in [Role -> TuiState]
    <3>1. tui \in [Role -> TuiState]
      BY DEF LifecycleTypeOK
    <3>2. tui' = [tui EXCEPT ![life.role].busy = @ \/ life.policy = "handoff"]
      BY DEF ResumeCheck
    <3>3. \A q \in Role : [tui[q] EXCEPT !.busy = @ \/ life.policy = "handoff"] \in TuiState
      BY <3>1 DEF TuiState
    <3> QED
      BY <3>1, <3>2, <3>3
  <2> QED
    BY <2>3, <2>4 DEF LifecycleTypeOK, ResumeCheck
<1>2. Bookkeeping'
  BY DEF Bookkeeping, OpensPanes, BootstrapStep, SleepStep, ResumeStep, LifecycleTypeOK, Configured,
         Answers, NoSession, ResumeCheck, At
<1>3. SleepProgress'
  BY DEF SleepProgress, Inspected, Closed, SleepStep, LifecycleTypeOK, ResumeCheck, At
<1>4. WantsSaved'
  BY DEF WantsSaved, Saved, Recovered, ResumeCheck, At
<1>5. ResumeProgress'
  BY DEF ResumeProgress, Bound, Bookkeeping, OpensPanes, BootstrapStep, SleepStep, ResumeStep,
         LifecycleTypeOK, TuiState, Command, SavedSession, Answers, ResumeCheck, At
<1> QED
  BY <1>1, <1>2, <1>3, <1>4, <1>5

LEMMA ResumeBindKeeps ==
  ASSUME LifecycleInv, ResumeBind
  PROVE  LifecycleInv'
<1> USE DEF LifecycleInv
<1>1. LifecycleTypeOK'
  <2>1. life \in Command
    BY DEF LifecycleTypeOK
  <2>2. {"rebind", "spawn", "sync"} \subseteq Step
    BY DEF Step
  <2>3. life' \in Command
    BY <2>1, <2>2
       DEF LifecycleTypeOK, TuiState, Command, SavedSession, State, ResumeBind, At, Visited,
           HasCapsule
  <2>4. toml' \in [Role -> Entry]
    <3> DEFINE new(r) == [state |-> IF life.reactivate THEN "active" ELSE "paused",
                          session |-> life.session[r], capsule |-> HasCapsule(r)]
    <3>1. toml' = [toml EXCEPT ![life.role] = new(life.role)]
      BY DEF ResumeBind
    <3>2. \A r \in Role : HasCapsule(r) \in BOOLEAN
      BY DEF LifecycleTypeOK, Entry, HasCapsule
    <3>3. \A r \in Role : new(r) \in Entry
      BY <2>1, <3>2 DEF Command, SavedSession, Entry
    <3>4. toml \in [Role -> Entry]
      BY DEF LifecycleTypeOK
    <3> HIDE DEF new
    <3> QED
      BY <3>1, <3>3, <3>4
  <2> QED
    BY <2>3, <2>4 DEF LifecycleTypeOK, ResumeBind
<1>2. Bookkeeping'
  BY DEF Bookkeeping, OpensPanes, BootstrapStep, SleepStep, ResumeStep, LifecycleTypeOK, Configured,
         Answers, NoSession, ResumeBind, At, Visited, HasCapsule
<1>3. SleepProgress'
  BY DEF SleepProgress, Inspected, Closed, SleepStep, LifecycleTypeOK, ResumeBind, At, Visited,
         HasCapsule
<1>4. WantsSaved'
  BY DEF WantsSaved, Saved, Recovered, ResumeBind, At, Visited, HasCapsule
<1>5. ResumeProgress'
  BY DEF ResumeProgress, Bound, OpensPanes, BootstrapStep, SleepStep, ResumeStep, LifecycleTypeOK,
         Answers, ResumeBind, At, Visited, HasCapsule
<1> QED
  BY <1>1, <1>2, <1>3, <1>4, <1>5

LEMMA ResumeSyncKeeps ==
  ASSUME LifecycleInv, ResumeSync
  PROVE  LifecycleInv'
<1> USE DEF LifecycleInv
<1>1. LifecycleTypeOK'
  <2>1. life \in Command
    BY DEF LifecycleTypeOK
  <2>2. {"notify", "sync"} \subseteq Step
    BY DEF Step
  <2>3. life' \in Command
    BY <2>1, <2>2, SyncedType
       DEF LifecycleTypeOK, TuiState, Command, SavedSession, State, ResumeSync, At, Goto
  <2>4. roleState' \in [Role -> State]
    BY SyncedType DEF LifecycleTypeOK, State, Bookkeeping, Configured, ResumeSync, At, Goto
  <2> QED
    BY <2>3, <2>4 DEF LifecycleTypeOK, ResumeSync
<1>2. Bookkeeping'
  BY DEF Bookkeeping, OpensPanes, BootstrapStep, SleepStep, ResumeStep, LifecycleTypeOK, Configured,
         Answers, NoSession, ResumeSync, At, Goto
<1>3. SleepProgress'
  BY DEF SleepProgress, Inspected, Closed, SleepStep, LifecycleTypeOK, ResumeSync, At, Goto
<1>4. WantsSaved'
  BY DEF WantsSaved, Saved, Recovered, ResumeSync, At, Goto
<1>5. ResumeProgress'
  BY DEF ResumeProgress, Bound, Answers, ResumeSync, At, Goto
<1> QED
  BY <1>1, <1>2, <1>3, <1>4, <1>5

LEMMA ResumeNotifyKeeps ==
  ASSUME LifecycleInv, ResumeNotify
  PROVE  LifecycleInv'
<1> USE DEF LifecycleInv
<1>1. LifecycleTypeOK'
  <2>1. life \in Command
    BY DEF LifecycleTypeOK
  <2>2. {"idle", "notify"} \subseteq Step
    BY DEF Step
  <2>3. life' \in Command
    BY <2>1, <2>2, IdleType
       DEF LifecycleTypeOK, TuiState, Command, SavedSession, State, ResumeNotify, At, Rests, Idle
  <2>4. tui' \in [Role -> TuiState]
    <3>1. PICK woken : tui' = [r \in Role |-> [tui[r] EXCEPT !.busy = @ \/ r \in woken]]
      BY DEF ResumeNotify
    <3>2. \A r \in Role : [tui[r] EXCEPT !.busy = @ \/ r \in woken] \in TuiState
      BY DEF LifecycleTypeOK, TuiState
    <3> QED
      BY <3>1, <3>2
  <2> QED
    BY <2>3, <2>4 DEF LifecycleTypeOK, ResumeNotify
<1>2. Bookkeeping'
  BY DEF Bookkeeping, OpensPanes, BootstrapStep, SleepStep, ResumeStep, LifecycleTypeOK, TuiState,
         Command, Configured, Answers, NoSession, ResumeNotify, At, Rests, Idle
<1>3. SleepProgress'
  BY DEF SleepProgress, Inspected, Closed, SleepStep, LifecycleTypeOK, ResumeNotify, At, Rests, Idle
<1>4. WantsSaved'
  BY DEF WantsSaved, Saved, Recovered, ResumeNotify, At, Rests, Idle
<1>5. ResumeProgress'
  BY DEF ResumeProgress, Bound, Answers, ResumeNotify, At, Rests, Idle
<1> QED
  BY <1>1, <1>2, <1>3, <1>4, <1>5

-----------------------------------------------------------------------------

LEMMA NextKeeps ==
  ASSUME LifecycleInv, [Next]_vars
  PROVE  LifecycleInv'
<1>1. CASE Tui \/ Fail
  BY <1>1, StartTurnKeeps, EndTurnKeeps, BootKeeps, DieKeeps, FailKeeps DEF Tui
<1>2. CASE OpenWindow \/ (\E r \in Role : Spawn(r))
  BY <1>2, OpenWindowKeeps, SpawnKeeps
<1>3. CASE Provision \/ Bootstrap
  BY <1>3, ProvisionKeeps, ConfigureKeeps, PromptKeeps, SettleKeeps, BindKeeps, SendGoalKeeps
     DEF Bootstrap
<1>4. CASE StartSleep \/ Sleep
  BY <1>4, StartSleepKeeps, InspectKeeps, DrainKeeps, QuiesceKeeps, AnswerLostKeeps, HandoffKeeps,
     WriteSnapshotKeeps, PauseRolesKeeps, TeardownKeeps, UnquiesceKeeps, RestoreKeeps
     DEF Sleep
<1>5. CASE StartResume \/ Resume
  BY <1>5, StartResumeKeeps, ResumeCheckKeeps, ResumeBindKeeps, ResumeSyncKeeps, ResumeNotifyKeeps
     DEF Resume
<1>6. CASE UNCHANGED vars
  BY <1>6
     DEF vars, LifecycleInv, LifecycleTypeOK, Bookkeeping, Configured, SleepProgress, Inspected,
         Closed, WantsSaved, Saved, Recovered, ResumeProgress, Bound, Answers
<1> QED
  BY <1>1, <1>2, <1>3, <1>4, <1>5, <1>6 DEF Next, Start, Proceed

(* The invariant of bootstrap, sleep and resume.                            *)
THEOREM LifecycleInvariant == Spec => []LifecycleInv
<1>1. Init => LifecycleInv
  <2> SUFFICES ASSUME Init PROVE LifecycleInv
    OBVIOUS
  <2>1. LifecycleTypeOK
    BY IdleType, LifecycleAssumption
       DEF Init, LifecycleTypeOK, NoEntry, Entry, NoTui, TuiState, State, NoSession
  <2> QED
    BY <2>1
       DEF Init, Idle, NoTui, LifecycleInv, Bookkeeping, OpensPanes, BootstrapStep, SleepStep,
           ResumeStep, SleepProgress, WantsSaved, ResumeProgress, Answers
<1> QED
  BY <1>1, NextKeeps, PTL DEF Spec

(* Type correctness of the team, its UIs and the command on it.             *)
THEOREM LifecycleTypeCorrect == Spec => []LifecycleTypeOK
<1>1. LifecycleInv => LifecycleTypeOK
  BY DEF LifecycleInv
<1> QED
  BY <1>1, LifecycleInvariant, PTL

(* From the snapshot until kill-window no role runs a turn or can start     *)
(* one, whatever fails and whoever wakes it.                                *)
THEOREM SleepIsABarrier == Spec => []SleepBarrier
<1>1. LifecycleInv => SleepBarrier
  BY DEF LifecycleInv, SleepProgress, Closed, SleepBarrier
<1> QED
  BY <1>1, LifecycleInvariant, PTL

(* A sleep kills no session but those it has saved.                         *)
THEOREM SleepSavesWhatItKills == Spec => []SnapshotIsLive
<1>1. LifecycleInv => SnapshotIsLive
  BY DEF LifecycleInv, SleepProgress, SleepStep, Inspected, SnapshotIsLive
<1> QED
  BY <1>1, LifecycleInvariant, PTL

(* A resume that has visited all roles has bound what runs, and has fallen  *)
(* back from no saved session.                                              *)
THEOREM ResumeBindsWhatRuns == Spec => []ResumeBindsLive
<1>1. LifecycleInv => ResumeBindsLive
  BY DEF LifecycleInv, ResumeProgress, Bound, WantsSaved, Bookkeeping, ResumeStep, ResumeBindsLive
<1> QED
  BY <1>1, LifecycleInvariant, PTL

-----------------------------------------------------------------------------
(* No session in two panes. *)

(* The roles that the loop which opens panes has still to visit; the one it *)
(* is at has its pane.                                                      *)
Unvisited ==
  CASE life.pc = "spawn" -> life.todo
    [] life.pc \in {"wait", "prompt", "settle", "check", "rebind"} -> life.todo \ {life.role}
    [] OTHER -> {}

(* A pane is opened for a role that has none, and nothing is displaced.     *)
PanesWait == \A r \in Unvisited : tui[r].phase = "none"

NothingDisplaced == \A r \in Role : stray[r] = {}

(* A session belongs to one role for good, wherever it is written down, so  *)
(* that no order of sleeps, resumes and failures can load it for another.   *)
SessionsApart ==
  \A r \in Role :
    /\ Known(r) \subseteq 1..sessions
    /\ \A q \in Role \ {r} : Known(r) \cap Known(q) = {}

PanesInv == PanesWait /\ NothingDisplaced /\ SessionsApart

(* A step that opens no pane and displaces nothing.                         *)
OpensNone ==
  \A r \in Role : /\ tui[r].phase = "none" => tui'[r].phase = "none"
                  /\ stray[r] = {} => stray'[r] = {}

(* A step that writes down, for q, only what was known for q, and brings no *)
(* pane of q up.                                                            *)
Recalls(q) ==
  /\ tui'[q].phase = "up" => tui[q].phase = "up" /\ tui'[q].session = tui[q].session
  /\ stray'[q] \subseteq stray[q]
  /\ tui'[q].session \in {NoSession, tui[q].session, life.session[q]}
  /\ life'.session[q] \in {NoSession, tui[q].session, life.session[q], Saved.session[q]}
  /\ toml'[q].session \in {NoSession, toml[q].session, life.session[q]}
  /\ latest' # NoSnapshot => \/ latest' = latest
                             \/ latest'.session[q] = life.session[q]

(* A step after which no more is known of any role; it deals with the panes *)
(* or with team.toml.                                                       *)
Remembers ==
  /\ sessions' = sessions
  /\ UNCHANGED <<tui, stray>> \/ UNCHANGED toml
  /\ \A q \in Role : Recalls(q)

(* A step that leaves every pane and its session as they are.               *)
SamePanes ==
  \A q \in Role : tui'[q].phase = tui[q].phase /\ tui'[q].session = tui[q].session

(* A turn that begins or ends, and a queue that opens or closes, are no     *)
(* matter of panes.                                                         *)
LEMMA FlagsOnly ==
  ASSUME LifecycleTypeOK, NEW r,
         \/ \E b : tui' = [tui EXCEPT ![r].busy = b]
         \/ \E b : tui' = [tui EXCEPT ![r].accepting = b]
  PROVE  SamePanes
<1>1. tui \in [Role -> TuiState]
  BY DEF LifecycleTypeOK
<1>2. ASSUME NEW b, tui' = [tui EXCEPT ![r].busy = b]
      PROVE  SamePanes
  BY <1>1, <1>2 DEF SamePanes, TuiState
<1>3. ASSUME NEW b, tui' = [tui EXCEPT ![r].accepting = b]
      PROVE  SamePanes
  BY <1>1, <1>3 DEF SamePanes, TuiState
<1> QED
  BY <1>2, <1>3

(* A fresh command remembers no session.                                    *)
LEMMA IdleForgets == Idle.pc = "idle" /\ \A q \in Role : Idle.session[q] = NoSession
BY DEF Idle

(* A step of the loops only shortens the list of roles to visit.            *)
LEMMA PanesStay ==
  ASSUME PanesWait, NothingDisplaced, LifecycleTypeOK, OpensNone, Unvisited' \subseteq Unvisited
  PROVE  PanesWait' /\ NothingDisplaced'
<1>1. Unvisited \subseteq Role
  BY DEF Unvisited, LifecycleTypeOK, Command
<1> QED
  BY <1>1 DEF PanesWait, NothingDisplaced, OpensNone

(* What is recalled was known.                                              *)
LEMMA RecallsKnown ==
  ASSUME NEW q \in Role, Recalls(q)
  PROVE  Known(q)' \subseteq Known(q)
<1>1. Saved.session[q] \in Known(q) \cup {NoSession}
  BY DEF Saved, Recovered, Known
<1>2. latest' # NoSnapshot /\ latest' = latest => latest'.session[q] \in Known(q) \cup {NoSession}
  BY DEF Known
<1>3. {tui[q].session, toml[q].session, life.session[q]} \subseteq Known(q) \cup {NoSession}
  BY DEF Known
<1>4. /\ {tui'[q].session, toml'[q].session, life'.session[q]} \subseteq Known(q) \cup {NoSession}
      /\ latest' # NoSnapshot => latest'.session[q] \in Known(q) \cup {NoSession}
      /\ stray'[q] \subseteq Known(q) \cup {NoSession}
  BY <1>1, <1>2, <1>3 DEF Recalls, Known
<1>5. \A s \in Known(q)' : /\ s # NoSession
                           /\ \/ s \in {tui'[q].session, toml'[q].session, life'.session[q]}
                              \/ s \in stray'[q]
                              \/ latest' # NoSnapshot /\ s = latest'.session[q]
  BY DEF Known
<1> QED
  BY <1>4, <1>5

(* Nobody learns of a session: they stay apart.                             *)
LEMMA ApartStays ==
  ASSUME SessionsApart, sessions' = sessions, \A q \in Role : Known(q)' \subseteq Known(q)
  PROVE  SessionsApart'
BY DEF SessionsApart

(* A new session is nobody else's.                                          *)
LEMMA ApartGrows ==
  ASSUME SessionsApart, sessions \in Nat, sessions' = sessions + 1, NEW r \in Role,
         Known(r)' \subseteq Known(r) \cup {sessions + 1},
         \A q \in Role \ {r} : Known(q)' \subseteq Known(q)
  PROVE  SessionsApart'
<1>1. \A q \in Role : sessions + 1 \notin Known(q)
  BY DEF SessionsApart
<1>2. 1..sessions \subseteq 1..(sessions + 1) /\ sessions + 1 \in 1..(sessions + 1)
  OBVIOUS
<1>3. \A q \in Role : Known(q)' \subseteq 1..(sessions + 1)
  BY <1>2 DEF SessionsApart
<1>4. ASSUME NEW q \in Role, NEW p \in Role \ {q}
      PROVE  Known(q)' \cap Known(p)' = {}
  <2>1. Known(q) \cap Known(p) = {}
    BY DEF SessionsApart
  <2> QED
    BY <1>1, <2>1
<1> QED
  BY <1>3, <1>4 DEF SessionsApart

-----------------------------------------------------------------------------

(* A terminal UI that goes on, or dies, opens no pane; one that boots may   *)
(* open a session that nobody has heard of.                                 *)
LEMMA TuiPanes ==
  ASSUME LifecycleInv, PanesInv, Tui
  PROVE  PanesInv'
<1> USE DEF LifecycleInv, PanesInv
<1>1. /\ tui \in [Role -> TuiState] /\ sessions \in Nat
      /\ UNCHANGED <<toml, stray, latest, life>>
  BY LifecycleAssumption DEF LifecycleTypeOK, Tui, StartTurn, EndTurn, Boot, Die, TuiUnchanged
<1>2. Unvisited' = Unvisited
  BY <1>1 DEF Unvisited
<1>3. OpensNone
  <2>1. ASSUME NEW r \in Role, StartTurn(r) \/ EndTurn(r)
        PROVE  OpensNone
    BY <1>1, <2>1, FlagsOnly DEF StartTurn, EndTurn, SamePanes, OpensNone
  <2>2. ASSUME NEW r \in Role, Boot(r) \/ Die(r)
        PROVE  OpensNone
    BY <1>1, <2>2 DEF Boot, Die, NoTui, OpensNone
  <2> QED
    BY <2>1, <2>2 DEF Tui
<1>4. PanesWait' /\ NothingDisplaced'
  BY <1>2, <1>3, PanesStay
<1>5. ASSUME sessions' = sessions,
             \A q \in Role : tui'[q].session \in {NoSession, tui[q].session}
      PROVE  SessionsApart'
  <2>1. \A q \in Role : Known(q)' \subseteq Known(q)
    BY <1>1, <1>5 DEF Known
  <2> QED
    BY <1>5, <2>1, ApartStays
<1>6. ASSUME NEW r \in Role, StartTurn(r) \/ EndTurn(r) \/ Die(r)
      PROVE  SessionsApart'
  <2>1. CASE StartTurn(r) \/ EndTurn(r)
    BY <1>5, <2>1, FlagsOnly DEF StartTurn, EndTurn, SamePanes
  <2>2. CASE Die(r)
    BY <1>1, <1>5, <2>2 DEF Die, NoTui
  <2> QED
    BY <1>6, <2>1, <2>2
<1>7. ASSUME NEW r \in Role, Boot(r)
      PROVE  SessionsApart'
  <2>1. CASE sessions' = sessions /\ tui' = [tui EXCEPT ![r].phase = "up"]
    BY <1>1, <1>5, <2>1
  <2>2. CASE /\ sessions' = sessions + 1
             /\ tui' = [tui EXCEPT ![r].phase = "up", ![r].session = sessions + 1]
    <3>1. tui'[r].session = sessions + 1 /\ \A q \in Role \ {r} : tui'[q] = tui[q]
      BY <1>1, <2>2
    <3>2. Known(r)' \subseteq Known(r) \cup {sessions + 1}
      BY <1>1, <3>1 DEF Known
    <3>3. \A q \in Role \ {r} : Known(q)' \subseteq Known(q)
      BY <1>1, <3>1 DEF Known
    <3> QED
      BY <1>1, <2>2, <3>2, <3>3, ApartGrows
  <2> QED
    BY <1>7, <2>1, <2>2 DEF Boot
<1> QED
  BY <1>4, <1>6, <1>7 DEF Tui

(* prepare_grouped_agent_window looks before a pane is opened, and every    *)
(* role gets one.                                                           *)
LEMMA OpeningPanes ==
  ASSUME LifecycleInv, PanesInv, OpenWindow \/ \E r \in Role : Spawn(r)
  PROVE  PanesInv' /\ Remembers
<1> USE DEF LifecycleInv, PanesInv
<1>1. life \in Command /\ tui \in [Role -> TuiState] /\ stray \in [Role -> SUBSET Session]
  BY DEF LifecycleTypeOK
<1>2. CASE OpenWindow
  <2>1. /\ UNCHANGED <<toml, tui, stray, sessions, latest>> /\ life'.session = life.session
        /\ \A r \in Role : tui[r].phase = "none"
        /\ Unvisited' \subseteq Role
    BY <1>1, <1>2 DEF OpenWindow, WindowExists, Loop, Unvisited, Command
  <2>2. PanesWait' /\ NothingDisplaced'
    BY <2>1 DEF PanesWait, NothingDisplaced
  <2>3. \A q \in Role : Recalls(q)
    BY <2>1 DEF Recalls
  <2> QED
    BY <2>1, <2>2, <2>3, RecallsKnown, ApartStays DEF Remembers
<1>3. ASSUME NEW r \in Role, Spawn(r)
      PROVE  PanesInv' /\ Remembers
  <2>1. /\ UNCHANGED <<toml, sessions, latest>> /\ life.pc = "spawn" /\ r \in life.todo
        /\ life'.session = life.session /\ life'.role = r /\ life'.todo = life.todo
        /\ life'.pc \in {"check", "wait"}
    BY <1>1, <1>3 DEF Spawn, Command
  <2>2. \A q \in Role \ {r} : tui'[q] = tui[q] /\ stray'[q] = stray[q]
    BY <1>1, <1>3 DEF Spawn
  <2>3. /\ Unvisited = life.todo /\ Unvisited' = life.todo \ {r}
        /\ life.todo \subseteq Role
    BY <1>1, <2>1 DEF Unvisited, Command
  <2>4. PanesWait'
    BY <2>2, <2>3 DEF PanesWait
  <2>5. ~Answers(r)
    BY <2>1, <2>3 DEF PanesWait, Answers
  <2>6. NothingDisplaced'
    BY <1>1, <1>3, <2>2, <2>5 DEF NothingDisplaced, Spawn
  <2>7. tui'[r].phase = "starting" /\ tui'[r].session \in {NoSession, life.session[r]}
    BY <1>1, <1>3 DEF Spawn, NoTui
  <2>8. stray'[r] = {}
    BY <2>6 DEF NothingDisplaced
  <2>9. \A q \in Role : Recalls(q)
    BY <2>1, <2>2, <2>7, <2>8 DEF Recalls
  <2> QED
    BY <2>1, <2>4, <2>6, <2>9, RecallsKnown, ApartStays DEF Remembers
<1> QED
  BY <1>2, <1>3

(* A step of a command on panes that are open, or on none.                  *)
LEMMA StepPanes ==
  ASSUME LifecycleInv, PanesInv, OpensNone, Unvisited' \subseteq Unvisited,
         sessions' = sessions, UNCHANGED <<tui, stray>> \/ UNCHANGED toml,
         \A q \in Role : Recalls(q)
  PROVE  PanesInv' /\ Remembers
BY PanesStay, RecallsKnown, ApartStays DEF LifecycleInv, PanesInv, Remembers

(* A command that begins, or ends, has no loop that opens panes.            *)
LEMMA OutsidePanes ==
  ASSUME LifecycleInv, PanesInv, UNCHANGED <<stray, sessions>>, UNCHANGED tui \/ UNCHANGED toml,
         life'.pc \in {"idle", "window", "inspect", "drain", "quiesce", "handoff", "snapshot",
                       "pause", "teardown", "unquiesce", "restore", "bind", "goal", "sync",
                       "notify"},
         \A q \in Role : tui'[q].phase = tui[q].phase /\ Recalls(q)
  PROVE  PanesInv' /\ Remembers
<1>1. Unvisited' = {}
  BY DEF Unvisited
<1>2. OpensNone
  BY DEF OpensNone
<1> QED
  BY <1>1, <1>2, StepPanes

(* A bootstrap binds the sessions that have come up in the panes it opened. *)
LEMMA BootstrapPanes ==
  ASSUME LifecycleInv, PanesInv, Provision \/ Bootstrap
  PROVE  PanesInv' /\ Remembers
<1> USE DEF LifecycleInv
<1>1. /\ life \in Command /\ tui \in [Role -> TuiState] /\ toml \in [Role -> Entry]
      /\ life.session \in SavedSession
  BY DEF LifecycleTypeOK, Command
<1>2. CASE Provision
  <2>1. /\ UNCHANGED <<tui, stray, sessions, latest>> /\ life'.pc = "window"
        /\ \A q \in Role : toml'[q].session = NoSession /\ life'.session[q] = NoSession
    BY <1>2 DEF Provision, NoEntry, Idle
  <2>2. \A q \in Role : Recalls(q)
    BY <2>1 DEF Recalls
  <2> QED
    BY <2>1, <2>2, OutsidePanes
<1>3. CASE Configure \/ Prompt
  <2>1. /\ UNCHANGED <<toml, stray, sessions, latest>>
        /\ life.pc \in {"wait", "prompt"} /\ life'.pc \in {"prompt", "settle"}
        /\ life'.todo = life.todo /\ life'.role = life.role /\ life'.session = life.session
    BY <1>1, <1>3 DEF Configure, Prompt, At, Goto, Command
  <2>2. SamePanes
    BY <1>3, FlagsOnly DEF Configure, Prompt, SamePanes
  <2>3. Unvisited' = Unvisited
    BY <2>1 DEF Unvisited
  <2>4. OpensNone /\ \A q \in Role : Recalls(q)
    BY <2>1, <2>2 DEF OpensNone, Recalls, SamePanes
  <2> QED
    BY <2>1, <2>3, <2>4, StepPanes
<1>4. CASE Settle
  <2>1. /\ UNCHANGED <<toml, tui, stray, sessions, latest>> /\ life.pc = "settle"
        /\ life'.pc \in {"spawn", "bind"} /\ life'.todo = life.todo \ {life.role}
        /\ life'.session = [life.session EXCEPT ![life.role] = tui[life.role].session]
    BY <1>1, <1>4 DEF Settle, At, Visited, Command
  <2>2. Unvisited' \subseteq Unvisited
    BY <2>1 DEF Unvisited
  <2>3. \A q \in Role : life'.session[q] \in {life.session[q], tui[q].session}
    BY <1>1, <2>1 DEF SavedSession
  <2>4. OpensNone /\ \A q \in Role : Recalls(q)
    BY <2>1, <2>3 DEF OpensNone, Recalls
  <2> QED
    BY <2>1, <2>2, <2>4, StepPanes
<1>5. CASE Bind
  <2>1. /\ UNCHANGED <<tui, stray, sessions, latest>> /\ life'.pc = "goal"
        /\ life'.session = life.session
        /\ \A q \in Role : toml'[q].session = life.session[q]
    BY <1>1, <1>5 DEF Bind, At, Goto, NoEntry, Command
  <2>2. \A q \in Role : Recalls(q)
    BY <2>1 DEF Recalls
  <2> QED
    BY <2>1, <2>2, OutsidePanes
<1>6. CASE SendGoal
  <2>1. /\ UNCHANGED <<toml, stray, sessions, latest>> /\ life'.pc = "idle"
        /\ \A q \in Role : life'.session[q] = NoSession
    BY <1>6, IdleForgets DEF SendGoal
  <2>2. SamePanes
    BY <1>6, FlagsOnly DEF SendGoal, SamePanes
  <2> QED
    BY <2>1, <2>2, OutsidePanes DEF Recalls, SamePanes
<1> QED
  BY <1>2, <1>3, <1>4, <1>5, <1>6 DEF Bootstrap

(* A sleep closes panes; the snapshot names what its first loop has read.   *)
LEMMA SleepPanes ==
  ASSUME LifecycleInv, PanesInv, StartSleep \/ Sleep
  PROVE  PanesInv' /\ Remembers
<1> USE DEF LifecycleInv
<1>1. /\ life \in Command /\ tui \in [Role -> TuiState] /\ life.session \in SavedSession
  BY DEF LifecycleTypeOK, Command
<1>2. CASE StartSleep
  <2>1. /\ UNCHANGED <<toml, tui, stray, sessions, latest>> /\ life'.pc = "inspect"
        /\ life'.session = Idle.session
    BY <1>2 DEF StartSleep, Idle
  <2> QED
    BY <2>1, IdleForgets, OutsidePanes DEF Recalls
<1>3. ASSUME NEW r \in Role, Inspect(r)
      PROVE  PanesInv' /\ Remembers
  <2>1. /\ UNCHANGED <<toml, tui, stray, sessions, latest>>
        /\ life'.pc \in {"inspect", "drain"}
        /\ life'.session = [life.session EXCEPT ![r] = tui[r].session]
    BY <1>1, <1>3 DEF Inspect, Visited, Command
  <2>2. \A q \in Role : life'.session[q] \in {life.session[q], tui[q].session}
    BY <1>1, <2>1 DEF SavedSession
  <2> QED
    BY <2>1, <2>2, OutsidePanes DEF Recalls
<1>4. ASSUME NEW r \in Role, Quiesce(r) \/ AnswerLost(r) \/ Handoff(r)
      PROVE  PanesInv' /\ Remembers
  <2>1. /\ UNCHANGED <<toml, stray, sessions, latest>> /\ life'.session = life.session
        /\ life'.pc \in {"quiesce", "handoff", "unquiesce", "snapshot"}
    BY <1>1, <1>4 DEF Quiesce, AnswerLost, Handoff, Visited, Goto, Command
  <2>2. SamePanes
    BY <1>4, FlagsOnly DEF Quiesce, AnswerLost, Handoff, SamePanes
  <2> QED
    BY <2>1, <2>2, OutsidePanes DEF Recalls, SamePanes
<1>5. CASE Drain \/ Restore
  <2>1. /\ UNCHANGED <<toml, tui, stray, sessions, latest>>
        /\ life'.pc \in {"quiesce", "unquiesce", "idle"}
        /\ life'.session \in {Idle.session, life.session}
    BY <1>1, <1>5, IdleForgets DEF Drain, Restore, Loop, Goto, Command
  <2> QED
    BY <2>1, IdleForgets, OutsidePanes DEF Recalls
<1>6. CASE WriteSnapshot
  <2>1. /\ UNCHANGED <<toml, tui, stray, sessions>> /\ life'.session = life.session
        /\ life'.pc \in {"pause", "unquiesce"}
        /\ latest' = latest \/ latest'.session = life.session
    BY <1>1, <1>6 DEF WriteSnapshot, Goto, Command
  <2> QED
    BY <2>1, OutsidePanes DEF Recalls
<1>7. CASE PauseRoles
  <2>1. /\ UNCHANGED <<toml, tui, stray, sessions>> /\ life'.session = life.session
        /\ life'.pc \in {"teardown", "unquiesce"} /\ latest' \in {latest, NoSnapshot}
    BY <1>1, <1>7 DEF PauseRoles, Goto, Command
  <2> QED
    BY <2>1, OutsidePanes DEF Recalls
<1>8. CASE Unquiesce
  <2>1. /\ UNCHANGED <<toml, stray, sessions, latest>> /\ life'.session = life.session
        /\ life'.pc = "restore"
    BY <1>1, <1>8 DEF Unquiesce, Goto, Command
  <2>2. \A q \in Role : tui'[q].phase = tui[q].phase /\ tui'[q].session = tui[q].session
    BY <1>1, <1>8 DEF Unquiesce
  <2> QED
    BY <2>1, <2>2, OutsidePanes DEF Recalls
<1>9. CASE Teardown
  <2>1. /\ UNCHANGED <<toml, sessions, latest>> /\ Unvisited' = {}
        /\ \A q \in Role : /\ tui'[q].phase = "none" /\ tui'[q].session = NoSession
                           /\ stray'[q] = {} /\ life'.session[q] = NoSession
    BY <1>9 DEF Teardown, NoTui, Idle, Unvisited
  <2>2. OpensNone /\ \A q \in Role : Recalls(q)
    BY <2>1 DEF OpensNone, Recalls
  <2> QED
    BY <2>1, <2>2, StepPanes
<1> QED
  BY <1>2, <1>3, <1>4, <1>5, <1>6, <1>7, <1>8, <1>9 DEF Sleep

(* A resume loads, for a role, what is saved or bound for that role.        *)
LEMMA ResumePanes ==
  ASSUME LifecycleInv, PanesInv, StartResume \/ Resume
  PROVE  PanesInv' /\ Remembers
<1> USE DEF LifecycleInv
<1>1. /\ life \in Command /\ tui \in [Role -> TuiState] /\ toml \in [Role -> Entry]
      /\ life.session \in SavedSession
  BY DEF LifecycleTypeOK, Command
<1>2. CASE StartResume
  <2>1. /\ UNCHANGED <<toml, tui, stray, sessions, latest>> /\ life'.pc = "window"
        /\ life'.session = Saved.session
    BY <1>2 DEF StartResume, Idle
  <2> QED
    BY <2>1, OutsidePanes DEF Recalls
<1>3. CASE ResumeCheck
  <2>1. /\ UNCHANGED <<toml, stray, sessions, latest>> /\ life.pc = "check"
        /\ life'.pc = "rebind" /\ life'.todo = life.todo /\ life'.role = life.role
        /\ life'.session = [life.session EXCEPT ![life.role] = tui[life.role].session]
    BY <1>1, <1>3 DEF ResumeCheck, At, Command
  <2>2. \A q \in Role : tui'[q].phase = tui[q].phase /\ tui'[q].session = tui[q].session
    BY <1>1, <1>3 DEF ResumeCheck
  <2>3. \A q \in Role : life'.session[q] \in {life.session[q], tui[q].session}
    BY <1>1, <2>1 DEF SavedSession
  <2>4. Unvisited' = Unvisited
    BY <2>1 DEF Unvisited
  <2>5. OpensNone /\ \A q \in Role : Recalls(q)
    BY <2>1, <2>2, <2>3 DEF OpensNone, Recalls
  <2> QED
    BY <2>1, <2>4, <2>5, StepPanes
<1>4. CASE ResumeBind
  <2>1. /\ UNCHANGED <<tui, stray, sessions, latest>> /\ life.pc = "rebind"
        /\ life'.pc \in {"spawn", "sync"} /\ life'.todo = life.todo \ {life.role}
        /\ life'.session = life.session
    BY <1>1, <1>4 DEF ResumeBind, At, Visited, Command
  <2>2. \A q \in Role : toml'[q].session \in {toml[q].session, life.session[q]}
    BY <1>1, <1>4 DEF ResumeBind
  <2>3. Unvisited' \subseteq Unvisited
    BY <2>1 DEF Unvisited
  <2>4. OpensNone /\ \A q \in Role : Recalls(q)
    BY <2>1, <2>2 DEF OpensNone, Recalls
  <2> QED
    BY <2>1, <2>3, <2>4, StepPanes
<1>5. CASE ResumeSync
  <2>1. /\ UNCHANGED <<toml, tui, stray, sessions, latest>> /\ life'.pc = "notify"
        /\ life'.session = life.session
    BY <1>1, <1>5 DEF ResumeSync, At, Goto, Command
  <2> QED
    BY <2>1, OutsidePanes DEF Recalls
<1>6. CASE ResumeNotify
  <2>1. /\ UNCHANGED <<toml, stray, sessions, latest>> /\ life'.pc = "idle"
        /\ life'.session = Idle.session
    BY <1>6, IdleForgets DEF ResumeNotify
  <2>2. PICK woken : tui' = [r \in Role |-> [tui[r] EXCEPT !.busy = @ \/ r \in woken]]
    BY <1>6 DEF ResumeNotify
  <2>3. \A r \in Role : tui'[r].phase = tui[r].phase /\ tui'[r].session = tui[r].session
    BY <1>1, <2>2 DEF TuiState
  <2>4. SamePanes
    BY <2>3 DEF SamePanes
  <2> QED
    BY <2>1, <2>4, IdleForgets, OutsidePanes DEF Recalls, SamePanes
<1> QED
  BY <1>2, <1>3, <1>4, <1>5, <1>6 DEF Resume

(* Every step opens a pane only where there is none, and gives a session    *)
(* only to the role it belongs to.                                          *)
LEMMA NextPanes ==
  ASSUME LifecycleInv, PanesInv, [Next]_vars
  PROVE  PanesInv'
<1>1. CASE Fail
  <2>1. /\ UNCHANGED <<toml, tui, stray, sessions, latest>> /\ life'.pc = "idle"
        /\ \A q \in Role : life'.session[q] = NoSession
    BY <1>1 DEF Fail, Idle
  <2> QED
    BY <2>1, OutsidePanes DEF Recalls
<1>2. CASE UNCHANGED vars
  <2>1. UNCHANGED <<tui, stray, sessions>> /\ Unvisited' = Unvisited
    BY <1>2 DEF vars, Unvisited
  <2>2. \A r \in Role : Known(r)' = Known(r)
    BY <1>2 DEF vars, Known
  <2> QED
    BY <2>1, <2>2 DEF PanesInv, PanesWait, NothingDisplaced, SessionsApart
<1> QED
  BY <1>1, <1>2, TuiPanes, OpeningPanes, BootstrapPanes, SleepPanes, ResumePanes
     DEF Next, Start, Proceed

(* The invariant about panes and sessions; it needs that of the lifecycle.  *)
THEOREM PanesInvariant == Spec => []PanesInv
<1>1. Init => PanesInv
  <2> SUFFICES ASSUME Init PROVE PanesInv
    OBVIOUS
  <2>1. Unvisited = {} /\ NothingDisplaced
    BY DEF Init, Idle, Unvisited, NothingDisplaced
  <2>2. \A r \in Role : Known(r) = {}
    BY DEF Init, Idle, NoTui, NoEntry, Known
  <2> QED
    BY <2>1, <2>2 DEF PanesInv, PanesWait, SessionsApart
<1> QED
  BY <1>1, NextPanes, LifecycleInvariant, PTL DEF Spec

(* However often bootstrap and resume are tried again, no session is open   *)
(* twice: not for two roles, and not in a pane that a newer one displaced.  *)
THEOREM SessionsOpenOnce == Spec => []SessionOpenOnce
<1>1. LifecycleInv /\ PanesInv => SessionOpenOnce
  <2> SUFFICES ASSUME LifecycleInv, PanesInv, NEW r \in Role, Answers(r)
               PROVE  /\ tui[r].session \notin stray[r]
                      /\ \A q \in Role \ {r} : Answers(q) => tui[r].session # tui[q].session
    BY DEF SessionOpenOnce
  <2>1. \A q \in Role : Answers(q) => tui[q].session \in Known(q)
    BY DEF LifecycleInv, Bookkeeping, Known
  <2> QED
    BY <2>1 DEF PanesInv, NothingDisplaced, SessionsApart
<1> QED
  BY <1>1, LifecycleInvariant, PanesInvariant, PTL

-----------------------------------------------------------------------------
(* RoleSessions. *)

(* Only a UI that boots runs what did not run before.                       *)
LEMMA StepRemembers ==
  ASSUME LifecycleInv, PanesInv, Next
  PROVE  Remembers \/ \E r \in Role : Boot(r)
<1>1. ASSUME NEW r \in Role, StartTurn(r) \/ EndTurn(r)
      PROVE  Remembers
  <2>1. SamePanes /\ UNCHANGED <<toml, stray, sessions, latest, life>>
    BY <1>1, FlagsOnly DEF StartTurn, EndTurn, TuiUnchanged, SamePanes, LifecycleInv
  <2> QED
    BY <2>1 DEF Remembers, Recalls, SamePanes
<1>2. ASSUME NEW r \in Role, Die(r)
      PROVE  Remembers
  <2>1. tui \in [Role -> TuiState] /\ UNCHANGED <<toml, stray, sessions, latest, life>>
    BY <1>2 DEF Die, TuiUnchanged, LifecycleInv, LifecycleTypeOK
  <2>2. \A q \in Role : \/ tui'[q] = tui[q]
                        \/ tui'[q].phase = "none" /\ tui'[q].session = NoSession
    BY <1>2, <2>1 DEF Die, NoTui
  <2>3. \A q \in Role : Recalls(q)
    BY <2>1, <2>2 DEF Recalls
  <2> QED
    BY <2>1, <2>3 DEF Remembers
<1>3. CASE Fail
  <2>1. /\ UNCHANGED <<toml, tui, stray, sessions, latest>>
        /\ \A q \in Role : life'.session[q] = NoSession
    BY <1>3 DEF Fail, Idle
  <2> QED
    BY <2>1 DEF Remembers, Recalls
<1> QED
  BY <1>1, <1>2, <1>3, OpeningPanes, BootstrapPanes, SleepPanes, ResumePanes
     DEF Next, Start, Proceed, Tui

(* What runs for a role or is bound to it is known, and was opened.         *)
LEMMA KnownNext ==
  ASSUME LifecycleInv', PanesInv'
  PROVE  /\ \A r \in Role : Known(r)' \subseteq 1..sessions'
         /\ Sessions!Named'
<1>1. \A r \in Role : stray'[r] = {} /\ (Answers(r)' => tui'[r].session # NoSession)
  BY DEF LifecycleInv, Bookkeeping, PanesInv, NothingDisplaced
<1>2. Sessions!Named'
  BY <1>1 DEF Sessions!Named, Sessions!NoSession, NoSession, Known
<1> QED
  BY <1>2 DEF PanesInv, SessionsApart

(* A step that brings no UI up closes panes or writes team.toml.            *)
LEMMA RememberedStep ==
  ASSUME LifecycleInv, PanesInv, LifecycleInv', PanesInv', Remembers
  PROVE  Sessions!Next
<1>1. sessions' = sessions /\ \A r \in Role : Known(r)' \subseteq Known(r)
  BY RecallsKnown DEF Remembers
<1>2. Sessions!Keep([r \in Role |-> Known(r)])
  BY <1>1, KnownNext DEF Sessions!Keep
<1>3. CASE UNCHANGED toml
  <2>1. PICK R \in SUBSET Role : R = {r \in Role : tui'[r].phase # "up"}
    OBVIOUS
  <2>2. \A r \in Role \ R : /\ tui[r].phase = "up" /\ tui'[r].phase = "up"
                            /\ tui'[r].session = tui[r].session
    BY <2>1 DEF Remembers, Recalls
  <2>3. \A r \in Role : stray[r] = {} /\ stray'[r] = {}
    BY DEF PanesInv, NothingDisplaced
  <2>4. Sessions!Close(R)
    BY <1>1, <1>2, <1>3, <2>1, <2>2, <2>3 DEF Sessions!Close, Answers
  <2> QED
    BY <2>4 DEF Sessions!Next
<1>4. CASE UNCHANGED <<tui, stray>>
  <2>1. \A r \in Role : toml'[r].session \in Known(r) \cup {NoSession}
    BY DEF Remembers, Recalls, Known
  <2>2. \A r \in Role : Known(r) \subseteq 1..sessions
    BY DEF PanesInv, SessionsApart
  <2>3. Sessions!Bind
    BY <1>1, <1>2, <1>4, <2>1, <2>2
       DEF Sessions!Bind, Sessions!NoSession, NoSession, Answers
  <2> QED
    BY <2>3 DEF Sessions!Next
<1> QED
  BY <1>3, <1>4 DEF Remembers

(* A UI that comes up has no other beside it.                               *)
LEMMA BootStep ==
  ASSUME LifecycleInv, PanesInv, LifecycleInv', PanesInv', NEW r \in Role, Boot(r)
  PROVE  Sessions!Next
<1>1. /\ tui \in [Role -> TuiState] /\ sessions \in Nat
      /\ UNCHANGED <<toml, stray, latest, life>>
  BY LifecycleAssumption DEF LifecycleInv, LifecycleTypeOK, Boot, TuiUnchanged
<1>2. tui[r].phase = "starting" /\ \A q \in Role : stray[q] = {}
  BY DEF Boot, PanesInv, NothingDisplaced
<1>3. CASE /\ tui[r].session # NoSession /\ sessions' = sessions
           /\ tui' = [tui EXCEPT ![r].phase = "up"]
  <2>1. /\ tui'[r].phase = "up" /\ tui'[r].session = tui[r].session
        /\ \A q \in Role \ {r} : tui'[q] = tui[q]
    BY <1>1, <1>3
  <2>2. \A q \in Role : Known(q)' \subseteq Known(q)
    BY <1>1, <2>1 DEF Known
  <2>3. Sessions!Keep([q \in Role |-> Known(q)])
    BY <1>3, <2>2, KnownNext DEF Sessions!Keep
  <2>4. PICK s \in [q \in Role |-> Known(q)][r] : s = tui[r].session
    BY <1>3 DEF Known
  <2>5. Sessions!Load(r, s)
    BY <1>1, <1>2, <1>3, <2>1, <2>3, <2>4 DEF Sessions!Load, Answers
  <2> QED
    BY <2>5 DEF Sessions!Next
<1>4. CASE /\ sessions' = sessions + 1
           /\ tui' = [tui EXCEPT ![r].phase = "up", ![r].session = sessions + 1]
  <2>1. /\ tui'[r].phase = "up" /\ tui'[r].session = sessions + 1
        /\ \A q \in Role \ {r} : tui'[q] = tui[q]
    BY <1>1, <1>4
  <2>2. /\ Known(r)' \subseteq Known(r) \cup {sessions + 1}
        /\ \A q \in Role \ {r} : Known(q)' \subseteq Known(q)
    BY <1>1, <2>1 DEF Known
  <2>3. Sessions!Keep([[q \in Role |-> Known(q)] EXCEPT ![r] = @ \cup {sessions + 1}])
    BY <1>4, <2>2, KnownNext DEF Sessions!Keep
  <2>4. Sessions!Open(r)
    BY <1>1, <1>2, <1>4, <2>1, <2>3 DEF Sessions!Open, Answers
  <2> QED
    BY <2>4 DEF Sessions!Next
<1> QED
  BY <1>3, <1>4 DEF Boot

(* Bootstrap, sleep and resume keep what RoleSessions promises: a session   *)
(* stays with the role it was opened for, and a role runs one at a time.    *)
THEOREM LifecycleImplementsSessions == Spec => SessionsImplementation
<1>1. Init => Sessions!Init
  <2> SUFFICES ASSUME Init PROVE Sessions!Init
    OBVIOUS
  <2>1. /\ sessions = 0
        /\ \A r \in Role : /\ tui[r] = NoTui /\ toml[r] = NoEntry /\ stray[r] = {}
                           /\ Known(r) = {}
    BY DEF Init, Idle, NoTui, NoEntry, Known
  <2>2. Sessions!TypeOK /\ Sessions!Apart /\ Sessions!Named
    BY <2>1 DEF Sessions!TypeOK, Sessions!Apart, Sessions!Named, Sessions!NoSession, NoSession,
                NoTui, NoEntry, Answers
  <2> QED
    BY <2>2 DEF Sessions!Init
<1>2. /\ LifecycleInv /\ LifecycleInv' /\ PanesInv /\ PanesInv'
      /\ [Next]_vars
      => [Sessions!Next]_Sessions!sessionVars
  <2>1. ASSUME LifecycleInv, LifecycleInv', PanesInv, PanesInv', Next
        PROVE  Sessions!Next
    BY <2>1, StepRemembers, RememberedStep, BootStep
  <2>2. CASE UNCHANGED vars
    BY <2>2 DEF vars, Sessions!sessionVars, Known, Answers
  <2> QED
    BY <2>1, <2>2
<1> QED
  BY <1>1, <1>2, LifecycleInvariant, PanesInvariant, PTL
     DEF Spec, SessionsImplementation, Sessions!Spec

=============================================================================
