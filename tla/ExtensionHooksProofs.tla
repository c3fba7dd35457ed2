-------------------------- MODULE ExtensionHooksProofs --------------------------
(***************************************************************************)
(* Proofs about ExtensionHooks, for any number of processes, servers and   *)
(* hooks: its types, CompletionApproved, LockOnlyForHooks and              *)
(* NobodyWritesUnderHook.  CommandsEnd, a liveness property, is left to    *)
(* TLC.                                                                    *)
(*                                                                         *)
(* What is completed is approved because what a command is about to write  *)
(* is (CommandsSound): it carries the hooks it has passed so far, all of   *)
(* them once it is past them, or it has found a reply to close in bulk.    *)
(* It stays so while nobody else writes, which follows from the lock: a    *)
(* hook runs under it (HookHoldsLock), and what nobody holds open is       *)
(* committed (NothingOpen); and what is open is about the same message     *)
(* (SameMessage).                                                          *)
(***************************************************************************)
EXTENDS ExtensionHooks, TLAPS

(* The hooks before hook i.                                                 *)
Earlier(i) == 1..(i - 1)

(* c has been through the hooks before the one it is at, and what it is to  *)
(* close in bulk is a reply.                                                *)
Sound(c) ==
  /\ c.pc \in {"invoke", "hook"} => c.index \in 1..Len(hooks[c.event])
  /\ c.pc \in {"invoke", "hook"} /\ c.event = "before" => c.by.passed = Earlier(c.index)
  /\ c.pc \in {"check", "write"} /\ c.op = "complete" => c.by.passed = 1..Len(hooks["before"])
  /\ c.pc = "write" /\ c.op = "complete-replies" => message.kind = "reply"
  /\ \A i \in c.by.patches : hooks["before"][i] = "mutate"

CommandsSound == \A p \in Proc : Sound(cmd[p])

HookHoldsLock == \A p \in Proc : At(p, "hook") => writer = p

NothingOpen == writer = Nobody => draft = message

SameMessage == draft.kind = message.kind

StoreApproved == Approved(message) /\ Approved(draft)

HooksInv ==
  /\ HooksTypeOK
  /\ CommandsSound
  /\ HookHoldsLock
  /\ NothingOpen
  /\ SameMessage
  /\ StoreApproved
  /\ LockOnlyForHooks

-----------------------------------------------------------------------------
(* Hook lists and commands. *)

(* The hooks of an event are numbered from 1 to at most MaxHooks.           *)
LEMMA HookList ==
  ASSUME HooksTypeOK, NEW e \in Event
  PROVE  /\ Len(hooks[e]) \in 0..MaxHooks
         /\ DOMAIN hooks[e] = 1..Len(hooks[e])
         /\ \A i \in 1..Len(hooks[e]) : hooks[e][i] \in Mode
<1>1. PICK n \in 0..MaxHooks : hooks[e] \in [1..n -> Mode]
  BY DEF HooksTypeOK, HookLists
<1>2. Len(hooks[e]) = n
  BY <1>1, HooksAssumption
<1> QED
  BY <1>1, <1>2

LEMMA OffSound == Off \in Command /\ Sound(Off)
<1>1. NoApproval \in Approval
  BY DEF NoApproval, Approval
<1> QED
  BY <1>1, HooksAssumption DEF Off, Command, Step, Event, Tool, Subcommand, Sound, NoApproval

(* p goes on with a sound command, and not with a hook that runs.           *)
GoesOn(p, next) ==
  \E new \in Command : Sound(new) /\ new.pc # "hook" /\ next = [cmd EXCEPT ![p] = new]

(* c has been let through by the hooks before hook i.                       *)
PastHooks(c, i) ==
  /\ c \in Command
  /\ i \in 1..Len(hooks[c.event]) + 1
  /\ c.event = "before" => c.by.passed = Earlier(i)
  /\ \A j \in c.by.patches : hooks["before"][j] = "mutate"

(* Whichever command ends, what is left of it is sound.                     *)
LEMMA OverSound ==
  ASSUME NEW p \in Proc
  PROVE  GoesOn(p, Over(p))
<1>1. [Off EXCEPT !.pc = "ready"] \in Command /\ Sound([Off EXCEPT !.pc = "ready"])
  BY OffSound DEF Off, Command, Step, Sound
<1>2. Off.pc # "hook" /\ [Off EXCEPT !.pc = "ready"].pc # "hook"
  BY DEF Off
<1>3. CASE p \in Server
  BY <1>1, <1>2, <1>3 DEF Over, GoesOn
<1>4. CASE p \notin Server
  BY OffSound, <1>2, <1>4 DEF Over, GoesOn
<1> QED
  BY <1>3, <1>4

(* So is what goes on at hook i once those before it have let it through.   *)
LEMMA ContinueSound ==
  ASSUME HooksTypeOK, NEW p \in Proc, NEW c, NEW i, PastHooks(c, i)
  PROVE  GoesOn(p, Continue(p, c, i))
<1>1. /\ c \in Command /\ i \in 1..Len(hooks[c.event]) + 1
      /\ c.event = "before" => c.by.passed = Earlier(i)
      /\ \A j \in c.by.patches : hooks["before"][j] = "mutate"
      /\ c.event \in Event /\ Len(hooks[c.event]) \in 0..MaxHooks
  BY HookList DEF PastHooks, Command
<1>2. CASE i <= Len(hooks[c.event])
  <2> DEFINE new == [c EXCEPT !.pc = "invoke", !.index = i]
  <2>1. new \in Command
    <3>1. i \in 1..MaxHooks + 1
      BY <1>1, <1>2, HooksAssumption
    <3>2. "invoke" \in Step
      BY DEF Step
    <3> QED
      BY <1>1, <3>1, <3>2 DEF Command
  <2>2. Sound(new) /\ new.pc # "hook"
    BY <1>1, <1>2 DEF Sound, Command
  <2> QED
    BY <1>2, <2>1, <2>2 DEF Continue, GoesOn
<1>3. CASE ~(i <= Len(hooks[c.event])) /\ c.event = "before"
  <2> DEFINE new == [c EXCEPT !.pc = "check", !.index = 1]
  <2>1. new \in Command
    <3>1. 1 \in 1..MaxHooks + 1
      BY HooksAssumption
    <3>2. "check" \in Step
      BY DEF Step
    <3> QED
      BY <1>1, <3>1, <3>2 DEF Command
  <2>2. i - 1 = Len(hooks["before"])
    BY <1>1, <1>3
  <2>3. Sound(new) /\ new.pc # "hook"
    BY <1>1, <1>3, <2>2 DEF Sound, Command, Earlier
  <2> QED
    BY <1>3, <2>1, <2>3 DEF Continue, GoesOn
<1>4. CASE ~(i <= Len(hooks[c.event])) /\ c.event # "before"
  BY <1>4, OverSound DEF Continue
<1> QED
  BY <1>2, <1>3, <1>4

(* The first step of whichever command.                                     *)
LEMMA BeginSound ==
  ASSUME HooksTypeOK, NEW p \in Proc, NEW op \in Subcommand, NEW parent \in Proc \cup {Nobody}
  PROVE  GoesOn(p, Begin(p, op, parent))
<1> DEFINE c == [Off EXCEPT !.op = op, !.parent = parent]
<1>1. c \in Command /\ c.event = "before" /\ c.by = NoApproval
  BY OffSound DEF Off, Command, Tool, Subcommand
<1>2. CASE op = "complete"
  <2>1. 1 \in 1..Len(hooks[c.event]) + 1
    BY <1>1, HookList DEF Command
  <2>2. GoesOn(p, Continue(p, c, 1))
    <3>1. c.by.passed = Earlier(1) /\ c.by.patches = {}
      BY <1>1 DEF NoApproval, Earlier
    <3>2. PastHooks(c, 1)
      BY <1>1, <2>1, <3>1 DEF PastHooks
    <3> HIDE DEF c
    <3> QED
      BY <3>2, ContinueSound
  <2> QED
    BY <1>2, <2>2 DEF Begin
<1>3. CASE op # "complete"
  <2> DEFINE new == [c EXCEPT !.pc = "check"]
  <2>1. new \in Command /\ new.pc # "hook" /\ new.op = op /\ new.by = NoApproval /\ new.pc = "check"
    BY <1>1, <1>3 DEF Command, Step
  <2>2. Sound(new)
    BY <1>3, <2>1 DEF Sound, NoApproval
  <2> QED
    BY <1>3, <2>1, <2>2 DEF Begin, GoesOn
<1> QED
  BY <1>2, <1>3

(* What AfterHook does, from the outcome of a hook that runs.               *)
LEMMA AfterHookSound ==
  ASSUME HooksTypeOK, NEW p \in Proc, Sound(cmd[p]), At(p, "hook"), NEW outcome \in Outcome
  PROVE  GoesOn(p, AfterHook(p, outcome))
<1> DEFINE c == cmd[p]
           mode == hooks[c.event][c.index]
<1>1. c \in Command
  BY DEF HooksTypeOK
<1>2. c.index \in 1..Len(hooks[c.event]) /\ c.event \in Event /\ Len(hooks[c.event]) \in 0..MaxHooks
  BY <1>1, HookList DEF Sound, At, Command
<1>3. c.index + 1 \in 1..Len(hooks[c.event]) + 1
  BY <1>2
<1>4. \A j \in c.by.patches : hooks["before"][j] = "mutate"
  BY DEF Sound
<1>5. CASE Passes(outcome, mode) /\ c.event = "before"
  <2> DEFINE d == Approve(c, outcome)
  <2>1. c.index \in 1..MaxHooks
    BY <1>2, HooksAssumption
  <2>2. d \in Command /\ d.event = c.event
    BY <1>1, <2>1 DEF Approve, Command, Approval
  <2>3. d.by.passed = c.by.passed \cup {c.index}
    BY <1>1 DEF Approve, Command, Approval
  <2>4. c.by.passed = Earlier(c.index)
    BY <1>5 DEF Sound, At
  <2>5. d.by.passed = Earlier(c.index + 1)
    BY <1>2, <2>3, <2>4 DEF Earlier
  <2>6. \A j \in d.by.patches : hooks["before"][j] = "mutate"
    <3>1. d.by.patches = IF outcome = "patch" THEN c.by.patches \cup {c.index} ELSE c.by.patches
      BY <1>1 DEF Approve, Command, Approval
    <3>2. outcome = "patch" => hooks["before"][c.index] = "mutate"
      BY <1>5 DEF Passes
    <3> QED
      BY <1>4, <3>1, <3>2
  <2>7. AfterHook(p, outcome) = Continue(p, d, c.index + 1)
    BY <1>5 DEF AfterHook
  <2>8. GoesOn(p, Continue(p, d, c.index + 1))
    <3>1. c.index + 1 \in 1..Len(hooks[d.event]) + 1
      BY <1>3, <2>2
    <3> HIDE DEF c, d
    <3>2. PastHooks(d, c.index + 1)
      BY <2>2, <2>5, <2>6, <3>1 DEF PastHooks
    <3> QED
      BY <3>2, ContinueSound
  <2> QED
    BY <2>7, <2>8
<1>6. CASE Passes(outcome, mode) /\ c.event # "before"
  <2>1. AfterHook(p, outcome) = Continue(p, c, c.index + 1)
    BY <1>6 DEF AfterHook
  <2>2. GoesOn(p, Continue(p, c, c.index + 1))
    <3> HIDE DEF c
    <3>1. PastHooks(c, c.index + 1)
      BY <1>1, <1>3, <1>4, <1>6 DEF PastHooks
    <3> QED
      BY <3>1, ContinueSound
  <2> QED
    BY <2>1, <2>2
<1>7. CASE ~Passes(outcome, mode) /\ (Denies(outcome, mode) \/ FailClosed(mode, c.event))
  BY <1>7, OverSound DEF AfterHook
<1>8. CASE ~Passes(outcome, mode) /\ ~(Denies(outcome, mode) \/ FailClosed(mode, c.event))
  <2>1. c.event # "before"
    BY <1>8 DEF FailClosed
  <2>2. AfterHook(p, outcome) = Continue(p, c, c.index + 1)
    BY <1>8 DEF AfterHook
  <2>3. GoesOn(p, Continue(p, c, c.index + 1))
    <3> HIDE DEF c
    <3>1. PastHooks(c, c.index + 1)
      BY <1>1, <1>3, <1>4, <2>1 DEF PastHooks
    <3> QED
      BY <3>1, ContinueSound
  <2> QED
    BY <2>2, <2>3
<1> QED
  BY <1>5, <1>6, <1>7, <1>8

-----------------------------------------------------------------------------
(* Steps. *)

(* What the step of p leaves of its command.                                *)
Becomes(p, new) ==
  cmd' = [cmd EXCEPT ![p] = new] \/ cmd' = Orphan(p, [cmd EXCEPT ![p] = new])

(* One process goes on to a sound command, the others stay where they are   *)
(* and lose at most a parent.                                               *)
LEMMA CommandStep ==
  ASSUME HooksTypeOK, CommandsSound, NEW p \in Proc,
         NEW new \in Command, Sound(new), Becomes(p, new), UNCHANGED hooks,
         message'.kind = message.kind
  PROVE  /\ cmd' \in [Proc -> Command] /\ CommandsSound'
         /\ cmd'[p].pc = new.pc
         /\ \A q \in Proc \ {p} : cmd'[q].pc = cmd[q].pc
<1>1. cmd \in [Proc -> Command] /\ \A q \in Proc : Sound(cmd[q])
  BY DEF HooksTypeOK, CommandsSound
<1> DEFINE next == [cmd EXCEPT ![p] = new]
<1>2. \A q \in Proc : next[q] \in Command /\ Sound(next[q]) /\ next[q].pc = IF q = p THEN new.pc ELSE cmd[q].pc
  BY <1>1
<1>3. \A c \in Command : LET d == [c EXCEPT !.parent = Nobody]
                         IN  d \in Command /\ d.pc = c.pc /\ (Sound(c) => Sound(d))
  BY DEF Command, Sound
<1>4. cmd' \in [Proc -> Command] /\ \A q \in Proc : Sound(cmd'[q]) /\ cmd'[q].pc = next[q].pc
  <2>1. CASE cmd' = next
    BY <1>1, <1>2, <2>1
  <2>2. CASE cmd' = Orphan(p, next)
    <3> HIDE DEF next
    <3> QED
      BY <1>2, <1>3, <2>2 DEF Orphan
  <2> QED
    BY <2>1, <2>2 DEF Becomes
<1>5. CommandsSound'
  BY <1>4 DEF CommandsSound, Sound
<1> QED
  BY <1>2, <1>4, <1>5

(* A step that leaves the store alone keeps the invariant if it ends no     *)
(* hook of a process that holds the lock, and begins none.                  *)
LEMMA QuietStep ==
  ASSUME HooksInv, NEW p \in Proc, ~At(p, "hook"),
         NEW new \in Command, Sound(new), new.pc # "hook", Becomes(p, new),
         UNCHANGED <<hooks, message, draft, writer>>
  PROVE  HooksInv'
<1>1. /\ cmd' \in [Proc -> Command] /\ CommandsSound'
      /\ cmd'[p].pc # "hook" /\ \A q \in Proc \ {p} : cmd'[q].pc = cmd[q].pc
  BY CommandStep DEF HooksInv
<1>2. HooksTypeOK'
  BY <1>1 DEF HooksInv, HooksTypeOK
<1>3. HookHoldsLock'
  BY <1>1 DEF HooksInv, HookHoldsLock, At
<1>4. LockOnlyForHooks'
  BY <1>1, HooksAssumption DEF HooksInv, LockOnlyForHooks, At, HooksTypeOK
<1> QED
  BY <1>1, <1>2, <1>3, <1>4 DEF HooksInv, NothingOpen, SameMessage, StoreApproved, Approved

(* Nor does a commit of an approved message by whoever may write.           *)
LEMMA CommitStep ==
  ASSUME HooksInv, NEW p \in Proc, MayWrite(p),
         NEW new \in Command, Sound(new), new.pc # "hook", Becomes(p, new),
         NEW m \in Message, Approved(m), m.kind = message.kind, Commit(m), UNCHANGED hooks
  PROVE  HooksInv'
<1>1. /\ cmd' \in [Proc -> Command] /\ CommandsSound'
      /\ cmd'[p].pc # "hook" /\ \A q \in Proc \ {p} : cmd'[q].pc = cmd[q].pc
  BY CommandStep DEF HooksInv, Commit
<1>2. HooksTypeOK'
  BY <1>1 DEF HooksInv, HooksTypeOK, Commit
<1>3. HookHoldsLock'
  BY <1>1, HooksAssumption DEF HooksInv, HookHoldsLock, At, MayWrite
<1>4. LockOnlyForHooks' /\ NothingOpen' /\ SameMessage' /\ StoreApproved'
  BY DEF Commit, LockOnlyForHooks, NothingOpen, SameMessage, StoreApproved, Approved
<1> QED
  BY <1>1, <1>2, <1>3, <1>4 DEF HooksInv

(* Nor the end of a connection.                                             *)
LEMMA CloseStep ==
  ASSUME HooksInv, NEW p \in Proc,
         NEW new \in Command, Sound(new), new.pc # "hook", Becomes(p, new),
         Close(p), UNCHANGED hooks
  PROVE  HooksInv'
<1>1. /\ cmd' \in [Proc -> Command] /\ CommandsSound'
      /\ cmd'[p].pc # "hook" /\ \A q \in Proc \ {p} : cmd'[q].pc = cmd[q].pc
  BY CommandStep DEF HooksInv, Close
<1>2. HooksTypeOK'
  BY <1>1 DEF HooksInv, HooksTypeOK, Close
<1>3. HookHoldsLock'
  BY <1>1 DEF HooksInv, HookHoldsLock, At, Close
<1>4. LockOnlyForHooks'
  BY <1>1, HooksAssumption DEF HooksInv, LockOnlyForHooks, At, HooksTypeOK, Close
<1>5. NothingOpen' /\ SameMessage' /\ StoreApproved'
  BY DEF HooksInv, Close, NothingOpen, SameMessage, StoreApproved, Approved
<1> QED
  BY <1>1, <1>2, <1>3, <1>4, <1>5 DEF HooksInv

(* Nor a failure within a transaction, with an approved draft written.      *)
LEMMA AbandonStep ==
  ASSUME HooksInv, NEW p \in Proc, MayWrite(p),
         NEW new \in Command, Sound(new), new.pc # "hook", Becomes(p, new),
         NEW d \in Message, Approved(d), d.kind = message.kind, Abandon(p, d), UNCHANGED hooks
  PROVE  HooksInv'
<1>1. CASE p \notin Server
  BY <1>1, CloseStep DEF Abandon
<1>2. CASE p \in Server
  <2>1. writer' = p /\ draft' = d /\ message' = message
    BY <1>2 DEF Abandon
  <2>2. /\ cmd' \in [Proc -> Command] /\ CommandsSound'
        /\ cmd'[p].pc # "hook" /\ \A q \in Proc \ {p} : cmd'[q].pc = cmd[q].pc
    BY <2>1, CommandStep DEF HooksInv
  <2>3. HooksTypeOK'
    BY <2>1, <2>2 DEF HooksInv, HooksTypeOK
  <2>4. HookHoldsLock'
    BY <2>1, <2>2, HooksAssumption DEF HooksInv, HookHoldsLock, At, MayWrite
  <2>5. LockOnlyForHooks' /\ NothingOpen' /\ SameMessage' /\ StoreApproved'
    BY <1>2, <2>1, HooksAssumption
    DEF HooksInv, LockOnlyForHooks, NothingOpen, SameMessage, StoreApproved, Approved
  <2> QED
    BY <2>2, <2>3, <2>4, <2>5 DEF HooksInv
<1> QED
  BY <1>1, <1>2

(* What a process sees of the message is typed, approved and of its kind.   *)
LEMMA ViewApproved ==
  ASSUME HooksInv, NEW p \in Proc
  PROVE  View(p) \in Message /\ Approved(View(p)) /\ View(p).kind = message.kind
BY DEF HooksInv, HooksTypeOK, SameMessage, StoreApproved, View

(* So is what it writes.                                                    *)
LEMMA WrittenApproved ==
  ASSUME HooksInv, NEW p \in Proc, At(p, "write")
  PROVE  Written(p) \in Message /\ Approved(Written(p)) /\ Written(p).kind = message.kind
<1>1. cmd[p] \in Command /\ Sound(cmd[p])
  BY DEF HooksInv, HooksTypeOK, CommandsSound
<1>2. CASE cmd[p].op = "ack"
  BY <1>2, ViewApproved DEF Written, Message, Approved
<1>3. CASE cmd[p].op = "complete"
  <2>1. cmd[p].by.passed = 1..Len(hooks["before"])
    BY <1>1, <1>3 DEF Sound, At, Command
  <2>2. DOMAIN hooks["before"] = 1..Len(hooks["before"])
    BY HookList DEF HooksInv, Event
  <2> QED
    BY <1>1, <1>3, <2>1, <2>2, ViewApproved DEF Written, Message, Approved, Sound, Command
<1>4. CASE cmd[p].op = "complete-replies"
  <2>1. message.kind = "reply"
    BY <1>1, <1>4 DEF Sound, At
  <2>2. NoApproval \in Approval /\ NoApproval.patches = {}
    BY DEF NoApproval, Approval
  <2> QED
    BY <1>4, <2>1, <2>2, ViewApproved DEF Written, Message, Approved
<1> QED
  BY <1>1, <1>2, <1>3, <1>4 DEF Command, Subcommand, Tool

-----------------------------------------------------------------------------
(* Actions. *)

LEMMA StartsKeep ==
  ASSUME HooksInv, NEW p \in Proc, Launch(p) \/ (\E q \in Proc : Nest(p, q)) \/ Request(p) \/ Connect(p)
  PROVE  HooksInv'
<1>1. CASE Launch(p)
  <2>1. PICK op \in Subcommand : cmd' = [cmd EXCEPT ![p] = [Off EXCEPT !.pc = "connect", !.op = op]]
    BY <1>1 DEF Launch
  <2> DEFINE new == [Off EXCEPT !.pc = "connect", !.op = op]
  <2>2. new \in Command /\ Sound(new) /\ new.pc # "hook"
    BY OffSound DEF Off, Command, Step, Sound
  <2> QED
    BY <1>1, <2>1, <2>2, QuietStep DEF Launch, Becomes, At
<1>2. CASE \E q \in Proc : Nest(p, q)
  <2>1. PICK op \in Subcommand, q \in Proc :
          cmd' = [cmd EXCEPT ![p] = [Off EXCEPT !.pc = "connect", !.op = op, !.parent = q]]
    BY <1>2 DEF Nest
  <2> DEFINE new == [Off EXCEPT !.pc = "connect", !.op = op, !.parent = q]
  <2>2. new \in Command /\ Sound(new) /\ new.pc # "hook"
    BY OffSound DEF Off, Command, Step, Sound
  <2> QED
    BY <1>2, <2>1, <2>2, QuietStep DEF Nest, Becomes, At
<1>3. CASE Request(p)
  <2>1. PICK op \in Subcommand : cmd' = Begin(p, op, Nobody)
    BY <1>3 DEF Request, Subcommand
  <2>2. PICK new \in Command : Sound(new) /\ new.pc # "hook" /\ cmd' = [cmd EXCEPT ![p] = new]
    BY <2>1, BeginSound DEF HooksInv, GoesOn
  <2> QED
    BY <1>3, <2>2, QuietStep DEF Request, Becomes, At
<1>4. CASE Connect(p)
  <2>1. HooksTypeOK /\ cmd[p].op \in Subcommand /\ cmd[p].parent \in Proc \cup {Nobody}
    BY DEF HooksInv, HooksTypeOK, Command
  <2>2. PICK new \in Command : Sound(new) /\ new.pc # "hook" /\ cmd' = [cmd EXCEPT ![p] = new]
    <3>1. CASE p \in Server
      BY <1>4, <3>1, OverSound DEF Connect, GoesOn
    <3>2. CASE p \notin Server
      <4>1. PICK op \in Subcommand, parent \in Proc \cup {Nobody} : cmd' = Begin(p, op, parent)
        BY <1>4, <2>1, <3>2 DEF Connect
      <4> QED
        BY <2>1, <4>1, BeginSound DEF GoesOn
    <3> QED
      BY <3>1, <3>2
  <2> QED
    BY <1>4, <2>2, QuietStep DEF Connect, Becomes, At
<1> QED
  BY <1>1, <1>2, <1>3, <1>4

LEMMA EndsKeep ==
  ASSUME HooksInv, NEW p \in Proc, BusyTimeout(p) \/ Kill(p)
  PROVE  HooksInv'
<1>1. Off.pc # "hook"
  BY DEF Off
<1>2. CASE BusyTimeout(p)
  BY <1>1, <1>2, OffSound, QuietStep DEF BusyTimeout, Becomes, At
<1>3. CASE Kill(p)
  BY <1>1, <1>3, OffSound, CloseStep DEF Kill, Becomes
<1> QED
  BY <1>2, <1>3

LEMMA NextMessageKeeps ==
  ASSUME HooksInv, NextMessage
  PROVE  HooksInv'
<1>1. PICK kind \in Kind : Commit(Fresh(kind))
  BY DEF NextMessage
<1>2. Fresh(kind) \in Message /\ Fresh(kind).state # "completed"
  BY DEF Fresh, Message, NoApproval, Approval
<1>3. HooksTypeOK'
  BY <1>1, <1>2 DEF HooksInv, HooksTypeOK, NextMessage, Commit
<1>4. CommandsSound' /\ HookHoldsLock'
  BY DEF HooksInv, CommandsSound, Sound, HookHoldsLock, NextMessage, Resting, At
<1>5. NothingOpen' /\ SameMessage' /\ StoreApproved' /\ LockOnlyForHooks'
  BY <1>1, <1>2 DEF Commit, NothingOpen, SameMessage, StoreApproved, Approved, LockOnlyForHooks
<1> QED
  BY <1>3, <1>4, <1>5 DEF HooksInv

LEMMA InvokeKeeps ==
  ASSUME HooksInv, NEW p \in Proc, Invoke(p)
  PROVE  HooksInv'
<1> DEFINE new == [cmd[p] EXCEPT !.pc = "hook"]
<1>1. cmd[p] \in Command /\ Sound(cmd[p]) /\ cmd[p].pc = "invoke"
  BY DEF HooksInv, HooksTypeOK, CommandsSound, Invoke, At
<1>2. new \in Command /\ new.pc = "hook"
  BY <1>1 DEF Command, Step
<1>3. Sound(new)
  BY <1>1 DEF Sound, Command
<1>4. Becomes(p, new)
  BY DEF Invoke, Becomes, HooksInv, HooksTypeOK
<1>5. /\ cmd' \in [Proc -> Command] /\ CommandsSound'
      /\ cmd'[p].pc = "hook" /\ \A q \in Proc \ {p} : cmd'[q].pc = cmd[q].pc
  <2> HIDE DEF new
  <2> QED
    BY <1>2, <1>3, <1>4, CommandStep DEF HooksInv, Invoke
<1>6. writer' = p /\ message' = message /\ draft' = draft /\ hooks' = hooks /\ MayWrite(p)
  BY DEF Invoke
<1>7. HooksTypeOK'
  BY <1>5, <1>6 DEF HooksInv, HooksTypeOK
<1>8. HookHoldsLock'
  BY <1>5, <1>6, HooksAssumption DEF HooksInv, HookHoldsLock, At, MayWrite
<1>9. LockOnlyForHooks' /\ NothingOpen' /\ SameMessage' /\ StoreApproved'
  BY <1>5, <1>6, HooksAssumption
  DEF HooksInv, LockOnlyForHooks, NothingOpen, SameMessage, StoreApproved, Approved, At
<1> QED
  BY <1>5, <1>7, <1>8, <1>9 DEF HooksInv

LEMMA ConcludeKeeps ==
  ASSUME HooksInv, NEW p \in Proc, At(p, "hook"), NEW outcome \in Outcome, Conclude(p, outcome), UNCHANGED hooks
  PROVE  HooksInv'
<1>1. PICK new \in Command : Sound(new) /\ new.pc # "hook" /\ AfterHook(p, outcome) = [cmd EXCEPT ![p] = new]
  BY AfterHookSound DEF HooksInv, CommandsSound, GoesOn
<1>2. Becomes(p, new)
  BY <1>1 DEF Conclude, Becomes
<1>3. MayWrite(p)
  BY DEF HooksInv, HookHoldsLock, MayWrite
<1> QED
  BY <1>1, <1>2, <1>3, ViewApproved, CommitStep DEF Conclude

LEMMA HooksEndKeep ==
  ASSUME HooksInv, NEW p \in Proc, HookReturns(p) \/ HookTimesOut(p) \/ RecordFails(p)
  PROVE  HooksInv'
<1>1. CASE HookReturns(p) \/ HookTimesOut(p)
  BY <1>1, ConcludeKeeps DEF HookReturns, HookTimesOut, Conclude, Outcome
<1>2. CASE RecordFails(p)
  <2>1. PICK new \in Command : Sound(new) /\ new.pc # "hook" /\ Over(p) = [cmd EXCEPT ![p] = new]
    BY OverSound DEF GoesOn
  <2>2. Becomes(p, new)
    BY <1>2, <2>1 DEF RecordFails, Becomes
  <2>3. MayWrite(p)
    BY <1>2 DEF RecordFails, HooksInv, HookHoldsLock, MayWrite
  <2> QED
    BY <1>2, <2>1, <2>2, <2>3, ViewApproved, AbandonStep DEF RecordFails
<1> QED
  BY <1>1, <1>2

LEMMA CheckKeeps ==
  ASSUME HooksInv, NEW p \in Proc, Check(p)
  PROVE  HooksInv'
<1>1. cmd[p] \in Command /\ Sound(cmd[p]) /\ cmd[p].pc = "check"
  BY DEF HooksInv, HooksTypeOK, CommandsSound, Check, At
<1>2. [cmd[p] EXCEPT !.pc = "write"] \in Command
  BY <1>1 DEF Command, Step
<1>3. CASE Selected(cmd[p], View(p))
  <2>1. cmd' = [cmd EXCEPT ![p] = [cmd[p] EXCEPT !.pc = "write"]]
    BY <1>3 DEF Check
  <2>2. cmd[p].op = "complete-replies" => message.kind = "reply"
    BY <1>3, ViewApproved DEF Selected
  <2>3. Sound([cmd[p] EXCEPT !.pc = "write"]) /\ [cmd[p] EXCEPT !.pc = "write"].pc # "hook"
    BY <1>1, <2>2 DEF Sound, Command
  <2> QED
    BY <1>1, <1>2, <2>1, <2>3, QuietStep DEF Check, Becomes, At
<1>4. CASE ~Selected(cmd[p], View(p))
  <2>1. PICK new \in Command : Sound(new) /\ new.pc # "hook" /\ cmd' = [cmd EXCEPT ![p] = new]
    BY <1>4, OverSound DEF Check, GoesOn
  <2> QED
    BY <1>1, <2>1, QuietStep DEF Check, Becomes, At
<1> QED
  BY <1>3, <1>4

LEMMA WriteKeeps ==
  ASSUME HooksInv, NEW p \in Proc, Write(p)
  PROVE  HooksInv'
<1>1. CASE WriteCommits(p)
  <2> DEFINE c == [cmd[p] EXCEPT !.event = "after", !.by = NoApproval]
  <2>1. c \in Command /\ c.event = "after" /\ c.by.patches = {}
    BY DEF HooksInv, HooksTypeOK, Command, Event, NoApproval, Approval
  <2>2. 1 \in 1..Len(hooks[c.event]) + 1
    BY <2>1, HookList DEF HooksInv, Event
  <2>3. GoesOn(p, Continue(p, c, 1))
    <3> HIDE DEF c
    <3>1. PastHooks(c, 1)
      BY <2>1, <2>2 DEF PastHooks
    <3> QED
      BY <3>1, ContinueSound DEF HooksInv
  <2>4. PICK new \in Command : Sound(new) /\ new.pc # "hook" /\ cmd' = [cmd EXCEPT ![p] = new]
    <3>1. CASE cmd[p].op = "complete-replies"
      BY <1>1, <3>1, OverSound DEF WriteCommits, GoesOn
    <3>2. CASE cmd[p].op # "complete-replies"
      BY <1>1, <2>3, <3>2 DEF WriteCommits, GoesOn
    <3> QED
      BY <3>1, <3>2
  <2> QED
    BY <1>1, <2>4, WrittenApproved, CommitStep DEF Write, WriteCommits, Becomes
<1>2. CASE WriteFails(p)
  <2>1. PICK new \in Command : Sound(new) /\ new.pc # "hook" /\ cmd' = [cmd EXCEPT ![p] = new]
    BY <1>2, OverSound DEF WriteFails, GoesOn
  <2>2. PICK d \in Message : Approved(d) /\ d.kind = message.kind /\ Abandon(p, d)
    BY <1>2, ViewApproved, WrittenApproved DEF Write, WriteFails
  <2> QED
    BY <1>2, <2>1, <2>2, AbandonStep DEF Write, Becomes
<1> QED
  BY <1>1, <1>2 DEF Write

-----------------------------------------------------------------------------

LEMMA NextKeeps ==
  ASSUME HooksInv, [Next]_vars
  PROVE  HooksInv'
<1>1. CASE NextMessage
  BY <1>1, NextMessageKeeps
<1>2. ASSUME NEW p \in Proc,
             Launch(p) \/ Request(p) \/ Proceed(p) \/ HookReturns(p) \/ RecordFails(p) \/ Kill(p)
               \/ \E q \in Proc : Nest(p, q)
      PROVE  HooksInv'
  BY <1>2, StartsKeep, EndsKeep, InvokeKeeps, HooksEndKeep, CheckKeeps, WriteKeeps DEF Proceed
<1>3. CASE UNCHANGED vars
  BY <1>3 DEF vars, HooksInv, HooksTypeOK, CommandsSound, Sound, HookHoldsLock, NothingOpen,
         SameMessage, StoreApproved, Approved, LockOnlyForHooks, At
<1> QED
  BY <1>1, <1>2, <1>3 DEF Next

(* HooksInv holds of whatever hooks are configured and survives every       *)
(* command, hook, failure and kill.                                         *)
THEOREM HooksInvariant == Spec => []HooksInv
<1>1. Init => HooksInv
  <2> SUFFICES ASSUME Init PROVE HooksInv
    OBVIOUS
  <2>1. HooksTypeOK
    BY OffSound DEF Init, HooksTypeOK, Fresh, Message, NoApproval, Approval
  <2>2. CommandsSound /\ HookHoldsLock
    BY OffSound DEF Init, CommandsSound, HookHoldsLock, At, Off
  <2>3. NothingOpen /\ SameMessage /\ StoreApproved
    BY DEF Init, NothingOpen, SameMessage, StoreApproved, Approved, Fresh
  <2> QED
    BY <2>1, <2>2, <2>3 DEF Init, HooksInv, LockOnlyForHooks
<1> QED
  BY <1>1, NextKeeps, PTL DEF Spec

(* Type correctness of the hooks, the message, the lock and the commands.   *)
THEOREM HooksTypeCorrect == Spec => []HooksTypeOK
<1>1. HooksInv => HooksTypeOK
  BY DEF HooksInv
<1> QED
  BY <1>1, HooksInvariant, PTL

(* No work is committed as completed that a message.before_complete hook    *)
(* has not let through, and only hooks of mode mutate have patched it.      *)
(* Replies alone may go past the hooks, by inbox complete-replies, which    *)
(* closes nothing else.                                                     *)
THEOREM CompletionsAreApproved == Spec => []CompletionApproved
<1>1. HooksInv => CompletionApproved
  BY DEF HooksInv, StoreApproved, CompletionApproved
<1> QED
  BY <1>1, HooksInvariant, PTL

(* A command line keeps others from writing only while one of its hooks     *)
(* runs.                                                                    *)
THEOREM LockIsForHooks == Spec => []LockOnlyForHooks
<1>1. HooksInv => LockOnlyForHooks
  BY DEF HooksInv
<1> QED
  BY <1>1, HooksInvariant, PTL

(* While a hook decides, nothing is written to the store.                   *)
THEOREM HooksDecideUndisturbed == Spec => NobodyWritesUnderHook
<1> DEFINE Undisturbed ==
      \A p \in Proc : At(p, "hook") /\ At(p, "hook")' => message' = message /\ writer' = p
<1>1. HooksInv /\ HooksInv' /\ [Next]_vars => [Undisturbed]_vars
  <2> SUFFICES ASSUME HooksInv, HooksInv', Next, NEW p \in Proc, At(p, "hook"), At(p, "hook")'
               PROVE  message' = message /\ writer' = p
    OBVIOUS
  <2>1. writer = p /\ writer' = p /\ p # Nobody
    BY HooksAssumption DEF HooksInv, HookHoldsLock
  <2>2. \A q \in Proc : Commit(View(q)) => ~(writer' = p)
    BY <2>1 DEF Commit
  <2>3. CASE NextMessage
    BY <2>1, <2>3 DEF NextMessage
  <2>4. ASSUME NEW q \in Proc,
               Launch(q) \/ Request(q) \/ (\E r \in Proc : Nest(q, r)) \/ Connect(q) \/ BusyTimeout(q) \/ Check(q)
        PROVE  message' = message
    BY <2>4 DEF Launch, Request, Nest, Connect, BusyTimeout, Check
  <2>5. ASSUME NEW q \in Proc, Invoke(q) \/ Kill(q)
        PROVE  message' = message
    BY <2>5 DEF Invoke, Kill, Close
  <2>6. ASSUME NEW q \in Proc, HookReturns(q) \/ HookTimesOut(q)
        PROVE  FALSE
    BY <2>2, <2>1, <2>6 DEF HookReturns, HookTimesOut, Conclude
  <2>7. ASSUME NEW q \in Proc, RecordFails(q)
        PROVE  message' = message
    BY <2>7 DEF RecordFails, Abandon, Close
  <2>8. ASSUME NEW q \in Proc, Write(q)
        PROVE  message' = message
    <3>1. ~WriteCommits(q)
      BY <2>1 DEF WriteCommits, Commit
    <3> QED
      BY <2>8, <3>1 DEF Write, WriteFails, Abandon, Close
  <2> QED
    BY <2>1, <2>3, <2>4, <2>5, <2>6, <2>7, <2>8 DEF Next, Proceed
<1>2. Spec => [][Next]_vars
  BY DEF Spec
<1> QED
  BY <1>1, <1>2, HooksInvariant, PTL DEF NobodyWritesUnderHook

=============================================================================
