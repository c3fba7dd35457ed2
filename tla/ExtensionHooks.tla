----------------------------- MODULE ExtensionHooks -----------------------------
(***************************************************************************)
(* Extension hooks around inbox ack and inbox complete, inbox              *)
(* complete-replies, which runs none, and the one write lock of team.sqlite *)
(* that every process needs (extensions/runner.py, service.py, store.py,   *)
(* mcp_server.py).  A hook is a subprocess: its invocation is inserted as  *)
(* an event before it starts and committed with its outcome, so a command  *)
(* holds the write lock while its hook runs.  A hook may run tmux-team     *)
(* itself; that command wants the same lock.                               *)
(*                                                                         *)
(* A process of Proc \ Server is one command line: its connection, and any *)
(* open transaction with it, ends with the command.  A process of Server   *)
(* is an MCP server, which serves one request after another over one       *)
(* connection and rolls nothing back when a request fails.                 *)
(* Whoever waits for the lock gives up after the busy timeout of sqlite3   *)
(* and dies of the exception; a hook is killed after its timeout_ms.  How  *)
(* long these are is left open.  Of a patch only its author is kept.       *)
(***************************************************************************)
EXTENDS Naturals, Sequences

CONSTANTS
  Proc,      \* processes
  Server,    \* those that are MCP servers
  MaxHooks,  \* bound: hooks of one event
  Nobody     \* holder of a free lock, parent of a command nobody nested

ASSUME HooksAssumption ==
  /\ Server \subseteq Proc
  /\ Nobody \notin Proc
  /\ MaxHooks \in Nat

VARIABLES
  hooks,     \* the hooks of each event, in the order of hooks_for
  message,   \* the message everybody is about, as committed
  draft,     \* the message as the open transaction sees it
  writer,    \* the process with an open write transaction
  cmd        \* cmd[p]: what process p is doing

vars == <<hooks, message, draft, writer, cmd>>

Mode == {"observe", "mutate", "decision"}
Event == {"before", "after"}
Outcome == {"ok", "patch", "deny", "failure"}

HookLists == UNION {[1..n -> Mode] : n \in 0..MaxHooks}

(* Which hooks let an operation through, and whose patches it carries.      *)
Approval == [passed : SUBSET (1..MaxHooks), patches : SUBSET (1..MaxHooks)]
NoApproval == [passed |-> {}, patches |-> {}]

(* A reply is a message of kind completion_notice; work is any other that   *)
(* can be claimed.                                                          *)
Kind == {"work", "reply"}
Message == [kind : Kind, state : {"claimed", "acknowledged", "completed"}, by : Approval]
Fresh(kind) == [kind |-> kind, state |-> "claimed", by |-> NoApproval]

(* What the MCP server offers, and what the command line has besides.       *)
Tool == {"ack", "complete"}
Subcommand == Tool \cup {"complete-replies"}

Step == {"off", "ready", "connect", "invoke", "hook", "check", "write"}

(* What a process remembers between two steps.                              *)
Command ==
  [pc : Step, op : Subcommand, event : Event, index : 1..MaxHooks + 1,
   by : Approval, parent : Proc \cup {Nobody}]

HooksTypeOK ==
  /\ hooks \in [Event -> HookLists]
  /\ message \in Message /\ draft \in Message
  /\ writer \in Proc \cup {Nobody}
  /\ cmd \in [Proc -> Command]

Off == [pc |-> "off", op |-> "ack", event |-> "before", index |-> 1, by |-> NoApproval, parent |-> Nobody]

Init ==
  /\ hooks \in [Event -> HookLists]
  /\ message \in {Fresh(kind) : kind \in Kind} /\ draft = message
  /\ writer = Nobody
  /\ cmd = [p \in Proc |-> Off]

At(p, pc) == cmd[p].pc = pc
Resting(p) == At(p, "off") \/ At(p, "ready")

(* A write statement of p does not have to wait.                            *)
MayWrite(p) == writer \in {p, Nobody}

View(p) == IF writer = p THEN draft ELSE message

Commit(m) == message' = m /\ draft' = m /\ writer' = Nobody

(* What a connection leaves behind that is closed now: nothing.             *)
Close(p) ==
  /\ writer' = IF writer = p THEN Nobody ELSE writer
  /\ draft' = IF writer = p THEN message ELSE draft
  /\ UNCHANGED message

(* An exception within a transaction ends a command line and its            *)
(* connection, but a server answers with an error and keeps what it has     *)
(* written, d.                                                              *)
Abandon(p, d) ==
  IF p \in Server THEN writer' = p /\ draft' = d /\ UNCHANGED message ELSE Close(p)

(* The command or request is over; a server waits for the next one.         *)
Over(p) == [cmd EXCEPT ![p] = IF p \in Server THEN [Off EXCEPT !.pc = "ready"] ELSE Off]

(* The commands that the hook of p has started are on their own now.        *)
Orphan(p, next) == [q \in Proc |-> IF next[q].parent = p THEN [next[q] EXCEPT !.parent = Nobody] ELSE next[q]]

(* On to hook i of the event, or past them all: to the operation, or out.   *)
Continue(p, c, i) ==
  IF i <= Len(hooks[c.event])
  THEN [cmd EXCEPT ![p] = [c EXCEPT !.pc = "invoke", !.index = i]]
  ELSE IF c.event = "before" THEN [cmd EXCEPT ![p] = [c EXCEPT !.pc = "check", !.index = 1]]
  ELSE Over(p)

(* complete has an event before it; ack and complete-replies have not.      *)
Begin(p, op, parent) ==
  LET c == [Off EXCEPT !.op = op, !.parent = parent]
  IN IF op = "complete" THEN Continue(p, c, 1) ELSE [cmd EXCEPT ![p] = [c EXCEPT !.pc = "check"]]

-----------------------------------------------------------------------------
(* Processes begin, connect and end. *)

(* A command line, or an MCP server.                                        *)
Launch(p) ==
  /\ At(p, "off")
  /\ \E op \in Subcommand : cmd' = [cmd EXCEPT ![p] = [Off EXCEPT !.pc = "connect", !.op = op]]
  /\ UNCHANGED <<hooks, message, draft, writer>>

(* A hook runs tmux-team.                                                   *)
Nest(p, q) ==
  /\ At(q, "hook")
  /\ At(p, "off") /\ p \notin Server
  /\ \E op \in Subcommand :
       cmd' = [cmd EXCEPT ![p] = [Off EXCEPT !.pc = "connect", !.op = op, !.parent = q]]
  /\ UNCHANGED <<hooks, message, draft, writer>>

(* Store.connect updates the roles and commits, which needs the lock.       *)
Connect(p) ==
  /\ At(p, "connect")
  /\ writer = Nobody
  /\ cmd' = IF p \in Server THEN Over(p) ELSE Begin(p, cmd[p].op, cmd[p].parent)
  /\ UNCHANGED <<hooks, message, draft, writer>>

Request(p) ==
  /\ At(p, "ready")
  /\ \E op \in Tool : cmd' = Begin(p, op, Nobody)
  /\ UNCHANGED <<hooks, message, draft, writer>>

(* sqlite3.OperationalError, "database is locked": neither main nor the MCP *)
(* server catches it.                                                       *)
BusyTimeout(p) ==
  /\ At(p, "connect") \/ At(p, "invoke") \/ At(p, "write")
  /\ ~MayWrite(p)
  /\ cmd' = [cmd EXCEPT ![p] = Off]
  /\ UNCHANGED <<hooks, message, draft, writer>>

(* Killed, or the MCP client went away.                                     *)
Kill(p) ==
  /\ ~At(p, "off")
  /\ cmd' = Orphan(p, [cmd EXCEPT ![p] = Off])
  /\ Close(p)
  /\ UNCHANGED hooks

(* The role claims another message, and the next commands are about that.   *)
(* Commands on the old one are let come to their end first.                 *)
NextMessage ==
  /\ message.state = "completed" /\ writer = Nobody
  /\ \A p \in Proc : Resting(p)
  /\ \E kind \in Kind : Commit(Fresh(kind))
  /\ UNCHANGED <<hooks, cmd>>

-----------------------------------------------------------------------------
(* HookRunner. *)

Slip_FailClosed(mode, event) == mode \in {"mutate", "decision"}

FailClosed(mode, event) == mode \in {"mutate", "decision"} \/ event = "before"

Denies(outcome, mode) == outcome = "deny" /\ mode = "decision"

(* An unsupported decision or patch counts as a failure.                    *)
Passes(outcome, mode) == outcome = "ok" \/ (outcome = "patch" /\ mode = "mutate")

Slip_Invoke(p) ==
  /\ At(p, "invoke")
  /\ MayWrite(p)
  /\ Commit(View(p))
  /\ cmd' = [cmd EXCEPT ![p].pc = "hook"]
  /\ UNCHANGED hooks

(* extension.invoked is inserted, and the subprocess starts.                *)
Invoke(p) ==
  /\ At(p, "invoke")
  /\ MayWrite(p)
  /\ writer' = p
  /\ cmd' = [cmd EXCEPT ![p].pc = "hook"]
  /\ UNCHANGED <<hooks, message, draft>>

(* The command with the hook that has just run in its approval.             *)
Approve(c, outcome) ==
  [c EXCEPT !.by = [passed |-> @.passed \cup {c.index},
                    patches |-> IF outcome = "patch" THEN @.patches \cup {c.index} ELSE @.patches]]

(* A hook that failed or denied ends the command if it fails closed, also   *)
(* after the operation, which is then done for good.                        *)
AfterHook(p, outcome) ==
  LET c == cmd[p]
      mode == hooks[c.event][c.index]
  IN IF Passes(outcome, mode)
     THEN Continue(p, IF c.event = "before" THEN Approve(c, outcome) ELSE c, c.index + 1)
     ELSE IF Denies(outcome, mode) \/ FailClosed(mode, c.event)
     THEN Over(p)
     ELSE Continue(p, c, c.index + 1)

(* The outcome is inserted and committed, with all the connection has open. *)
Conclude(p, outcome) ==
  /\ cmd' = Orphan(p, AfterHook(p, outcome))
  /\ Commit(View(p))
  /\ UNCHANGED hooks

Slip_HookReturns(p) ==
  /\ At(p, "hook")
  /\ \A q \in Proc : cmd[q].parent # p
  /\ \/ \E outcome \in Outcome : Conclude(p, outcome)
     \/ cmd' = AfterHook(p, "failure") /\ UNCHANGED <<hooks, message, draft, writer>>

(* A hook that runs tmux-team waits for it.                                 *)
HookReturns(p) ==
  /\ At(p, "hook")
  /\ \A q \in Proc : cmd[q].parent # p
  /\ \E outcome \in Outcome : Conclude(p, outcome)

Slip_HookTimesOut(p) ==
  /\ At(p, "hook")
  /\ cmd[p].event = "before"
  /\ Conclude(p, "failure")

(* subprocess.run kills the hook; what the hook has started lives on.       *)
HookTimesOut(p) ==
  /\ At(p, "hook")
  /\ Conclude(p, "failure")

(* record_event has inserted extension.invoked, or the outcome, but cannot  *)
(* write events.jsonl.                                                      *)
RecordFails(p) ==
  /\ At(p, "hook") \/ (At(p, "invoke") /\ MayWrite(p))
  /\ cmd' = Orphan(p, Over(p))
  /\ Abandon(p, View(p))
  /\ UNCHANGED hooks

-----------------------------------------------------------------------------
(* ack_message, complete_message and complete_completion_notices. *)

Held(m) == m.state \in {"claimed", "acknowledged"}

Slip_Selected(c, m) == Held(m)

(* The SELECT: complete-replies looks for replies only.                     *)
Selected(c, m) == Held(m) /\ (c.op = "complete-replies" => m.kind = "reply")

Check(p) ==
  /\ At(p, "check")
  /\ cmd' = IF Selected(cmd[p], View(p)) THEN [cmd EXCEPT ![p].pc = "write"] ELSE Over(p)
  /\ UNCHANGED <<hooks, message, draft, writer>>

Slip_Written(p) == [View(p) EXCEPT !.state = cmd[p].op, !.by = cmd[p].by]

Written(p) ==
  CASE cmd[p].op = "ack"      -> [View(p) EXCEPT !.state = "acknowledged"]
    [] cmd[p].op = "complete" -> [View(p) EXCEPT !.state = "completed", !.by = cmd[p].by]
    [] OTHER                  -> [View(p) EXCEPT !.state = "completed", !.by = NoApproval]

(* The UPDATE, its event and the commit; then the hooks after it, of which  *)
(* complete-replies has none.                                               *)
WriteCommits(p) ==
  /\ Held(View(p))
  /\ Commit(Written(p))
  /\ cmd' = IF cmd[p].op = "complete-replies"
            THEN Over(p)
            ELSE Continue(p, [cmd[p] EXCEPT !.event = "after", !.by = NoApproval], 1)

(* The UPDATE finds the message completed by somebody else, which is an     *)
(* exception but in complete-replies, or events.jsonl cannot be written     *)
(* after it.                                                                *)
WriteFails(p) ==
  /\ cmd' = Over(p)
  /\ Abandon(p, IF Held(View(p)) THEN Written(p) ELSE View(p))

Write(p) ==
  /\ At(p, "write")
  /\ MayWrite(p)
  /\ WriteCommits(p) \/ WriteFails(p)
  /\ UNCHANGED hooks

-----------------------------------------------------------------------------

(* What a process does by itself, without waiting for a hook to return.     *)
Proceed(p) ==
  Connect(p) \/ BusyTimeout(p) \/ Invoke(p) \/ HookTimesOut(p) \/ Check(p) \/ Write(p)

Next ==
  \/ NextMessage
  \/ \E p \in Proc :
       \/ Launch(p) \/ Request(p) \/ Proceed(p) \/ HookReturns(p) \/ RecordFails(p) \/ Kill(p)
       \/ \E q \in Proc : Nest(p, q)

(* Every wait has a timeout: the hook's or that of the lock.                *)
Fairness == \A p \in Proc : WF_vars(Proceed(p))

Spec == Init /\ [][Next]_vars /\ Fairness

-----------------------------------------------------------------------------
(* Properties. *)

(* If m is completed, the hooks before that have let it through and         *)
(* patched it, or m is a reply and none of them was asked.                  *)
Approved(m) ==
  m.state = "completed" =>
    /\ m.by.passed = DOMAIN hooks["before"] \/ (m.kind = "reply" /\ m.by = NoApproval)
    /\ \A i \in m.by.patches : hooks["before"][i] = "mutate"

(* Fail-closed: work that is committed as completed was let through by      *)
(* every message.before_complete hook, observers included (fail_closed),    *)
(* and is patched by hooks of mode mutate only.  It holds across lost       *)
(* races, hooks that are killed, and work a server commits with a later     *)
(* request.  Replies may go past the hooks, all of them and unpatched, in   *)
(* inbox complete-replies; that command closes no work.                     *)
CompletionApproved == Approved(message)

(* run_hook commits on every way out: a command line has a write            *)
(* transaction open while one of its hooks runs and at no other step, so    *)
(* that others wait for it no longer than a timeout_ms.  Only an MCP server *)
(* can keep the lock while it does nothing.                                 *)
LockOnlyForHooks == writer \in Server \cup {Nobody} \/ At(writer, "hook")

(* While a hook decides nobody else writes: neither another process nor a   *)
(* tmux-team command that the hook itself has started.                      *)
NobodyWritesUnderHook ==
  [][\A p \in Proc : At(p, "hook") /\ At(p, "hook")' => message' = message /\ writer' = p]_vars

(* A hook that waits for a command which waits for the lock its invocation  *)
(* holds, or for a server that keeps the lock, stops nobody for ever: every *)
(* command and every request ends.                                          *)
CommandsEnd == \A p \in Proc : ~Resting(p) ~> Resting(p)

=============================================================================
