------------------------------- MODULE TodoStore -------------------------------
(***************************************************************************)
(* The todos table (store.py): a role's checklist for one inbox message.   *)
(* Each action is one transaction on a todo that the role owns; a todo's   *)
(* role is always the recipient of its message, so it needs no variable.   *)
(* Identifiers are never reused: the rows that `todo clear` deletes are    *)
(* kept here in the state "deleted".                                       *)
(*                                                                         *)
(* What add_todo reads of the message before it inserts is a step of the   *)
(* command, not of the transaction: see InboxCommands.                     *)
(***************************************************************************)
EXTENDS MessageStore

CONSTANTS
  Todo,       \* identifiers of the todos that may ever be created
  NoTodo,     \* superseded_by of a todo that has no replacement
  NoMessage   \* "no message": an empty message_id or related_to

ASSUME NoTodoAssumption == NoTodo \notin Todo
ASSUME NoMessageAssumption == NoMessage \notin Message

VARIABLES
  todoState,    \* todoState[t]: the state column, "none" before the INSERT
  todoMessage,  \* todoMessage[t]: the message it belongs to
  supersededBy  \* supersededBy[t]: its replacement

todoVars == <<todoState, todoMessage, supersededBy>>

TodoState == {"none", "open", "done", "superseded", "deleted"}

TodoTypeOK ==
  /\ todoState \in [Todo -> TodoState]
  /\ todoMessage \in [Todo -> Message \cup {NoMessage}]
  /\ supersededBy \in [Todo -> Todo \cup {NoTodo}]
  /\ \A t \in Todo : todoMessage[t] = NoMessage <=> todoState[t] = "none"

TodoInit ==
  /\ todoState = [t \in Todo |-> "none"]
  /\ todoMessage = [t \in Todo |-> NoMessage]
  /\ supersededBy = [t \in Todo |-> NoTodo]

OpenTodos(m) == {t \in Todo : todoState[t] = "open" /\ todoMessage[t] = m}

InsertTodo(t, m) ==
  /\ todoState[t] = "none"
  /\ todoState' = [todoState EXCEPT ![t] = "open"]
  /\ todoMessage' = [todoMessage EXCEPT ![t] = m]
  /\ UNCHANGED supersededBy

CompleteTodo(t) ==
  /\ todoState[t] \in {"open", "done"}
  /\ todoState' = [todoState EXCEPT ![t] = "done"]
  /\ UNCHANGED <<todoMessage, supersededBy>>

Slip_ReopenAny(t) ==
  /\ todoState[t] \in {"open", "done", "superseded"}
  /\ todoState' = [todoState EXCEPT ![t] = "open"]
  /\ UNCHANGED <<todoMessage, supersededBy>>

ReopenTodo(t) ==
  /\ todoState[t] \in {"open", "done"}
  /\ todoState' = [todoState EXCEPT ![t] = "open"]
  /\ UNCHANGED <<todoMessage, supersededBy>>

(* The old todo ends and its replacement begins in one transaction; a todo  *)
(* that stopped being open in the meantime rolls the replacement back.      *)
SupersedeTodo(t, replacement) ==
  /\ todoState[t] = "open"
  /\ todoState[replacement] = "none"
  /\ todoState' = [todoState EXCEPT ![t] = "superseded", ![replacement] = "open"]
  /\ todoMessage' = [todoMessage EXCEPT ![replacement] = todoMessage[t]]
  /\ supersededBy' = [supersededBy EXCEPT ![t] = replacement]

(* Every todo of the message goes, the finished and superseded ones too.    *)
ClearTodos(m) ==
  /\ todoState' = [t \in Todo |-> IF todoMessage[t] = m THEN "deleted" ELSE todoState[t]]
  /\ UNCHANGED <<todoMessage, supersededBy>>

-----------------------------------------------------------------------------
(* Properties. *)

(* "Superseded todos are terminal audit state": the audit trail never       *)
(* breaks.  A superseded todo has one replacement, recorded for the same    *)
(* message and still on record; no todo replaces two others; and only       *)
(* superseded (or since deleted) todos have a replacement (supersede_todo,  *)
(* reopen_todo, clear_todos).                                               *)
SupersedeChain ==
  /\ \A t \in Todo : todoState[t] = "superseded" =>
       /\ supersededBy[t] \in Todo \ {t}
       /\ todoMessage[supersededBy[t]] = todoMessage[t]
       /\ todoState[supersededBy[t]] \in {"open", "done", "superseded"}
  /\ \A t \in Todo : supersededBy[t] # NoTodo => todoState[t] \in {"superseded", "deleted"}
  /\ \A t, u \in Todo : supersededBy[t] # NoTodo /\ supersededBy[t] = supersededBy[u] => t = u

=============================================================================
