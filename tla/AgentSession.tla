---------------------------- MODULE AgentSession ----------------------------
(***************************************************************************)
(* The agent's conversation: agent_send_message of the desktop app clones  *)
(* AppState.conversation, drives the provider/tool loop of AgentSession    *)
(* (crates/agent/src/session.rs) on the clone, and writes the whole of it  *)
(* back; agent_reset, select_project and delete_project clear what is      *)
(* stored, and tools of a turn run in whatever project is selected then.   *)
(* None of these commands waits for another.                               *)
(*                                                                         *)
(* A turn is one invocation of agent_send_message; the backend accepts a   *)
(* second while one is in flight (the UI's busy flag is lost on a reload). *)
(* A tool call is named by its turn and its number in it.                  *)
(***************************************************************************)
EXTENDS Integers, Sequences

CONSTANTS
  Turns,          \* invocations of agent_send_message
  Projects,
  NoProject,      \* nothing selected
  Commands,       \* bound: commands of the left rail side by side
  MaxIterations,  \* MAX_TURN_ITERATIONS
  MaxCalls,       \* bound: tool calls in one provider stream
  MaxSwitches     \* bound: times the selected project is left or deleted

ASSUME SessionAssumption ==
  /\ NoProject \notin Projects
  /\ MaxIterations \in Nat \ {0} /\ MaxCalls \in Nat /\ MaxSwitches \in Nat

VARIABLES
  existing,      \* project directories
  selected,      \* AppState.selected_project
  conversation,  \* AppState.conversation
  rail,          \* each command of the left rail: its project, and where it is
  pc,            \* where a turn is
  messages,      \* AgentSession.messages of a turn
  iteration,     \* provider calls the turn has completed
  pending,       \* tool calls still to dispatch
  blocks,        \* tool_result blocks accumulated
  ran,           \* history: for each call dispatched, the era it ran in
  era,           \* history: times select_project left a project, or
                 \* delete_project deleted the selected one
  crossed        \* history: turns in flight at the last of these

railvars == <<existing, selected, rail, era, crossed>>
turnvars == <<pc, messages, iteration, pending, blocks, ran>>
vars == <<railvars, conversation, turnvars>>

Eras == 0..MaxSwitches
Ids == [turn : Turns, n : 1..(MaxIterations * MaxCalls)]
Message(kind, ids) == [kind |-> kind, ids |-> ids]
Kinds == {"user", "assistant", "results"}
Resting == [at |-> "idle", project |-> NoProject]
InFlight == {t \in Turns : pc[t] \notin {"new", "done"}}

IsConversation(ms) ==
  \A i \in DOMAIN ms : ms[i].kind \in Kinds /\ ms[i].ids \in Seq(Ids)

TypeOK ==
  /\ existing \subseteq Projects
  /\ selected \in Projects \cup {NoProject}
  /\ IsConversation(conversation)
  /\ rail \in [Commands -> {Resting} \cup [at : {"checked", "switched", "deleted"}, project : Projects]]
  /\ pc \in [Turns -> {"new", "stream", "dispatch", "persist", "done"}]
  /\ \A t \in Turns : IsConversation(messages[t])
  /\ iteration \in [Turns -> 0..MaxIterations]
  /\ pending \in [Turns -> Seq(Ids)] /\ blocks \in [Turns -> Seq(Ids)]
  /\ ran \in [Turns -> Seq(Eras)]
  /\ era \in Eras /\ crossed \subseteq Turns

Init ==
  /\ existing \in SUBSET Projects
  /\ selected = NoProject
  /\ conversation = <<>>
  /\ rail = [c \in Commands |-> Resting]
  /\ pc = [t \in Turns |-> "new"]
  /\ messages = [t \in Turns |-> <<>>]
  /\ iteration = [t \in Turns |-> 0]
  /\ pending = [t \in Turns |-> <<>>]
  /\ blocks = [t \in Turns |-> <<>>]
  /\ ran = [t \in Turns |-> <<>>]
  /\ era = 0 /\ crossed = {}

Goto(t, from, to) ==
  /\ pc[t] = from
  /\ pc' = [pc EXCEPT ![t] = to]

Push(t, m) == messages' = [messages EXCEPT ![t] = Append(@, m)]

---------------------------------------------------------------------------
(* agent_send_message and AgentSession::run                                *)

\* The stored conversation is cloned; send_user_message appends to the clone.
Send(t) ==
  /\ Goto(t, "new", "stream")
  /\ messages' = [messages EXCEPT ![t] = Append(conversation, Message("user", <<>>))]
  /\ UNCHANGED <<railvars, conversation, iteration, pending, blocks, ran>>

\* A mutated form: one iteration too many.
MayIterateOnceMore(t) == iteration[t] <= MaxIterations

MayIterate(t) == iteration[t] < MaxIterations

\* What the provider is sent: the system prompt and the conversation,
Outgoing(ms) == <<Message("system", <<>>)>> \o ms

\* of which the adapter lifts the system prompt out of the messages.
Wire(out) ==
  LET converted[n \in 0..Len(out)] ==
        IF n = 0 THEN <<>>
        ELSE IF out[n].kind = "system" THEN converted[n - 1] ELSE Append(converted[n - 1], out[n])
  IN converted[Len(out)]

\* provider.stream() is refused: no key, no connection, an HTTP error with a body.
StreamFails(t) ==
  /\ MayIterate(t)
  /\ Goto(t, "stream", "persist")
  /\ UNCHANGED <<railvars, conversation, messages, iteration, pending, blocks, ran>>

\* A body cut in the middle of a character is a panic: the turn is over, and
\* nothing of it stored.  (A release build aborts; then there is no next turn.)
StreamPanics(t) ==
  /\ MayIterate(t)
  /\ Goto(t, "stream", "done")
  /\ UNCHANGED <<railvars, conversation, messages, iteration, pending, blocks, ran>>

\* The ids of the next n calls of turn t.
NextIds(t, n) == [i \in 1..n |-> [turn |-> t, n |-> Len(ran[t]) + i]]

\* The stream ends, by its stop event, an error event or end of data: the
\* assistant turn is appended if it holds text or tool calls.
Streamed(t, text, n) ==
  /\ MayIterate(t)
  /\ Goto(t, "stream", IF n = 0 THEN "persist" ELSE "dispatch")
  /\ IF text \/ n > 0 THEN Push(t, Message("assistant", NextIds(t, n))) ELSE UNCHANGED messages
  /\ pending' = [pending EXCEPT ![t] = NextIds(t, n)]
  /\ blocks' = [blocks EXCEPT ![t] = <<>>]
  /\ UNCHANGED <<railvars, conversation, iteration, ran>>

\* A mutated form: a tool that fails leaves no tool_result block.
RunsOrFails(t) ==
  /\ pc[t] = "dispatch" /\ pending[t] # <<>>
  /\ pending' = [pending EXCEPT ![t] = Tail(@)]
  /\ ran' = [ran EXCEPT ![t] = Append(@, era)]
  /\ \E ok \in BOOLEAN :
       blocks' = [blocks EXCEPT ![t] = IF ok THEN Append(@, Head(pending[t])) ELSE @]
  /\ UNCHANGED <<pc, messages, iteration, conversation>>

\* The next call runs, and gets its tool_result block, an error one or not.
Runs(t) ==
  /\ pc[t] = "dispatch" /\ pending[t] # <<>>
  /\ pending' = [pending EXCEPT ![t] = Tail(@)]
  /\ ran' = [ran EXCEPT ![t] = Append(@, era)]
  /\ blocks' = [blocks EXCEPT ![t] = Append(@, Head(pending[t]))]
  /\ UNCHANGED <<pc, messages, iteration, conversation>>

Dispatch(t) == Runs(t) /\ UNCHANGED railvars

\* create_project, the tool: the new project is selected at once, and the
\* conversation goes on in it.
DispatchCreateProject(t, p) ==
  /\ Runs(t)
  /\ p \notin existing
  /\ existing' = existing \cup {p}
  /\ selected' = p
  /\ UNCHANGED <<rail, era, crossed>>

\* Every call has run: the results go into one user message.
Dispatched(t) ==
  /\ pending[t] = <<>>
  /\ Goto(t, "dispatch", "stream")
  /\ Push(t, Message("results", blocks[t]))
  /\ iteration' = [iteration EXCEPT ![t] = @ + 1]
  /\ UNCHANGED <<railvars, conversation, pending, blocks, ran>>

LoopLimitExceeded(t) ==
  /\ ~MayIterate(t)
  /\ Goto(t, "stream", "persist")
  /\ UNCHANGED <<railvars, conversation, messages, iteration, pending, blocks, ran>>

\* Even after an error, the session's messages replace what is stored.
Persist(t) ==
  /\ Goto(t, "persist", "done")
  /\ conversation' = messages[t]
  /\ UNCHANGED <<railvars, messages, iteration, pending, blocks, ran>>

---------------------------------------------------------------------------
(* agent_reset, and the commands of the left rail                          *)

AgentReset ==
  /\ conversation # <<>>
  /\ conversation' = <<>>
  /\ UNCHANGED <<railvars, turnvars>>

CreateProject(p) ==
  /\ p \notin existing
  /\ existing' = existing \cup {p}
  /\ UNCHANGED <<selected, rail, era, crossed, conversation, turnvars>>

RailAt(c, at, p) == rail' = [rail EXCEPT ![c] = [at |-> at, project |-> p]]
RailEnds(c) == rail' = [rail EXCEPT ![c] = Resting]

\* History: the selected project is left.
NewEra ==
  /\ era < MaxSwitches
  /\ era' = era + 1
  /\ crossed' = InFlight

\* select_project: the project is looked up, then the selection is set under
\* its lock, then the conversation cleared under its own.
SelectChecks(c, p) ==
  /\ rail[c].at = "idle" /\ p \in existing
  /\ RailAt(c, "checked", p)
  /\ UNCHANGED <<existing, selected, era, crossed, conversation, turnvars>>

\* A mutated form: the old selection is compared after it was overwritten.
SwitchingAwayLate(p) == FALSE

SwitchingAway(p) == selected \notin {p, NoProject}

SelectSets(c) ==
  LET p == rail[c].project
  IN /\ rail[c].at = "checked"
     /\ selected' = p
     /\ IF SwitchingAway(p) THEN RailAt(c, "switched", p) ELSE RailEnds(c)
     /\ IF selected \in {p, NoProject} THEN UNCHANGED <<era, crossed>> ELSE NewEra
     /\ UNCHANGED <<existing, conversation, turnvars>>

SelectClears(c) ==
  /\ rail[c].at = "switched"
  /\ conversation' = <<>>
  /\ crossed' = crossed \cup InFlight
  /\ RailEnds(c)
  /\ UNCHANGED <<existing, selected, era, turnvars>>

\* delete_project: the directory goes, then the selection if it was this one,
\* and the conversation under the same lock.
DeleteRemoves(c, p) ==
  /\ rail[c].at = "idle" /\ p \in existing
  /\ existing' = existing \ {p}
  /\ RailAt(c, "deleted", p)
  /\ UNCHANGED <<selected, era, crossed, conversation, turnvars>>

DeleteDeselects(c) ==
  /\ rail[c].at = "deleted"
  /\ RailEnds(c)
  /\ IF selected = rail[c].project
     THEN selected' = NoProject /\ conversation' = <<>> /\ NewEra
     ELSE UNCHANGED <<selected, era, crossed, conversation>>
  /\ UNCHANGED <<existing, turnvars>>

---------------------------------------------------------------------------
TurnStep(t) ==
  \/ Send(t) \/ StreamFails(t) \/ StreamPanics(t) \/ (\E text \in BOOLEAN, n \in 0..MaxCalls : Streamed(t, text, n))
  \/ Dispatch(t) \/ (\E p \in Projects : DispatchCreateProject(t, p)) \/ Dispatched(t)
  \/ LoopLimitExceeded(t) \/ Persist(t)

RailStep ==
  \/ AgentReset
  \/ \E p \in Projects : CreateProject(p)
  \/ \E c \in Commands, p \in Projects : SelectChecks(c, p) \/ DeleteRemoves(c, p)
  \/ \E c \in Commands : SelectSets(c) \/ SelectClears(c) \/ DeleteDeselects(c)

Next == RailStep \/ \E t \in Turns : TurnStep(t)

Spec == Init /\ [][Next]_vars

---------------------------------------------------------------------------
(* Properties                                                              *)

\* An assistant message with tool_use blocks is followed by the tool_results
\* of exactly those calls, in order, and results follow nothing else.
WellPaired(ms) ==
  /\ \A i \in DOMAIN ms : ms[i].kind = "assistant" /\ ms[i].ids # <<>> =>
       i < Len(ms) /\ ms[i + 1] = Message("results", ms[i].ids)
  /\ \A i \in DOMAIN ms : ms[i].kind = "results" =>
       i > 1 /\ ms[i - 1] = Message("assistant", ms[i].ids)

\* What the provider accepts for a conversation.
Acceptable(ms) == ms # <<>> /\ ms[1] = Message("user", <<>>) /\ WellPaired(ms)

\* Whenever a turn is about to ask the provider or is over, its messages, and at
\* any time what is stored for the next turn, are well paired: no error path,
\* clear or overwrite by another turn splits a tool_use from its result.
HistoriesArePaired ==
  /\ \A t \in Turns : pc[t] \in {"stream", "persist"} => Acceptable(messages[t])
  /\ WellPaired(conversation)

\* And so is what the adapter makes of them for the wire: the provider refuses
\* anything else, and would refuse the conversation for ever.
RequestsArePaired ==
  /\ HistoriesArePaired
  /\ \A t \in Turns : pc[t] = "stream" => Acceptable(Wire(Outgoing(messages[t])))

\* A result in ms was produced before the selected project was last left.
Bled(ms) ==
  \E i \in DOMAIN ms : \E k \in DOMAIN ms[i].ids :
    ms[i].kind = "results" /\ ran[ms[i].ids[k].turn][ms[i].ids[k].n] # era

\* No command that switched has still to clear the conversation.
Cleared == \A c \in Commands : rail[c].at # "switched"

\* Once the commands have returned, results of an earlier project survive its
\* deselection only through a turn that was in flight across it.
BleedNeedsTurnInFlight ==
  Cleared /\ Bled(conversation) => crossed # {}

\* What select_project's comment says: switching starts fresh, so that tool_use
\* ids from one sandbox cannot bleed into another.
SwitchingStartsFresh ==
  Cleared /\ selected # NoProject => ~Bled(conversation)
=============================================================================
