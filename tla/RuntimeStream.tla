---------------------------- MODULE RuntimeStream -----------------------------
(***************************************************************************)
(* ClaudeSdkRuntime._execute turns the messages of the Claude SDK into the   *)
(* runtime events of a Run (runtime/claude_sdk.py, runtime/                  *)
(* message_mapper.py), SubagentRuntimeGovernor watches the subagents among   *)
(* them (runtime/subagent_governance.py), and the orchestrator writes the    *)
(* events to the log and closes what an exception left open.                 *)
(*                                                                          *)
(* The SDK is external.  A turn of the lead agent is streamed in fragments   *)
(* and followed by the whole message, or comes as a whole message only; a    *)
(* subagent starts, may report its end twice (TaskUpdated, TaskNotification) *)
(* and may not report it at all.                                             *)
(***************************************************************************)
EXTENDS Naturals, Sequences, FiniteSets

CONSTANTS Subagent,      \* tasks that belong to a Task or Agent tool call
          MaxTasks, MaxConcurrent,   \* maxSubagentTasks, maxConcurrentSubagents
          MaxFragments,  \* bound: fragments of text
          MaxResults     \* bound: result messages

VARIABLES streams,       \* the provider streams fragments, or whole messages
          background,    \* the Agent has subagents that run while the lead goes on
          lead,          \* the turn: is it open, fragments of the present block
          said,          \* how many fragments the lead has said
          tasks,         \* what the SDK has reported of every task
          results,       \* how many result messages there were
          opened,        \* stream_message_open
          partial,       \* partial_text_seen
          buffer,        \* pending_text
          flushed,       \* first_text_delta_flushed
          aliases,       \* _tool_aliases: tool calls that delegate
          active,        \* _tasks
          begun,         \* _started_task_ids
          ending,        \* pending_task_terminals
          todo,          \* events of this message that are not yet yielded
          log,           \* text shown, brackets, starts and ends of subagents
          astray,        \* a subagent was heard in the middle of a text of the
                         \* lead, or after its end (history)
          phase          \* "streaming", "returned", "raised", "closed"

sdkVars == <<streams, background, lead, said, tasks, results>>
textVars == <<opened, partial, buffer, flushed>>
governorVars == <<aliases, active, begun, ending>>
streamVars == <<sdkVars, textVars, governorVars, todo, log, astray, phase>>

StreamInit ==
  /\ streams \in BOOLEAN /\ background \in BOOLEAN /\ astray = FALSE
  /\ lead = [open |-> FALSE, block |-> <<>>] /\ said = 0
  /\ tasks = [t \in Subagent |-> "none"] /\ results = 0
  /\ opened = FALSE /\ partial = FALSE /\ buffer = <<>> /\ flushed = FALSE
  /\ aliases = {} /\ active = {} /\ begun = {} /\ ending = {}
  /\ todo = <<>>
  /\ log = [text |-> <<>>, bracket |-> "closed", started |-> {}, ended |-> [t \in Subagent |-> 0]]
  /\ phase = "streaming"

-----------------------------------------------------------------------------
(* Runtime events *)
OpenMessage == [type |-> "start", text |-> <<>>, tasks |-> {}]
Completed == [type |-> "completed", text |-> <<>>, tasks |-> {}]
Delta(text) == [type |-> "delta", text |-> text, tasks |-> {}]
Began(t) == [type |-> "subagent.started", text |-> <<>>, tasks |-> {t}]
SubagentEnded(ts) == [type |-> "subagent.ended", text |-> <<>>, tasks |-> ts]
Hollow(event) == event.text = <<>> /\ event.tasks = {} /\ event.type \in {"delta", "subagent.ended"}
Some(event) == IF Hollow(event) THEN <<>> ELSE <<event>>
Flush == Some(Delta(buffer))

FailUnfinished(ts) == Some(SubagentEnded(ts))

(* The orchestrator appends the event to the log.                           *)
Logged(event) ==
  IF event.type = "start" THEN
    [log EXCEPT !.bracket = IF @ = "closed" THEN "open" ELSE "nested"]
  ELSE IF event.type = "completed" THEN
    [log EXCEPT !.bracket = IF @ = "open" THEN "closed" ELSE "unopened"]
  ELSE IF event.type = "delta" THEN
    [log EXCEPT !.text = @ \o event.text, !.bracket = IF @ = "open" THEN @ ELSE "outside"]
  ELSE IF event.type = "subagent.started" THEN
    [log EXCEPT !.started = @ \cup event.tasks]
  ELSE
    [log EXCEPT !.ended = [t \in Subagent |-> @[t] + IF t \in event.tasks THEN 1 ELSE 0]]

Yield ==
  /\ phase \in {"streaming", "returned"} /\ todo # <<>>
  /\ log' = Logged(Head(todo)) /\ todo' = Tail(todo)
  /\ UNCHANGED <<sdkVars, textVars, governorVars, astray, phase>>

(* A message is processed once the events of the last one were yielded.     *)
Hears(stray) ==
  /\ phase = "streaming" /\ todo = <<>> /\ astray' = (astray \/ stray)
  /\ UNCHANGED <<log, streams, background>>
Receives == Hears(FALSE)

(* The lead's turns and its subagents alternate, except in the background.  *)
LeadMaySpeak == background \/ \A t \in Subagent : tasks[t] \notin {"asked", "running"}
TasksMayRun == background \/ ~lead.open

-----------------------------------------------------------------------------
(* StreamEvent of the lead *)
MessageStart ==
  /\ Receives /\ streams /\ ~lead.open /\ said < MaxFragments /\ LeadMaySpeak
  /\ lead' = [open |-> TRUE, block |-> <<>>]
  /\ todo' = IF opened THEN <<>> ELSE <<OpenMessage>>
  /\ opened' = TRUE /\ flushed' = (flushed /\ opened)
  /\ UNCHANGED <<said, tasks, results, partial, buffer, governorVars, phase>>

(* The first text goes out at once; later text is kept until enough of it   *)
(* or the end of a sentence has come.                                       *)
TextDelta ==
  LET n == said + 1
      open == IF opened THEN <<>> ELSE <<OpenMessage>>
      first == ~(opened /\ flushed)
      text == Append(buffer, n)
  IN  /\ Receives /\ lead.open /\ n <= MaxFragments
      /\ said' = n /\ lead' = [lead EXCEPT !.block = Append(@, n)]
      /\ opened' = TRUE /\ partial' = TRUE /\ flushed' = TRUE
      /\ \/ first /\ todo' = open \o <<Delta(<<n>>)>> /\ UNCHANGED buffer
         \/ ~first /\ todo' = <<Delta(text)>> /\ buffer' = <<>>
         \/ ~first /\ todo' = <<>> /\ buffer' = text
      /\ UNCHANGED <<tasks, results, governorVars, phase>>

MessageStop ==
  /\ Receives /\ lead.open /\ lead.block = <<>>
  /\ lead' = [lead EXCEPT !.open = FALSE]
  /\ todo' = IF opened THEN Flush \o <<Completed>> ELSE <<>>
  /\ opened' = FALSE /\ buffer' = IF opened THEN <<>> ELSE buffer
  /\ UNCHANGED <<said, tasks, results, partial, flushed, governorVars, phase>>

Message(text) == IF text = <<>> THEN <<>> ELSE <<OpenMessage, Delta(text), Completed>>

(* Mutant of AssistantText: a whole message is shown although its text was  *)
(* streamed.                                                                *)
AssistantTextAgain(text, others) ==
  /\ todo' = Message(text) \o others
  /\ UNCHANGED <<opened, partial, buffer, flushed>>

(* AssistantMessage: text that was streamed is left out.  One of a subagent *)
(* goes the same way, with subagent.delta in place of message.delta.        *)
AssistantText(text, others) ==
  /\ IF partial
       THEN todo' = Flush \o others /\ buffer' = <<>>
       ELSE /\ todo' = Message(text) \o others
            /\ UNCHANGED buffer
  /\ partial' = FALSE /\ UNCHANGED <<opened, flushed>>

LeadText ==
  /\ Receives
  /\ \/ /\ lead.block # <<>> /\ UNCHANGED said
        /\ AssistantText(lead.block, <<>>)
     \/ /\ ~streams /\ said < MaxFragments /\ LeadMaySpeak
        /\ said' = said + 1 /\ AssistantText(<<said + 1>>, <<>>)
  /\ lead' = [lead EXCEPT !.block = <<>>]
  /\ UNCHANGED <<tasks, results, governorVars, phase>>

SubagentText(t) ==
  /\ Hears(lead.block # <<>>) /\ TasksMayRun /\ tasks[t] = "running"
  /\ AssistantText(<<>>, <<>>)
  /\ UNCHANGED <<lead, said, tasks, results, governorVars, phase>>

(* A Task or Agent tool call: _alias_from_tool_request                      *)
Delegate(t) ==
  /\ Receives /\ tasks[t] = "none" /\ lead.block = <<>> /\ (streams => lead.open)
  /\ tasks' = [tasks EXCEPT ![t] = "asked"] /\ aliases' = aliases \cup {t}
  /\ AssistantText(<<>>, <<>>)
  /\ UNCHANGED <<lead, said, results, active, begun, ending, phase>>

-----------------------------------------------------------------------------
(* process raises SubagentGovernanceError; what it had mapped is lost       *)
Raise == phase' = "raised" /\ todo' = <<>>
(* The tasks of ordinary tools are telemetry: only a delegation is governed. *)
Linked(t) == t \in aliases
Over == Cardinality(begun) >= MaxTasks
WasEnded(t) == t \in begun \ active

(* TaskStarted; a progress message of a task that never started is taken    *)
(* for its start, without an event of that name                             *)
TaskStarted(t) ==
  /\ Receives /\ TasksMayRun /\ tasks[t] = "asked" /\ Linked(t)
  /\ tasks' = [tasks EXCEPT ![t] = "running"]
  /\ IF Over THEN Raise /\ UNCHANGED <<active, begun>>
     ELSE /\ begun' = begun \cup {t}
          /\ IF Cardinality(active) + 1 > MaxConcurrent THEN Raise /\ UNCHANGED active
             ELSE active' = active \cup {t} /\ todo' = <<Began(t)>> /\ UNCHANGED phase
  /\ UNCHANGED <<lead, said, results, textVars, aliases, ending>>

TaskProgress(t) ==
  /\ Hears(WasEnded(t)) /\ TasksMayRun /\ tasks[t] \in {"asked", "running"} /\ Linked(t)
  /\ tasks' = [tasks EXCEPT ![t] = "running"]
  /\ \/ t \in active /\ UNCHANGED <<active, begun, todo, phase>>
     \/ Raise /\ UNCHANGED <<active, begun>>    \* over its budget or time, or over a limit
     \/ /\ t \notin active /\ ~Over /\ Cardinality(active) < MaxConcurrent
        /\ active' = active \cup {t} /\ begun' = begun \cup {t} /\ UNCHANGED <<todo, phase>>
  /\ UNCHANGED <<lead, said, results, textVars, aliases, ending>>

(* The end by TaskUpdated waits for the TaskNotification that has more.     *)
TaskUpdated(t) ==
  /\ Receives /\ tasks[t] \in {"running", "notified"}
  /\ tasks' = [tasks EXCEPT ![t] = IF @ = "running" THEN "updated" ELSE "over"]
  /\ ending' = ending \cup {t}
  /\ UNCHANGED <<lead, said, results, textVars, aliases, active, begun, todo, phase>>

TaskNotification(t) ==
  /\ tasks[t] \in {"running", "updated"}
  /\ \/ Raise /\ UNCHANGED <<active, begun>>
     \/ /\ t \in active \/ (~Over /\ Cardinality(active) < MaxConcurrent)
        /\ todo' = <<SubagentEnded({t})>>
        /\ active' = active \ {t} /\ begun' = begun \cup {t} /\ UNCHANGED phase

Notified(t) ==
  /\ Hears(WasEnded(t)) /\ TaskNotification(t)
  /\ tasks' = [tasks EXCEPT ![t] = IF @ = "running" THEN "notified" ELSE "over"]
  /\ ending' = ending \ {t}
  /\ UNCHANGED <<lead, said, results, textVars, aliases>>

(* ResultMessage: what waits is ended, then what is left (fail_unfinished); *)
(* an open message is closed.  Ending a task that is over its time raises.  *)
(* The orchestrator stops reading at a result it takes for the last one     *)
(* (terminal_runtime_result), whatever the provider sends later.            *)
Result ==
  /\ Receives /\ results < MaxResults /\ results' = results + 1
  /\ background \/ \A t \in Subagent : tasks[t] # "asked"
  /\ lead' = [open |-> FALSE, block |-> <<>>]
  /\ \/ /\ active # {} /\ Raise /\ UNCHANGED <<opened, buffer, active, ending>>
     \/ /\ todo' = (IF opened THEN Flush \o <<Completed>> ELSE <<>>)
                      \o FailUnfinished(active \ ending) \o Some(SubagentEnded(ending \cap active))
        /\ opened' = FALSE /\ buffer' = IF opened THEN <<>> ELSE buffer
        /\ active' = {} /\ ending' = {} /\ phase' \in {phase, "returned"}
  /\ tasks' = [t \in Subagent |-> IF tasks[t] # "none" /\ ~background THEN "over" ELSE tasks[t]]
  /\ UNCHANGED <<said, partial, flushed, aliases, begun>>

(* The stream of messages ends.                                             *)
StreamEnds ==
  /\ Receives
  /\ \/ /\ active # {} /\ Raise /\ UNCHANGED <<opened, buffer, active, ending>>
     \/ /\ todo' = Some(SubagentEnded(ending \cap active)) \o FailUnfinished(active \ ending)
                      \o (IF opened THEN Flush \o <<Completed>> ELSE <<>>)
        /\ opened' = FALSE /\ buffer' = IF opened THEN <<>> ELSE buffer
        /\ active' = {} /\ ending' = {} /\ phase' = "returned"
  /\ UNCHANGED <<lead, said, tasks, results, partial, flushed, aliases, begun>>

(* An error result, the timeout of the manifest, a cancellation or a broken *)
(* transport, also between two events of one message                        *)
StreamRaises ==
  /\ phase \in {"streaming", "returned"} /\ Raise
  /\ UNCHANGED <<sdkVars, textVars, governorVars, log, astray>>

(* _fail_active_subagents of the orchestrator, from the log                 *)
FailActiveSubagents ==
  /\ phase = "raised" /\ phase' = "closed"
  /\ log' = Logged(SubagentEnded({t \in log.started : log.ended[t] = 0}))
  /\ UNCHANGED <<sdkVars, textVars, governorVars, todo, astray>>

StreamNext ==
  \/ Yield \/ MessageStart \/ TextDelta \/ MessageStop \/ LeadText
  \/ \E t \in Subagent : \/ SubagentText(t) \/ Delegate(t) \/ TaskStarted(t) \/ TaskProgress(t)
                         \/ TaskUpdated(t) \/ Notified(t)
  \/ Result \/ StreamEnds \/ StreamRaises \/ FailActiveSubagents

StreamSpec == StreamInit /\ [][StreamNext]_streamVars

-----------------------------------------------------------------------------
StreamFinished == phase = "returned" /\ todo = <<>>

(* A user reads what the model said: nothing is held back when the stream   *)
(* ends; and, unless a subagent was heard out of its turn, each fragment is *)
(* shown once, in order and inside one message, although it comes streamed  *)
(* and as a whole.  Heard in the middle of a text, a subagent makes the     *)
(* runtime forget that the text was streamed (partial_text_seen), and the   *)
(* whole message repeats it.                                                *)
TextShownOnce ==
  /\ StreamFinished => \A n \in 1 .. said : \E i \in DOMAIN log.text : log.text[i] = n
  /\ ~astray => /\ log.bracket \in {"open", "closed"}
                /\ log.text = [i \in 1 .. Len(log.text) |-> i]
                /\ StreamFinished => Len(log.text) = said /\ log.bracket = "closed"

(* Every subagent whose start is in the log has an end there when the Run   *)
(* ends: by its own report, by the runtime or by the orchestrator after an  *)
(* exception; and no second one, unless it was heard after its end, as the  *)
(* governor takes up a task that a result message had ended.                *)
SubagentsEndOnce ==
  /\ StreamFinished \/ phase = "closed" => \A t \in log.started : log.ended[t] > 0
  /\ ~astray => \A t \in Subagent : log.ended[t] <= 1

(* Only subagents in the background are heard out of their turn.            *)
OnlyBackgroundStrays == astray => background
===============================================================================
