------------------------------- MODULE ToolGate -------------------------------
(***************************************************************************)
(* SdkToolGate: the hooks around every tool call of a Run                    *)
(* (runtime/sdk_tool_gate.py) and the policy engine they ask                 *)
(* (policy/rules.py).  The calls of one turn and of its subagents run at     *)
(* once and share the trust of the context, the files the Run has created    *)
(* and the quota of the tenant; every hook suspends at the event log, the    *)
(* approval and the ledger.  The approval itself is RunApproval's.           *)
(***************************************************************************)
EXTENDS Naturals, FiniteSets

CONSTANTS Calls,         \* bound: tool calls of the Run, numbered as they are made
          ToolRequest,       \* what a call may ask for: records [tool, file, command, declared]
          File, Input,   \* files of the workspace, those staged for the Run
          Isolated,      \* the sandbox is isolated from the worker's host
          MaxSubagents,  \* limit of CONCURRENT_SUBAGENTS
          MaxMcp         \* limit of MCP_REQUESTS

VARIABLES calls,         \* request, progress and the trust it is judged by
          trust,         \* current_context_trust: 0 safe, 1 sensitive, 2 untrusted
          pending,       \* pending_result_trust
          exists,        \* files of the workspace
          first,         \* _initial_exists: what the first look at a file found
          generated,     \* _generated
          writes,        \* _pending_writes: calls
          hooks,         \* hooks that still run after a call
          subagents,     \* reservations of CONCURRENT_SUBAGENTS
          requests       \* MCP_REQUESTS consumed

gateVars == <<calls, trust, pending, exists, first, generated, writes, hooks, subagents, requests>>

Call == 1 .. Calls
NoRequest == [tool |-> "none", file |-> "none", command |-> "none", declared |-> FALSE]

Idle == [pc |-> "idle", request |-> NoRequest, trust |-> 0, seen |-> 0, asked |-> FALSE]
Refused == [Idle EXCEPT !.pc = "denied"]

GateInit ==
  /\ calls = [c \in Call |-> Idle]
  /\ trust = 0 /\ pending = [c \in Call |-> 0]
  /\ exists \in {Input, File} /\ first = [f \in File |-> "unseen"]
  /\ generated = {} /\ writes = {}
  /\ hooks = [c \in Call |-> {}] /\ subagents = {} /\ requests = 0

RequestOf(c) == calls[c].request
Moves(c, pc) == calls' = [calls EXCEPT ![c].pc = pc]

-----------------------------------------------------------------------------
(* The policy engine: of the rules that match, the one with the highest     *)
(* priority, then the most specific, then the strictest                     *)
Rule(tool, decision) == [tool |-> tool, trust |-> 9, isolated |-> 9, command |-> "any",
                         decision |-> decision, priority |-> 0]

MemoryRule(trusted, decision) == [tool |-> "propose_memory", trust |-> trusted, isolated |-> 9,
                                  command |-> "any", decision |-> decision, priority |-> 100]
RemoveRule == [tool |-> "Bash", trust |-> 9, isolated |-> 0, command |-> "rm",
               decision |-> "deny", priority |-> 0]

DefaultPolicyRules ==
  {Rule(t, "allow") : t \in {"Read", "Task", "Write", "Edit", "propose_memory", "tavily_search"}}
  \cup {Rule("Bash", "ask"), RemoveRule, MemoryRule(2, "deny"), MemoryRule(1, "ask")}

Matches(rule, request, t) ==
  /\ rule.tool = request.tool
  /\ rule.trust \in {9, t}
  /\ rule.isolated \in {9, IF Isolated THEN 1 ELSE 0}
  /\ rule.command \in {"any", request.command}

Specificity(rule) == Cardinality({f \in {"trust", "isolated"} : rule[f] # 9})
                       + IF rule.command = "any" THEN 1 ELSE 2
DecisionPrecedence == [allow |-> 0, ask |-> 1, deny |-> 2]
Weight(rule) == 100 * rule.priority + 10 * Specificity(rule) + DecisionPrecedence[rule.decision]

Evaluate(request, t) ==
  LET matches == {r \in DefaultPolicyRules : Matches(r, request, t)}
  IN  IF matches = {} THEN "implicit-deny"
      ELSE (CHOOSE r \in matches : \A q \in matches : Weight(q) <= Weight(r)).decision

(* sandboxed_bash_is_low_risk: inspection, or a script the Run has written  *)
LowRisk(request) ==
  \/ request.command = "inspect"
  \/ request.command = "script" /\ request.file \in generated

IsMcp(request) == request.tool \in {"propose_memory", "tavily_search", "lookup", "python"}

(* The decision about a call: the file capability, the policy, and what     *)
(* replaces its answer for low-risk commands and declared tools             *)
Decision(request, t) ==
  LET policy == Evaluate(request, t)
  IN  IF request.tool = "Task" /\ ~request.declared THEN "deny"
      ELSE IF request.tool \in {"Write", "Edit"} /\ request.file \notin File THEN "deny"
      ELSE IF request.tool \in {"Write", "Edit"} /\ request.file \in generated THEN "allow"
      ELSE IF request.tool = "Bash" /\ policy = "ask" /\ LowRisk(request) THEN "allow"
      ELSE IF policy = "implicit-deny"
             THEN IF IsMcp(request) /\ request.declared /\ (request.tool = "python" => Isolated)
                  THEN "allow" ELSE "deny"
      ELSE policy

-----------------------------------------------------------------------------
(* What a tool's result makes of the context, by the tool catalog           *)
ResultTrust(request) ==
  IF request.tool = "tavily_search" THEN 2 ELSE IF request.tool = "lookup" THEN 1 ELSE 0

Highest(S) == IF S = {} THEN 0 ELSE CHOOSE n \in S : \A k \in S : k <= n

(* pre_tool_use up to the append of tool.request; seen is what results the  *)
(* agent had received by then, all its hooks run                            *)
PreToolUse(c, request) ==
  /\ calls[c].pc = "idle" /\ \A d \in 1 .. c - 1 : calls[d].pc # "idle"
  /\ calls' = [calls EXCEPT ![c] =
       [pc |-> "requested", request |-> request, trust |-> trust, asked |-> FALSE,
        seen |-> Highest({ResultTrust(RequestOf(d)) : d \in {e \in Call : calls[e].pc = "done"}})]]
  /\ pending' = [pending EXCEPT ![c] = ResultTrust(request)]
  /\ UNCHANGED <<trust, exists, first, generated, writes, hooks, subagents, requests>>

(* observe, before the policy is asked                                      *)
Observed(request) ==
  IF request.tool \in {"Write", "Edit"} /\ request.file \in File
    THEN [first EXCEPT ![request.file] =
            IF @ # "unseen" THEN @ ELSE IF request.file \in exists THEN "there" ELSE "missing"]
    ELSE first

(* Mutant of NoteAuthorizedWrite: the first look at the file is forgotten.  *)
NoteAuthorizedWriteAny(c) ==
  writes' = writes \cup IF RequestOf(c).tool = "Write" /\ RequestOf(c).file \notin Input
                         THEN {c} ELSE {}

NoteAuthorizedWrite(c) ==
  LET f == RequestOf(c).file
  IN  writes' = IF RequestOf(c).tool = "Write" /\ f \notin Input /\ first'[f] = "missing"
                THEN writes \cup {c} ELSE writes

(* After the decision: the quota is asked for MCP calls and delegations.    *)
Proceeds(c) == NoteAuthorizedWrite(c)
               /\ Moves(c, IF IsMcp(RequestOf(c)) \/ RequestOf(c).tool = "Task"
                           THEN "quota" ELSE "running")
               /\ UNCHANGED pending
Denied(c) == /\ calls' = [calls EXCEPT ![c] = Refused] /\ pending' = [pending EXCEPT ![c] = 0]
             /\ UNCHANGED writes

Authorize(c) ==
  LET decision == Decision(RequestOf(c), calls[c].trust)
  IN  /\ calls[c].pc = "requested" /\ first' = Observed(RequestOf(c))
      /\ \/ decision = "deny" /\ Denied(c)
         \/ decision = "allow" /\ Proceeds(c)
         \/ /\ decision = "ask" /\ UNCHANGED <<pending, writes>>
            /\ calls' = [calls EXCEPT ![c].pc = "asked", ![c].asked = TRUE]
      /\ UNCHANGED <<trust, exists, generated, hooks, subagents, requests>>

(* wait_for_decision returns: approved, or refused, expired, cancelled      *)
Decided(c) ==
  /\ calls[c].pc = "asked"
  /\ UNCHANGED <<trust, exists, first, generated, hooks, subagents, requests>>
  /\ Proceeds(c) \/ Denied(c)

(* consume or reserve, then tool.allowed                                    *)
Reserve(c) ==
  /\ calls[c].pc = "quota" /\ UNCHANGED <<trust, exists, first, generated, hooks>>
  /\ \/ /\ IsMcp(RequestOf(c)) /\ requests < MaxMcp
        /\ requests' = requests + 1 /\ Moves(c, "running")
        /\ UNCHANGED <<subagents, pending, writes>>
     \/ /\ RequestOf(c).tool = "Task" /\ Cardinality(subagents) < MaxSubagents
        /\ subagents' = subagents \cup {c} /\ Moves(c, "running")
        /\ UNCHANGED <<requests, pending, writes>>
     \/ /\ IF IsMcp(RequestOf(c)) THEN requests = MaxMcp ELSE Cardinality(subagents) = MaxSubagents
        /\ Denied(c) /\ UNCHANGED <<subagents, requests>>

-----------------------------------------------------------------------------
(* The tool (external): a Write creates its file, a command any file.       *)
Effects(request) ==
  IF request.tool = "Write" THEN {exists \cup {request.file}}
  ELSE IF request.tool = "Bash" /\ request.command \in {"script", "other"}
    THEN {exists \cup {request.file}, exists \ {request.file}}
  ELSE {exists}

HooksOf(request) == {"trust"} \cup (IF request.tool = "Write" THEN {"file"} ELSE {})
                              \cup (IF request.tool = "Task" THEN {"release"} ELSE {})

Returns(c) ==
  /\ calls[c].pc = "running" /\ Moves(c, "succeeded")
  /\ exists' \in Effects(RequestOf(c))
  /\ hooks' = [hooks EXCEPT ![c] = HooksOf(RequestOf(c))]
  /\ UNCHANGED <<trust, pending, first, generated, writes, subagents, requests>>

Fails(c) ==
  /\ calls[c].pc = "running" /\ Moves(c, "failed")
  /\ hooks' = [hooks EXCEPT ![c] = HooksOf(RequestOf(c))]
  /\ UNCHANGED <<trust, pending, exists, first, generated, writes, subagents, requests>>

(* The agent receives the result when the last hook has run.                *)
Ran(c, hook) ==
  /\ hook \in hooks[c] /\ hooks' = [hooks EXCEPT ![c] = @ \ {hook}]
  /\ calls' = IF hooks[c] # {hook} THEN calls
              ELSE [calls EXCEPT ![c] = IF @.pc = "failed" THEN Refused
                                        ELSE [Idle EXCEPT !.pc = "done", !.request = RequestOf(c)]]

(* note_success, note_failure                                               *)
PostWrite(c) ==
  /\ Ran(c, "file") /\ writes' = writes \ {c}
  /\ generated' = generated \cup
                    IF c \in writes /\ calls[c].pc = "succeeded" THEN {RequestOf(c).file} ELSE {}
  /\ UNCHANGED <<trust, pending, exists, first, subagents, requests>>

ReleaseDelegation(c) ==
  /\ Ran(c, "release") /\ subagents' = subagents \ {c}
  /\ UNCHANGED <<trust, pending, exists, first, generated, writes, requests>>

Raised(c) == IF calls[c].pc = "succeeded" /\ pending[c] > trust THEN pending[c] ELSE trust

(* trace_tool_success, trace_tool_failure                                   *)
TraceTool(c) ==
  /\ Ran(c, "trust") /\ trust' = Raised(c) /\ pending' = [pending EXCEPT ![c] = 0]
  /\ UNCHANGED <<exists, first, generated, writes, subagents, requests>>

GateNext ==
  \E c \in Call :
    \/ \E request \in ToolRequest : PreToolUse(c, request)
    \/ Authorize(c) \/ Decided(c) \/ Reserve(c) \/ Returns(c) \/ Fails(c)
    \/ PostWrite(c) \/ ReleaseDelegation(c) \/ TraceTool(c)

GateSpec == GateInit /\ [][GateNext]_gateVars

-----------------------------------------------------------------------------
Allowed(c) == calls[c].pc \in {"quota", "running", "succeeded"}

(* policy/rules.py, untrusted-memory-deny and sensitive-memory-review: once *)
(* the agent has received an untrusted result it stores no memory, and      *)
(* after a sensitive one only what a person approved, although calls and    *)
(* their hooks overlap and a result may arrive while a call is judged.      *)
MemoryFromTrustedContext ==
  \A c \in Call :
    RequestOf(c).tool = "propose_memory" /\ Allowed(c) =>
        calls[c].seen = 0 \/ (calls[c].seen = 1 /\ calls[c].asked)

(* A file that may be edited and run without a decision was missing when    *)
(* the Run first looked at it, is no input, and a Write of the Run that was *)
(* allowed has made it.                                                     *)
OwnFilesOnly ==
  \A f \in generated :
    /\ f \notin Input /\ first[f] = "missing"
    /\ \E c \in Call : /\ RequestOf(c).tool = "Write" /\ RequestOf(c).file = f
                       /\ calls[c].pc \in {"succeeded", "done"}
===============================================================================
