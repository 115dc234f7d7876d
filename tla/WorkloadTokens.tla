----------------------------- MODULE WorkloadTokens -----------------------------
(***************************************************************************)
(* The platform's own MCP servers, which run in the API process: memory      *)
(* (memory_bank/workload.py) and knowledge (knowledge/workload.py) for the   *)
(* CLI of a Run, and control-plane facts (platform_mcp) for a person.  A     *)
(* client has a token that lives five minutes and that nothing renews or     *)
(* revokes; the middleware verifies it and leaves the identity in a context  *)
(* variable, from which the tool takes it, while other requests are served.  *)
(***************************************************************************)
EXTENDS Naturals, FiniteSets

CONSTANTS CliRun,       \* Runs with a CLI in a remote sandbox
          PinsOf,       \* [CliRun -> the snapshots their sessions pinned]
          Operator,     \* people who ask for platform access
          Rpc,          \* bound: requests the API process serves, as they come
          MaxClients,   \* bound: clients that come for tokens
          TokenLife,    \* how long a token is valid
          MaxClock      \* bound: time

ASSUME TokenAssumption == TokenLife \in Nat /\ CliRun \cap Operator = {}

VARIABLES now,
          attempt,      \* the CLI of a Run: "none", "running", "loose", "ended"
          issuedTokens, \* tokens that clients hold
          lostRole,     \* when an operator lost the role, 0: has it
          rpc,          \* requests: [pc, server, token, at: verified, acts]
          context       \* the context variable, as each request sees it

workloadVars == <<now, attempt, issuedTokens, lostRole, rpc, context>>

Nobody == [by |-> "nobody", pins |-> {}]
NoToken == [server |-> "none", by |-> "nobody", pins |-> {}, role |-> FALSE, issued |-> 0]
NoRpc == [pc |-> "idle", server |-> "none", token |-> NoToken, at |-> 0, acts |-> Nobody]

WorkloadInit ==
  /\ now = 1 /\ attempt = [r \in CliRun |-> "none"] /\ issuedTokens = {}
  /\ lostRole = [u \in Operator |-> 0]
  /\ rpc = [q \in Rpc |-> NoRpc] /\ context = [q \in Rpc |-> Nobody]

-----------------------------------------------------------------------------
(* Tokens                                                                    *)

IssueMemoryToken(r) ==
  [server |-> "memory", by |-> r, pins |-> {}, role |-> FALSE, issued |-> now]

IssueKnowledgeToken(r) ==
  [server |-> "knowledge", by |-> r, pins |-> PinsOf[r], role |-> FALSE, issued |-> now]

IssuePlatformToken(u) ==
  [server |-> "platform", by |-> u, pins |-> {}, role |-> lostRole[u] = 0, issued |-> now]

MayCome(c) == Cardinality({t.by : t \in issuedTokens} \cup {c}) <= MaxClients

(* _options attaches the servers for one execution of the Run, the first or  *)
(* a retry; knowledge only if the session has pinned some.  The next CLI does *)
(* not have the tokens of the previous one.                                  *)
StartCli(r) ==
  /\ MayCome(r) /\ attempt[r] \in {"none", "ended"} /\ attempt' = [attempt EXCEPT ![r] = "running"]
  /\ issuedTokens' = {t \in issuedTokens : t.by # r} \cup {IssueMemoryToken(r)}
                 \cup (IF PinsOf[r] = {} THEN {} ELSE {IssueKnowledgeToken(r)})
  /\ UNCHANGED <<now, lostRole, rpc, context>>

(* The execution ends; where terminating the CLI timed out, it goes on.      *)
EndCli(r) ==
  /\ attempt[r] \in {"running", "loose"}
  /\ \E next \in {"loose", "ended"} : attempt' = [attempt EXCEPT ![r] = next]
  /\ UNCHANGED <<now, issuedTokens, lostRole, rpc, context>>

(* POST /v1/studio/platform-mcp/access, open to every role                   *)
PlatformAccess(u) ==
  /\ MayCome(u)
  /\ issuedTokens' = {t \in issuedTokens : t.by # u} \cup {IssuePlatformToken(u)}
  /\ UNCHANGED <<now, attempt, lostRole, rpc, context>>

LoseRole(u) ==
  /\ lostRole[u] = 0 /\ (\E t \in issuedTokens : t.by = u)
  /\ lostRole' = [lostRole EXCEPT ![u] = now]
  /\ UNCHANGED <<now, attempt, issuedTokens, rpc, context>>

TimeGoesOn ==
  /\ now < MaxClock /\ now' = now + 1
  /\ UNCHANGED <<attempt, issuedTokens, lostRole, rpc, context>>

-----------------------------------------------------------------------------
(* A request.  A client may send any token it holds to any server: each      *)
(* server has an audience and a purpose of its own.                          *)

Sends(t) == \A r \in CliRun : t.by = r => attempt[r] \in {"running", "loose"}

Unexpired(t) == now < t.issued + TokenLife
VerifyMemory(t) == t.server = "memory" /\ Unexpired(t)
VerifyKnowledge(t) == t.server = "knowledge" /\ Unexpired(t)
VerifyPlatform(t) == t.server = "platform" /\ Unexpired(t)

(* Mutant of SetContext: the identity is in a variable of the process.       *)
SetContextShared(q, identity) == context' = [p \in Rpc |-> identity]

(* _workload.set(...): seen by this request's task and those it starts       *)
SetContext(q, identity) == context' = [context EXCEPT ![q] = identity]

(* The middleware lets a request in, or answers 401.                         *)
Admits(q, server, t, verified) ==
  /\ rpc[q].pc = "idle" /\ Sends(t) /\ \A p \in Rpc : p < q => rpc[p].pc # "idle"
  /\ rpc' = [rpc EXCEPT ![q] = [NoRpc EXCEPT !.pc = IF verified THEN "inside" ELSE "refused",
                                             !.server = server, !.token = t, !.at = now]]
  /\ IF verified THEN SetContext(q, [by |-> t.by, pins |-> t.pins]) ELSE UNCHANGED context
  /\ UNCHANGED <<now, attempt, issuedTokens, lostRole>>

MemoryMiddleware(q, t) == Admits(q, "memory", t, VerifyMemory(t))
KnowledgeMiddleware(q, t) == Admits(q, "knowledge", t, VerifyKnowledge(t))

(* Only the owner, admin and deployer roles of the token are let in.         *)
PlatformMiddleware(q, t) == Admits(q, "platform", t, VerifyPlatform(t) /\ t.role)

(* The tool: a memory is proposed, a search made or a list read for the      *)
(* identity in the context variable.                                         *)
Acts(q, server, identity) ==
  /\ rpc[q].pc = "inside" /\ rpc[q].server = server
  /\ rpc' = [rpc EXCEPT ![q].pc = "acted", ![q].acts = identity]
  /\ UNCHANGED <<now, attempt, issuedTokens, lostRole, context>>

ProposeMemory(q) == Acts(q, "memory", context[q])
QueryKnowledge(q) == Acts(q, "knowledge", context[q])
ListPlatform(q) == Acts(q, "platform", context[q])

(* The answer, or the error of a tool; the variable is reset.                *)
AnswerRpc(q) ==
  /\ rpc[q].pc \in {"inside", "acted", "refused"}
  /\ rpc' = [rpc EXCEPT ![q] = [NoRpc EXCEPT !.pc = "answered"]]
  /\ context' = [context EXCEPT ![q] = Nobody]
  /\ UNCHANGED <<now, attempt, issuedTokens, lostRole>>

WorkloadNext ==
  \/ TimeGoesOn
  \/ \E r \in CliRun : StartCli(r) \/ EndCli(r)
  \/ \E u \in Operator : PlatformAccess(u) \/ LoseRole(u)
  \/ \E q \in Rpc :
       \/ ProposeMemory(q) \/ QueryKnowledge(q) \/ ListPlatform(q) \/ AnswerRpc(q)
       \/ \E t \in issuedTokens :
            MemoryMiddleware(q, t) \/ KnowledgeMiddleware(q, t) \/ PlatformMiddleware(q, t)

-----------------------------------------------------------------------------
(* However the requests of several clients overlap, a tool acts for the one  *)
(* who sent its request, on the snapshots of that Run's own session, with a  *)
(* token for its server that was valid when it was verified; a role that was *)
(* lost counts for less than the life of a token; and a call is refused only *)
(* with a token for another server, of an operator without a role, or as old *)
(* as a token may get, though the Run may still be going on.                 *)
ActsForItsCaller ==
  \A q \in Rpc :
    LET call == rpc[q]
        age == call.at - call.token.issued
    IN /\ call.pc = "acted" =>
            /\ call.acts.by = call.token.by /\ call.token.server = call.server
            /\ call.server = "knowledge" => call.acts.pins = PinsOf[call.token.by]
            /\ age < TokenLife
            /\ call.token.by \in Operator /\ lostRole[call.token.by] # 0
                 => call.at < lostRole[call.token.by] + TokenLife
       /\ call.pc = "refused" =>
            call.token.server # call.server \/ age >= TokenLife
              \/ (call.server = "platform" /\ ~call.token.role)
===============================================================================
