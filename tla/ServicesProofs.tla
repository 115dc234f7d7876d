---------------------------- MODULE ServicesProofs ----------------------------
(***************************************************************************)
(* Proofs about the services of Services, for any number of requests,       *)
(* processes, rows and bounds.  A step of the composition is a step of one  *)
(* service and leaves the rows of the others alone (the lemmas XPart), so   *)
(* each promise follows from an inductive invariant of its own service.     *)
(* Here: who may do what.  The tool gate, managed connections, governed     *)
(* policies, accounts, the tokens of the platform MCP servers and the       *)
(* knowledge bases, and the erasure of what nobody may see any more;        *)
(* StudioProofs and OperationsProofs have the others.                       *)
(***************************************************************************)
EXTENDS Services, RuntimeProofs, FiniteSetTheorems, WellFoundedInduction, TLAPS

-----------------------------------------------------------------------------
(* The tool gate.                                                            *)

LEMMA GatePart ==
  /\ ServicesInit => GateInit
  /\ [ServicesNext]_servicesVars => [GateNext]_gateVars
<1>1. ServicesInit => GateInit
  BY DEF ServicesInit
<1>2. ServicesNext => GateNext \/ UNCHANGED gateVars
  BY DEF ServicesNext, Only
<1>3. UNCHANGED servicesVars => UNCHANGED gateVars
  BY DEF servicesVars
<1> QED BY <1>1, <1>2, <1>3

Levels == 0 .. 2
Asking == {"requested", "asked", "quota", "running"}
GatePc == {"idle", "denied", "succeeded", "failed", "done"} \cup Asking
GateCall == [pc : GatePc, request : ToolRequest \cup {NoRequest}, trust : Levels, seen : Levels,
             asked : BOOLEAN]

GateTypes ==
  /\ calls \in [Call -> GateCall]
  /\ trust \in Levels
  /\ pending \in [Call -> Levels]
  /\ first \in [File -> {"unseen", "there", "missing"}]
  /\ writes \subseteq Call
  /\ hooks \in [Call -> SUBSET {"trust", "file", "release"}]

(* What a result makes of the context is pending until its hook has run,    *)
(* and part of the trust afterwards.                                        *)
ResultCounted(c) ==
  LET level == ResultTrust(calls[c].request)
  IN  /\ calls[c].pc \in Asking => pending[c] = level
      /\ calls[c].pc = "succeeded" /\ "trust" \in hooks[c] => pending[c] = level
      /\ calls[c].pc = "succeeded" /\ "trust" \notin hooks[c] => level <= trust
      /\ calls[c].pc = "done" => level <= trust
      /\ calls[c].seen <= calls[c].trust
      /\ hooks[c] # {} => calls[c].pc \in {"succeeded", "failed"}

(* What a call got past the policy with.                                    *)
Judged(c) ==
  calls[c].request.tool = "propose_memory" =>
    /\ calls[c].pc = "asked" => calls[c].trust <= 1 /\ calls[c].asked
    /\ Allowed(c) => calls[c].trust = 0 \/ (calls[c].trust = 1 /\ calls[c].asked)

(* A pending write is a Write of a file that was missing; its hook has not  *)
(* run.                                                                     *)
WritesOwn(c) ==
  /\ calls[c].request.tool = "Write" /\ calls[c].pc = "asked" => calls[c].request.file \in File
  /\ c \in writes =>
       /\ calls[c].request.tool = "Write"
       /\ calls[c].request.file \in File \ Input
       /\ first[calls[c].request.file] = "missing"
       /\ calls[c].pc \in {"running", "succeeded", "failed"}
       /\ calls[c].pc # "running" => "file" \in hooks[c]

CallInv(c) == ResultCounted(c) /\ Judged(c) /\ WritesOwn(c)

(* OwnFilesOnly, and the files are files of the workspace.                  *)
GateInv ==
  /\ GateTypes
  /\ \A c \in Call : CallInv(c)
  /\ \A f \in generated :
       /\ f \in File \ Input /\ first[f] = "missing"
       /\ \E c \in Call : /\ calls[c].request.tool = "Write" /\ calls[c].request.file = f
                          /\ calls[c].pc \in {"succeeded", "done"}

LEMMA LevelsAre == /\ Levels = {0, 1, 2}
                   /\ \A req : ResultTrust(req) \in Levels
  BY DEF Levels, ResultTrust

LEMMA HighestIs ==
  ASSUME NEW S \in SUBSET Levels, NEW bound \in Levels, \A n \in S : n <= bound
  PROVE  Highest(S) \in Levels /\ Highest(S) <= bound
<1>1. CASE S = {}
  BY <1>1 DEF Highest, Levels
<1>2. CASE S # {}
  <2>1. \E n \in S : \A k \in S : k <= n
    <3>1. CASE 2 \in S
      BY <3>1 DEF Levels
    <3>2. CASE 2 \notin S /\ 1 \in S
      BY <3>2 DEF Levels
    <3>3. CASE 2 \notin S /\ 1 \notin S
      <4>1. \A k \in S : k = 0
        BY <3>3 DEF Levels
      <4> QED BY <1>2, <4>1
    <3> QED BY <3>1, <3>2, <3>3
  <2>2. Highest(S) \in S
    BY <1>2, <2>1 DEF Highest
  <2> QED BY <2>2
<1> QED BY <1>1, <1>2

LEMMA SpecificityIs == \A rule : Specificity(rule) \in 1 .. 4
<1> SUFFICES ASSUME NEW rule PROVE Specificity(rule) \in 1 .. 4
  OBVIOUS
<1> DEFINE S == {f \in {"trust", "isolated"} : rule[f] # 9}
<1>1. IsFiniteSet({"trust", "isolated"}) /\ Cardinality({"trust", "isolated"}) <= 2
  <2>1. IsFiniteSet({"trust"}) /\ Cardinality({"trust"}) = 1
    BY FS_Singleton
  <2>2. {"trust", "isolated"} = {"trust"} \cup {"isolated"}
    OBVIOUS
  <2> QED BY <2>1, <2>2, FS_AddElement
<1>2. Cardinality(S) \in Nat /\ Cardinality(S) <= Cardinality({"trust", "isolated"})
  BY <1>1, FS_Subset, FS_CardinalityType
<1>3. Cardinality({"trust", "isolated"}) \in Nat
  BY <1>1, FS_CardinalityType
<1> HIDE DEF S
<1>4. Cardinality(S) \in 0 .. 2
  BY <1>1, <1>2, <1>3
<1> QED BY <1>4 DEF Specificity, S

(* The rules about memory outweigh the one that allows it.                  *)
LEMMA MemoryRules ==
  ASSUME NEW req, req.tool = "propose_memory", NEW t \in Levels
  PROVE  /\ t = 2 => Decision(req, t) = "deny"
         /\ t = 1 => Decision(req, t) = "ask"
<1> DEFINE allows == Rule("propose_memory", "allow")
           denies == MemoryRule(2, "deny")
           asks == MemoryRule(1, "ask")
           matches == {r \in DefaultPolicyRules : Matches(r, req, t)}
           best == CHOOSE r \in matches : \A q \in matches : Weight(q) <= Weight(r)
<1>1. /\ allows = [tool |-> "propose_memory", trust |-> 9, isolated |-> 9, command |-> "any",
                   decision |-> "allow", priority |-> 0]
      /\ denies = [tool |-> "propose_memory", trust |-> 2, isolated |-> 9, command |-> "any",
                   decision |-> "deny", priority |-> 100]
      /\ asks = [tool |-> "propose_memory", trust |-> 1, isolated |-> 9, command |-> "any",
                 decision |-> "ask", priority |-> 100]
  BY DEF Rule, MemoryRule
<1>2. \A r \in DefaultPolicyRules : r.tool = "propose_memory" => r \in {allows, denies, asks}
  BY <1>1 DEF DefaultPolicyRules, Rule, MemoryRule, RemoveRule
<1>3. denies \in DefaultPolicyRules /\ asks \in DefaultPolicyRules
  BY DEF DefaultPolicyRules
<1>4. /\ Matches(denies, req, t) <=> t = 2
      /\ Matches(asks, req, t) <=> t = 1
      /\ \A r : Matches(r, req, t) => r.tool = "propose_memory"
  BY <1>1 DEF Matches, Levels
<1>5. /\ Weight(allows) \in Nat /\ Weight(allows) < 100
      /\ Weight(denies) \in Nat /\ Weight(denies) >= 10000
      /\ Weight(asks) \in Nat /\ Weight(asks) >= 10000
  <2>1. /\ Specificity(allows) \in 1 .. 4 /\ Specificity(denies) \in 1 .. 4
        /\ Specificity(asks) \in 1 .. 4
    BY SpecificityIs
  <2>2. allows.priority = 0 /\ denies.priority = 100 /\ asks.priority = 100
    BY <1>1
  <2>3. /\ DecisionPrecedence[allows.decision] = 0 /\ DecisionPrecedence[denies.decision] = 2
        /\ DecisionPrecedence[asks.decision] = 1
    BY <1>1 DEF DecisionPrecedence
  <2> HIDE DEF allows, denies, asks
  <2> QED BY <2>1, <2>2, <2>3 DEF Weight
<1> HIDE DEF allows, denies, asks
<1>6. ASSUME NEW r \in {denies, asks}, r \in matches,
             \A q \in matches : q \in {allows, r}
      PROVE  Evaluate(req, t) = r.decision
  <2>1. Weight(allows) < Weight(r) /\ Weight(r) <= Weight(r)
    BY <1>5
  <2>2. \A q \in matches : Weight(q) <= Weight(r)
    BY <1>5, <1>6, <2>1
  <2>3. best \in matches /\ \A q \in matches : Weight(q) <= Weight(best)
    BY <1>6, <2>2
  <2>4. best = r
    BY <1>5, <1>6, <2>1, <2>3
  <2>5. matches # {}
    BY <1>6
  <2> QED BY <2>4, <2>5 DEF Evaluate
<1>7. t = 2 => Evaluate(req, t) = "deny"
  <2> SUFFICES ASSUME t = 2 PROVE Evaluate(req, t) = "deny"
    OBVIOUS
  <2>1. denies \in matches /\ \A q \in matches : q \in {allows, denies}
    BY <1>2, <1>3, <1>4
  <2> HIDE DEF matches
  <2>2. Evaluate(req, t) = denies.decision
    BY <1>6, <2>1
  <2> QED BY <1>1, <2>2
<1>8. t = 1 => Evaluate(req, t) = "ask"
  <2> SUFFICES ASSUME t = 1 PROVE Evaluate(req, t) = "ask"
    OBVIOUS
  <2>1. asks \in matches /\ \A q \in matches : q \in {allows, asks}
    BY <1>2, <1>3, <1>4
  <2> HIDE DEF matches
  <2>2. Evaluate(req, t) = asks.decision
    BY <1>6, <2>1
  <2> QED BY <1>1, <2>2
<1> QED BY <1>7, <1>8 DEF Decision

LEMMA GateInitInv == GateInit => GateInv
<1> SUFFICES ASSUME GateInit PROVE GateInv
  OBVIOUS
<1>1. Idle \in GateCall /\ Idle.pc = "idle" /\ Idle.seen = 0 /\ Idle.trust = 0
  BY DEF Idle, GateCall, GatePc, Levels
<1>2. \A c \in Call : calls[c] = Idle
  BY DEF GateInit
<1>3. GateTypes
  BY <1>1 DEF GateInit, GateTypes, Levels
<1>4. \A c \in Call : CallInv(c)
  BY <1>1, <1>2 DEF GateInit, CallInv, ResultCounted, Judged, WritesOwn, Asking, Allowed, Idle,
                    NoRequest
<1> QED BY <1>3, <1>4 DEF GateInv, GateInit

(* The calls that rest keep what they know: trust only grows, a file is     *)
(* looked at first only once.                                               *)
GateRests(c) ==
  /\ trust <= trust'
  /\ \A f \in File : first[f] # "unseen" => first'[f] = first[f]
  /\ \A d \in Call \ {c} : /\ calls'[d] = calls[d] /\ pending'[d] = pending[d]
                           /\ hooks'[d] = hooks[d] /\ (d \in writes' <=> d \in writes)

LEMMA OthersKeep ==
  ASSUME GateInv, GateTypes', NEW c \in Call, GateRests(c)
  PROVE  \A d \in Call \ {c} : CallInv(d)'
<1> SUFFICES ASSUME NEW d \in Call \ {c} PROVE CallInv(d)'
  OBVIOUS
<1>1. CallInv(d) /\ GateTypes
  BY DEF GateInv
<1>2. /\ calls'[d] = calls[d] /\ pending'[d] = pending[d] /\ hooks'[d] = hooks[d]
      /\ (d \in writes' <=> d \in writes)
  BY DEF GateRests
<1>3. trust <= trust' /\ trust \in 0 .. 2 /\ trust' \in 0 .. 2
  BY <1>1 DEF GateRests, GateTypes, Levels
<1>4. ResultCounted(d)'
  BY <1>1, <1>2, <1>3, LevelsAre DEF CallInv, ResultCounted
<1>5. Judged(d)'
  BY <1>1, <1>2 DEF CallInv, Judged, Allowed
<1>6. WritesOwn(d)'
  BY <1>1, <1>2 DEF CallInv, WritesOwn, GateRests
<1> QED BY <1>4, <1>5, <1>6 DEF CallInv

(* So a step preserves the invariant when its own call does, and what is    *)
(* new among the Run's files is the file of its Write.                      *)
LEMMA GateMoves ==
  ASSUME GateInv, GateTypes', NEW c \in Call, GateRests(c), CallInv(c)',
         calls[c].pc \in {"succeeded", "done"} =>
           calls'[c].request = calls[c].request /\ calls'[c].pc \in {"succeeded", "done"},
         \A f \in generated' \ generated :
           /\ f \in File \ Input /\ first'[f] = "missing"
           /\ calls'[c].request.tool = "Write" /\ calls'[c].request.file = f
           /\ calls'[c].pc \in {"succeeded", "done"}
  PROVE  GateInv'
<1>1. \A d \in Call : CallInv(d)'
  BY OthersKeep
<1>2. ASSUME NEW f \in generated'
      PROVE  /\ f \in File \ Input /\ first'[f] = "missing"
             /\ \E d \in Call : /\ calls'[d].request.tool = "Write" /\ calls'[d].request.file = f
                                /\ calls'[d].pc \in {"succeeded", "done"}
  <2>1. CASE f \notin generated
    BY <2>1
  <2>2. CASE f \in generated
    <3>1. PICK d \in Call : /\ calls[d].request.tool = "Write" /\ calls[d].request.file = f
                            /\ calls[d].pc \in {"succeeded", "done"}
      BY <2>2 DEF GateInv
    <3>2. calls'[d].request = calls[d].request /\ calls'[d].pc \in {"succeeded", "done"}
      BY <3>1 DEF GateRests
    <3>3. f \in File \ Input /\ first[f] = "missing"
      BY <2>2 DEF GateInv
    <3> QED BY <3>1, <3>2, <3>3 DEF GateRests
  <2> QED BY <2>1, <2>2
<1> QED BY <1>1, <1>2 DEF GateInv

(* The record r of call c, and everything else as it is.                    *)
LEMMA RecordSet ==
  ASSUME GateTypes, NEW c \in Call, NEW r \in GateCall, calls' = [calls EXCEPT ![c] = r]
  PROVE  calls' \in [Call -> GateCall] /\ calls'[c] = r /\ \A d \in Call \ {c} : calls'[d] = calls[d]
  BY DEF GateTypes

LEMMA MovesTo ==
  ASSUME GateTypes, NEW c \in Call, NEW pc \in GatePc, Moves(c, pc)
  PROVE  /\ calls' \in [Call -> GateCall]
         /\ calls'[c].pc = pc /\ calls'[c].request = calls[c].request
         /\ calls'[c].trust = calls[c].trust /\ calls'[c].seen = calls[c].seen
         /\ calls'[c].asked = calls[c].asked
         /\ \A d \in Call \ {c} : calls'[d] = calls[d]
<1> DEFINE r == [calls[c] EXCEPT !.pc = pc]
<1>1. calls[c] \in GateCall
  BY DEF GateTypes
<1>2. r \in GateCall /\ r.pc = pc /\ r.request = calls[c].request /\ r.trust = calls[c].trust
      /\ r.seen = calls[c].seen /\ r.asked = calls[c].asked
  BY <1>1 DEF GateCall
<1>3. calls' = [calls EXCEPT ![c] = r]
  BY DEF Moves
<1> HIDE DEF r
<1> QED BY <1>2, <1>3, RecordSet

LEMMA RefusedIs ==
  /\ Refused \in GateCall /\ Refused.pc = "denied" /\ Refused.request = NoRequest
  /\ Refused.seen = 0 /\ Refused.trust = 0 /\ NoRequest.tool = "none"
<1>1. Idle \in GateCall /\ Idle.request = NoRequest /\ Idle.seen = 0 /\ Idle.trust = 0
  BY DEF Idle, GateCall, GatePc, Levels
<1>2. NoRequest.tool = "none"
  BY DEF NoRequest
<1> QED BY <1>1, <1>2 DEF Refused, GateCall, GatePc

LEMMA PreToolUseInv ==
  ASSUME GateInv, NEW c \in Call, NEW req \in ToolRequest, PreToolUse(c, req)
  PROVE  GateInv'
<1> DEFINE received == {ResultTrust(RequestOf(d)) : d \in {e \in Call : calls[e].pc = "done"}}
           r == [pc |-> "requested", request |-> req, trust |-> trust, asked |-> FALSE,
                 seen |-> Highest(received)]
<1>0. GateTypes /\ CallInv(c) /\ trust \in Levels /\ calls[c].pc = "idle"
  BY DEF GateInv, GateTypes, PreToolUse
<1>1. received \in SUBSET Levels /\ \A n \in received : n <= trust
  <2>1. \A d \in Call : calls[d].pc = "done" => ResultTrust(RequestOf(d)) <= trust
    BY DEF GateInv, CallInv, ResultCounted, RequestOf
  <2> QED BY <2>1, LevelsAre
<1>2. Highest(received) \in Levels /\ Highest(received) <= trust
  BY <1>0, <1>1, HighestIs
<1>3. r \in GateCall /\ r.pc = "requested" /\ r.request = req /\ r.trust = trust
      /\ r.seen = Highest(received)
  BY <1>0, <1>2 DEF GateCall, GatePc, Asking
<1>4. /\ calls' = [calls EXCEPT ![c] = r] /\ pending' = [pending EXCEPT ![c] = ResultTrust(req)]
      /\ UNCHANGED <<trust, exists, first, generated, writes, hooks, subagents, requests>>
  BY DEF PreToolUse
<1> HIDE DEF r, received
<1>5. calls' \in [Call -> GateCall] /\ calls'[c] = r /\ \A d \in Call \ {c} : calls'[d] = calls[d]
  BY <1>0, <1>3, <1>4, RecordSet
<1>6. GateTypes'
  BY <1>0, <1>4, <1>5, LevelsAre DEF GateTypes
<1>7. GateRests(c)
  BY <1>0, <1>4, <1>5 DEF GateRests, GateTypes, Levels
<1>8. hooks'[c] = {} /\ c \notin writes' /\ pending'[c] = ResultTrust(req)
  BY <1>0, <1>4 DEF CallInv, ResultCounted, WritesOwn, GateTypes
<1>9. CallInv(c)'
  BY <1>2, <1>3, <1>5, <1>8 DEF CallInv, ResultCounted, Judged, WritesOwn, Allowed, Asking
<1> QED BY <1>0, <1>4, <1>6, <1>7, <1>9, GateMoves

LEMMA DeniedInv ==
  ASSUME GateInv, NEW c \in Call, calls[c].pc \in {"requested", "asked", "quota"}, Denied(c),
         UNCHANGED <<trust, generated, hooks>>,
         first' \in [File -> {"unseen", "there", "missing"}],
         \A f \in File : first[f] # "unseen" => first'[f] = first[f]
  PROVE  GateInv'
<1>0. GateTypes /\ CallInv(c) /\ trust \in Levels
  BY DEF GateInv, GateTypes
<1>1. calls' = [calls EXCEPT ![c] = Refused] /\ pending' = [pending EXCEPT ![c] = 0]
      /\ UNCHANGED writes
  BY DEF Denied
<1>2. calls' \in [Call -> GateCall] /\ calls'[c] = Refused /\ \A d \in Call \ {c} : calls'[d] = calls[d]
  BY <1>0, <1>1, RecordSet, RefusedIs
<1>3. GateTypes'
  BY <1>0, <1>1, <1>2 DEF GateTypes, Levels
<1>4. GateRests(c)
  BY <1>0, <1>1, <1>2 DEF GateRests, GateTypes, Levels
<1>5. hooks'[c] = {} /\ c \notin writes'
  BY <1>0, <1>1 DEF CallInv, ResultCounted, WritesOwn
<1>6. CallInv(c)'
  BY <1>2, <1>5, RefusedIs DEF CallInv, ResultCounted, Judged, WritesOwn, Allowed, Asking
<1> QED BY <1>0, <1>3, <1>4, <1>6, GateMoves

(* A call goes on: by the policy's answer, or by an approver's.             *)
LEMMA ProceedsInv ==
  ASSUME GateInv, NEW c \in Call, calls[c].pc \in {"requested", "asked"}, Proceeds(c),
         UNCHANGED <<trust, generated, hooks>>,
         first' \in [File -> {"unseen", "there", "missing"}],
         \A f \in File : first[f] # "unseen" => first'[f] = first[f],
         calls[c].request.tool = "Write" => calls[c].request.file \in File,
         calls[c].request.tool = "propose_memory" =>
           calls[c].trust = 0 \/ (calls[c].trust = 1 /\ calls[c].asked)
  PROVE  GateInv'
<1>0. GateTypes /\ CallInv(c) /\ trust \in Levels
  BY DEF GateInv, GateTypes
<1>1. PICK pc \in {"quota", "running"} : Moves(c, pc) /\ (calls[c].request.tool = "Write" => pc = "running")
  BY DEF Proceeds, RequestOf, IsMcp
<1>2. /\ calls' \in [Call -> GateCall]
      /\ calls'[c].pc = pc /\ calls'[c].request = calls[c].request
      /\ calls'[c].trust = calls[c].trust /\ calls'[c].seen = calls[c].seen
      /\ calls'[c].asked = calls[c].asked
      /\ \A d \in Call \ {c} : calls'[d] = calls[d]
  BY <1>0, <1>1, MovesTo DEF GatePc, Asking
<1>3. /\ UNCHANGED pending /\ c \notin writes
      /\ writes' = IF /\ calls[c].request.tool = "Write" /\ calls[c].request.file \notin Input
                      /\ first'[calls[c].request.file] = "missing"
                   THEN writes \cup {c} ELSE writes
  BY <1>0 DEF Proceeds, NoteAuthorizedWrite, RequestOf, CallInv, WritesOwn
<1>4. GateTypes'
  BY <1>0, <1>2, <1>3 DEF GateTypes
<1>5. GateRests(c)
  BY <1>0, <1>2, <1>3 DEF GateRests, GateTypes, Levels
<1>6. ResultCounted(c)'
  BY <1>0, <1>2, <1>3 DEF CallInv, ResultCounted, Asking
<1>7. Judged(c)'
  BY <1>2 DEF Judged, Allowed
<1>8. WritesOwn(c)'
  BY <1>1, <1>2, <1>3 DEF WritesOwn
<1> QED BY <1>0, <1>4, <1>5, <1>6, <1>7, <1>8, GateMoves DEF CallInv

LEMMA AuthorizeInv ==
  ASSUME GateInv, NEW c \in Call, Authorize(c) \/ Decided(c)
  PROVE  GateInv'
<1>0. GateTypes /\ CallInv(c) /\ calls[c] \in GateCall
  BY DEF GateInv, GateTypes
<1>1. CASE Decided(c)
  <2>1. /\ calls[c].pc = "asked" /\ UNCHANGED <<trust, generated, hooks, first>>
        /\ Proceeds(c) \/ Denied(c)
    BY <1>1 DEF Decided
  <2>2. /\ calls[c].request.tool = "Write" => calls[c].request.file \in File
        /\ calls[c].request.tool = "propose_memory" =>
             calls[c].trust = 0 \/ (calls[c].trust = 1 /\ calls[c].asked)
    BY <1>0, <2>1 DEF CallInv, WritesOwn, Judged, GateCall, Levels
  <2>3. /\ first' \in [File -> {"unseen", "there", "missing"}]
        /\ \A f \in File : first[f] # "unseen" => first'[f] = first[f]
    BY <1>0, <2>1 DEF GateTypes
  <2>4. CASE Proceeds(c)
    BY <2>1, <2>2, <2>3, <2>4, ProceedsInv
  <2>5. CASE Denied(c)
    BY <2>1, <2>3, <2>5, DeniedInv
  <2> QED BY <2>1, <2>4, <2>5
<1>2. CASE Authorize(c)
  <2> DEFINE decision == Decision(RequestOf(c), calls[c].trust)
  <2>1. /\ calls[c].pc = "requested" /\ UNCHANGED <<trust, generated, hooks>>
        /\ first' = Observed(calls[c].request)
        /\ \/ decision = "deny" /\ Denied(c)
           \/ decision = "allow" /\ Proceeds(c)
           \/ /\ decision = "ask" /\ UNCHANGED <<pending, writes>>
              /\ calls' = [calls EXCEPT ![c].pc = "asked", ![c].asked = TRUE]
    BY <1>2 DEF Authorize, RequestOf
  <2>2. calls[c].request.tool = "Write" /\ calls[c].request.file \notin File => decision = "deny"
    BY DEF Decision, RequestOf
  <2>3. calls[c].request.tool = "propose_memory" =>
          /\ calls[c].trust = 2 => decision = "deny"
          /\ calls[c].trust = 1 => decision = "ask"
    BY <1>0, MemoryRules DEF RequestOf, GateCall
  <2>4. /\ first' \in [File -> {"unseen", "there", "missing"}]
        /\ \A f \in File : first[f] # "unseen" => first'[f] = first[f]
    BY <1>0, <2>1 DEF GateTypes, Observed
  <2>5. CASE Denied(c)
    BY <2>1, <2>4, <2>5, DeniedInv
  <2>6. CASE decision = "allow" /\ Proceeds(c)
    <3>1. /\ calls[c].request.tool = "Write" => calls[c].request.file \in File
          /\ calls[c].request.tool = "propose_memory" => calls[c].trust = 0
      BY <1>0, <2>2, <2>3, <2>6 DEF GateCall, Levels
    <3> QED BY <2>1, <2>4, <2>6, <3>1, ProceedsInv
  <2>7. CASE /\ decision = "ask" /\ UNCHANGED <<pending, writes>>
             /\ calls' = [calls EXCEPT ![c].pc = "asked", ![c].asked = TRUE]
    <3> DEFINE r == [calls[c] EXCEPT !.pc = "asked", !.asked = TRUE]
    <3>1. /\ r \in GateCall /\ r.pc = "asked" /\ r.asked /\ r.request = calls[c].request
          /\ r.trust = calls[c].trust /\ r.seen = calls[c].seen
      BY <1>0 DEF GateCall, GatePc, Asking
    <3>2. calls' = [calls EXCEPT ![c] = r]
      BY <1>0, <2>7 DEF GateTypes
    <3> HIDE DEF r
    <3>3. calls' \in [Call -> GateCall] /\ calls'[c] = r /\ \A d \in Call \ {c} : calls'[d] = calls[d]
      BY <1>0, <3>1, <3>2, RecordSet
    <3>4. GateTypes'
      BY <1>0, <2>1, <2>4, <2>7, <3>3 DEF GateTypes
    <3>5. GateRests(c)
      BY <1>0, <2>1, <2>4, <2>7, <3>3 DEF GateRests, GateTypes, Levels
    <3>6. ResultCounted(c)'
      BY <1>0, <2>1, <2>7, <3>1, <3>3 DEF CallInv, ResultCounted, Asking
    <3>7. Judged(c)'
      BY <1>0, <2>3, <2>7, <3>1, <3>3 DEF Judged, Allowed, GateCall, Levels
    <3>8. WritesOwn(c)'
      BY <1>0, <2>1, <2>2, <2>7, <3>1, <3>3 DEF CallInv, WritesOwn
    <3> QED BY <2>1, <3>4, <3>5, <3>6, <3>7, <3>8, GateMoves DEF CallInv
  <2> QED BY <2>1, <2>5, <2>6, <2>7
<1> QED BY <1>1, <1>2

(* A step of c that leaves its request and the files alone.                 *)
LEMMA OnlyPc ==
  ASSUME GateInv, NEW c \in Call, NEW pc \in GatePc, Moves(c, pc),
         UNCHANGED <<trust, pending, first, generated, writes>>,
         hooks' \in [Call -> SUBSET {"trust", "file", "release"}],
         \A d \in Call \ {c} : hooks'[d] = hooks[d],
         \/ calls[c].pc = "quota" /\ pc = "running" /\ UNCHANGED hooks
         \/ calls[c].pc = "running" /\ pc \in {"succeeded", "failed"}
              /\ hooks'[c] = HooksOf(calls[c].request)
  PROVE  GateInv'
<1>0. GateTypes /\ CallInv(c) /\ calls[c] \in GateCall
  BY DEF GateInv, GateTypes
<1>1. /\ calls' \in [Call -> GateCall]
      /\ calls'[c].pc = pc /\ calls'[c].request = calls[c].request
      /\ calls'[c].trust = calls[c].trust /\ calls'[c].seen = calls[c].seen
      /\ calls'[c].asked = calls[c].asked
      /\ \A d \in Call \ {c} : calls'[d] = calls[d]
  BY <1>0, MovesTo
<1>2. GateTypes'
  BY <1>0, <1>1 DEF GateTypes
<1>3. GateRests(c)
  BY <1>0, <1>1 DEF GateRests, GateTypes, Levels
<1>4. ResultCounted(c)'
  BY <1>0, <1>1 DEF CallInv, ResultCounted, Asking, HooksOf
<1>5. Judged(c)'
  BY <1>0, <1>1 DEF CallInv, Judged, Allowed
<1>6. WritesOwn(c)'
  BY <1>0, <1>1 DEF CallInv, WritesOwn, HooksOf
<1> QED BY <1>2, <1>3, <1>4, <1>5, <1>6, GateMoves DEF CallInv

LEMMA ReserveInv ==
  ASSUME GateInv, NEW c \in Call, Reserve(c)
  PROVE  GateInv'
<1>0. GateTypes
  BY DEF GateInv
<1>1. calls[c].pc = "quota" /\ UNCHANGED <<trust, exists, first, generated, hooks>>
  BY DEF Reserve
<1>2. CASE Moves(c, "running") /\ UNCHANGED <<pending, writes>>
  BY <1>0, <1>1, <1>2, OnlyPc DEF GatePc, Asking, GateTypes
<1>3. CASE Denied(c)
  BY <1>0, <1>1, <1>3, DeniedInv DEF GateTypes
<1> QED BY <1>2, <1>3 DEF Reserve

LEMMA ToolInv ==
  ASSUME GateInv, NEW c \in Call, Returns(c) \/ Fails(c)
  PROVE  GateInv'
<1>0. GateTypes
  BY DEF GateInv
<1>1. /\ calls[c].pc = "running" /\ UNCHANGED <<trust, pending, first, generated, writes>>
      /\ hooks' = [hooks EXCEPT ![c] = HooksOf(calls[c].request)]
      /\ Moves(c, "succeeded") \/ Moves(c, "failed")
  BY DEF Returns, Fails, RequestOf
<1>2. HooksOf(calls[c].request) \in SUBSET {"trust", "file", "release"}
  BY DEF HooksOf
<1>3. /\ hooks' \in [Call -> SUBSET {"trust", "file", "release"}]
      /\ hooks'[c] = HooksOf(calls[c].request) /\ \A d \in Call \ {c} : hooks'[d] = hooks[d]
  BY <1>0, <1>1, <1>2 DEF GateTypes
<1> QED BY <1>1, <1>3, OnlyPc DEF GatePc

(* One of the hooks after a call has run, perhaps the last.                 *)
LEMMA RanIs ==
  ASSUME GateInv, NEW c \in Call, NEW hook \in {"trust", "file", "release"}, Ran(c, hook)
  PROVE  /\ hook \in hooks[c] /\ hooks'[c] = hooks[c] \ {hook}
         /\ hooks' \in [Call -> SUBSET {"trust", "file", "release"}]
         /\ calls' \in [Call -> GateCall]
         /\ \A d \in Call \ {c} : hooks'[d] = hooks[d] /\ calls'[d] = calls[d]
         /\ \/ calls'[c] = calls[c] /\ hooks'[c] # {}
            \/ calls[c].pc = "failed" /\ calls'[c] = Refused /\ hooks'[c] = {}
            \/ /\ calls[c].pc # "failed" /\ calls'[c].pc = "done" /\ hooks'[c] = {}
               /\ calls'[c].request = calls[c].request /\ calls'[c].seen = 0 /\ calls'[c].trust = 0
<1>0. GateTypes /\ calls[c] \in GateCall
  BY DEF GateInv, GateTypes
<1>1. /\ hook \in hooks[c] /\ hooks' = [hooks EXCEPT ![c] = @ \ {hook}]
      /\ calls' = IF hooks[c] # {hook} THEN calls
                  ELSE [calls EXCEPT ![c] = IF @.pc = "failed" THEN Refused
                          ELSE [Idle EXCEPT !.pc = "done", !.request = calls[c].request]]
  BY DEF Ran, RequestOf
<1>2. /\ hooks'[c] = hooks[c] \ {hook} /\ hooks' \in [Call -> SUBSET {"trust", "file", "release"}]
      /\ \A d \in Call \ {c} : hooks'[d] = hooks[d]
  BY <1>0, <1>1 DEF GateTypes
<1>3. hooks[c] # {hook} <=> hooks'[c] # {}
  BY <1>1, <1>2
<1> DEFINE r == [Idle EXCEPT !.pc = "done", !.request = calls[c].request]
<1>4. r \in GateCall /\ r.pc = "done" /\ r.request = calls[c].request /\ r.seen = 0 /\ r.trust = 0
  <2>1. Idle \in GateCall /\ Idle.seen = 0 /\ Idle.trust = 0
    BY DEF Idle, GateCall, GatePc, Levels
  <2> QED BY <1>0, <2>1 DEF GateCall, GatePc
<1> HIDE DEF r
<1>5. CASE hooks[c] # {hook}
  BY <1>0, <1>1, <1>2, <1>3, <1>5 DEF GateTypes
<1>6. CASE hooks[c] = {hook} /\ calls[c].pc = "failed"
  <2>1. calls' = [calls EXCEPT ![c] = Refused]
    BY <1>0, <1>1, <1>6 DEF GateTypes
  <2>2. calls' \in [Call -> GateCall] /\ calls'[c] = Refused /\ \A d \in Call \ {c} : calls'[d] = calls[d]
    BY <1>0, <2>1, RecordSet, RefusedIs
  <2> QED BY <1>1, <1>2, <1>3, <1>6, <2>2
<1>7. CASE hooks[c] = {hook} /\ calls[c].pc # "failed"
  <2>1. calls' = [calls EXCEPT ![c] = r]
    BY <1>0, <1>1, <1>7 DEF GateTypes, r
  <2>2. calls' \in [Call -> GateCall] /\ calls'[c] = r /\ \A d \in Call \ {c} : calls'[d] = calls[d]
    BY <1>0, <1>4, <2>1, RecordSet
  <2> QED BY <1>1, <1>2, <1>3, <1>4, <1>7, <2>2
<1> QED BY <1>5, <1>6, <1>7

(* What a hook does besides.                                                *)
HookDoes(c, hook) ==
  /\ trust' \in Levels /\ trust <= trust' /\ pending' \in [Call -> Levels]
  /\ writes' \subseteq Call /\ UNCHANGED first
  /\ \A d \in Call \ {c} : pending'[d] = pending[d] /\ (d \in writes' <=> d \in writes)
  /\ IF hook = "trust" THEN calls[c].pc = "succeeded" => pending[c] <= trust'
                       ELSE pending'[c] = pending[c]
  /\ c \in writes' => hook # "file" /\ c \in writes
  /\ \A f \in generated' \ generated :
       c \in writes /\ calls[c].pc = "succeeded" /\ f = calls[c].request.file

LEMMA HookInv ==
  ASSUME GateInv, NEW c \in Call, NEW hook \in {"trust", "file", "release"}, Ran(c, hook),
         HookDoes(c, hook)
  PROVE  GateInv'
<1>0. GateTypes /\ CallInv(c) /\ calls[c] \in GateCall
  BY DEF GateInv, GateTypes
<1>1. /\ hook \in hooks[c] /\ hooks'[c] = hooks[c] \ {hook}
      /\ hooks' \in [Call -> SUBSET {"trust", "file", "release"}]
      /\ calls' \in [Call -> GateCall]
      /\ \A d \in Call \ {c} : hooks'[d] = hooks[d] /\ calls'[d] = calls[d]
      /\ \/ calls'[c] = calls[c] /\ hooks'[c] # {}
         \/ calls[c].pc = "failed" /\ calls'[c] = Refused /\ hooks'[c] = {}
         \/ /\ calls[c].pc # "failed" /\ calls'[c].pc = "done" /\ hooks'[c] = {}
            /\ calls'[c].request = calls[c].request /\ calls'[c].seen = 0 /\ calls'[c].trust = 0
  BY RanIs
<1>2. GateTypes'
  BY <1>0, <1>1 DEF GateTypes, HookDoes
<1>3. GateRests(c)
  BY <1>1 DEF GateRests, HookDoes
<1>4. calls[c].pc \in {"succeeded", "failed"}
  BY <1>0, <1>1 DEF CallInv, ResultCounted
<1>5. calls[c].pc = "succeeded" =>
        IF "trust" \in hooks'[c]
          THEN pending'[c] = ResultTrust(calls[c].request)
          ELSE ResultTrust(calls[c].request) <= trust'
  BY <1>0, <1>1, LevelsAre DEF CallInv, ResultCounted, GateTypes, Levels, HookDoes
<1>6. ResultCounted(c)'
  BY <1>0, <1>1, <1>4, <1>5, RefusedIs DEF CallInv, ResultCounted, Asking
<1>7. Judged(c)'
  BY <1>0, <1>1, <1>4, RefusedIs DEF CallInv, Judged, Allowed
<1>8. WritesOwn(c)'
  <2>1. c \in writes' => "file" \in hooks'[c]
    BY <1>0, <1>1, <1>4 DEF CallInv, WritesOwn, HookDoes
  <2>2. c \in writes' => calls'[c] = calls[c]
    BY <1>1, <2>1
  <2>3. calls'[c].pc # "asked"
    BY <1>1, <1>4, RefusedIs
  <2> QED BY <1>0, <1>4, <2>1, <2>2, <2>3 DEF CallInv, WritesOwn, HookDoes
<1>9. calls[c].pc = "succeeded" =>
        calls'[c].request = calls[c].request /\ calls'[c].pc \in {"succeeded", "done"}
  BY <1>1
<1>10. \A f \in generated' \ generated :
         /\ f \in File \ Input /\ first'[f] = "missing"
         /\ calls'[c].request.tool = "Write" /\ calls'[c].request.file = f
         /\ calls'[c].pc \in {"succeeded", "done"}
  BY <1>0, <1>9 DEF CallInv, WritesOwn, HookDoes
<1> QED BY <1>2, <1>3, <1>4, <1>6, <1>7, <1>8, <1>9, <1>10, GateMoves DEF CallInv

LEMMA HooksInv ==
  ASSUME GateInv, NEW c \in Call, PostWrite(c) \/ ReleaseDelegation(c) \/ TraceTool(c)
  PROVE  GateInv'
<1>0. GateTypes /\ trust \in 0 .. 2 /\ pending[c] \in 0 .. 2
  BY DEF GateInv, GateTypes, Levels
<1>1. CASE PostWrite(c)
  <2>1. /\ Ran(c, "file") /\ UNCHANGED <<trust, pending, first>> /\ writes' = writes \ {c}
        /\ \A f \in generated' \ generated :
             c \in writes /\ calls[c].pc = "succeeded" /\ f = calls[c].request.file
    BY <1>1 DEF PostWrite, RequestOf
  <2>2. HookDoes(c, "file")
    BY <1>0, <2>1 DEF HookDoes, GateTypes, Levels
  <2> QED BY <2>1, <2>2, HookInv
<1>2. CASE ReleaseDelegation(c)
  <2>1. Ran(c, "release") /\ UNCHANGED <<trust, pending, first, generated, writes>>
    BY <1>2 DEF ReleaseDelegation
  <2>2. HookDoes(c, "release")
    BY <1>0, <2>1 DEF HookDoes, GateTypes, Levels
  <2> QED BY <2>1, <2>2, HookInv
<1>3. CASE TraceTool(c)
  <2>1. /\ Ran(c, "trust") /\ UNCHANGED <<first, generated, writes>>
        /\ trust' = Raised(c) /\ pending' = [pending EXCEPT ![c] = 0]
    BY <1>3 DEF TraceTool
  <2>2. trust' \in Levels /\ trust <= trust' /\ (calls[c].pc = "succeeded" => pending[c] <= trust')
    BY <1>0, <2>1 DEF Raised, Levels
  <2>3. pending' \in [Call -> Levels] /\ \A d \in Call \ {c} : pending'[d] = pending[d]
    BY <1>0, <2>1 DEF GateTypes, Levels
  <2>4. HookDoes(c, "trust")
    BY <1>0, <2>1, <2>2, <2>3 DEF HookDoes, GateTypes
  <2> QED BY <2>1, <2>4, HookInv
<1> QED BY <1>1, <1>2, <1>3

LEMMA GateStep == GateInv /\ [GateNext]_gateVars => GateInv'
<1> SUFFICES ASSUME GateInv, [GateNext]_gateVars PROVE GateInv'
  OBVIOUS
<1>1. CASE UNCHANGED gateVars
  BY <1>1 DEF gateVars, GateInv, GateTypes, CallInv, ResultCounted, Judged, WritesOwn, Allowed
<1>2. ASSUME NEW c \in Call, NEW req \in ToolRequest, PreToolUse(c, req) PROVE GateInv'
  BY <1>2, PreToolUseInv
<1> QED BY <1>1, <1>2, AuthorizeInv, ReserveInv, ToolInv, HooksInv DEF GateNext

(* Once the agent has received an untrusted result it stores no memory,     *)
(* after a sensitive one only what a person approved; and the files that    *)
(* are edited and run without a decision are the Run's own: whatever calls, *)
(* approvals and hooks overlap (runtime/sdk_tool_gate.py).                  *)
THEOREM GateRemembersRun == ServicesSpec => []GateRemembers
<1>1. GateInv => GateRemembers
  <2> SUFFICES ASSUME GateInv PROVE MemoryFromTrustedContext /\ OwnFilesOnly
    BY DEF GateRemembers
  <2>1. OwnFilesOnly
    BY DEF GateInv, OwnFilesOnly, RequestOf
  <2>2. ASSUME NEW c \in Call, RequestOf(c).tool = "propose_memory", Allowed(c)
        PROVE  calls[c].seen = 0 \/ (calls[c].seen = 1 /\ calls[c].asked)
    <3>1. calls[c].trust = 0 \/ (calls[c].trust = 1 /\ calls[c].asked)
      BY <2>2 DEF GateInv, CallInv, Judged, RequestOf
    <3>2. calls[c].seen <= calls[c].trust /\ calls[c].seen \in 0 .. 2
      BY DEF GateInv, CallInv, ResultCounted, GateTypes, GateCall, Levels
    <3> QED BY <3>1, <3>2
  <2> QED BY <2>1, <2>2 DEF MemoryFromTrustedContext
<1> QED BY <1>1, GatePart, GateInitInv, GateStep, PTL DEF ServicesSpec

-----------------------------------------------------------------------------
(* Managed connections.                                                      *)

LEMMA ConnectionPart ==
  /\ ServicesInit => ConnectionInit
  /\ [ServicesNext]_servicesVars => [ConnectionNext]_connectionVars
<1>1. ServicesInit => ConnectionInit
  BY DEF ServicesInit
<1>2. ServicesNext => ConnectionNext \/ UNCHANGED connectionVars
  BY DEF ServicesNext, Only
<1>3. UNCHANGED servicesVars => UNCHANGED connectionVars
  BY DEF servicesVars
<1> QED BY <1>1, <1>2, <1>3

ConnectionRow == [status : {"absent", "active", "revoked"}, revision : Nat, secret : Secrets]

(* An edit was read from an active row; it is written over that row or not  *)
(* at all, since every write takes a new revision.                          *)
EditCurrent(q) ==
  steward[q].pc = "set" =>
    LET newRow == connections[steward[q].connection]
    IN  /\ steward[q].connection \in Connection
        /\ steward[q].read \in ConnectionRow /\ steward[q].read.status \in {"active", "revoked"}
        /\ steward[q].read.revision <= newRow.revision
        /\ steward[q].read.revision = newRow.revision => newRow.status = "active"

Lease == [connection : Connection \cup {NoConnection}, secret : {SecretOf},
          status : {"none", "live", "ended"}]

(* What the broker knows of a lease it has resolved.                        *)
LeaseKnown(b) ==
  borrower[b] = "handed" /\ leases[b].connection # NoConnection =>
    leases[b].connection \in authorized[b]

(* A lease in use stays as it is; it is handed over when it has no          *)
(* connection, or when the connection still authorises it.                  *)
Holds(d) ==
  /\ borrower'[d] # "idle" => /\ leases'[d].connection = leases[d].connection
                              /\ leases'[d].secret = leases[d].secret
  /\ borrower'[d] = "handed" => \/ borrower[d] = "handed"
                                \/ leases[d].connection = NoConnection
                                \/ UNCHANGED connections /\ StillAuthorized(leases[d])

ConnectionInv ==
  /\ connections \in [Connection -> ConnectionRow]
  /\ \A c \in Connection : connections[c].status = "absent" => connections[c] = NoRow
  /\ DOMAIN steward = Steward
  /\ \A q \in Steward : EditCurrent(q) /\ (steward[q].pc = "add" => steward[q].connection \in Connection)
  /\ DOMAIN borrower = Borrower
  /\ leases \in [Borrower -> Lease]
  /\ \A b \in Borrower : LeaseKnown(b)

LEMMA NoRowIs == NoRow \in ConnectionRow /\ NoRow.status = "absent" /\ NoRow.revision = 0
  BY DEF NoRow, ConnectionRow, Secrets

LEMMA ConnectionInitInv == ConnectionInit => ConnectionInv
<1> SUFFICES ASSUME ConnectionInit PROVE ConnectionInv
  OBVIOUS
<1> DEFINE first1 == [NoRow EXCEPT !.status = "active", !.revision = 1]
<1>1. first1 \in ConnectionRow /\ first1.status = "active"
  BY NoRowIs DEF ConnectionRow
<1> HIDE DEF first1
<1>2. connections \in [Connection -> {NoRow, first1}]
  BY DEF ConnectionInit, first1
<1>3. /\ connections \in [Connection -> ConnectionRow]
      /\ \A c \in Connection : connections[c].status = "absent" => connections[c] = NoRow
  BY <1>1, <1>2, NoRowIs
<1>4. \A q \in Steward : steward[q].pc = "idle"
  BY DEF ConnectionInit, Unused
<1>5. NoLease \in Lease /\ NoLease.connection = NoConnection
  BY DEF NoLease, Lease
<1> QED BY <1>3, <1>4, <1>5 DEF ConnectionInit, ConnectionInv, EditCurrent, LeaseKnown

(* Administrators: a row is added, or replaced under its revision.          *)
RowWritten(c, newRow) ==
  /\ c \in Connection /\ connections' = [connections EXCEPT ![c] = newRow] /\ newRow \in ConnectionRow
  /\ newRow.status # "absent" /\ newRow.revision > connections[c].revision
  /\ connections[c].status # "revoked"

LEMMA EditsCurrent ==
  ASSUME ConnectionInv, NEW q \in Steward,
         UNCHANGED connections \/ (\E c, newRow : RowWritten(c, newRow)),
         steward'[q] = steward[q]
  PROVE  EditCurrent(q)'
<1>1. CASE UNCHANGED connections
  BY <1>1 DEF ConnectionInv, EditCurrent
<1>2. CASE \E c, newRow : RowWritten(c, newRow)
  <2>1. PICK c, newRow : RowWritten(c, newRow)
    BY <1>2
  <2>2. /\ connections'[c] = newRow /\ newRow.revision > connections[c].revision /\ newRow.revision \in Nat
        /\ connections[c].revision \in Nat
        /\ \A d \in Connection : d # c => connections'[d] = connections[d]
    BY <2>1 DEF RowWritten, ConnectionInv, ConnectionRow
  <2>3. EditCurrent(q)
    BY DEF ConnectionInv
  <2> SUFFICES ASSUME steward[q].pc = "set"
               PROVE  LET newRow2 == connections'[steward[q].connection]
                      IN  /\ steward[q].connection \in Connection
                          /\ steward[q].read \in ConnectionRow
                          /\ steward[q].read.status \in {"active", "revoked"}
                          /\ steward[q].read.revision <= newRow2.revision
                          /\ steward[q].read.revision = newRow2.revision => newRow2.status = "active"
    BY <1>2 DEF EditCurrent
  <2>4. steward[q].read.revision \in Nat
    BY <2>3 DEF EditCurrent, ConnectionRow
  <2>5. CASE steward[q].connection = c
    BY <2>2, <2>3, <2>4, <2>5 DEF EditCurrent
  <2>6. CASE steward[q].connection # c
    BY <2>2, <2>3, <2>6 DEF EditCurrent
  <2> QED BY <2>5, <2>6
<1> QED BY <1>1, <1>2

(* Every step writes at most one row, and none that is revoked.             *)
LEMMA RowsWritten ==
  ASSUME ConnectionInv, ConnectionStep
  PROVE  UNCHANGED connections \/ (\E c, newRow : RowWritten(c, newRow))
<1>1. ASSUME NEW q \in Steward, AddConnection(q)
      PROVE  UNCHANGED connections \/ (\E c, newRow : RowWritten(c, newRow))
  <2> DEFINE c == steward[q].connection
             newRow == [connections[c] EXCEPT !.status = "active", !.revision = 1]
  <2>1. c \in Connection /\ connections[c] \in ConnectionRow
    BY <1>1 DEF ConnectionInv, AddConnection
  <2>2. CASE connections[c] # NoRow
    BY <1>1, <2>2 DEF AddConnection
  <2>3. CASE connections[c] = NoRow
    <3>1. newRow \in ConnectionRow /\ newRow.status = "active" /\ newRow.revision = 1
      BY <2>1 DEF ConnectionRow
    <3>2. connections' = [connections EXCEPT ![c] = newRow]
      BY <1>1, <2>1, <2>3 DEF AddConnection, ConnectionInv
    <3> HIDE DEF newRow
    <3>3. RowWritten(c, newRow)
      BY <2>1, <2>3, <3>1, <3>2, NoRowIs DEF RowWritten
    <3> QED BY <3>3
  <2> QED BY <2>2, <2>3
<1>2. ASSUME NEW q \in Steward, ReplaceConnection(q)
      PROVE  UNCHANGED connections \/ (\E c, newRow : RowWritten(c, newRow))
  <2> DEFINE c == steward[q].connection
             read == steward[q].read
             newRow == [read EXCEPT !.revision = @ + 1]
  <2>1. /\ c \in Connection /\ connections[c] \in ConnectionRow /\ read \in ConnectionRow
        /\ read.status \in {"active", "revoked"}
        /\ read.revision = connections[c].revision => connections[c].status = "active"
    BY <1>2 DEF ConnectionInv, ReplaceConnection, EditCurrent
  <2>2. CASE connections[c].revision # read.revision
    BY <1>2, <2>2 DEF ReplaceConnection, SetConnection
  <2>3. CASE connections[c].revision = read.revision
    <3>1. newRow \in ConnectionRow /\ newRow.status = read.status /\ newRow.revision = read.revision + 1
      BY <2>1 DEF ConnectionRow
    <3>2. connections' = [connections EXCEPT ![c] = newRow]
      BY <1>2, <2>3 DEF ReplaceConnection, SetConnection
    <3>3. read.revision \in Nat
      BY <2>1 DEF ConnectionRow
    <3> HIDE DEF newRow, read
    <3>4. RowWritten(c, newRow)
      BY <2>1, <2>3, <3>1, <3>2, <3>3 DEF RowWritten
    <3> QED BY <3>4
  <2> QED BY <2>2, <2>3
<1> QED BY <1>1, <1>2 DEF ConnectionStep, ListPrincipal, GetConnection, Issue, ResolveLease,
                          ValidateConnection, UseSecret, EndLease, ReapLease

LEMMA StewardsOK ==
  ASSUME ConnectionInv, ConnectionStep, NEW q \in Steward
  PROVE  DOMAIN steward' = Steward /\ EditCurrent(q)'
         /\ (steward'[q].pc = "add" => steward'[q].connection \in Connection)
<1>0. UNCHANGED connections \/ (\E c, newRow : RowWritten(c, newRow))
  BY RowsWritten
<1>1. CASE steward'[q] = steward[q] /\ DOMAIN steward' = Steward
  BY <1>0, <1>1, EditsCurrent DEF ConnectionInv
<1>2. ASSUME NEW p \in Steward, ListPrincipal(p)
      PROVE  DOMAIN steward' = Steward /\ EditCurrent(q)'
             /\ (steward'[q].pc = "add" => steward'[q].connection \in Connection)
  <2>1. PICK c \in Connection :
          steward' = [steward EXCEPT ![p] = [Unused EXCEPT !.pc = "add", !.connection = c]]
    BY <1>2 DEF ListPrincipal
  <2> DEFINE j == [Unused EXCEPT !.pc = "add", !.connection = c]
  <2>2. j.pc = "add" /\ j.connection = c
    BY DEF Unused
  <2> HIDE DEF j
  <2>3. steward' = [steward EXCEPT ![p] = j]
    BY <2>1 DEF j
  <2>4. DOMAIN steward' = Steward /\ steward'[p] = j /\ \A x \in Steward : x # p => steward'[x] = steward[x]
    BY <2>3 DEF ConnectionInv
  <2> QED BY <1>1, <2>2, <2>4 DEF EditCurrent
<1>3. ASSUME NEW p \in Steward, GetConnection(p)
      PROVE  DOMAIN steward' = Steward /\ EditCurrent(q)'
             /\ (steward'[q].pc = "add" => steward'[q].connection \in Connection)
  <2>1. PICK c \in ActiveConnections :
          \E newRow \in {[connections[c] EXCEPT !.secret = s] : s \in Secrets}
                       \cup {[connections[c] EXCEPT !.status = "revoked"]} :
            steward' = [steward EXCEPT ![p] = [Unused EXCEPT !.pc = "set", !.connection = c,
                                                             !.read = newRow]]
    BY <1>3 DEF GetConnection
  <2>2. c \in Connection /\ connections[c] \in ConnectionRow /\ connections[c].status = "active"
    BY DEF ActiveConnections, ConnectionInv
  <2>8. PICK newRow \in {[connections[c] EXCEPT !.secret = s] : s \in Secrets}
                       \cup {[connections[c] EXCEPT !.status = "revoked"]} :
          steward' = [steward EXCEPT ![p] = [Unused EXCEPT !.pc = "set", !.connection = c,
                                                           !.read = newRow]]
    BY <2>1
  <2>3. /\ newRow \in ConnectionRow /\ newRow.status \in {"active", "revoked"}
        /\ newRow.revision = connections[c].revision
    BY <2>2 DEF ConnectionRow
  <2> DEFINE j == [Unused EXCEPT !.pc = "set", !.connection = c, !.read = newRow]
  <2>4. j.pc = "set" /\ j.connection = c /\ j.read = newRow
    BY DEF Unused
  <2> HIDE DEF j
  <2>5. steward' = [steward EXCEPT ![p] = j] /\ UNCHANGED connections
    BY <1>3, <2>8 DEF j, GetConnection
  <2>6. DOMAIN steward' = Steward /\ steward'[p] = j /\ \A x \in Steward : x # p => steward'[x] = steward[x]
    BY <2>5 DEF ConnectionInv
  <2>7. newRow.revision \in Nat
    BY <2>3 DEF ConnectionRow
  <2> QED BY <1>1, <2>2, <2>3, <2>4, <2>5, <2>6, <2>7 DEF EditCurrent
<1>4. ASSUME NEW p \in Steward, AddConnection(p) \/ ReplaceConnection(p)
      PROVE  DOMAIN steward' = Steward /\ EditCurrent(q)'
             /\ (steward'[q].pc = "add" => steward'[q].connection \in Connection)
  <2>1. steward' = [steward EXCEPT ![p] = Unused] /\ Unused.pc = "idle"
    BY <1>4 DEF AddConnection, ReplaceConnection, Unused
  <2>2. DOMAIN steward' = Steward /\ steward'[p] = Unused /\ \A x \in Steward : x # p => steward'[x] = steward[x]
    BY <2>1 DEF ConnectionInv
  <2> QED BY <1>1, <2>1, <2>2 DEF EditCurrent
<1>5. CASE UNCHANGED steward
  BY <1>1, <1>5 DEF ConnectionInv
<1> QED BY <1>2, <1>3, <1>4, <1>5
        DEF ConnectionStep, Issue, ResolveLease, ValidateConnection, UseSecret, EndLease, ReapLease

LEMMA BorrowersOK ==
  ASSUME ConnectionInv, ConnectionStep
  PROVE  /\ DOMAIN borrower' = Borrower /\ leases' \in [Borrower -> Lease]
         /\ \A d \in Borrower : Holds(d)
<1>0. DOMAIN borrower = Borrower /\ leases \in [Borrower -> Lease]
  BY DEF ConnectionInv
<1>1. CASE UNCHANGED <<borrower, leases>>
  BY <1>0, <1>1 DEF Holds
<1>2. ASSUME NEW b \in Borrower, borrower[b] = "idle", UNCHANGED borrower, NEW r \in Lease,
             leases' = [leases EXCEPT ![b] = r]
      PROVE  /\ DOMAIN borrower' = Borrower /\ leases' \in [Borrower -> Lease]
             /\ \A d \in Borrower : Holds(d)
  BY <1>0, <1>2 DEF Holds
<1>3. NoLease \in Lease
  BY DEF NoLease, Lease
<1>4. ASSUME NEW b \in Borrower, Issue(b)
      PROVE  /\ DOMAIN borrower' = Borrower /\ leases' \in [Borrower -> Lease]
             /\ \A d \in Borrower : Holds(d)
  <2> DEFINE free == [NoLease EXCEPT !.status = "live"]
  <2>1. free \in Lease
    BY <1>3 DEF Lease
  <2>2. \A c \in Selected : [connection |-> c, secret |-> SecretOf, status |-> "live"] \in Lease
    BY DEF Lease, Selected, ActiveConnections
  <2>3. \E r \in Lease : leases' = [leases EXCEPT ![b] = r]
    BY <1>4, <2>1, <2>2 DEF Issue
  <2> QED BY <1>2, <1>4, <2>3 DEF Issue
<1>5. ASSUME NEW b \in Borrower, ReapLease(b)
      PROVE  /\ DOMAIN borrower' = Borrower /\ leases' \in [Borrower -> Lease]
             /\ \A d \in Borrower : Holds(d)
  BY <1>2, <1>3, <1>5 DEF ReapLease
<1>6. ASSUME NEW b \in Borrower, EndLease(b)
      PROVE  /\ DOMAIN borrower' = Borrower /\ leases' \in [Borrower -> Lease]
             /\ \A d \in Borrower : Holds(d)
  <2>1. leases' = [leases EXCEPT ![b].status = "ended"] /\ UNCHANGED borrower
    BY <1>6 DEF EndLease
  <2>2. leases' \in [Borrower -> Lease]
        /\ \A d \in Borrower : leases'[d].connection = leases[d].connection
                               /\ leases'[d].secret = leases[d].secret
    BY <1>0, <2>1 DEF Lease
  <2> QED BY <1>0, <2>1, <2>2 DEF Holds
<1>7. ASSUME NEW b \in Borrower, ResolveLease(b) \/ ValidateConnection(b) \/ UseSecret(b)
      PROVE  /\ DOMAIN borrower' = Borrower /\ leases' \in [Borrower -> Lease]
             /\ \A d \in Borrower : Holds(d)
  BY <1>0, <1>7 DEF ResolveLease, ValidateConnection, UseSecret, Holds
<1> QED BY <1>1, <1>4, <1>5, <1>6, <1>7
        DEF ConnectionStep, ListPrincipal, AddConnection, GetConnection, ReplaceConnection

LEMMA ConnectionNextInv == ConnectionInv /\ [ConnectionNext]_connectionVars => ConnectionInv'
<1>1. CASE UNCHANGED connectionVars
  BY <1>1 DEF connectionVars, ConnectionInv, EditCurrent, LeaseKnown
<1>2. ASSUME ConnectionInv, ConnectionNext
      PROVE  ConnectionInv'
  <2>1. ConnectionStep
    BY <1>2 DEF ConnectionNext
  <2>2. UNCHANGED connections \/ (\E c, newRow : RowWritten(c, newRow))
    BY <1>2, <2>1, RowsWritten
  <2>3. connections' \in [Connection -> ConnectionRow]
        /\ \A c \in Connection : connections'[c].status = "absent" => connections'[c] = NoRow
    <3>1. CASE UNCHANGED connections
      BY <1>2, <3>1 DEF ConnectionInv
    <3>2. ASSUME NEW c, NEW newRow, RowWritten(c, newRow)
          PROVE  connections' \in [Connection -> ConnectionRow]
                 /\ \A d \in Connection : connections'[d].status = "absent" => connections'[d] = NoRow
      BY <1>2, <3>2 DEF ConnectionInv, RowWritten
    <3> QED BY <2>2, <3>1, <3>2
  <2>4. DOMAIN steward' = Steward
        /\ \A q \in Steward : EditCurrent(q)' /\ (steward'[q].pc = "add" => steward'[q].connection \in Connection)
    <3>1. \A q \in Steward : DOMAIN steward' = Steward /\ EditCurrent(q)'
            /\ (steward'[q].pc = "add" => steward'[q].connection \in Connection)
      BY <1>2, <2>1, StewardsOK
    <3>2. DOMAIN steward' = Steward
      BY <1>2, <2>1 DEF ConnectionStep, ListPrincipal, AddConnection, GetConnection,
         ReplaceConnection, Issue, ResolveLease, ValidateConnection, UseSecret, EndLease, ReapLease,
         ConnectionInv
    <3> QED BY <3>1, <3>2
  <2>5. /\ DOMAIN borrower' = Borrower /\ leases' \in [Borrower -> Lease]
        /\ \A d \in Borrower : Holds(d)
    BY <1>2, <2>1, BorrowersOK
  <2>6. ASSUME NEW d \in Borrower PROVE LeaseKnown(d)'
    <3> SUFFICES ASSUME borrower'[d] = "handed", leases'[d].connection # NoConnection
                 PROVE  leases'[d].connection \in authorized'[d]
      BY DEF LeaseKnown
    <3>1. leases[d] \in Lease /\ leases'[d].connection = leases[d].connection
          /\ leases[d].connection \in Connection
      BY <1>2, <2>5 DEF Holds, ConnectionInv, Lease
    <3> DEFINE current == {c \in Connection : /\ connections'[c].status = "active"
                                          /\ connections'[c].secret = leases[d].secret}
    <3>2. authorized'[d] = IF borrower[d] = "idle" THEN current ELSE authorized[d] \cup current
      BY <1>2 DEF ConnectionNext
    <3>3. CASE borrower[d] = "handed"
      BY <1>2, <3>1, <3>2, <3>3 DEF ConnectionInv, LeaseKnown
    <3>4. CASE borrower[d] # "handed"
      <4>1. UNCHANGED connections /\ StillAuthorized(leases[d])
        BY <2>5, <3>1, <3>4 DEF Holds
      <4> QED BY <3>1, <3>2, <4>1 DEF StillAuthorized
    <3> QED BY <3>3, <3>4
  <2> QED BY <2>3, <2>4, <2>5, <2>6 DEF ConnectionInv
<1> QED BY <1>1, <1>2

(* Theorem: a managed secret is handed over only through a connection that  *)
(* was active with that secret after the Run asked (credentials.py resolve  *)
(* and governance validate_connection).                                     *)
THEOREM SecretsFollow == ServicesSpec => []SecretsFollowConnections
<1>1. ConnectionInv => SecretsFollowConnections
  BY DEF ConnectionInv, LeaseKnown, SecretsFollowConnections
<1> QED BY <1>1, ConnectionPart, ConnectionInitInv, ConnectionNextInv, PTL DEF ServicesSpec

(* Theorem: no edit read before a revocation undoes it                      *)
(* (compare_and_set_connection, storage of governance).                     *)
THEOREM RevocationsStay == ServicesSpec => RevokedStays
<1> DEFINE Kept == \A c \in Connection : connections[c].status = "revoked" =>
                     connections'[c] = connections[c]
<1>1. ConnectionInv /\ [ConnectionNext]_connectionVars => [Kept]_connectionVars
  <2>1. ASSUME ConnectionInv, ConnectionNext
        PROVE  Kept
    <3>1. UNCHANGED connections \/ (\E c, newRow : RowWritten(c, newRow))
      BY <2>1, RowsWritten DEF ConnectionNext
    <3> QED BY <2>1, <3>1 DEF RowWritten, ConnectionInv
  <2> QED BY <2>1
<1>2. ConnectionInv /\ [ConnectionNext]_connectionVars => ConnectionInv'
  BY ConnectionNextInv
<1> QED BY <1>1, <1>2, ConnectionPart, ConnectionInitInv, PTL DEF ServicesSpec, RevokedStays

-----------------------------------------------------------------------------
(* Governed policies.                                                        *)

LEMMA PolicyPart ==
  /\ ServicesInit => PolicyInit
  /\ [ServicesNext]_servicesVars => [PolicyNext]_policyVars
<1>1. ServicesInit => PolicyInit
  BY DEF ServicesInit
<1>2. ServicesNext => PolicyNext \/ UNCHANGED policyVars
  BY DEF ServicesNext, Only
<1>3. UNCHANGED servicesVars => UNCHANGED policyVars
  BY DEF servicesVars
<1> QED BY <1>1, <1>2, <1>3

PolicyDraft == [revision : Nat, content : Nat, published : Nat]

(* The publication that a draft names exists and is of that revision.       *)
NamesPublication(copy) ==
  copy.published # 0 => /\ copy.published \in 1 .. MaxDraft
                         /\ publications[copy.published] = copy.published

(* A draft, as it is or as a request read it.                               *)
DraftOK(copy) ==
  /\ copy \in PolicyDraft /\ copy.revision >= 1 /\ copy.content = copy.revision
  /\ NamesPublication(copy)

PolicyInv ==
  /\ DraftOK(policy)
  /\ publications \in [1 .. MaxDraft -> Nat]
  /\ \A r \in 1 .. MaxDraft : publications[r] \in {0, r}
  /\ DOMAIN publisher = Publisher
  /\ \A q \in Publisher : publisher[q].pc \in {"edit", "publish"} =>
       DraftOK(publisher[q].read) /\ publisher[q].read.revision < MaxDraft

LEMMA PolicyInitInv == PolicyInit => PolicyInv
<1> SUFFICES ASSUME PolicyInit PROVE PolicyInv
  OBVIOUS
<1>1. DraftOK(policy)
  BY DEF PolicyInit, DraftOK, PolicyDraft, NamesPublication
<1>2. \A q \in Publisher : publisher[q].pc = "idle"
  BY DEF PolicyInit, Unasked
<1> QED BY <1>1, <1>2 DEF PolicyInit, PolicyInv

(* Publications are added, never changed, so that what a draft names stays. *)
Publishes ==
  /\ publications' \in [1 .. MaxDraft -> Nat]
  /\ \A r \in 1 .. MaxDraft : /\ publications'[r] \in {0, r}
                              /\ publications[r] # 0 => publications'[r] = publications[r]

LEMMA PolicyMoves ==
  ASSUME PolicyInv, PolicyNext
  PROVE  Publishes /\ PolicyInv'
<1> USE DraftAssumption
<1>0. \A q \in Publisher : publisher[q].pc \in {"edit", "publish"} =>
        /\ DraftOK(publisher[q].read) /\ publisher[q].read.revision < MaxDraft
        /\ publisher[q].read.revision \in 1 .. MaxDraft
  BY DEF PolicyInv, DraftOK, PolicyDraft
<1>1. ASSUME NEW q \in Publisher, GetPolicyDraft(q)
      PROVE  Publishes /\ PolicyInv'
  <2>1. Publishes
    BY <1>1 DEF GetPolicyDraft, PolicyInv, Publishes
  <2>2. PICK pc \in {"edit", "publish"} : publisher' = [publisher EXCEPT ![q] = [pc |-> pc, read |-> policy]]
    BY <1>1 DEF GetPolicyDraft
  <2>3. /\ DOMAIN publisher' = Publisher /\ publisher'[q].read = policy
        /\ \A p \in Publisher : p # q => publisher'[p] = publisher[p]
    BY <2>2 DEF PolicyInv
  <2> QED BY <1>1, <2>1, <2>3 DEF GetPolicyDraft, PolicyInv, DraftOK, NamesPublication
<1>2. ASSUME NEW q \in Publisher, NEW copy, DraftOK(copy)', policy' = copy, Publishes,
             publisher' = [publisher EXCEPT ![q] = Unasked]
      PROVE  PolicyInv'
  <2>1. /\ DOMAIN publisher' = Publisher /\ publisher'[q].pc = "idle"
        /\ \A p \in Publisher : p # q => publisher'[p] = publisher[p]
    BY <1>2 DEF PolicyInv, Unasked
  <2>2. ASSUME NEW p \in Publisher, publisher'[p].pc \in {"edit", "publish"}
        PROVE  DraftOK(publisher[p].read)' /\ publisher'[p].read.revision < MaxDraft
    <3>1. publisher'[p] = publisher[p]
      BY <2>1, <2>2
    <3>2. NamesPublication(publisher[p].read) => NamesPublication(publisher[p].read)'
      BY <1>2, <3>1 DEF NamesPublication, Publishes
    <3> QED BY <1>0, <2>2, <3>1, <3>2 DEF DraftOK
  <2>3. DraftOK(policy)'
    BY <1>2 DEF DraftOK, NamesPublication
  <2> QED BY <1>2, <2>1, <2>2, <2>3 DEF PolicyInv, Publishes, DraftOK, NamesPublication
<1>3. ASSUME NEW q \in Publisher, ReplacePolicy(q)
      PROVE  Publishes /\ PolicyInv'
  <2> DEFINE read == publisher[q].read
             revised == [read EXCEPT !.revision = @ + 1]
             edited == [revised EXCEPT !.content = read.content + 1]
             copy == IF policy.revision # read.revision THEN policy ELSE edited
  <2>1. Publishes
    BY <1>3 DEF ReplacePolicy, PolicyInv, Publishes
  <2>2. DraftOK(read) /\ DraftOK(policy)
    BY <1>0, <1>3 DEF ReplacePolicy, PolicyInv
  <2>3. /\ edited \in PolicyDraft /\ edited.revision = read.revision + 1
        /\ edited.content = read.content + 1 /\ edited.published = read.published
    <3>1. read \in PolicyDraft
      BY <2>2 DEF DraftOK
    <3> HIDE DEF read
    <3>2. /\ revised \in PolicyDraft /\ revised.revision = read.revision + 1
          /\ revised.content = read.content /\ revised.published = read.published
      BY <3>1 DEF PolicyDraft
    <3>3. read.content \in Nat
      BY <3>1 DEF PolicyDraft
    <3> HIDE DEF revised
    <3> QED BY <3>2, <3>3 DEF PolicyDraft
  <2>4. policy' = copy /\ publications' = publications /\ publisher' = [publisher EXCEPT ![q] = Unasked]
    BY <1>3 DEF ReplacePolicy
  <2> HIDE DEF edited
  <2>5. read.revision \in Nat /\ read.content \in Nat
    BY <2>2 DEF DraftOK, PolicyDraft
  <2>6. DraftOK(edited)
    BY <2>2, <2>3, <2>5 DEF DraftOK, NamesPublication
  <2>7. DraftOK(copy)
    BY <2>2, <2>6
  <2> HIDE DEF copy
  <2>8. DraftOK(policy)'
    BY <2>4, <2>7 DEF DraftOK, NamesPublication
  <2> QED BY <1>2, <2>1, <2>4, <2>8
<1>4. ASSUME NEW q \in Publisher, PublishPolicy(q)
      PROVE  Publishes /\ PolicyInv'
  <2> DEFINE read == publisher[q].read
             named == [read EXCEPT !.published = read.revision]
  <2>1. DraftOK(read) /\ DraftOK(policy) /\ read.revision \in 1 .. MaxDraft
    BY <1>0, <1>4 DEF PublishPolicy, PolicyInv
  <2>2. publisher' = [publisher EXCEPT ![q] = Unasked]
    BY <1>4 DEF PublishPolicy
  <2>3. CASE UNCHANGED <<policy, publications>>
    <3>1. Publishes /\ DraftOK(policy)'
      BY <2>1, <2>3 DEF PolicyInv, Publishes, DraftOK, NamesPublication
    <3> QED BY <1>2, <2>2, <3>1
  <2>4. CASE /\ publications[read.revision] = 0 /\ policy' = named
             /\ publications' = [publications EXCEPT ![read.revision] = read.content]
    <3>1. read.content = read.revision /\ read \in PolicyDraft
      BY <2>1 DEF DraftOK
    <3>2. /\ DOMAIN publications' = 1 .. MaxDraft /\ publications'[read.revision] = read.revision
          /\ \A r \in 1 .. MaxDraft : r # read.revision => publications'[r] = publications[r]
      BY <2>1, <2>4, <3>1 DEF PolicyInv
    <3>3. publications' \in [1 .. MaxDraft -> Nat]
      BY <2>1, <2>4, <3>1 DEF PolicyInv, PolicyDraft
    <3>4. Publishes
      BY <2>4, <3>2, <3>3 DEF PolicyInv, Publishes
    <3>5. /\ named \in PolicyDraft /\ named.revision = read.revision
          /\ named.content = read.content /\ named.published = read.revision
      BY <3>1 DEF PolicyDraft
    <3> HIDE DEF named
    <3>6. DraftOK(policy)'
      BY <2>1, <2>4, <3>2, <3>5 DEF DraftOK, NamesPublication
    <3> QED BY <1>2, <2>2, <3>4, <3>6
  <2> QED BY <1>4, <2>3, <2>4 DEF PublishPolicy
<1>5. CASE ResolveRuntime
  BY <1>5 DEF ResolveRuntime, PolicyInv, Publishes, DraftOK, NamesPublication
<1> QED BY <1>1, <1>3, <1>4, <1>5 DEF PolicyNext

(* Theorem: the publication a policy names exists, is of its own revision   *)
(* and is never rewritten, whatever edits and publications race             *)
(* (governance/service.py publish_policy and resolve_runtime).              *)
THEOREM PublicationsAreKept == ServicesSpec => PublicationsStay
<1> DEFINE Stay == /\ policy'.published # 0 => publications'[policy'.published] = policy'.published
                   /\ \A r \in DOMAIN publications : publications[r] # 0 =>
                        publications'[r] = publications[r]
<1>1. PolicyInv /\ [PolicyNext]_policyVars => PolicyInv' /\ [Stay]_policyVars
  <2>1. CASE UNCHANGED policyVars
    BY <2>1 DEF policyVars, PolicyInv, DraftOK, NamesPublication
  <2>2. ASSUME PolicyInv, PolicyNext
        PROVE  PolicyInv' /\ Stay
    BY <2>2, PolicyMoves DEF PolicyInv, Publishes, DraftOK, NamesPublication
  <2> QED BY <2>1, <2>2
<1> QED BY <1>1, PolicyPart, PolicyInitInv, PTL DEF ServicesSpec, PublicationsStay

-----------------------------------------------------------------------------
(* Accounts.                                                                 *)

LEMMA AccountPart ==
  /\ ServicesInit => AccountInit
  /\ [ServicesNext]_servicesVars => [AccountNext]_accountVars
<1>1. ServicesInit => AccountInit
  BY DEF ServicesInit
<1>2. ServicesNext => AccountNext \/ UNCHANGED accountVars
  BY DEF ServicesNext, Only
<1>3. UNCHANGED servicesVars => UNCHANGED accountVars
  BY DEF servicesVars
<1> QED BY <1>1, <1>2, <1>3

RefreshToken == [family : Nat, live : BOOLEAN]
MemberRole == {"none", "owner", "admin", "member", "viewer"}
AccountPc == {"idle", "register", "oauth", "link", "issue", "rotate", "revoke", "savePassword",
              "saveProfile", "revokeAll", "saveRole", "done"}
AccountRequest == [pc : AccountPc, password : Nat, token : Nat, role : MemberRole,
                   target : Member \cup {FirstUser}]

AccountTypes ==
  /\ account \in [exists : BOOLEAN, password : Nat, linked : BOOLEAN]
  /\ tokens \in Seq(RefreshToken)
  /\ request \in [Request -> AccountRequest]

(* A family is numbered after its first token and has one live token.       *)
Families ==
  /\ \A i \in 1 .. Len(tokens) : tokens[i].family \in 1 .. Len(tokens)
  /\ \A i, j \in 1 .. Len(tokens) :
       tokens[i].live /\ tokens[j].live /\ tokens[i].family = tokens[j].family => i = j

(* The request holds a token that was issued.                               *)
Shown(r, n) == r.pc \in {"rotate", "revoke"} => r.token \in 1 .. n

AccountInv ==
  /\ AccountTypes /\ Families
  /\ \A q \in Request : Shown(request[q], Len(tokens))

LEMMA AccountInitInv == AccountInit => AccountInv
<1> SUFFICES ASSUME AccountInit PROVE AccountInv
  OBVIOUS
<1>1. Waiting \in AccountRequest /\ Waiting.pc = "idle"
  BY DEF Waiting, AccountRequest, AccountPc, MemberRole
<1>2. tokens = <<>> /\ Len(tokens) = 0 /\ tokens \in Seq(RefreshToken)
  BY DEF AccountInit
<1>3. Families
  BY <1>2 DEF Families
<1> QED BY <1>1, <1>2, <1>3 DEF AccountInit, AccountInv, AccountTypes, Shown

(* Tokens are revoked, or one of a family is added when no other of that    *)
(* family stays live.                                                       *)
Revoking ==
  /\ tokens' \in Seq(RefreshToken) /\ Len(tokens') = Len(tokens)
  /\ \A i \in 1 .. Len(tokens) : /\ tokens'[i].family = tokens[i].family
                                 /\ tokens'[i].live => tokens[i].live

Adding(g) ==
  /\ tokens' \in Seq(RefreshToken) /\ Len(tokens') = Len(tokens) + 1
  /\ \A i \in 1 .. Len(tokens) :
       /\ tokens'[i].family = tokens[i].family
       /\ tokens'[i].live => tokens[i].live /\ tokens[i].family # g
  /\ tokens'[Len(tokens) + 1].family = g
  /\ \/ g = Len(tokens) + 1
     \/ \E i \in 1 .. Len(tokens) : tokens[i].live /\ tokens[i].family = g

TokensMove == Revoking \/ \E g \in Nat : Adding(g)

LEMMA FamiliesKept ==
  ASSUME AccountInv, TokensMove
  PROVE  /\ tokens' \in Seq(RefreshToken) /\ Len(tokens') \in Nat /\ Len(tokens) \in Nat
         /\ Len(tokens) <= Len(tokens') /\ Families'
<1>1. Len(tokens) \in Nat /\ \A i \in 1 .. Len(tokens) : tokens[i] \in RefreshToken
  BY DEF AccountInv, AccountTypes
<1>2. CASE Revoking
  BY <1>1, <1>2 DEF Revoking, AccountInv, Families
<1>3. ASSUME NEW g \in Nat, Adding(g)
      PROVE  /\ tokens' \in Seq(RefreshToken) /\ Len(tokens') \in Nat
             /\ Len(tokens) <= Len(tokens') /\ Families'
  <2>1. g \in 1 .. Len(tokens) + 1
    BY <1>1, <1>3 DEF Adding, AccountInv, Families
  <2>2. \A i \in 1 .. Len(tokens') : i \in 1 .. Len(tokens) \/ i = Len(tokens) + 1
    BY <1>1, <1>3 DEF Adding
  <2>3. \A i \in 1 .. Len(tokens') : tokens'[i].family \in 1 .. Len(tokens')
    BY <1>1, <1>3, <2>1, <2>2 DEF Adding, AccountInv, Families
  <2>4. ASSUME NEW i \in 1 .. Len(tokens'), NEW j \in 1 .. Len(tokens'), tokens'[i].live,
               tokens'[j].live, tokens'[i].family = tokens'[j].family
        PROVE  i = j
    BY <1>1, <1>3, <2>2, <2>4 DEF Adding, AccountInv, Families
  <2> QED BY <1>1, <1>3, <2>3, <2>4 DEF Adding, Families
<1> QED BY <1>1, <1>2, <1>3 DEF TokensMove

(* What FamiliesEnd says of one step and one family.                        *)
FamilyEnds(f) ==
  /\ Cardinality(Live(f)') <= 1
  /\ f <= Len(tokens) /\ tokens[f].family = f /\ Live(f) = {} => Live(f)' = {}

LEMMA StepEnds ==
  ASSUME AccountInv, TokensMove, NEW f \in Nat
  PROVE  FamilyEnds(f)
<1>1. Len(tokens) \in Nat /\ tokens \in Seq(RefreshToken) /\ tokens' \in Seq(RefreshToken)
      /\ Len(tokens') \in Nat /\ Families'
  BY FamiliesKept DEF AccountInv, AccountTypes
<1>2. Cardinality(Live(f)') <= 1
  <2>1. CASE Live(f)' = {}
    BY <2>1, FS_EmptySet
  <2>2. ASSUME NEW i \in Live(f)'
        PROVE  Cardinality(Live(f)') <= 1
    <3>1. Live(f)' = {i}
      BY <1>1, <2>2 DEF Live, Families
    <3>2. Cardinality({i}) = 1
      BY FS_Singleton
    <3> QED BY <3>1, <3>2
  <2> QED BY <2>1, <2>2
<1>3. ASSUME f <= Len(tokens), Live(f) = {}, NEW i \in Live(f)'
      PROVE  FALSE
  <2>1. i \in 1 .. Len(tokens') /\ tokens'[i].family = f /\ tokens'[i].live
    BY <1>1, <1>3 DEF Live
  <2>2. \A j \in 1 .. Len(tokens) : ~ (tokens[j].family = f /\ tokens[j].live)
    BY <1>1, <1>3 DEF Live
  <2>3. CASE Revoking
    BY <1>1, <2>1, <2>2, <2>3 DEF Revoking
  <2>4. ASSUME NEW g \in Nat, Adding(g)
        PROVE  FALSE
    <3>1. i \in 1 .. Len(tokens) \/ i = Len(tokens) + 1
      BY <1>1, <2>1, <2>4 DEF Adding
    <3> QED BY <1>1, <1>3, <2>1, <2>2, <2>4, <3>1 DEF Adding
  <2> QED BY <2>3, <2>4 DEF TokensMove
<1> QED BY <1>2, <1>3 DEF FamilyEnds

(* A request that takes its next step.                                      *)
LEMMA RequestMoves ==
  ASSUME AccountInv, TokensMove, NEW q \in Request, NEW r \in AccountRequest,
         account' \in [exists : BOOLEAN, password : Nat, linked : BOOLEAN],
         request' = [request EXCEPT ![q] = r], Shown(r, Len(tokens'))
  PROVE  AccountInv'
<1>1. /\ tokens' \in Seq(RefreshToken) /\ Len(tokens') \in Nat /\ Len(tokens) \in Nat
      /\ Len(tokens) <= Len(tokens') /\ Families'
  BY FamiliesKept
<1>2. request' \in [Request -> AccountRequest]
  BY DEF AccountInv, AccountTypes
<1>3. ASSUME NEW p \in Request PROVE Shown(request'[p], Len(tokens'))
  BY <1>1 DEF AccountInv, AccountTypes, Shown, AccountRequest
<1> QED BY <1>1, <1>2, <1>3 DEF AccountInv, AccountTypes

LEMMA RequestFields ==
  ASSUME NEW r \in AccountRequest, NEW pc \in AccountPc
  PROVE  /\ [r EXCEPT !.pc = pc] \in AccountRequest
         /\ [r EXCEPT !.pc = pc].pc = pc /\ [r EXCEPT !.pc = pc].token = r.token
  BY DEF AccountRequest

LEMMA ReplyMoves ==
  ASSUME AccountInv, TokensMove, NEW q \in Request, NEW pc \in AccountPc, Replies(q, pc),
         account' \in [exists : BOOLEAN, password : Nat, linked : BOOLEAN],
         pc = "revoke" => request[q].pc = "rotate", pc # "rotate"
  PROVE  AccountInv'
<1> DEFINE r == [request[q] EXCEPT !.pc = pc]
<1>1. request[q] \in AccountRequest /\ Shown(request[q], Len(tokens))
  BY DEF AccountInv, AccountTypes
<1>2. r \in AccountRequest /\ r.pc = pc /\ r.token = request[q].token
  BY <1>1, RequestFields
<1>3. request' = [request EXCEPT ![q] = r]
  BY DEF Replies
<1>4. /\ Len(tokens') \in Nat /\ Len(tokens) \in Nat /\ Len(tokens) <= Len(tokens')
  BY FamiliesKept
<1> HIDE DEF r
<1>5. Shown(r, Len(tokens'))
  BY <1>1, <1>2, <1>4 DEF Shown
<1> QED BY <1>2, <1>3, <1>5, RequestMoves

LEMMA TokensStay ==
  ASSUME AccountInv, UNCHANGED tokens
  PROVE  TokensMove
<1> QED BY DEF AccountInv, AccountTypes, TokensMove, Revoking

LEMMA ReadingInv ==
  ASSUME AccountInv, NEW q \in Request,
         ChooseRole(q) \/ ReadToken(q) \/ Logout(q) \/ ReadUser(q) \/ CheckRole(q)
  PROVE  TokensMove /\ AccountInv'
<1>1. TokensMove /\ UNCHANGED <<account, tokens>>
      /\ account' \in [exists : BOOLEAN, password : Nat, linked : BOOLEAN]
  BY TokensStay DEF ChooseRole, ReadToken, Logout, ReadUser, CheckRole, AccountInv, AccountTypes
<1>2. request[q] \in AccountRequest
  BY DEF AccountInv, AccountTypes
<1>3. ASSUME NEW pc \in AccountPc \ {"rotate", "revoke"}, NEW role \in MemberRole,
             request' = [request EXCEPT ![q] = [@ EXCEPT !.pc = pc, !.role = role]]
      PROVE  AccountInv'
  <2> DEFINE r == [request[q] EXCEPT !.pc = pc]
             s == [r EXCEPT !.role = role]
  <2>1. request' = [request EXCEPT ![q] = s]
    BY <1>3
  <2>2. r \in AccountRequest /\ r.pc = pc
    BY <1>2, RequestFields
  <2> HIDE DEF r
  <2>3. s \in AccountRequest /\ s.pc = pc
    BY <2>2 DEF AccountRequest
  <2> HIDE DEF s
  <2> QED BY <1>1, <2>1, <2>3, RequestMoves DEF Shown
<1>4. ASSUME ChooseRole(q)
      PROVE  AccountInv'
  <2> DEFINE role == IF \A m \in Member : roles[m] = "none" THEN "owner" ELSE "member"
  <2>1. PICK pc \in {"register", "oauth"} :
          request' = [request EXCEPT ![q] = [@ EXCEPT !.pc = pc, !.role = role]]
    BY <1>4 DEF ChooseRole
  <2>2. role \in MemberRole /\ pc \in AccountPc \ {"rotate", "revoke"}
    BY DEF MemberRole, AccountPc
  <2> HIDE DEF role
  <2> QED BY <1>3, <2>1, <2>2
<1>5. ASSUME ReadToken(q) \/ Logout(q)
      PROVE  AccountInv'
  <2>1. PICK i \in DOMAIN tokens, pc \in {"rotate", "revoke"} :
          \/ request' = [request EXCEPT ![q] = [@ EXCEPT !.token = i, !.pc = pc]]
          \/ request' = [request EXCEPT ![q] = [@ EXCEPT !.pc = pc, !.token = i]]
    BY <1>5 DEF ReadToken, Logout
  <2> DEFINE r == [request[q] EXCEPT !.token = i]
             s == [r EXCEPT !.pc = pc]
             u == [request[q] EXCEPT !.pc = pc]
             v == [u EXCEPT !.token = i]
  <2>2. request' = [request EXCEPT ![q] = s] \/ request' = [request EXCEPT ![q] = v]
    BY <2>1
  <2>3. i \in 1 .. Len(tokens) /\ i \in Nat /\ pc \in AccountPc
    BY DEF AccountInv, AccountTypes, AccountPc
  <2>4. r \in AccountRequest /\ r.token = i
    BY <1>2, <2>3 DEF AccountRequest
  <2>5. u \in AccountRequest /\ u.pc = pc
    BY <1>2, <2>3, RequestFields
  <2> HIDE DEF r, u
  <2>6. s \in AccountRequest /\ s.pc = pc /\ s.token = i
    BY <2>3, <2>4 DEF AccountRequest
  <2>7. v \in AccountRequest /\ v.pc = pc /\ v.token = i
    BY <2>3, <2>5 DEF AccountRequest
  <2> HIDE DEF s, v
  <2>8. Shown(s, Len(tokens')) /\ Shown(v, Len(tokens'))
    BY <1>1, <2>3, <2>6, <2>7 DEF Shown
  <2>9. CASE request' = [request EXCEPT ![q] = s]
    BY <1>1, <2>6, <2>8, <2>9, RequestMoves
  <2>10. CASE request' = [request EXCEPT ![q] = v]
    BY <1>1, <2>7, <2>8, <2>10, RequestMoves
  <2> QED BY <2>2, <2>9, <2>10
<1>6. ASSUME ReadUser(q)
      PROVE  AccountInv'
  <2>1. PICK pc \in {"savePassword", "saveProfile"} :
          request' = [request EXCEPT ![q] = [@ EXCEPT !.pc = pc, !.password = account.password]]
    BY <1>6 DEF ReadUser
  <2> DEFINE r == [request[q] EXCEPT !.pc = pc]
             s == [r EXCEPT !.password = account.password]
  <2>2. request' = [request EXCEPT ![q] = s]
    BY <2>1
  <2>6. pc \in AccountPc /\ pc \notin {"rotate", "revoke"}
    BY DEF AccountPc
  <2>3. r \in AccountRequest /\ r.pc = pc
    BY <1>2, <2>6, RequestFields
  <2>4. account.password \in Nat
    BY DEF AccountInv, AccountTypes
  <2> HIDE DEF r
  <2>5. s \in AccountRequest /\ s.pc = pc
    BY <2>3, <2>4 DEF AccountRequest
  <2> HIDE DEF s
  <2> QED BY <1>1, <2>2, <2>5, <2>6, RequestMoves DEF Shown
<1>7. ASSUME CheckRole(q)
      PROVE  AccountInv'
  <2>1. PICK target \in Member, role \in MemberRole :
          request' = [request EXCEPT ![q] = [@ EXCEPT !.pc = "saveRole", !.role = role,
                                                      !.target = target]]
    BY <1>7 DEF CheckRole, MemberRole
  <2> DEFINE r == [request[q] EXCEPT !.pc = "saveRole"]
             s == [r EXCEPT !.role = role]
             u == [s EXCEPT !.target = target]
  <2>2. request' = [request EXCEPT ![q] = u]
    BY <2>1
  <2>3. r \in AccountRequest /\ r.pc = "saveRole"
    BY <1>2, RequestFields DEF AccountPc
  <2> HIDE DEF r
  <2>4. s \in AccountRequest /\ s.pc = "saveRole"
    BY <2>3 DEF AccountRequest
  <2> HIDE DEF s
  <2>5. u \in AccountRequest /\ u.pc = "saveRole"
    BY <2>4 DEF AccountRequest
  <2> HIDE DEF u
  <2> QED BY <1>1, <2>2, <2>5, RequestMoves DEF Shown
<1> QED BY <1>1, <1>4, <1>5, <1>6, <1>7

LEMMA WritingInv ==
  ASSUME AccountInv, NEW q \in Request,
         CreateUser(q) \/ FindByIdentity(q) \/ LinkIdentity(q) \/ Login(q) \/ SaveUser(q)
           \/ SaveMembership(q)
  PROVE  TokensMove /\ AccountInv'
<1>1. TokensMove
  BY TokensStay DEF CreateUser, FindByIdentity, LinkIdentity, Login, SaveUser, SaveMembership
<1>2. account' \in [exists : BOOLEAN, password : Nat, linked : BOOLEAN]
  <2>1. account \in [exists : BOOLEAN, password : Nat, linked : BOOLEAN]
        /\ request[q].password \in Nat
    BY DEF AccountInv, AccountTypes, AccountRequest
  <2>2. CASE UNCHANGED account
    BY <2>1, <2>2
  <2>3. CASE account' = [account EXCEPT !.exists = TRUE]
    BY <2>1, <2>3
  <2>4. CASE account' = [account EXCEPT !.linked = TRUE]
    BY <2>1, <2>4
  <2>5. ASSUME SaveUser(q)
        PROVE  account' \in [exists : BOOLEAN, password : Nat, linked : BOOLEAN]
    <3>1. PICK n \in Nat : account' = [account EXCEPT !.password = n]
      BY <2>1, <2>5 DEF SaveUser
    <3> QED BY <2>1, <3>1
  <2> QED BY <2>2, <2>3, <2>4, <2>5
          DEF CreateUser, FindByIdentity, LinkIdentity, Login, SaveMembership
<1>3. \E pc \in AccountPc \ {"rotate", "revoke"} : Replies(q, pc)
  BY DEF CreateUser, FindByIdentity, LinkIdentity, Login, SaveUser, SaveMembership, AccountPc
<1> QED BY <1>1, <1>2, <1>3, ReplyMoves

LEMMA TokenInv ==
  ASSUME AccountInv, NEW q \in Request,
         IssueSession(q) \/ Rotate(q) \/ RevokeFamily(q) \/ RevokeAll(q)
  PROVE  TokensMove /\ AccountInv'
<1>1. /\ tokens \in Seq(RefreshToken) /\ Len(tokens) \in Nat /\ DOMAIN tokens = 1 .. Len(tokens)
      /\ \A i \in 1 .. Len(tokens) : tokens[i] \in RefreshToken
  BY DEF AccountInv, AccountTypes
<1>2. account' \in [exists : BOOLEAN, password : Nat, linked : BOOLEAN]
  BY DEF IssueSession, Rotate, RevokeFamily, RevokeAll, AccountInv, AccountTypes
<1>3. \E pc \in AccountPc \ {"rotate"} : Replies(q, pc) /\ (pc = "revoke" => request[q].pc = "rotate")
  BY DEF IssueSession, Rotate, RevokeFamily, RevokeAll, AccountPc, Asks
<1>4. ASSUME NEW g \in Nat, NEW old \in Seq(RefreshToken), Len(old) = Len(tokens),
             tokens' = Append(old, [family |-> g, live |-> TRUE]),
             \A i \in 1 .. Len(tokens) : /\ old[i].family = tokens[i].family
                                         /\ old[i].live => tokens[i].live /\ tokens[i].family # g,
             g = Len(tokens) + 1 \/ \E i \in 1 .. Len(tokens) : tokens[i].live /\ tokens[i].family = g
      PROVE  TokensMove
  <2>1. [family |-> g, live |-> TRUE] \in RefreshToken
    BY DEF RefreshToken
  <2>2. /\ tokens' \in Seq(RefreshToken) /\ Len(tokens') = Len(tokens) + 1
        /\ \A i \in 1 .. Len(tokens) : tokens'[i] = old[i]
        /\ tokens'[Len(tokens) + 1] = [family |-> g, live |-> TRUE]
    BY <1>1, <1>4, <2>1
  <2> QED BY <1>4, <2>2 DEF TokensMove, Adding
<1>5. CASE IssueSession(q)
  <2>1. \A i \in 1 .. Len(tokens) : tokens[i].live => tokens[i].family # Len(tokens) + 1
    BY <1>1 DEF AccountInv, Families
  <2>2. Len(tokens) + 1 \in Nat /\ tokens' = Append(tokens, [family |-> Len(tokens) + 1, live |-> TRUE])
    BY <1>1, <1>5 DEF IssueSession
  <2>3. TokensMove
    BY <1>1, <1>4, <2>1, <2>2
  <2> QED BY <1>2, <1>3, <2>3, ReplyMoves
<1>6. CASE Rotate(q)
  <2> DEFINE i == request[q].token
             old == [tokens EXCEPT ![i].live = FALSE]
  <2>1. i \in 1 .. Len(tokens)
    BY <1>6 DEF Rotate, AccountInv, Shown, Asks
  <2>2. CASE UNCHANGED tokens
    BY <1>2, <1>3, <2>2, TokensStay, ReplyMoves
  <2>3. CASE tokens[i].live /\ tokens' = Append(old, [family |-> tokens[i].family, live |-> TRUE])
    <3> HIDE DEF i
    <3>1. /\ DOMAIN old = 1 .. Len(tokens)
          /\ old[i].family = tokens[i].family /\ old[i].live = FALSE
          /\ \A j \in 1 .. Len(tokens) : j # i => old[j] = tokens[j]
          /\ \A j \in 1 .. Len(tokens) : old[j] \in RefreshToken
      BY <1>1, <2>1 DEF RefreshToken
    <3> DEFINE g == tokens[i].family
    <3>2. old = [j \in 1 .. Len(tokens) |-> old[j]]
      BY <1>1
    <3> HIDE DEF old
    <3>3. old \in Seq(RefreshToken) /\ Len(old) = Len(tokens)
      BY <1>1, <3>1, <3>2
    <3>4. \A j \in 1 .. Len(tokens) : /\ old[j].family = tokens[j].family
                                      /\ old[j].live => tokens[j].live /\ tokens[j].family # g
      BY <2>1, <2>3, <3>1 DEF AccountInv, Families
    <3>5. g \in Nat /\ \E j \in 1 .. Len(tokens) : tokens[j].live /\ tokens[j].family = g
      BY <1>1, <2>1, <2>3 DEF RefreshToken
    <3> HIDE DEF g
    <3>6. tokens' = Append(old, [family |-> g, live |-> TRUE])
      BY <2>3 DEF g
    <3>7. TokensMove
      BY <1>4, <3>3, <3>4, <3>5, <3>6
    <3> QED BY <1>2, <1>3, <3>7, ReplyMoves
  <2> QED BY <1>6, <2>2, <2>3 DEF Rotate
<1>7. ASSUME NEW f, tokens' = Revoked(f) \/ tokens' = [i \in DOMAIN tokens |-> [tokens[i] EXCEPT !.live = FALSE]]
      PROVE  TokensMove
  <2> DEFINE Ended(t, b) == [t EXCEPT !.live = b]
  <2>3. \A t \in RefreshToken, b \in BOOLEAN :
          Ended(t, b) \in RefreshToken /\ Ended(t, b).family = t.family /\ Ended(t, b).live = b
    BY DEF RefreshToken
  <2>4. PICK b \in [1 .. Len(tokens) -> BOOLEAN] :
          /\ \A i \in 1 .. Len(tokens) : b[i] => tokens[i].live
          /\ tokens' = [i \in 1 .. Len(tokens) |-> Ended(tokens[i], b[i])]
    <3> DEFINE kept == [i \in 1 .. Len(tokens) |-> (tokens[i].live /\ tokens[i].family # f)]
               none == [i \in 1 .. Len(tokens) |-> FALSE]
    <3>1. CASE tokens' = Revoked(f)
      <4>1. tokens' = [i \in 1 .. Len(tokens) |-> Ended(tokens[i], kept[i])]
        BY <1>1, <3>1 DEF Revoked
      <4>2. kept \in [1 .. Len(tokens) -> BOOLEAN]
            /\ \A i \in 1 .. Len(tokens) : kept[i] => tokens[i].live
        OBVIOUS
      <4> QED BY <4>1, <4>2
    <3>2. CASE tokens' = [i \in DOMAIN tokens |-> [tokens[i] EXCEPT !.live = FALSE]]
      <4>1. tokens' = [i \in 1 .. Len(tokens) |-> Ended(tokens[i], none[i])]
        BY <1>1, <3>2
      <4>2. none \in [1 .. Len(tokens) -> BOOLEAN]
            /\ \A i \in 1 .. Len(tokens) : none[i] => tokens[i].live
        OBVIOUS
      <4> QED BY <4>1, <4>2
    <3> QED BY <1>7, <3>1, <3>2
  <2> HIDE DEF Ended
  <2>1. /\ DOMAIN tokens' = 1 .. Len(tokens)
        /\ \A i \in 1 .. Len(tokens) : /\ tokens'[i] \in RefreshToken
                                       /\ tokens'[i].family = tokens[i].family
                                       /\ tokens'[i].live => tokens[i].live
    BY <1>1, <2>3, <2>4
  <2>2. tokens' \in Seq(RefreshToken) /\ Len(tokens') = Len(tokens)
    BY <1>1, <2>1, <2>4
  <2> QED BY <2>1, <2>2 DEF TokensMove, Revoking
<1>8. CASE RevokeFamily(q) \/ RevokeAll(q)
  BY <1>2, <1>3, <1>7, <1>8, ReplyMoves DEF RevokeFamily, RevokeAll
<1> QED BY <1>5, <1>6, <1>8

(* Theorem: a family of refresh tokens has one live token at most, and none *)
(* ever again once it has none (auth/repositories.py rotate_refresh_token   *)
(* and revoke_token_family).                                                *)
THEOREM FamiliesStayEnded == ServicesSpec => FamiliesEnd
<1> DEFINE EndForGood == \A f \in 1 .. MaxToken :
                     /\ Cardinality(Live(f)') <= 1
                     /\ f <= Len(tokens) /\ tokens[f].family = f /\ Live(f) = {} => Live(f)' = {}
<1>1. AccountInv /\ [AccountNext]_accountVars => AccountInv' /\ [EndForGood]_accountVars
  <2>1. CASE UNCHANGED accountVars
    BY <2>1 DEF accountVars, AccountInv, AccountTypes, Families, Shown
  <2>2. ASSUME AccountInv, AccountNext
        PROVE  AccountInv' /\ EndForGood
    <3>1. TokensMove /\ AccountInv'
      BY <2>2, ReadingInv, WritingInv, TokenInv DEF AccountNext
    <3>2. \A f \in Nat : FamilyEnds(f)
      BY <2>2, <3>1, StepEnds
    <3> QED BY <3>1, <3>2 DEF FamilyEnds
  <2> QED BY <2>1, <2>2
<1> QED BY <1>1, AccountPart, AccountInitInv, PTL DEF ServicesSpec, FamiliesEnd

(* Theorem: what is revoked stays revoked, and what is published stays.     *)
THEOREM RevokedStaysRevoked == ServicesSpec => RevokedForGood
BY FamiliesStayEnded, RevocationsStay, PublicationsAreKept DEF RevokedForGood

-----------------------------------------------------------------------------
(* Platform MCP servers.                                                     *)

LEMMA WorkloadPart ==
  /\ ServicesInit => WorkloadInit
  /\ [ServicesNext]_servicesVars => [WorkloadNext]_workloadVars
<1>1. ServicesInit => WorkloadInit
  BY DEF ServicesInit
<1>2. ServicesNext => WorkloadNext \/ UNCHANGED workloadVars
  BY DEF ServicesNext, Only
<1>3. UNCHANGED servicesVars => UNCHANGED workloadVars
  BY DEF servicesVars
<1> QED BY <1>1, <1>2, <1>3

Server == {"none", "memory", "knowledge", "platform"}
Bearer == CliRun \cup Operator \cup {"nobody"}
PinSet == {PinsOf[r] : r \in CliRun} \cup {{}}
Identity == [by : Bearer, pins : PinSet]
WorkloadToken == [server : Server, by : Bearer, pins : PinSet, role : BOOLEAN, issued : Nat]
WorkloadCall == [pc : {"idle", "inside", "acted", "refused", "answered"}, server : Server,
                 token : WorkloadToken, at : Nat, acts : Identity]

WorkloadTypes ==
  /\ now \in Nat /\ lostRole \in [Operator -> Nat] /\ issuedTokens \subseteq WorkloadToken
  /\ rpc \in [Rpc -> WorkloadCall] /\ context \in [Rpc -> Identity]

(* A token was issued while its operator had the role.                      *)
HadRole(t) ==
  t.by \in Operator /\ t.role /\ lostRole[t.by] # 0 => t.issued <= lostRole[t.by]

TokenKnown(t) ==
  /\ t.issued <= now /\ HadRole(t)
  /\ t.by \in Operator => t.server = "platform"
  /\ t.server = "knowledge" => t.pins = PinsOf[t.by]

(* A request that was let in, with the identity it acts or acted for.       *)
LetIn(call) ==
  /\ call.token.server = call.server /\ call.at < call.token.issued + TokenLife
  /\ TokenKnown(call.token) /\ (call.server = "platform" => call.token.role)

CallerOf(call) == [by |-> call.token.by, pins |-> call.token.pins]

CallOK(q) ==
  LET call == rpc[q]
  IN  /\ call.pc \in {"inside", "acted"} => LetIn(call)
      /\ call.pc = "inside" => context[q] = CallerOf(call)
      /\ call.pc = "acted" => call.acts = CallerOf(call)
      /\ call.pc = "refused" => \/ call.token.server # call.server
                                \/ call.at >= call.token.issued + TokenLife
                                \/ call.server = "platform" /\ ~call.token.role

WorkloadInv ==
  /\ WorkloadTypes
  /\ \A t \in issuedTokens : TokenKnown(t)
  /\ \A q \in Rpc : CallOK(q)

LEMMA NoRpcIs == NoRpc \in WorkloadCall /\ NoRpc.pc = "idle" /\ Nobody \in Identity
<1>1. NoToken \in WorkloadToken
  BY DEF NoToken, WorkloadToken, Bearer, PinSet, Server
<1>2. Nobody \in Identity
  BY DEF Nobody, Identity, Bearer, PinSet
<1> QED BY <1>1, <1>2 DEF NoRpc, WorkloadCall, Server

LEMMA WorkloadInitInv == WorkloadInit => WorkloadInv
BY NoRpcIs DEF WorkloadInit, WorkloadInv, WorkloadTypes, CallOK

(* Time goes on, an operator loses the role or tokens are issued: what is   *)
(* known of a token stays true.                                             *)
Ages == /\ now' \in Nat /\ now <= now' /\ lostRole' \in [Operator -> Nat]
        /\ \A u \in Operator : lostRole'[u] = lostRole[u] \/ (lostRole[u] = 0 /\ now <= lostRole'[u])

LEMMA TokenStaysKnown ==
  ASSUME WorkloadTypes, Ages, NEW t \in WorkloadToken, TokenKnown(t)
  PROVE  TokenKnown(t)'
<1>1. t.issued \in Nat
  BY DEF WorkloadToken
<1> QED BY <1>1 DEF WorkloadTypes, Ages, TokenKnown, HadRole

(* The requests stay what they are.                                         *)
LEMMA CallsStay ==
  ASSUME WorkloadInv, Ages, UNCHANGED <<rpc, context>>, issuedTokens' \subseteq WorkloadToken,
         \A t \in issuedTokens' : TokenKnown(t)'
  PROVE  WorkloadInv'
<1>1. ASSUME NEW q \in Rpc PROVE CallOK(q)'
  <2>1. CallOK(q) /\ rpc[q] \in WorkloadCall /\ rpc[q].token \in WorkloadToken
    BY DEF WorkloadInv, WorkloadTypes, WorkloadCall
  <2>2. TokenKnown(rpc[q].token) => TokenKnown(rpc[q].token)'
    BY <2>1, TokenStaysKnown DEF WorkloadInv, TokenKnown, HadRole
  <2>3. LetIn(rpc[q]) => LetIn(rpc[q])'
    BY <2>2 DEF LetIn
  <2>4. rpc'[q] = rpc[q] /\ context'[q] = context[q]
    OBVIOUS
  <2> QED BY <2>1, <2>3, <2>4 DEF CallOK, CallerOf
<1> QED BY <1>1 DEF WorkloadInv, WorkloadTypes, Ages

LEMMA ClientsInv ==
  ASSUME WorkloadInv,
         \/ TimeGoesOn
         \/ \E r \in CliRun : StartCli(r) \/ EndCli(r)
         \/ \E u \in Operator : PlatformAccess(u) \/ LoseRole(u)
  PROVE  WorkloadInv'
<1> USE TokenAssumption
<1>1. WorkloadTypes /\ \A t \in issuedTokens : t \in WorkloadToken /\ TokenKnown(t)
  BY DEF WorkloadInv, WorkloadTypes
<1>2. /\ Ages /\ UNCHANGED <<rpc, context>>
  BY <1>1 DEF TimeGoesOn, StartCli, EndCli, PlatformAccess, LoseRole, Ages, WorkloadTypes
<1>3. \A t \in issuedTokens : TokenKnown(t)'
  BY <1>1, <1>2, TokenStaysKnown
<1>4. ASSUME NEW r \in CliRun, NEW t, UNCHANGED <<now, lostRole>>,
             t = IssueMemoryToken(r) \/ t = IssueKnowledgeToken(r)
      PROVE  t \in WorkloadToken /\ TokenKnown(t)'
  <2>1. t \in WorkloadToken
    <3>1. r \in Bearer /\ {} \in PinSet /\ PinsOf[r] \in PinSet /\ now \in Nat
          /\ {"memory", "knowledge"} \subseteq Server
      BY <1>1 DEF Bearer, PinSet, Server, WorkloadTypes
    <3>2. ASSUME NEW s \in Server, NEW p \in PinSet, t = [server |-> s, by |-> r, pins |-> p,
                                                         role |-> FALSE, issued |-> now]
          PROVE  t \in WorkloadToken
      BY <3>1, <3>2 DEF WorkloadToken
    <3> QED BY <1>4, <3>1, <3>2 DEF IssueMemoryToken, IssueKnowledgeToken
  <2>2. /\ t.issued = now /\ t.by = r /\ ~t.role
        /\ t.server = "knowledge" => t.pins = PinsOf[r]
    BY <1>4 DEF IssueMemoryToken, IssueKnowledgeToken
  <2> QED BY <1>1, <1>4, <2>1, <2>2 DEF WorkloadTypes, TokenKnown, HadRole
<1>5. ASSUME NEW u \in Operator, NEW t, UNCHANGED <<now, lostRole>>, t = IssuePlatformToken(u)
      PROVE  t \in WorkloadToken /\ TokenKnown(t)'
  <2> DEFINE b == lostRole[u] = 0
  <2>1. b \in BOOLEAN /\ (b => lostRole[u] = 0)
    OBVIOUS
  <2>2. t = [server |-> "platform", by |-> u, pins |-> {}, role |-> b, issued |-> now]
    BY <1>5 DEF IssuePlatformToken
  <2> HIDE DEF b
  <2>3. t \in WorkloadToken
    BY <1>1, <2>1, <2>2 DEF WorkloadToken, Server, Bearer, PinSet, WorkloadTypes
  <2>4. t.server = "platform" /\ t.by = u /\ t.role = b /\ t.issued = now
    BY <2>2
  <2> QED BY <1>1, <1>5, <2>1, <2>3, <2>4 DEF WorkloadTypes, TokenKnown, HadRole
<1>6. issuedTokens' \subseteq WorkloadToken /\ \A t \in issuedTokens' : TokenKnown(t)'
  <2>1. CASE UNCHANGED issuedTokens
    BY <1>1, <1>3, <2>1
  <2>2. ASSUME NEW r \in CliRun, StartCli(r)
        PROVE  issuedTokens' \subseteq WorkloadToken /\ \A t \in issuedTokens' : TokenKnown(t)'
    BY <1>1, <1>3, <1>4, <2>2 DEF StartCli
  <2>3. ASSUME NEW u \in Operator, PlatformAccess(u)
        PROVE  issuedTokens' \subseteq WorkloadToken /\ \A t \in issuedTokens' : TokenKnown(t)'
    BY <1>1, <1>3, <1>5, <2>3 DEF PlatformAccess
  <2> QED BY <2>1, <2>2, <2>3 DEF TimeGoesOn, EndCli, LoseRole
<1> QED BY <1>2, <1>6, CallsStay

(* One request moves.                                                       *)
LEMMA CallMoves ==
  ASSUME WorkloadInv, NEW q \in Rpc, NEW r \in WorkloadCall, rpc' = [rpc EXCEPT ![q] = r],
         UNCHANGED <<now, lostRole, issuedTokens>>, context' \in [Rpc -> Identity],
         \A p \in Rpc : p # q => context'[p] = context[p], CallOK(q)'
  PROVE  WorkloadInv'
<1>1. /\ rpc' \in [Rpc -> WorkloadCall] /\ rpc'[q] = r
      /\ \A p \in Rpc : p # q => rpc'[p] = rpc[p]
  BY DEF WorkloadInv, WorkloadTypes
<1>2. ASSUME NEW p \in Rpc, p # q PROVE CallOK(p)'
  BY <1>1, <1>2 DEF WorkloadInv, CallOK, LetIn, TokenKnown, HadRole, CallerOf
<1>3. \A t \in issuedTokens' : TokenKnown(t)'
  BY DEF WorkloadInv, TokenKnown, HadRole
<1> QED BY <1>1, <1>2, <1>3 DEF WorkloadInv, WorkloadTypes

LEMMA AdmitsInv ==
  ASSUME WorkloadInv, NEW q \in Rpc, NEW server \in Server, NEW t \in issuedTokens,
         NEW verified \in BOOLEAN, Admits(q, server, t, verified),
         verified <=> /\ t.server = server /\ now < t.issued + TokenLife
                      /\ server = "platform" => t.role
  PROVE  WorkloadInv'
<1> DEFINE pc == IF verified THEN "inside" ELSE "refused"
           r == [NoRpc EXCEPT !.pc = pc, !.server = server, !.token = t, !.at = now]
<1>1. t \in WorkloadToken /\ TokenKnown(t) /\ now \in Nat /\ t.issued \in Nat
  BY DEF WorkloadInv, WorkloadTypes, WorkloadToken
<1>2. rpc' = [rpc EXCEPT ![q] = r] /\ UNCHANGED <<now, lostRole, issuedTokens>>
  BY DEF Admits
<1>3. r.pc = pc /\ r.server = server /\ r.token = t /\ r.at = now
  BY DEF NoRpc
<1>4. pc \in {"inside", "refused"}
  OBVIOUS
<1>5. r \in WorkloadCall
  <2> DEFINE u == [NoRpc EXCEPT !.pc = pc]
             v == [u EXCEPT !.server = server]
             w == [v EXCEPT !.token = t]
  <2> HIDE DEF pc
  <2>1. u \in WorkloadCall
    BY <1>4, NoRpcIs DEF WorkloadCall
  <2>2. r = [w EXCEPT !.at = now]
    OBVIOUS
  <2> HIDE DEF u, r
  <2>3. v \in WorkloadCall
    BY <2>1 DEF WorkloadCall
  <2> HIDE DEF v
  <2>4. w \in WorkloadCall
    BY <1>1, <2>3 DEF WorkloadCall
  <2> HIDE DEF w
  <2> QED BY <1>1, <2>2, <2>4 DEF WorkloadCall
<1> HIDE DEF r
<1>6. [by |-> t.by, pins |-> t.pins] \in Identity
  BY <1>1 DEF WorkloadToken, Identity
<1>8. /\ context' \in [Rpc -> Identity] /\ \A p \in Rpc : p # q => context'[p] = context[p]
      /\ verified => context'[q] = [by |-> t.by, pins |-> t.pins]
  BY <1>6 DEF Admits, SetContext, WorkloadInv, WorkloadTypes
<1>9. TokenKnown(t)'
  BY <1>1, <1>2 DEF TokenKnown, HadRole
<1>10. rpc'[q] = r
  BY <1>2 DEF WorkloadInv, WorkloadTypes
<1>11. CallOK(q)'
  BY <1>1, <1>3, <1>8, <1>9, <1>10, TokenAssumption DEF CallOK, LetIn, CallerOf
<1> QED BY <1>2, <1>5, <1>8, <1>11, CallMoves

LEMMA MiddlewareInv ==
  ASSUME WorkloadInv, NEW q \in Rpc, NEW t \in issuedTokens,
         MemoryMiddleware(q, t) \/ KnowledgeMiddleware(q, t) \/ PlatformMiddleware(q, t)
  PROVE  WorkloadInv'
<1>0. t.role \in BOOLEAN
  BY DEF WorkloadInv, WorkloadTypes, WorkloadToken
<1>1. CASE MemoryMiddleware(q, t)
  BY <1>1, AdmitsInv DEF MemoryMiddleware, VerifyMemory, Unexpired, Server
<1>2. CASE KnowledgeMiddleware(q, t)
  BY <1>2, AdmitsInv DEF KnowledgeMiddleware, VerifyKnowledge, Unexpired, Server
<1>3. CASE PlatformMiddleware(q, t)
  BY <1>0, <1>3, AdmitsInv DEF PlatformMiddleware, VerifyPlatform, Unexpired, Server
<1> QED BY <1>1, <1>2, <1>3

LEMMA ActsInv ==
  ASSUME WorkloadInv, NEW q \in Rpc, NEW server, Acts(q, server, context[q])
  PROVE  WorkloadInv'
<1> DEFINE u == [rpc[q] EXCEPT !.pc = "acted"]
           r == [u EXCEPT !.acts = context[q]]
<1>1. /\ rpc[q] \in WorkloadCall /\ context[q] \in Identity /\ rpc \in [Rpc -> WorkloadCall]
      /\ context \in [Rpc -> Identity] /\ CallOK(q)
  BY DEF WorkloadInv, WorkloadTypes
<1>2. /\ u \in WorkloadCall /\ u.pc = "acted" /\ u.server = rpc[q].server
      /\ u.token = rpc[q].token /\ u.at = rpc[q].at
  BY <1>1 DEF WorkloadCall
<1>3. rpc' = [[rpc EXCEPT ![q] = u] EXCEPT ![q].acts = context[q]]
  BY DEF Acts
<1> HIDE DEF u
<1>4. rpc' = [rpc EXCEPT ![q] = r]
  BY <1>1, <1>3
<1>5. /\ r \in WorkloadCall /\ r.pc = "acted" /\ r.server = rpc[q].server
      /\ r.token = rpc[q].token /\ r.at = rpc[q].at /\ r.acts = context[q]
  BY <1>1, <1>2 DEF WorkloadCall
<1> HIDE DEF r
<1>6. rpc[q].pc = "inside" /\ UNCHANGED <<now, lostRole, issuedTokens, context>>
  BY DEF Acts
<1>7. rpc'[q] = r
  BY <1>1, <1>4
<1>8. CallOK(q)'
  BY <1>1, <1>5, <1>6, <1>7 DEF CallOK, LetIn, TokenKnown, HadRole, CallerOf
<1> QED BY <1>1, <1>4, <1>5, <1>6, <1>8, CallMoves

LEMMA AnswerInv ==
  ASSUME WorkloadInv, NEW q \in Rpc, AnswerRpc(q)
  PROVE  WorkloadInv'
<1> DEFINE r == [NoRpc EXCEPT !.pc = "answered"]
<1>1. r \in WorkloadCall /\ r.pc = "answered"
  BY NoRpcIs DEF WorkloadCall
<1>2. rpc' = [rpc EXCEPT ![q] = r] /\ UNCHANGED <<now, lostRole, issuedTokens>>
  BY DEF AnswerRpc
<1> HIDE DEF r
<1>3. context' \in [Rpc -> Identity] /\ \A p \in Rpc : p # q => context'[p] = context[p]
  BY NoRpcIs DEF AnswerRpc, WorkloadInv, WorkloadTypes
<1>4. rpc'[q] = r
  BY <1>2 DEF WorkloadInv, WorkloadTypes
<1>5. CallOK(q)'
  BY <1>1, <1>4 DEF CallOK
<1> QED BY <1>1, <1>2, <1>3, <1>5, CallMoves

(* Theorem: a tool of the platform's servers acts for the one who sent its  *)
(* request, with a token that was valid (knowledge/workload.py,             *)
(* memory_bank/workload.py, platform_mcp/workload.py).                      *)
THEOREM ToolsActForCaller == ServicesSpec => []ActsForItsCaller
<1>1. WorkloadInv /\ [WorkloadNext]_workloadVars => WorkloadInv'
  <2>1. CASE UNCHANGED workloadVars
    BY <2>1 DEF workloadVars, WorkloadInv, WorkloadTypes, TokenKnown, HadRole, CallOK, LetIn, CallerOf
  <2>2. ASSUME WorkloadInv, WorkloadNext PROVE WorkloadInv'
    BY <2>2, ClientsInv, MiddlewareInv, ActsInv, AnswerInv
       DEF WorkloadNext, ProposeMemory, QueryKnowledge, ListPlatform
  <2> QED BY <2>1, <2>2
<1>2. WorkloadInv => ActsForItsCaller
  <2> SUFFICES ASSUME WorkloadInv, NEW q \in Rpc
               PROVE  LET call == rpc[q]
                          age == call.at - call.token.issued
                      IN /\ call.pc = "acted" =>
                              /\ call.acts.by = call.token.by /\ call.token.server = call.server
                              /\ call.server = "knowledge" => call.acts.pins = PinsOf[call.token.by]
                              /\ age < TokenLife
                              /\ call.token.by \in Operator /\ lostRole[call.token.by] # 0
                                   => call.at < lostRole[call.token.by] + TokenLife
                         /\ call.pc = "refused" =>
                              call.token.server # call.server \/ age >= TokenLife
                                \/ (call.server = "platform" /\ ~call.token.role)
    BY DEF ActsForItsCaller
  <2>1. /\ CallOK(q) /\ rpc[q] \in WorkloadCall /\ rpc[q].token \in WorkloadToken
        /\ rpc[q].at \in Nat /\ rpc[q].token.issued \in Nat /\ TokenLife \in Nat
        /\ \A u \in Operator : lostRole[u] \in Nat
    BY TokenAssumption DEF WorkloadInv, WorkloadTypes, WorkloadCall, WorkloadToken
  <2> QED BY <2>1 DEF CallOK, LetIn, TokenKnown, HadRole, CallerOf
<1> QED BY <1>1, <1>2, WorkloadPart, WorkloadInitInv, PTL DEF ServicesSpec

-----------------------------------------------------------------------------
(* Knowledge.                                                                *)

LEMMA KnowledgePart ==
  /\ ServicesInit => KnowledgeInit
  /\ [ServicesNext]_servicesVars => [KnowledgeNext]_knowledgeVars
<1>1. ServicesInit => KnowledgeInit
  BY DEF ServicesInit
<1>2. ServicesNext => KnowledgeNext \/ UNCHANGED knowledgeVars
  BY DEF ServicesNext, Only
<1>3. UNCHANGED servicesVars => UNCHANGED knowledgeVars
  BY DEF servicesVars
<1> QED BY <1>1, <1>2, <1>3

Found == Content \cup {NoContent}
SourceRow == [revision : Nat, config : Config, health : {"pending", "healthy", "degraded", "disabled"},
              acl : SUBSET Person, snapshot : Found]
SyncerRow == [pc : {"idle", "base", "replace", "fetch", "finish"}, source : Source, found : Found,
              read : SourceRow, members : SUBSET Source]
Search == [pc : {"none", "idle", "member", "check", "found"}, pinned : SUBSET Source,
           teams : BOOLEAN, acl : [Source -> SUBSET Person], checked : SUBSET Source,
           member : BOOLEAN]

KnowledgeTypes ==
  /\ source \in [Source -> SourceRow] /\ base \in [revision : Nat, sources : SUBSET Source]
  /\ syncer \in [Syncer -> SyncerRow] /\ fetched \in [Config -> SUBSET Found]

(* A healthy source serves what was fetched with its configuration.         *)
Serves(written) == written.health = "healthy" => written.snapshot \in fetched[written.config]

(* What a request has read: the row is still that one, or it has a later    *)
(* revision, and what a synchronisation found was found with that row.      *)
JobKnown(job) ==
  LET current == source[job.source]
  IN  /\ job.pc \in {"replace", "fetch", "finish"} => job.read.revision <= current.revision
      /\ job.pc = "replace" => job.read.health # "healthy"
      /\ job.pc \in {"fetch", "finish"} /\ job.read.revision = current.revision =>
           /\ job.read.config = current.config /\ job.read.acl = current.acl
           /\ current.health # "disabled"
      /\ job.pc \in {"replace", "fetch", "finish"} => job.read.revision # 0
      /\ job.pc = "finish" /\ job.found # NoContent => job.found \in fetched[job.read.config]

(* What lets a search in was there after it began.                          *)
SearchKnows(r) ==
  LET search == reader[r]
  IN  /\ search.pc \in {"none", "idle", "member", "check"} => search.checked = {}
      /\ search.pc \in {"member", "check", "found"} =>
           \A s \in Source : Listed(r, search.acl[s]) => <<s>> \in since[r]
      /\ search.pc \in {"check", "found"} /\ search.member => <<"member">> \in since[r]
      /\ \A s \in search.checked :
           Owns(r) \/ <<s>> \in since[r] \/ {<<"member">>, <<"share">>} \subseteq since[r]

SourceInv ==
  /\ KnowledgeTypes
  /\ \A s \in Source : Serves(source[s])
  /\ \A q \in Syncer : JobKnown(syncer[q])

SearchInv ==
  /\ reader \in [Reader -> Search] /\ DOMAIN since = Reader
  /\ \A r \in Reader : SearchKnows(r)

KnowledgeInv == SourceInv /\ SearchInv

LEMMA NewSourceIs ==
  ASSUME NEW c \in Config
  PROVE  /\ NewSource(c) \in SourceRow /\ NewSource(c).health = "pending"
         /\ NewSource(c).revision = 0 /\ NewSource(c).config = c
BY DEF NewSource, SourceRow, Found

LEMMA QuietIs == Quiet \in SyncerRow /\ Quiet.pc = "idle" /\ Quiet.members = {}
<1> USE SourceAssumption
<1>1. PICK c \in Config : c = CHOOSE d \in Config : TRUE
  OBVIOUS
<1>2. (CHOOSE s \in Source : TRUE) \in Source
  OBVIOUS
<1>3. NewSource(c) \in SourceRow
  BY NewSourceIs
<1>4. Quiet = [pc |-> "idle", source |-> CHOOSE s \in Source : TRUE, found |-> NoContent,
               read |-> NewSource(c), members |-> {}]
  BY <1>1 DEF Quiet
<1> QED BY <1>2, <1>3, <1>4 DEF SyncerRow, Found

LEMMA NoSearchIs == /\ NoSearch \in Search /\ NoSearch.pc = "none"
                    /\ NoSearch.checked = {}
  BY DEF NoSearch, Search

LEMMA KnowledgeInitInv == KnowledgeInit => KnowledgeInv
<1> SUFFICES ASSUME KnowledgeInit PROVE KnowledgeInv
  OBVIOUS
<1> USE SourceAssumption
<1> DEFINE c == CHOOSE d \in Config : TRUE
           x == CHOOSE y \in Content : TRUE
           u == [NewSource(c) EXCEPT !.revision = 1]
           v == [u EXCEPT !.snapshot = x]
           w == [v EXCEPT !.health = "healthy"]
<1>1. c \in Config /\ x \in Content
  OBVIOUS
<1>2. \/ /\ source = [s \in Source |-> NewSource(c)]
         /\ base = [revision |-> 0, sources |-> {}] /\ fetched = [d \in Config |-> {}]
      \/ /\ source = [s \in Source |-> w]
         /\ base = [revision |-> 1, sources |-> Source]
         /\ fetched = [d \in Config |-> IF d = c THEN {x} ELSE {}]
  BY DEF KnowledgeInit
<1> HIDE DEF c, x
<1>3. u \in SourceRow /\ u.config = c
  BY <1>1, NewSourceIs DEF SourceRow
<1> HIDE DEF u
<1>4. v \in SourceRow /\ v.config = c /\ v.snapshot = x
  BY <1>1, <1>3 DEF SourceRow, Found
<1> HIDE DEF v
<1>5. w \in SourceRow /\ w.config = c /\ w.snapshot = x
  BY <1>4 DEF SourceRow
<1> HIDE DEF w
<1>6. /\ syncer = [q \in Syncer |-> Quiet] /\ reader = [r \in Reader |-> NoSearch]
      /\ DOMAIN since = Reader
  BY DEF KnowledgeInit
<1>7. KnowledgeTypes
  BY <1>1, <1>2, <1>5, <1>6, NewSourceIs, QuietIs DEF KnowledgeTypes, Found
<1>8. \A s \in Source : Serves(source[s])
  BY <1>1, <1>2, <1>5, NewSourceIs DEF Serves
<1>9. \A q \in Syncer : JobKnown(syncer[q])
  BY <1>6, QuietIs DEF JobKnown
<1>10. \A r \in Reader : SearchKnows(r)
  BY <1>6, NoSearchIs DEF SearchKnows
<1> QED BY <1>6, <1>7, <1>8, <1>9, <1>10, NoSearchIs DEF KnowledgeInv, SourceInv, SearchInv

(* Every step writes at most one row, under a new revision, and what was    *)
(* found stays found.                                                       *)
RowSet(s, written) ==
  /\ source' = [source EXCEPT ![s] = written] /\ written.revision > source[s].revision
  /\ Serves(written)'

SourceMoves ==
  /\ UNCHANGED source \/ \E s \in Source, written \in SourceRow : RowSet(s, written)
  /\ fetched' \in [Config -> SUBSET Found] /\ \A c \in Config : fetched[c] \subseteq fetched'[c]

JobKeeps == \A j \in SyncerRow : JobKnown(j) => JobKnown(j)'

LEMMA SourceKeeps ==
  ASSUME SourceInv, SourceMoves
  PROVE  /\ source' \in [Source -> SourceRow]
         /\ \A s \in Source : Serves(source[s])'
         /\ JobKeeps
<1>1. /\ source \in [Source -> SourceRow] /\ \A s \in Source : Serves(source[s])
      /\ \A c \in Config : fetched[c] \subseteq fetched'[c]
      /\ \A s \in Source : source[s].revision \in Nat /\ source[s].config \in Config
  BY DEF SourceInv, KnowledgeTypes, SourceMoves, SourceRow
<1>2. \A j \in SyncerRow : j.source \in Source /\ j.read.revision \in Nat /\ j.read.config \in Config
  BY DEF SyncerRow, SourceRow
<1>3. CASE UNCHANGED source
  <2>1. \A s \in Source : Serves(source[s])'
    BY <1>1, <1>3 DEF Serves
  <2>2. JobKeeps
    BY <1>1, <1>2, <1>3 DEF JobKeeps, JobKnown
  <2> QED BY <1>1, <1>3, <2>1, <2>2
<1>4. ASSUME NEW s \in Source, NEW written \in SourceRow, RowSet(s, written)
      PROVE  /\ source' \in [Source -> SourceRow]
             /\ \A x \in Source : Serves(source[x])'
             /\ JobKeeps
  <2>1. /\ source'[s] = written /\ written.revision \in Nat /\ written.revision > source[s].revision
        /\ \A x \in Source : x # s => source'[x] = source[x]
    BY <1>1, <1>4 DEF RowSet, SourceRow
  <2>2. source' \in [Source -> SourceRow]
    BY <1>1, <1>4 DEF RowSet
  <2>3. ASSUME NEW x \in Source PROVE Serves(source[x])'
    BY <1>1, <1>4, <2>1 DEF Serves, RowSet
  <2>4. ASSUME NEW j \in SyncerRow, JobKnown(j) PROVE JobKnown(j)'
    <3>1. CASE j.source = s
      BY <1>1, <1>2, <2>1, <2>4, <3>1 DEF JobKnown
    <3>2. CASE j.source # s
      BY <1>1, <1>2, <2>1, <2>4, <3>2 DEF JobKnown
    <3> QED BY <3>1, <3>2
  <2> QED BY <2>2, <2>3, <2>4 DEF JobKeeps
<1> QED BY <1>3, <1>4 DEF SourceMoves

(* A synchronisation that ends leaves the owner's edits as they are.        *)
EditsKept ==
  \A s \in Source :
    /\ source'[s].config = source[s].config /\ source'[s].acl = source[s].acl
    /\ source[s].health = "disabled" => source'[s].health = "disabled"

SyncsKeepEdits == \A q \in Syncer : syncer[q].pc = "finish" /\ syncer'[q] = Quiet => EditsKept

BaseIs == base' \in [revision : Nat, sources : SUBSET Source]

LEMMA SyncerMoves ==
  ASSUME SourceInv, SourceMoves, BaseIs, NEW q \in Syncer, NEW j \in SyncerRow,
         syncer' = [syncer EXCEPT ![q] = j], JobKnown(j)',
         syncer[q].pc = "finish" => EditsKept
  PROVE  SourceInv' /\ SyncsKeepEdits
<1>1. source' \in [Source -> SourceRow] /\ (\A s \in Source : Serves(source[s])') /\ JobKeeps
  BY SourceKeeps
<1>2. /\ syncer' \in [Syncer -> SyncerRow] /\ syncer'[q] = j
      /\ \A p \in Syncer : p # q => syncer'[p] = syncer[p] /\ syncer[p] \in SyncerRow
  BY DEF SourceInv, KnowledgeTypes
<1>3. ASSUME NEW p \in Syncer PROVE JobKnown(syncer[p])'
  <2>1. CASE p = q
    BY <1>2, <2>1 DEF JobKnown
  <2>2. CASE p # q
    <3>1. JobKnown(syncer[p]) /\ syncer[p] \in SyncerRow
      BY <1>2, <2>2 DEF SourceInv
    <3>2. \A x \in SyncerRow : x = syncer[p] => (JobKnown(x) => JobKnown(x)')
      BY <1>1 DEF JobKeeps
    <3> QED BY <1>2, <2>2, <3>1, <3>2 DEF JobKnown
  <2> QED BY <2>1, <2>2
<1>4. SyncsKeepEdits
  BY <1>2, QuietIs DEF SyncsKeepEdits
<1> QED BY <1>1, <1>2, <1>3, <1>4 DEF SourceInv, KnowledgeTypes, SourceMoves, BaseIs

(* Other steps.                                                             *)
LEMMA SyncersStay ==
  ASSUME SourceInv, SourceMoves, UNCHANGED <<base, syncer>>
  PROVE  SourceInv' /\ SyncsKeepEdits
<1>1. source' \in [Source -> SourceRow] /\ (\A s \in Source : Serves(source[s])') /\ JobKeeps
  BY SourceKeeps
<1>2. ASSUME NEW p \in Syncer PROVE JobKnown(syncer[p])'
  <2>1. JobKnown(syncer[p]) /\ syncer[p] \in SyncerRow
    BY DEF SourceInv, KnowledgeTypes
  <2>2. \A x \in SyncerRow : x = syncer[p] => (JobKnown(x) => JobKnown(x)')
    BY <1>1 DEF JobKeeps
  <2> QED BY <2>1, <2>2 DEF JobKnown
<1>3. SyncsKeepEdits
  BY QuietIs DEF SyncsKeepEdits
<1> QED BY <1>1, <1>2, <1>3 DEF SourceInv, KnowledgeTypes, SourceMoves

LEMMA SourceStays ==
  ASSUME SourceInv, UNCHANGED <<source, fetched>>
  PROVE  SourceMoves
  BY DEF SourceInv, KnowledgeTypes, SourceMoves

LEMMA CreateSourceInv ==
  ASSUME SourceInv, NEW q \in Syncer, CreateSource(q)
  PROVE  SourceInv' /\ SyncsKeepEdits
<1>1. PICK s \in Source, acl \in {{}, Person} :
        /\ source[s].revision = 0
        /\ source' = [source EXCEPT ![s].revision = 1, ![s].acl = acl]
  BY DEF CreateSource
<1> DEFINE u == [source[s] EXCEPT !.revision = 1]
           v == [u EXCEPT !.acl = acl]
<1>2. source[s] \in SourceRow /\ source \in [Source -> SourceRow] /\ Serves(source[s])
  BY DEF SourceInv, KnowledgeTypes
<1>3. /\ u \in SourceRow /\ u.revision = 1 /\ u.config = source[s].config
      /\ u.health = source[s].health /\ u.snapshot = source[s].snapshot
  BY <1>2 DEF SourceRow
<1>4. source' = [[source EXCEPT ![s] = u] EXCEPT ![s].acl = acl]
  BY <1>1
<1> HIDE DEF u
<1>5. /\ v \in SourceRow /\ v.revision = 1 /\ v.config = source[s].config
      /\ v.health = source[s].health /\ v.snapshot = source[s].snapshot
  BY <1>3 DEF SourceRow
<1>6. source' = [source EXCEPT ![s] = v]
  BY <1>2, <1>4
<1> HIDE DEF v
<1>7. UNCHANGED <<fetched, base, syncer>>
  BY DEF CreateSource
<1>8. PICK written \in SourceRow : written = v
  BY <1>5
<1>11. source[s].revision = 0
  BY <1>1
<1>10. RowSet(s, written)
  BY <1>2, <1>5, <1>6, <1>7, <1>8, <1>11 DEF RowSet, Serves
<1>9. SourceMoves
  BY <1>7, <1>10 DEF SourceMoves, SourceInv, KnowledgeTypes
<1> QED BY <1>7, <1>9, SyncersStay

LEMMA BaseInv ==
  ASSUME SourceInv, NEW q \in Syncer, ReadBase(q) \/ SetBase(q)
  PROVE  SourceInv' /\ SyncsKeepEdits
<1>1. SourceMoves
  BY SourceStays DEF ReadBase, SetBase
<1>2. CASE ReadBase(q)
  <2>1. PICK set \in SUBSET Source :
          syncer' = [syncer EXCEPT ![q] = [Quiet EXCEPT !.pc = "base", !.members = set,
                                                        !.read.revision = base.revision]]
    BY <1>2 DEF ReadBase
  <2> DEFINE u == [Quiet EXCEPT !.pc = "base"]
             v == [u EXCEPT !.members = set]
             w == [v EXCEPT !.read.revision = base.revision]
  <2>2. u \in SyncerRow /\ u.pc = "base"
    BY QuietIs DEF SyncerRow
  <2>3. syncer' = [syncer EXCEPT ![q] = w]
    BY <2>1
  <2> HIDE DEF u
  <2>4. v \in SyncerRow /\ v.pc = "base"
    BY <2>2 DEF SyncerRow
  <2> HIDE DEF v
  <2>5. base.revision \in Nat /\ v.read \in SourceRow
    BY <2>4 DEF SourceInv, KnowledgeTypes, SyncerRow
  <2>6. [v.read EXCEPT !.revision = base.revision] \in SourceRow
    BY <2>5 DEF SourceRow
  <2>7. w \in SyncerRow /\ w.pc = "base"
    BY <2>4, <2>6 DEF SyncerRow
  <2> HIDE DEF w
  <2>8. syncer[q].pc = "idle" /\ BaseIs
    BY <1>2 DEF ReadBase, BaseIs, SourceInv, KnowledgeTypes
  <2>9. PICK job \in SyncerRow : job = w
    BY <2>7
  <2>10. JobKnown(job)'
    BY <2>7, <2>9 DEF JobKnown
  <2> QED BY <1>1, <2>3, <2>8, <2>9, <2>10, SyncerMoves
<1>3. CASE SetBase(q)
  <2>1. syncer' = [syncer EXCEPT ![q] = Quiet] /\ syncer[q].pc = "base"
    BY <1>3 DEF SetBase
  <2>2. BaseIs
    BY <1>3 DEF SetBase, BaseIs, SourceInv, KnowledgeTypes, SyncerRow
  <2>3. PICK job \in SyncerRow : job = Quiet
    BY QuietIs
  <2>4. JobKnown(job)'
    BY <2>3, QuietIs DEF JobKnown
  <2> QED BY <1>1, <2>1, <2>2, <2>3, <2>4, SyncerMoves
<1> QED BY <1>2, <1>3

LEMMA ReadSourceInv ==
  ASSUME SourceInv, NEW q \in Syncer, ReadSource(q)
  PROVE  SourceInv' /\ SyncsKeepEdits
<1>1. PICK s \in Source :
        /\ source[s].revision \in 1 .. MaxRevision - 1
        /\ \/ \E c \in Config, h \in {"pending", "disabled"}, acl \in {{}, Person} :
                syncer' = [syncer EXCEPT ![q] = [Quiet EXCEPT !.pc = "replace", !.source = s,
                  !.read = [source[s] EXCEPT !.config = c, !.health = h, !.acl = acl]]]
           \/ /\ source[s].health # "disabled"
              /\ syncer' = [syncer EXCEPT ![q] = [Quiet EXCEPT !.pc = "fetch", !.source = s,
                                                               !.read = source[s]]]
  BY DEF ReadSource
<1>2. source[s] \in SourceRow /\ source[s].revision # 0 /\ source[s].revision \in Nat
  <2>1. source[s].revision \in 1 .. MaxRevision - 1
    BY <1>1
  <2>2. source[s] \in SourceRow
    BY DEF SourceInv, KnowledgeTypes
  <2> QED BY <2>1, <2>2 DEF SourceRow
<1>3. SourceMoves /\ BaseIs /\ syncer[q].pc = "idle" /\ UNCHANGED <<source, fetched>>
  BY SourceStays DEF ReadSource, BaseIs, SourceInv, KnowledgeTypes
<1>4. ASSUME NEW pc \in {"replace", "fetch"}, NEW written \in SourceRow,
             written.revision = source[s].revision, pc = "replace" => written.health # "healthy",
             pc = "fetch" => written = source[s] /\ written.health # "disabled",
             syncer' = [syncer EXCEPT ![q] = [Quiet EXCEPT !.pc = pc, !.source = s, !.read = written]]
      PROVE  SourceInv' /\ SyncsKeepEdits
  <2> DEFINE u == [Quiet EXCEPT !.pc = pc]
             v == [u EXCEPT !.source = s]
             w == [v EXCEPT !.read = written]
  <2>1. u \in SyncerRow /\ u.pc = pc
    BY QuietIs DEF SyncerRow
  <2>2. syncer' = [syncer EXCEPT ![q] = w]
    BY <1>4
  <2> HIDE DEF u
  <2>3. v \in SyncerRow /\ v.pc = pc /\ v.source = s
    BY <2>1 DEF SyncerRow
  <2> HIDE DEF v
  <2>4. w \in SyncerRow /\ w.pc = pc /\ w.source = s /\ w.read = written
    BY <2>3 DEF SyncerRow
  <2> HIDE DEF w
  <2>5. PICK job \in SyncerRow : job = w
    BY <2>4
  <2>6. JobKnown(job)'
    BY <1>2, <1>3, <1>4, <2>4, <2>5 DEF JobKnown
  <2> QED BY <1>3, <2>2, <2>5, <2>6, SyncerMoves
<1>5. ASSUME NEW c \in Config, NEW h \in {"pending", "disabled"}, NEW acl \in {{}, Person},
             syncer' = [syncer EXCEPT ![q] = [Quiet EXCEPT !.pc = "replace", !.source = s,
                  !.read = [source[s] EXCEPT !.config = c, !.health = h, !.acl = acl]]]
      PROVE  SourceInv' /\ SyncsKeepEdits
  <2> DEFINE u == [source[s] EXCEPT !.config = c]
             v == [u EXCEPT !.health = h]
             w == [v EXCEPT !.acl = acl]
  <2>1. u \in SourceRow /\ u.revision = source[s].revision
    BY <1>2 DEF SourceRow
  <2>2. syncer' = [syncer EXCEPT ![q] = [Quiet EXCEPT !.pc = "replace", !.source = s, !.read = w]]
    BY <1>5
  <2> HIDE DEF u
  <2>3. v \in SourceRow /\ v.revision = source[s].revision /\ v.health = h
    BY <2>1 DEF SourceRow
  <2> HIDE DEF v
  <2>4. w \in SourceRow /\ w.revision = source[s].revision /\ w.health = h
    BY <2>3 DEF SourceRow
  <2> HIDE DEF w
  <2>5. PICK written \in SourceRow : written = w
    BY <2>4
  <2> QED BY <1>4, <2>2, <2>4, <2>5
<1>6. CASE /\ source[s].health # "disabled"
           /\ syncer' = [syncer EXCEPT ![q] = [Quiet EXCEPT !.pc = "fetch", !.source = s,
                                                            !.read = source[s]]]
  BY <1>2, <1>4, <1>6
<1> QED BY <1>1, <1>5, <1>6

(* compare_and_set: what is written is what was read, or nothing.           *)
LEMMA SetSourceMoves ==
  ASSUME SourceInv, NEW q \in Syncer, syncer[q].pc \in {"replace", "finish"},
         NEW written \in SourceRow, SetSource(syncer[q].source, syncer[q].read.revision, written),
         Serves(written), UNCHANGED fetched
  PROVE  /\ SourceMoves
         /\ \/ UNCHANGED source
            \/ /\ source[syncer[q].source].revision = syncer[q].read.revision
               /\ \A s \in Source : s # syncer[q].source => source'[s] = source[s]
               /\ source'[syncer[q].source].config = written.config
               /\ source'[syncer[q].source].acl = written.acl
               /\ source'[syncer[q].source].health = written.health
<1> DEFINE s == syncer[q].source
           n == syncer[q].read.revision
           v == [written EXCEPT !.revision = n + 1]
<1>1. s \in Source /\ n \in Nat /\ source \in [Source -> SourceRow]
  BY DEF SourceInv, KnowledgeTypes, SyncerRow, SourceRow
<1>2. CASE source[s].revision # n
  BY <1>2, SourceStays DEF SetSource
<1>3. CASE source[s].revision = n
  <2>1. source' = [source EXCEPT ![s] = v]
    BY <1>3 DEF SetSource
  <2>2. /\ v \in SourceRow /\ v.revision = n + 1 /\ v.config = written.config /\ v.acl = written.acl
        /\ v.health = written.health /\ v.snapshot = written.snapshot
    BY <1>1 DEF SourceRow
  <2>3. PICK x \in SourceRow : x = v
    BY <2>2
  <2>4. source' = [source EXCEPT ![s] = x] /\ x.revision = n + 1 /\ x.config = written.config
        /\ x.acl = written.acl /\ x.health = written.health /\ x.snapshot = written.snapshot
    BY <2>1, <2>2, <2>3
  <2> HIDE DEF v, s, n
  <2>5. RowSet(s, x)
    BY <1>1, <1>3, <2>4 DEF RowSet, Serves
  <2>6. SourceMoves
    BY <1>1, <2>5 DEF SourceMoves, SourceInv, KnowledgeTypes
  <2>7. source'[s] = x /\ \A y \in Source : y # s => source'[y] = source[y]
    BY <1>1, <2>4
  <2> QED BY <1>3, <2>4, <2>6, <2>7 DEF s, n
<1> QED BY <1>2, <1>3

LEMMA EndsQuiet ==
  ASSUME SourceInv, SourceMoves, BaseIs, NEW q \in Syncer, syncer' = [syncer EXCEPT ![q] = Quiet],
         syncer[q].pc = "finish" => EditsKept
  PROVE  SourceInv' /\ SyncsKeepEdits
<1>1. PICK job \in SyncerRow : job = Quiet
  BY QuietIs
<1>2. JobKnown(job)'
  BY <1>1, QuietIs DEF JobKnown
<1> QED BY <1>1, <1>2, SyncerMoves

LEMMA ReplaceSourceInv ==
  ASSUME SourceInv, NEW q \in Syncer, ReplaceSource(q)
  PROVE  SourceInv' /\ SyncsKeepEdits
<1>1. /\ syncer[q].read \in SourceRow /\ JobKnown(syncer[q]) /\ syncer[q].pc = "replace"
  BY DEF ReplaceSource, SourceInv, KnowledgeTypes, SyncerRow
<1>2. Serves(syncer[q].read)
  BY <1>1 DEF JobKnown, Serves
<1>3. PICK written \in SourceRow : written = syncer[q].read
  BY <1>1
<1>4. SourceMoves
  BY <1>1, <1>2, <1>3, SetSourceMoves DEF ReplaceSource
<1>5. BaseIs
  BY DEF ReplaceSource, BaseIs, SourceInv, KnowledgeTypes
<1> QED BY <1>1, <1>4, <1>5, EndsQuiet DEF ReplaceSource

LEMMA FetchInv ==
  ASSUME SourceInv, NEW q \in Syncer, Fetch(q)
  PROVE  SourceInv' /\ SyncsKeepEdits
<1>1. PICK found \in Found :
        /\ syncer' = [syncer EXCEPT ![q].pc = "finish", ![q].found = found]
        /\ fetched' = IF found = NoContent THEN fetched
                      ELSE [fetched EXCEPT ![syncer[q].read.config] = @ \cup {found}]
  BY DEF Fetch, Found
<1>2. /\ syncer[q] \in SyncerRow /\ JobKnown(syncer[q]) /\ syncer[q].pc = "fetch"
      /\ syncer \in [Syncer -> SyncerRow] /\ fetched \in [Config -> SUBSET Found]
      /\ syncer[q].read.config \in Config
  BY DEF Fetch, SourceInv, KnowledgeTypes, SyncerRow, SourceRow
<1> DEFINE u == [syncer[q] EXCEPT !.pc = "finish"]
           v == [u EXCEPT !.found = found]
<1>3. /\ u \in SyncerRow /\ u.pc = "finish" /\ u.source = syncer[q].source /\ u.read = syncer[q].read
  BY <1>2 DEF SyncerRow
<1>4. syncer' = [[syncer EXCEPT ![q] = u] EXCEPT ![q].found = found]
  BY <1>1
<1> HIDE DEF u
<1>5. /\ v \in SyncerRow /\ v.pc = "finish" /\ v.source = syncer[q].source /\ v.read = syncer[q].read
      /\ v.found = found
  BY <1>3 DEF SyncerRow
<1>6. syncer' = [syncer EXCEPT ![q] = v]
  BY <1>2, <1>4
<1> HIDE DEF v
<1>7. PICK job \in SyncerRow : job = v
  BY <1>5
<1>8. /\ fetched' \in [Config -> SUBSET Found] /\ \A c \in Config : fetched[c] \subseteq fetched'[c]
      /\ found # NoContent => found \in fetched'[syncer[q].read.config]
  BY <1>1, <1>2
<1>9. SourceMoves /\ UNCHANGED source /\ BaseIs
  BY <1>8 DEF Fetch, SourceMoves, BaseIs, SourceInv, KnowledgeTypes
<1>10. JobKnown(job)'
  BY <1>2, <1>5, <1>7, <1>8, <1>9 DEF JobKnown
<1> QED BY <1>2, <1>6, <1>7, <1>9, <1>10, SyncerMoves

LEMMA FinishSyncInv ==
  ASSUME SourceInv, NEW q \in Syncer, FinishSync(q)
  PROVE  SourceInv' /\ SyncsKeepEdits
<1> DEFINE read == syncer[q].read
           found == syncer[q].found
           s == syncer[q].source
           u == [read EXCEPT !.health = "healthy"]
<1>1. /\ read \in SourceRow /\ JobKnown(syncer[q]) /\ syncer[q].pc = "finish" /\ found \in Found
      /\ s \in Source /\ UNCHANGED <<fetched, base>> /\ syncer' = [syncer EXCEPT ![q] = Quiet]
  BY DEF FinishSync, SourceInv, KnowledgeTypes, SyncerRow
<1>2. BaseIs
  BY <1>1 DEF BaseIs, SourceInv, KnowledgeTypes
<1>3. PICK written \in SourceRow :
        /\ written.config = read.config /\ written.acl = read.acl
        /\ written.health \in {"healthy", "degraded"}
        /\ written.health = "healthy" => found # NoContent /\ written.snapshot = found
        /\ SetSource(s, read.revision, written)
  <2>1. CASE found = NoContent
    <3>1. SetSource(s, read.revision, [read EXCEPT !.health = "degraded"])
      BY <2>1 DEF FinishSync
    <3> HIDE DEF read, found, s
    <3> DEFINE d == [read EXCEPT !.health = "degraded"]
    <3>2. d \in SourceRow /\ d.config = read.config /\ d.acl = read.acl /\ d.health = "degraded"
      BY <1>1 DEF SourceRow
    <3> HIDE DEF d
    <3>3. SetSource(s, read.revision, d)
      BY <3>1 DEF d
    <3> QED BY <3>2, <3>3
  <2>2. CASE found # NoContent /\ found = read.snapshot
    <3>1. SetSource(s, read.revision, u)
      BY <2>2 DEF FinishSync
    <3> HIDE DEF read, found, s
    <3>2. u \in SourceRow /\ u.config = read.config /\ u.acl = read.acl /\ u.health = "healthy"
          /\ u.snapshot = read.snapshot
      BY <1>1 DEF SourceRow
    <3> HIDE DEF u
    <3> QED BY <2>2, <3>1, <3>2
  <2>3. CASE found # NoContent /\ found # read.snapshot
    <3> DEFINE v == [u EXCEPT !.snapshot = found]
    <3>1. SetSource(s, read.revision, v)
      BY <2>3 DEF FinishSync, PublishSnapshot
    <3> HIDE DEF read, found, s
    <3>2. u \in SourceRow /\ u.config = read.config /\ u.acl = read.acl /\ u.health = "healthy"
      BY <1>1 DEF SourceRow
    <3> HIDE DEF u
    <3>3. v \in SourceRow /\ v.config = read.config /\ v.acl = read.acl /\ v.health = "healthy"
          /\ v.snapshot = found
      BY <1>1, <3>2 DEF SourceRow
    <3> HIDE DEF v
    <3> QED BY <2>3, <3>1, <3>3
  <2> QED BY <2>1, <2>2, <2>3
<1>4. Serves(written)
  BY <1>1, <1>3 DEF JobKnown, Serves
<1>5. /\ SourceMoves
      /\ \/ UNCHANGED source
         \/ /\ source[s].revision = read.revision
            /\ \A x \in Source : x # s => source'[x] = source[x]
            /\ source'[s].config = written.config /\ source'[s].acl = written.acl
            /\ source'[s].health = written.health
  BY <1>1, <1>3, <1>4, SetSourceMoves
<1>6. EditsKept
  BY <1>1, <1>3, <1>5 DEF EditsKept, JobKnown
<1> QED BY <1>1, <1>2, <1>5, <1>6, EndsQuiet

LEMMA SyncCancelledInv ==
  ASSUME SourceInv, NEW q \in Syncer, SyncCancelled(q)
  PROVE  SourceInv' /\ SyncsKeepEdits
<1>1. SourceMoves /\ BaseIs /\ EditsKept
  BY SourceStays DEF SyncCancelled, BaseIs, EditsKept, SourceInv, KnowledgeTypes
<1> QED BY <1>1, EndsQuiet DEF SyncCancelled

LEMMA SourceStep ==
  ASSUME SourceInv, KnowledgeStep
  PROVE  SourceInv' /\ SyncsKeepEdits
<1>1. ASSUME NEW q \in Syncer,
             \/ CreateSource(q) \/ ReadBase(q) \/ SetBase(q) \/ ReadSource(q) \/ ReplaceSource(q)
             \/ Fetch(q) \/ FinishSync(q) \/ SyncCancelled(q)
      PROVE  SourceInv' /\ SyncsKeepEdits
  BY <1>1, CreateSourceInv, BaseInv, ReadSourceInv, ReplaceSourceInv, FetchInv, FinishSyncInv,
     SyncCancelledInv
<1>2. CASE UNCHANGED <<source, base, syncer, fetched>>
  BY <1>2, SourceStays, SyncersStay
<1> QED BY <1>1, <1>2 DEF KnowledgeStep, PinSnapshots, SearchReads, SearchMember, SearchChecks,
                          SearchEnds

(* Searches.                                                                *)
LEMMA GrantsAre ==
  ASSUME NEW r \in Reader
  PROVE  /\ IsMember(r)' => <<"member">> \in Grants(r)'
         /\ TheBase \in sharedBases' => <<"share">> \in Grants(r)'
         /\ \A s \in Source : Listed(r, source'[s].acl) => <<s>> \in Grants(r)'
<1>1. ASSUME IsMember(r)' PROVE <<"member">> \in Grants(r)'
  <2>1. 1 \in {y \in {1} : IsMember(r)'}
    BY <1>1
  <2>2. <<"member">> \in {<<"member">> : x \in {y \in {1} : IsMember(r)'}}
    BY <2>1
  <2> QED BY <2>2 DEF Grants
<1>2. ASSUME TheBase \in sharedBases' PROVE <<"share">> \in Grants(r)'
  <2>1. 1 \in {y \in {1} : TheBase \in sharedBases'}
    BY <1>2
  <2>2. <<"share">> \in {<<"share">> : x \in {y \in {1} : TheBase \in sharedBases'}}
    BY <2>1
  <2> QED BY <2>2 DEF Grants, TheBase
<1>3. ASSUME NEW s \in Source, Listed(r, source'[s].acl) PROVE <<s>> \in Grants(r)'
  BY <1>3 DEF Grants, Listed
<1> QED BY <1>1, <1>2, <1>3

(* What lets a reader in is remembered while it searches.                   *)
Remembers(r) ==
  reader'[r].pc \in {"member", "check", "found"} =>
    /\ reader[r].pc # "idle" => since[r] \subseteq since'[r]
    /\ Grants(r)' \subseteq since'[r]

LEMMA SinceGrows ==
  ASSUME SearchInv, KnowledgeNext, NEW r \in Reader
  PROVE  Remembers(r)
BY DEF KnowledgeNext, Remembers

LEMMA SearchStays ==
  ASSUME NEW r \in Reader, reader[r] \in Search, SearchKnows(r), Remembers(r), reader'[r] = reader[r]
  PROVE  SearchKnows(r)'
<1>1. CASE reader[r].pc \in {"none", "idle"}
  BY <1>1 DEF SearchKnows
<1>2. CASE reader[r].pc \in {"member", "check", "found"}
  <2>1. since[r] \subseteq since'[r]
    BY <1>2 DEF Remembers
  <2> QED BY <1>2, <2>1 DEF SearchKnows, Listed, Owns
<1> QED BY <1>1, <1>2 DEF Search

(* One reader moves.                                                        *)
LEMMA SearchMoves ==
  ASSUME SourceInv, SearchInv, KnowledgeNext, NEW r \in Reader, NEW j \in Search,
         reader' = [reader EXCEPT ![r] = j],
         Remembers(r) => SearchKnows(r)'
  PROVE  SearchInv'
<1>1. \A p \in Reader : Remembers(p)
  BY SinceGrows
<1>2. reader' \in [Reader -> Search] /\ \A p \in Reader : p # r => reader'[p] = reader[p]
  BY DEF SearchInv
<1>3. ASSUME NEW p \in Reader, p # r PROVE SearchKnows(p)'
  BY <1>1, <1>2, <1>3, SearchStays DEF SearchInv
<1>4. DOMAIN since' = Reader
  BY DEF KnowledgeNext
<1> QED BY <1>1, <1>2, <1>3, <1>4 DEF SearchInv

LEMMA PinSnapshotsInv ==
  ASSUME SourceInv, SearchInv, KnowledgeNext, NEW r \in Reader, PinSnapshots(r)
  PROVE  SearchInv'
<1>1. PICK teams \in BOOLEAN, pins \in SUBSET Source :
        reader' = [reader EXCEPT ![r] = [NoSearch EXCEPT !.pc = "idle", !.teams = teams,
                                                         !.pinned = pins]]
  <2>1. base.sources \subseteq Source
    BY DEF SourceInv, KnowledgeTypes
  <2>2. PICK teams \in BOOLEAN :
          LET grant == teams /\ Granted(TheBase, IsMember(r))
          IN  reader' = [reader EXCEPT ![r] = [NoSearch EXCEPT !.pc = "idle", !.teams = teams,
                !.pinned = {s \in base.sources :
                  /\ Owns(r) \/ grant
                  /\ Owns(r) \/ Listed(r, source[s].acl) \/ grant
                  /\ source[s].health = "healthy"}]]
    BY DEF PinSnapshots
  <2> DEFINE grant == teams /\ Granted(TheBase, IsMember(r))
             pins == {s \in base.sources :
                       /\ Owns(r) \/ grant
                       /\ Owns(r) \/ Listed(r, source[s].acl) \/ grant
                       /\ source[s].health = "healthy"}
  <2>3. pins \in SUBSET Source
    BY <2>1
  <2>4. reader' = [reader EXCEPT ![r] = [NoSearch EXCEPT !.pc = "idle", !.teams = teams,
                                                         !.pinned = pins]]
    BY <2>2
  <2> HIDE DEF pins
  <2> QED BY <2>3, <2>4
<1> DEFINE u == [NoSearch EXCEPT !.pc = "idle"]
           v == [u EXCEPT !.teams = teams]
           w == [v EXCEPT !.pinned = pins]
<1>2. u \in Search /\ u.pc = "idle" /\ u.checked = {}
  BY NoSearchIs DEF Search
<1>3. reader' = [reader EXCEPT ![r] = w]
  BY <1>1
<1> HIDE DEF u
<1>4. v \in Search /\ v.pc = "idle" /\ v.checked = {}
  BY <1>2 DEF Search
<1> HIDE DEF v
<1>5. w \in Search /\ w.pc = "idle" /\ w.checked = {}
  BY <1>4 DEF Search
<1> HIDE DEF w
<1>6. PICK job \in Search : job = w
  BY <1>5
<1>7. reader'[r] = job
  BY <1>3, <1>6 DEF SearchInv
<1>8. SearchKnows(r)'
  BY <1>5, <1>6, <1>7 DEF SearchKnows
<1> QED BY <1>3, <1>6, <1>8, SearchMoves

LEMMA SearchReadsInv ==
  ASSUME SourceInv, SearchInv, KnowledgeNext, NEW r \in Reader, SearchReads(r)
  PROVE  SearchInv'
<1>1. /\ reader \in [Reader -> Search] /\ reader[r] \in Search /\ SearchKnows(r)
      /\ reader[r].pc = "idle" /\ UNCHANGED source
  BY DEF SearchInv, SearchReads
<1>2. PICK acl \in [Source -> SUBSET Person] :
        /\ \A s \in Source : acl[s] = source[s].acl
        /\ reader' = [reader EXCEPT ![r].pc = "member", ![r].acl = acl]
  <2> DEFINE acl == [s \in Source |-> source[s].acl]
  <2>1. acl \in [Source -> SUBSET Person]
    BY DEF SourceInv, KnowledgeTypes, SourceRow
  <2>2. \A s \in Source : acl[s] = source[s].acl
    OBVIOUS
  <2>3. reader' = [reader EXCEPT ![r].pc = "member", ![r].acl = acl]
    BY DEF SearchReads
  <2> HIDE DEF acl
  <2> QED BY <2>1, <2>2, <2>3
<1> DEFINE u == [reader[r] EXCEPT !.pc = "member"]
           v == [u EXCEPT !.acl = acl]
<1>3. u \in Search /\ u.pc = "member" /\ u.checked = reader[r].checked
  BY <1>1 DEF Search
<1>4. reader' = [[reader EXCEPT ![r] = u] EXCEPT ![r].acl = acl]
  BY <1>2
<1> HIDE DEF u
<1>5. v \in Search /\ v.pc = "member" /\ v.checked = reader[r].checked /\ v.acl = acl
  BY <1>3 DEF Search
<1>6. reader' = [reader EXCEPT ![r] = v]
  BY <1>1, <1>4
<1> HIDE DEF v
<1>7. PICK job \in Search : job = v
  BY <1>5
<1>8. reader'[r] = job
  BY <1>1, <1>6, <1>7
<1>9. ASSUME Remembers(r) PROVE SearchKnows(r)'
  <2>1. Grants(r)' \subseteq since'[r]
    BY <1>5, <1>7, <1>8, <1>9 DEF Remembers
  <2>2. \A s \in Source : Listed(r, acl[s]) => <<s>> \in since'[r]
    BY <1>1, <1>2, <2>1, GrantsAre
  <2>3. job.checked = {} /\ job.pc = "member" /\ job.acl = acl
    BY <1>1, <1>5, <1>7 DEF SearchKnows
  <2> QED BY <1>8, <2>2, <2>3 DEF SearchKnows, Listed
<1> QED BY <1>6, <1>7, <1>9, SearchMoves

LEMMA SearchMemberInv ==
  ASSUME SourceInv, SearchInv, KnowledgeNext, NEW r \in Reader, SearchMember(r)
  PROVE  SearchInv'
<1>1. /\ reader \in [Reader -> Search] /\ reader[r] \in Search /\ SearchKnows(r)
      /\ reader[r].pc = "member" /\ UNCHANGED members
  BY DEF SearchInv, SearchMember, spaceVars
<1>2. PICK b \in BOOLEAN :
        /\ b => IsMember(r)
        /\ reader' = [reader EXCEPT ![r].pc = "check", ![r].member = b]
  <2>1. PICK teams \in {FALSE, reader[r].teams} :
          reader' = [reader EXCEPT ![r].pc = "check", ![r].member = teams /\ IsMember(r)]
    BY DEF SearchMember
  <2> DEFINE b == teams /\ IsMember(r)
  <2>2. b \in BOOLEAN /\ (b => IsMember(r))
    OBVIOUS
  <2>3. reader' = [reader EXCEPT ![r].pc = "check", ![r].member = b]
    BY <2>1
  <2> HIDE DEF b
  <2> QED BY <2>2, <2>3
<1> DEFINE u == [reader[r] EXCEPT !.pc = "check"]
           v == [u EXCEPT !.member = b]
<1>3. u \in Search /\ u.pc = "check" /\ u.checked = reader[r].checked /\ u.acl = reader[r].acl
  BY <1>1 DEF Search
<1>4. reader' = [[reader EXCEPT ![r] = u] EXCEPT ![r].member = b]
  BY <1>2
<1> HIDE DEF u
<1>5. /\ v \in Search /\ v.pc = "check" /\ v.checked = reader[r].checked /\ v.acl = reader[r].acl
      /\ v.member = b
  BY <1>3 DEF Search
<1>6. reader' = [reader EXCEPT ![r] = v]
  BY <1>1, <1>4
<1> HIDE DEF v
<1>7. PICK job \in Search : job = v
  BY <1>5
<1>8. reader'[r] = job
  BY <1>1, <1>6, <1>7
<1>9. ASSUME Remembers(r) PROVE SearchKnows(r)'
  <2>1. Grants(r)' \subseteq since'[r] /\ since[r] \subseteq since'[r]
    BY <1>1, <1>5, <1>7, <1>8, <1>9 DEF Remembers
  <2>2. b => <<"member">> \in since'[r]
    BY <1>1, <1>2, <2>1, GrantsAre DEF IsMember
  <2>3. \A s \in Source : Listed(r, job.acl[s]) => <<s>> \in since'[r]
    BY <1>1, <1>5, <1>7, <2>1 DEF SearchKnows
  <2>4. job.checked = {} /\ job.pc = "check" /\ job.member = b
    BY <1>1, <1>5, <1>7 DEF SearchKnows
  <2> QED BY <1>8, <2>2, <2>3, <2>4 DEF SearchKnows, Listed
<1> QED BY <1>6, <1>7, <1>9, SearchMoves

LEMMA SearchChecksInv ==
  ASSUME SourceInv, SearchInv, KnowledgeNext, NEW r \in Reader, SearchChecks(r)
  PROVE  SearchInv'
<1>1. /\ reader \in [Reader -> Search] /\ reader[r] \in Search /\ SearchKnows(r)
      /\ reader[r].pc = "check" /\ UNCHANGED sharedBases
  BY DEF SearchInv, SearchChecks, spaceVars
<1>2. PICK found \in SUBSET Source :
        /\ found = CheckPinned(r)
        /\ reader' = [reader EXCEPT ![r].pc = "found", ![r].checked = found]
  <2>1. reader[r].pinned \subseteq Source
    BY <1>1 DEF Search
  <2>2. CheckPinned(r) \subseteq Source
    BY <2>1 DEF CheckPinned
  <2>3. reader' = [reader EXCEPT ![r].pc = "found", ![r].checked = CheckPinned(r)]
    BY DEF SearchChecks
  <2> QED BY <2>2, <2>3
<1> DEFINE u == [reader[r] EXCEPT !.pc = "found"]
           v == [u EXCEPT !.checked = found]
<1>3. u \in Search /\ u.pc = "found" /\ u.acl = reader[r].acl /\ u.member = reader[r].member
  BY <1>1 DEF Search
<1>4. reader' = [[reader EXCEPT ![r] = u] EXCEPT ![r].checked = found]
  BY <1>2
<1> HIDE DEF u
<1>5. /\ v \in Search /\ v.pc = "found" /\ v.checked = found /\ v.acl = reader[r].acl
      /\ v.member = reader[r].member
  BY <1>3 DEF Search
<1>6. reader' = [reader EXCEPT ![r] = v]
  BY <1>1, <1>4
<1> HIDE DEF v
<1>7. PICK job \in Search : job = v
  BY <1>5
<1>8. reader'[r] = job
  BY <1>1, <1>6, <1>7
<1>9. ASSUME Remembers(r) PROVE SearchKnows(r)'
  <2>1. Grants(r)' \subseteq since'[r] /\ since[r] \subseteq since'[r]
    BY <1>1, <1>5, <1>7, <1>8, <1>9 DEF Remembers
  <2>2. \A s \in Source : Listed(r, job.acl[s]) => <<s>> \in since'[r]
    BY <1>1, <1>5, <1>7, <2>1 DEF SearchKnows
  <2>3. job.member => <<"member">> \in since'[r]
    BY <1>1, <1>5, <1>7, <2>1 DEF SearchKnows
  <2>4. TheBase \in sharedBases => <<"share">> \in since'[r]
    BY <1>1, <2>1, GrantsAre
  <2>5. ASSUME NEW s \in job.checked
        PROVE  Owns(r) \/ <<s>> \in since'[r] \/ {<<"member">>, <<"share">>} \subseteq since'[r]
    <3>1. s \in CheckPinned(r) /\ s \in Source
      BY <1>2, <1>5, <1>7, <2>5
    <3>2. Owns(r) \/ Listed(r, reader[r].acl[s]) \/ (reader[r].member /\ TheBase \in sharedBases)
      BY <3>1 DEF CheckPinned, Granted
    <3> QED BY <1>5, <1>7, <2>2, <2>3, <2>4, <3>1, <3>2
  <2>6. job.pc = "found"
    BY <1>5, <1>7
  <2> QED BY <1>8, <2>2, <2>3, <2>5, <2>6 DEF SearchKnows, Listed, Owns
<1> QED BY <1>6, <1>7, <1>9, SearchMoves

LEMMA SearchEndsInv ==
  ASSUME SourceInv, SearchInv, KnowledgeNext, NEW r \in Reader, SearchEnds(r)
  PROVE  SearchInv'
<1>1. reader \in [Reader -> Search] /\ reader[r] \in Search
  BY DEF SearchInv
<1> DEFINE u == [reader[r] EXCEPT !.pc = "idle"]
           v == [u EXCEPT !.checked = {}]
           w == [v EXCEPT !.member = FALSE]
           j == [w EXCEPT !.acl = [s \in Source |-> {}]]
<1>2. u \in Search /\ u.pc = "idle"
  BY <1>1 DEF Search
<1>3. reader' = [reader EXCEPT ![r] = j]
  BY DEF SearchEnds
<1> HIDE DEF u
<1>4. v \in Search /\ v.pc = "idle" /\ v.checked = {}
  BY <1>2 DEF Search
<1> HIDE DEF v
<1>5. w \in Search /\ w.pc = "idle" /\ w.checked = {}
  BY <1>4 DEF Search
<1> HIDE DEF w
<1>6. [s \in Source |-> {}] \in [Source -> SUBSET Person]
  OBVIOUS
<1>7. j \in Search /\ j.pc = "idle" /\ j.checked = {}
  BY <1>5, <1>6 DEF Search
<1> HIDE DEF j
<1>8. PICK job \in Search : job = j
  BY <1>7
<1>9. reader'[r] = job
  BY <1>1, <1>3, <1>8
<1>10. SearchKnows(r)'
  BY <1>7, <1>8, <1>9 DEF SearchKnows
<1> QED BY <1>3, <1>8, <1>10, SearchMoves

LEMMA SearchStep ==
  ASSUME SourceInv, SearchInv, KnowledgeNext
  PROVE  SearchInv'
<1>1. CASE UNCHANGED reader
  <2>1. ASSUME NEW r \in Reader PROVE SearchKnows(r)'
    BY <1>1, <2>1, SinceGrows, SearchStays DEF SearchInv
  <2>2. DOMAIN since' = Reader
    BY DEF KnowledgeNext
  <2> QED BY <1>1, <2>1, <2>2 DEF SearchInv
<1>2. ASSUME NEW r \in Reader,
             PinSnapshots(r) \/ SearchReads(r) \/ SearchMember(r) \/ SearchChecks(r) \/ SearchEnds(r)
      PROVE  SearchInv'
  BY <1>2, PinSnapshotsInv, SearchReadsInv, SearchMemberInv, SearchChecksInv, SearchEndsInv
<1>3. UNCHANGED reader \/ \E r \in Reader :
        PinSnapshots(r) \/ SearchReads(r) \/ SearchMember(r) \/ SearchChecks(r) \/ SearchEnds(r)
  BY DEF KnowledgeNext, KnowledgeStep, CreateSource, ReadBase, SetBase, ReadSource, ReplaceSource,
         Fetch, FinishSync, SyncCancelled
<1> QED BY <1>1, <1>2, <1>3

LEMMA KnowledgeStepInv == KnowledgeInv /\ [KnowledgeNext]_knowledgeVars => KnowledgeInv'
<1>1. CASE UNCHANGED knowledgeVars
  BY <1>1 DEF knowledgeVars, spaceVars, KnowledgeInv, SourceInv, SearchInv, KnowledgeTypes, Serves,
              JobKnown, SearchKnows, Listed, Owns
<1>2. ASSUME KnowledgeInv, KnowledgeNext PROVE KnowledgeInv'
  BY <1>2, SourceStep, SearchStep DEF KnowledgeInv, KnowledgeNext
<1> QED BY <1>1, <1>2

(* Theorem: a search finds a pinned source only if its reader may still     *)
(* read it (knowledge/service.py search and _allows_source).                *)
THEOREM SearchesAreChecked == ServicesSpec => []SearchesRecheck
<1>1. KnowledgeInv => SearchesRecheck
  BY DEF KnowledgeInv, SearchInv, SearchKnows, SearchesRecheck
<1> QED BY <1>1, KnowledgePart, KnowledgeInitInv, KnowledgeStepInv, PTL DEF ServicesSpec

(* Theorem: no synchronisation, however late, undoes an edit of the owner   *)
(* (knowledge/service.py sync_source).                                      *)
THEOREM SyncsAreHarmless == ServicesSpec => EditsSurviveSyncs
<1> DEFINE Kept == \A s \in Source :
       /\ source'[s].health = "healthy" => source'[s].snapshot \in fetched'[source'[s].config]
       /\ \A q \in Syncer : syncer[q].pc = "finish" /\ syncer'[q] = Quiet =>
            /\ source'[s].config = source[s].config /\ source'[s].acl = source[s].acl
            /\ source[s].health = "disabled" => source'[s].health = "disabled"
<1>1. KnowledgeInv /\ [KnowledgeNext]_knowledgeVars => [Kept]_knowledgeVars
  <2>1. ASSUME KnowledgeInv, KnowledgeNext PROVE Kept
    <3>1. SourceInv' /\ SyncsKeepEdits
      BY <2>1, SourceStep DEF KnowledgeInv, KnowledgeNext
    <3> QED BY <3>1 DEF SourceInv, Serves, SyncsKeepEdits, EditsKept
  <2> QED BY <2>1
<1> QED BY <1>1, KnowledgePart, KnowledgeInitInv, KnowledgeStepInv, PTL
        DEF ServicesSpec, EditsSurviveSyncs

(* Theorem: what a Run may reach is decided by what is true when it asks.   *)
THEOREM AccessStaysCurrent == ServicesSpec => []AccessIsCurrent
<1>1. SearchesRecheck /\ SecretsFollowConnections /\ ActsForItsCaller => AccessIsCurrent
  BY DEF AccessIsCurrent
<1> QED BY <1>1, SearchesAreChecked, SecretsFollow, ToolsActForCaller, PTL

-----------------------------------------------------------------------------
(* Erasure, retention and export.                                            *)

JobStatus == {"none", "queued", "running", "failed", "partial_failed", "succeeded"}
AdapterStatus == {"pending", "running", "failed", "succeeded"}
JobRow == [kind : Kinds \cup {"none"}, status : JobStatus, token : Nat,
           result : [Store -> AdapterStatus]]
RoundSteps == {"check", "start", "work", "succeeded", "failed", "finish"}
AtAdapter == {"start", "work", "succeeded", "failed"}
RoundRow == [pc : RoundSteps \cup {"idle", "claim"}, job : Job \cup {NoRound.job},
             copy : JobRow, at : DOMAIN Adapters]
OfficerRow == {OffDuty} \cup [pc : {"add"}, kind : Kinds]

Wipes(which) == which \in {"delete", "retention"}

(* What a job has to erase of store a; of it a trace stays if retention took *)
(* the index of its old Session away while the trace itself was young.      *)
Aims(which, a) == Beyond(which, IF a = "langfuse" THEN expired.traces ELSE expired.sessions)
Left(i, a) == a = "langfuse" /\ i \in expired.sessions \ expired.traces /\ i \notin Indexed

(* Nothing that a job has to erase of store a is left in it.                *)
Gone(which, a) == \A i \in Item \ late :
  i \in Aims(which, a) => a \notin stored[i] \/ Left(i, a)

(* What the results of a job say: a job that is not finished has something *)
(* to do, one that succeeded has not, and what an erasure says is erased,   *)
(* is.                                                                      *)
JobHolds(task) ==
  /\ task.status # "none" => task.kind # "none"
  /\ task.status = "queued" => \E a \in Store : task.result[a] # "succeeded"
  /\ task.status \in {"failed", "partial_failed"} /\ Erases(task) =>
       \E a \in Store : task.result[a] = "failed"
  /\ task.status = "succeeded" => \A a \in Store : task.result[a] = "succeeded"
  /\ Wipes(task.kind) => \A a \in Store : task.result[a] = "succeeded" => Gone(task.kind, a)

SettledAs(task) == IF Erases(task) THEN {"succeeded"} ELSE {"succeeded", "failed"}

(* A round has been through the adapters before the one it is at: all of    *)
(* them succeeded if it erases.                                             *)
PlaceHolds(pc, copy, at) ==
  /\ pc = "claim" => copy.status = "queued"
  /\ pc \in RoundSteps => copy.status = "running"
  /\ pc = "check" => \E a \in Store : copy.result[a] # "succeeded"
  /\ pc \in AtAdapter => \A m \in DOMAIN Adapters :
       m < at => copy.result[AdapterOf(m)] \in SettledAs(copy)
  /\ pc \in {"work", "succeeded", "failed"} => copy.result[AdapterOf(at)] = "running"
  /\ pc = "finish" => \/ \E a \in Store : copy.result[a] = "failed"
                      \/ \A a \in Store : copy.result[a] = "succeeded"

(* Between the claim and the end of its round a keeper's copy is the row.   *)
CopyHolds(r) ==
  /\ r.pc # "idle" => /\ r.job \in Job
                      /\ r.copy.token <= jobs[r.job].token
                      /\ r.copy.token = jobs[r.job].token => r.copy = jobs[r.job]
  /\ r.pc \in RoundSteps => r.copy = jobs[r.job]

RoundHolds(r) ==
  /\ PlaceHolds(r.pc, r.copy, r.at)
  /\ CopyHolds(r)
  /\ r.pc = "succeeded" /\ Wipes(r.copy.kind) => Gone(r.copy.kind, AdapterOf(r.at))

WorksOn(r, j) == r.pc \in RoundSteps /\ r.job = j

OneRound == \A k, l \in Keeper :
  keeper[k].pc \in RoundSteps /\ WorksOn(keeper[l], keeper[k].job) => k = l

LifecycleTypes ==
  /\ jobs \in [Job -> JobRow] /\ keeper \in [Keeper -> RoundRow]
  /\ officer \in [Officer -> OfficerRow] /\ stored \in [Item -> SUBSET Store]
  /\ expired \in [sessions : SUBSET Item, traces : SUBSET Item]

IndexLast == \A i \in Item \ late : i \notin Indexed =>
  \A a \in stored[i] \cap External : a = "langfuse" /\ i \in expired.sessions \ expired.traces

NoRetention == \A j \in Job : jobs[j].kind # "retention"

LifecycleInv ==
  /\ LifecycleTypes
  /\ \A j \in Job : JobHolds(jobs[j])
  /\ \A k \in Keeper : RoundHolds(keeper[k])
  /\ OneRound
  /\ IndexLast
  /\ NoRetention => expired.sessions = {}

(* The adapters.                                                            *)
LEMMA AdapterFacts ==
  /\ Len(Adapters) \in Nat /\ DOMAIN Adapters = 1 .. Len(Adapters)
  /\ Len(Adapters) \in DOMAIN Adapters /\ 1 \in DOMAIN Adapters
  /\ \A n \in DOMAIN Adapters : AdapterOf(n) \in Store
  /\ \A a \in Store : \E n \in DOMAIN Adapters : a = AdapterOf(n)
  /\ \A n, m \in DOMAIN Adapters : AdapterOf(n) = AdapterOf(m) => n = m
  /\ AdapterOf(Len(Adapters)) = "postgresql" /\ "postgresql" \in Store
<1>1. /\ Len(Adapters) \in Nat /\ DOMAIN Adapters = 1 .. Len(Adapters)
      /\ Len(Adapters) \in DOMAIN Adapters /\ 1 \in DOMAIN Adapters
  BY LifecycleAssumption
<1> QED BY <1>1, LifecycleAssumption DEF AdapterOf, Store

(* Of adapters that are left there is a first one.                          *)
LEMMA FirstOfSome ==
  ASSUME NEW ns \in SUBSET DOMAIN Adapters, ns # {}
  PROVE  FirstOf(ns) \in ns /\ \A m \in ns : FirstOf(ns) <= m
<1>1. ns \subseteq Nat
  BY AdapterFacts
<1>2. PICK x \in ns : \A y \in ns : ~(<<y, x>> \in OpToRel(<, Nat))
  BY <1>1, WFMin, NatLessThanWellFounded
<1>3. ASSUME NEW m \in ns PROVE x <= m
  <2>1. ~(m < x)
    BY <1>1, <1>2 DEF OpToRel
  <2> QED BY <2>1, <1>1
<1> QED BY <1>3 DEF FirstOf

LEMMA NoJobFacts ==
  /\ NoJob \in JobRow /\ NoJob.status = "none" /\ NoJob.token = 0 /\ NoJob.kind = "none"
  /\ \A a \in Store : NoJob.result[a] = "pending"
<1>1. [a \in Store |-> "pending"] \in [Store -> AdapterStatus]
  BY DEF AdapterStatus
<1> QED BY <1>1 DEF NoJob, JobRow, JobStatus

LEMMA NoRoundFacts ==
  /\ NoRound \in RoundRow /\ NoRound.pc = "idle"
<1>1. NoRound.job \in Job \cup {NoRound.job}
  OBVIOUS
<1> QED BY <1>1, NoJobFacts, AdapterFacts DEF NoRound, RoundRow

(* One token on, and one result replaced.                                   *)
LEMMA NextFacts ==
  ASSUME NEW task \in JobRow
  PROVE  /\ Next1(task) \in JobRow /\ Next1(task).token = task.token + 1
         /\ Next1(task).kind = task.kind /\ Next1(task).status = task.status
         /\ Next1(task).result = task.result
BY DEF Next1, JobRow

LEMMA ResultFacts ==
  ASSUME NEW task \in JobRow, NEW a \in Store, NEW s \in AdapterStatus
  PROVE  LET new == [task EXCEPT !.result[a] = s]
         IN  /\ new \in JobRow /\ new.token = task.token
             /\ new.kind = task.kind /\ new.status = task.status
             /\ new.result[a] = s
             /\ \A b \in Store : b # a => new.result[b] = task.result[b]
BY DEF JobRow

LEMMA StatusFacts ==
  ASSUME NEW task \in JobRow, NEW s \in JobStatus
  PROVE  LET new == [task EXCEPT !.status = s]
         IN  /\ new \in JobRow /\ new.token = task.token
             /\ new.kind = task.kind /\ new.status = s /\ new.result = task.result
BY DEF JobRow

(* What an action on a job or on a round leaves of the other half.          *)
Shrinks == \A i \in Item \ late' :
  /\ i \in Item \ late /\ stored'[i] \subseteq stored[i]
  /\ i \in expired'.sessions <=> i \in expired.sessions
  /\ i \in expired'.traces <=> i \in expired.traces

LEMMA GoneStays ==
  ASSUME Shrinks, NEW which, NEW a, Gone(which, a)
  PROVE  Gone(which, a)'
<1> SUFFICES ASSUME NEW i \in Item \ late', (i \in Aims(which, a))'
             PROVE  a \notin stored'[i] \/ Left(i, a)'
  BY DEF Gone
<1>1. i \in Item \ late /\ stored'[i] \subseteq stored[i]
  BY DEF Shrinks
<1>2. i \in Aims(which, a)
  BY DEF Aims, Beyond, Shrinks
<1>3. a \notin stored[i] \/ Left(i, a)
  BY <1>1, <1>2 DEF Gone
<1> QED BY <1>1, <1>3 DEF Left, Indexed, Shrinks

(* The cutoffs of a retention job are set when it is made.                  *)
LEMMA GoneAges ==
  ASSUME LifecycleInv, UNCHANGED <<stored, late>>, NEW which, NEW a,
         UNCHANGED expired \/ (NoRetention /\ which # "retention"), Gone(which, a)
  PROVE  Gone(which, a)'
<1>1. CASE UNCHANGED expired
  BY <1>1 DEF Gone, Aims, Beyond, Left, Indexed
<1>2. CASE NoRetention /\ which # "retention"
  <2>1. expired.sessions = {}
    BY <1>2 DEF LifecycleInv
  <2> QED BY <1>2, <2>1 DEF Gone, Aims, Beyond, Left
<1> QED BY <1>1, <1>2

LEMMA LifecycleInitInv == LifecycleInit => LifecycleInv
<1> SUFFICES ASSUME LifecycleInit PROVE LifecycleInv
  OBVIOUS
<1>1. PICK old \in Item : stored = [i \in Item |-> IF i = old THEN Store ELSE {}]
  BY DEF LifecycleInit
<1>2. stored \in [Item -> SUBSET Store]
  BY <1>1
<1>3. officer \in [Officer -> OfficerRow]
  BY DEF LifecycleInit, OffDuty, OfficerRow
<1>4. jobs \in [Job -> JobRow] /\ keeper \in [Keeper -> RoundRow]
  BY NoJobFacts, NoRoundFacts DEF LifecycleInit
<1>5. \A j \in Job : JobHolds(jobs[j])
  BY NoJobFacts DEF LifecycleInit, JobHolds, Wipes
<1>6. \A k \in Keeper : keeper[k].pc = "idle"
  BY NoRoundFacts DEF LifecycleInit
<1>7. \A k \in Keeper : RoundHolds(keeper[k])
  BY <1>6 DEF RoundHolds, PlaceHolds, CopyHolds, RoundSteps, AtAdapter
<1>8. OneRound
  BY <1>6 DEF OneRound, RoundSteps
<1>9. IndexLast
  BY <1>1, AdapterFacts DEF IndexLast, Indexed
<1>10. expired \in [sessions : SUBSET Item, traces : SUBSET Item] /\ expired.sessions = {}
  BY DEF LifecycleInit
<1> QED BY <1>2, <1>3, <1>4, <1>5, <1>7, <1>8, <1>9, <1>10 DEF LifecycleInv, LifecycleTypes

(* A round goes on, or ends, while the rows stay.                           *)
LEMMA RoundMoves ==
  ASSUME LifecycleInv, NEW k \in Keeper, UNCHANGED <<jobs, officer>>,
         keeper' \in [Keeper -> RoundRow],
         \A l \in Keeper : l # k => keeper'[l] = keeper[l],
         RoundHolds(keeper[k])',
         keeper'[k].pc \in RoundSteps =>
           keeper[k].pc \in RoundSteps /\ keeper'[k].job = keeper[k].job,
         stored' \in [Item -> SUBSET Store], UNCHANGED expired, Shrinks, IndexLast'
  PROVE  LifecycleInv'
<1>1. \A j \in Job : JobHolds(jobs[j])'
  BY GoneStays DEF LifecycleInv, JobHolds, Erases
<1>4. NoRetention' => expired'.sessions = {}
  BY DEF LifecycleInv, NoRetention
<1>2. ASSUME NEW l \in Keeper, l # k PROVE RoundHolds(keeper[l])'
  <2>1. RoundHolds(keeper[l]) /\ keeper'[l] = keeper[l]
    BY <1>2 DEF LifecycleInv
  <2>2. PlaceHolds(keeper[l].pc, keeper[l].copy, keeper[l].at)'
    BY <2>1 DEF RoundHolds, PlaceHolds, SettledAs, Erases
  <2>3. CopyHolds(keeper[l])'
    BY <2>1 DEF RoundHolds, CopyHolds
  <2>4. (keeper[l].pc = "succeeded" /\ Wipes(keeper[l].copy.kind) =>
           Gone(keeper[l].copy.kind, AdapterOf(keeper[l].at)))'
    BY <2>1, GoneStays DEF RoundHolds
  <2> QED BY <2>2, <2>3, <2>4 DEF RoundHolds
<1>3. OneRound'
  BY DEF LifecycleInv, OneRound, WorksOn
<1> QED BY <1>1, <1>2, <1>3, <1>4 DEF LifecycleInv, LifecycleTypes

LEMMA RoundEnds ==
  ASSUME LifecycleInv, NEW k \in Keeper, keeper' = [keeper EXCEPT ![k] = NoRound],
         UNCHANGED <<jobs, officer, stored, expired, late>>
  PROVE  LifecycleInv'
<1>1. keeper' \in [Keeper -> RoundRow] /\ keeper'[k] = NoRound
  BY NoRoundFacts DEF LifecycleInv, LifecycleTypes
<1>2. RoundHolds(keeper[k])'
  BY <1>1, NoRoundFacts DEF RoundHolds, PlaceHolds, CopyHolds, RoundSteps, AtAdapter
<1>3. Shrinks /\ IndexLast' /\ stored' \in [Item -> SUBSET Store]
  BY DEF Shrinks, LifecycleInv, LifecycleTypes, IndexLast, Indexed
<1>4. \A l \in Keeper : l # k => keeper'[l] = keeper[l]
  BY DEF LifecycleInv, LifecycleTypes
<1>5. keeper'[k].pc \notin RoundSteps
  BY <1>1, NoRoundFacts DEF RoundSteps
<1> QED BY <1>1, <1>2, <1>3, <1>4, <1>5, RoundMoves

(* A row is written while no round but that of k, if any, depends on it.    *)
LEMMA RowMoves ==
  ASSUME LifecycleInv, NEW j \in Job, NEW new \in JobRow, NEW done \in SUBSET Keeper,
         jobs' = [jobs EXCEPT ![j] = new], jobs[j].kind \in {"none", new.kind},
         JobHolds(new),
         \/ UNCHANGED expired
         \/ /\ NoRetention /\ new.kind = "retention"
            /\ \A a \in Store : new.result[a] # "succeeded",
         expired' \in [sessions : SUBSET Item, traces : SUBSET Item],
         \A l \in Keeper \ done : /\ keeper'[l] = keeper[l]
                                  /\ ~WorksOn(keeper[l], j)
                                  /\ keeper[l].pc # "idle" /\ keeper[l].job = j =>
                                       keeper[l].copy.token < new.token,
         \A k \in done : /\ RoundHolds(keeper[k])'
                         /\ keeper'[k].pc \in RoundSteps => keeper'[k].job = j
                         /\ \A l \in done : k = l,
         keeper' \in [Keeper -> RoundRow],
         officer' \in [Officer -> OfficerRow], UNCHANGED <<stored, late>>
  PROVE  LifecycleInv'
<1>1. jobs' \in [Job -> JobRow] /\ \A i \in Job : jobs'[i] = IF i = j THEN new ELSE jobs[i]
  BY DEF LifecycleInv, LifecycleTypes
<1>2. ASSUME NEW i \in Job, i # j PROVE JobHolds(jobs[i])'
  <2>1. JobHolds(jobs[i]) /\ jobs'[i] = jobs[i]
    BY <1>1, <1>2 DEF LifecycleInv
  <2>2. UNCHANGED expired \/ (NoRetention /\ jobs[i].kind # "retention")
    BY DEF NoRetention
  <2>3. PICK which : which = jobs[i].kind
    OBVIOUS
  <2>4. \A a : Gone(which, a) => Gone(which, a)'
    BY <2>2, <2>3, GoneAges
  <2> QED BY <2>1, <2>3, <2>4 DEF JobHolds, Erases
<1>8. JobHolds(new)'
  <2>1. CASE UNCHANGED expired
    <3>1. \A which, a : Gone(which, a) => Gone(which, a)'
      BY <2>1, GoneAges
    <3> QED BY <3>1 DEF JobHolds, Erases
  <2>2. CASE \A a \in Store : new.result[a] # "succeeded"
    BY <2>2 DEF JobHolds, Erases
  <2> QED BY <2>1, <2>2
<1>3. \A i \in Job : JobHolds(jobs[i])'
  <2> TAKE i \in Job
  <2>1. CASE i = j
    <3>1. jobs'[i] = new
      BY <1>1, <2>1
    <3> QED BY <1>8, <3>1
  <2> QED BY <1>2, <2>1
<1>4. ASSUME NEW l \in Keeper \ done PROVE RoundHolds(keeper[l])'
  <2>1. RoundHolds(keeper[l]) /\ keeper'[l] = keeper[l]
    BY DEF LifecycleInv
  <2>2. PlaceHolds(keeper[l].pc, keeper[l].copy, keeper[l].at)'
    BY <2>1 DEF RoundHolds, PlaceHolds, SettledAs, Erases
  <2>3. CopyHolds(keeper[l])'
    <3>1. CASE keeper[l].job # j \/ keeper[l].pc = "idle"
      BY <1>1, <2>1, <3>1 DEF RoundHolds, CopyHolds, RoundSteps
    <3>2. CASE keeper[l].job = j /\ keeper[l].pc # "idle"
      <4>1. keeper[l].copy.token < new.token /\ keeper[l].pc \notin RoundSteps
        BY <3>2 DEF WorksOn
      <4>2. keeper[l].copy.token \in Nat /\ new.token \in Nat
        BY DEF LifecycleInv, LifecycleTypes, RoundRow, JobRow
      <4> QED BY <1>1, <2>1, <3>2, <4>1, <4>2 DEF CopyHolds
    <3> QED BY <3>1, <3>2
  <2>4. (keeper[l].pc = "succeeded" /\ Wipes(keeper[l].copy.kind) =>
           Gone(keeper[l].copy.kind, AdapterOf(keeper[l].at)))'
    <3> SUFFICES ASSUME keeper[l].pc = "succeeded", Wipes(keeper[l].copy.kind)
                 PROVE  Gone(keeper[l].copy.kind, AdapterOf(keeper[l].at))'
      BY <2>1
    <3>1. keeper[l].job \in Job /\ keeper[l].copy = jobs[keeper[l].job]
      BY <2>1 DEF RoundHolds, CopyHolds, RoundSteps
    <3>2. UNCHANGED expired \/ (NoRetention /\ keeper[l].copy.kind # "retention")
      BY <3>1 DEF NoRetention
    <3>3. Gone(keeper[l].copy.kind, AdapterOf(keeper[l].at))
      BY <2>1 DEF RoundHolds
    <3> QED BY <2>1, <3>2, <3>3, GoneAges
  <2> QED BY <2>2, <2>3, <2>4 DEF RoundHolds
<1>5. OneRound'
  <2> SUFFICES ASSUME NEW k \in Keeper, NEW l \in Keeper, keeper'[k].pc \in RoundSteps,
                      keeper'[l].pc \in RoundSteps, keeper'[l].job = keeper'[k].job
               PROVE  k = l
    BY DEF OneRound, WorksOn
  <2>1. CASE k \in done /\ l \in done
    BY <2>1
  <2>2. CASE k \notin done /\ l \notin done
    BY <2>2 DEF LifecycleInv, OneRound, WorksOn
  <2>3. CASE k \in done /\ l \notin done
    BY <2>3 DEF WorksOn
  <2>4. CASE k \notin done /\ l \in done
    BY <2>4 DEF WorksOn
  <2> QED BY <2>1, <2>2, <2>3, <2>4
<1>6. IndexLast'
  <2>1. CASE UNCHANGED expired
    BY <2>1 DEF LifecycleInv, IndexLast, Indexed
  <2>2. CASE NoRetention
    <3>1. expired.sessions = {}
      BY <2>2 DEF LifecycleInv
    <3> QED BY <3>1 DEF LifecycleInv, IndexLast, Indexed
  <2> QED BY <2>1, <2>2
<1>7. NoRetention' => expired'.sessions = {}
  <2> SUFFICES ASSUME NoRetention' PROVE expired'.sessions = {}
    OBVIOUS
  <2>1. new.kind # "retention"
    BY <1>1 DEF NoRetention
  <2>2. NoRetention
    BY <1>1, <2>1 DEF NoRetention
  <2> QED BY <2>1, <2>2 DEF LifecycleInv
<1> QED BY <1>1, <1>3, <1>4, <1>5, <1>6, <1>7 DEF LifecycleInv, LifecycleTypes

(* What holds of a copy holds of it one token on.                           *)
LEMMA NextHolds ==
  ASSUME NEW task \in JobRow, NEW pc, NEW at
  PROVE  /\ JobHolds(task) => JobHolds(Next1(task))
         /\ PlaceHolds(pc, task, at) => PlaceHolds(pc, Next1(task), at)
BY NextFacts DEF JobHolds, PlaceHolds, SettledAs, Erases

LEMMA WriteInv ==
  ASSUME LifecycleInv, NEW k \in Keeper, NEW new \in JobRow, NEW pc \in RoundSteps \cup {"idle"},
         NEW at \in DOMAIN Adapters, WriteRow(k, new, pc, at),
         keeper[k].pc # "idle", keeper[k].copy = jobs[keeper[k].job],
         \A l \in Keeper : WorksOn(keeper[l], keeper[k].job) => l = k,
         JobHolds(new), PlaceHolds(pc, new, at), pc # "succeeded",
         new.token = keeper[k].copy.token, new.kind = keeper[k].copy.kind,
         UNCHANGED <<officer, stored, expired, late>>
  PROVE  LifecycleInv'
<1> DEFINE j == keeper[k].job
           went == [keeper[k] EXCEPT !.pc = pc, !.copy = Next1(new), !.at = at]
<1>1. /\ keeper[k] \in RoundRow /\ RoundHolds(keeper[k]) /\ j \in Job
      /\ keeper \in [Keeper -> RoundRow]
  BY DEF LifecycleInv, LifecycleTypes, RoundHolds, CopyHolds
<1>2. Stored(jobs[j], keeper[k].copy)
  BY DEF Stored
<1>3. jobs' = [jobs EXCEPT ![j] = Next1(new)]
  BY <1>2 DEF WriteRow
<1>4. keeper' = [keeper EXCEPT ![k] = IF pc # "idle" THEN went ELSE NoRound]
  BY <1>2 DEF WriteRow
<1>5. /\ went \in RoundRow /\ went.pc = pc /\ went.job = j /\ went.copy = Next1(new)
      /\ went.at = at
  BY <1>1, NextFacts DEF RoundRow
<1> HIDE DEF went
<1>6. keeper' \in [Keeper -> RoundRow]
  BY <1>1, <1>4, <1>5, NoRoundFacts
<1>7. RoundHolds(keeper[k])' /\ (keeper'[k].pc \in RoundSteps => keeper'[k].job = j)
  <2>1. CASE pc = "idle"
    <3>1. keeper'[k] = NoRound
      BY <1>1, <1>4, <2>1
    <3> QED BY <3>1, NoRoundFacts DEF RoundHolds, PlaceHolds, CopyHolds, RoundSteps, AtAdapter
  <2>2. CASE pc # "idle"
    <3>1. keeper'[k] = went
      BY <1>1, <1>4, <2>2
    <3>2. jobs'[j] = Next1(new)
      BY <1>1, <1>3 DEF LifecycleInv, LifecycleTypes
    <3>3. PlaceHolds(pc, Next1(new), at)
      BY NextHolds
    <3>4. PlaceHolds(keeper[k].pc, keeper[k].copy, keeper[k].at)'
      BY <3>1, <3>3, <1>5 DEF PlaceHolds, SettledAs, Erases
    <3>5. CopyHolds(keeper[k])'
      <4>1. Next1(new).token \in Nat
        BY NextFacts DEF JobRow
      <4> QED BY <3>1, <3>2, <1>1, <1>5, <4>1 DEF CopyHolds
    <3> QED BY <3>1, <3>4, <3>5, <1>5 DEF RoundHolds
  <2> QED BY <2>1, <2>2
<1>8. ASSUME NEW l \in Keeper \ {k}
      PROVE  /\ keeper'[l] = keeper[l] /\ ~WorksOn(keeper[l], j)
             /\ keeper[l].pc # "idle" /\ keeper[l].job = j =>
                  keeper[l].copy.token < Next1(new).token
  <2>1. keeper'[l] = keeper[l] /\ ~WorksOn(keeper[l], j)
    BY <1>1, <1>4
  <2>2. RoundHolds(keeper[l])
    BY DEF LifecycleInv
  <2>3. keeper[l].copy.token \in Nat /\ jobs[j].token \in Nat
    BY <1>1 DEF LifecycleInv, LifecycleTypes, RoundRow, JobRow
  <2>4. Next1(new).token = jobs[j].token + 1
    BY NextFacts
  <2> QED BY <2>1, <2>2, <2>3, <2>4 DEF RoundHolds, CopyHolds
<1>9. /\ Next1(new) \in JobRow /\ JobHolds(Next1(new))
      /\ jobs[j].kind \in {"none", Next1(new).kind}
  BY NextFacts, NextHolds
<1>10. /\ officer' \in [Officer -> OfficerRow]
       /\ expired' \in [sessions : SUBSET Item, traces : SUBSET Item]
  BY DEF LifecycleInv, LifecycleTypes
<1> HIDE DEF j
<1>11. \A n \in {k} : /\ RoundHolds(keeper[n])'
                      /\ keeper'[n].pc \in RoundSteps => keeper'[n].job = j
                      /\ \A l \in {k} : n = l
  BY <1>7
<1>12. j \in Job /\ {k} \in SUBSET Keeper
  BY <1>1
<1>13. \/ UNCHANGED expired
       \/ /\ NoRetention /\ Next1(new).kind = "retention"
          /\ \A a \in Store : Next1(new).result[a] # "succeeded"
  OBVIOUS
<1> QED BY <1>3, <1>6, <1>8, <1>9, <1>10, <1>11, <1>12, <1>13, RowMoves

(* The requests.                                                            *)
LEMMA OfficerInv ==
  ASSUME LifecycleInv, officer' \in [Officer -> OfficerRow],
         UNCHANGED <<jobs, keeper, stored, expired, late>>
  PROVE  LifecycleInv'
<1>4. \A which, a : Gone(which, a) => Gone(which, a)'
  BY GoneAges
<1>1. \A j \in Job : JobHolds(jobs[j])'
  BY <1>4 DEF LifecycleInv, JobHolds, Erases
<1>2. \A k \in Keeper : RoundHolds(keeper[k])'
  BY <1>4 DEF LifecycleInv, RoundHolds, PlaceHolds, CopyHolds, SettledAs, Erases
<1>3. OneRound' /\ IndexLast' /\ (NoRetention' => expired'.sessions = {})
  BY DEF LifecycleInv, OneRound, WorksOn, IndexLast, Indexed, NoRetention
<1> QED BY <1>1, <1>2, <1>3 DEF LifecycleInv, LifecycleTypes

LEMMA CheckHoldInv ==
  ASSUME LifecycleInv, NEW o \in Officer, CheckHold(o)
  PROVE  LifecycleInv'
<1>1. PICK what \in Kinds : officer' = [officer EXCEPT ![o] = [pc |-> "add", kind |-> what]]
  BY DEF CheckHold
<1>2. [pc |-> "add", kind |-> what] \in OfficerRow
  BY DEF OfficerRow
<1>3. officer' \in [Officer -> OfficerRow]
  BY <1>1, <1>2 DEF LifecycleInv, LifecycleTypes
<1> QED BY <1>3, OfficerInv DEF CheckHold, WorldUnchanged

LEMMA AddJobInv ==
  ASSUME LifecycleInv, NEW o \in Officer, AddJob(o)
  PROVE  LifecycleInv'
<1>1. officer' \in [Officer -> OfficerRow] /\ officer[o] \in OfficerRow
  BY DEF AddJob, OfficerRow, LifecycleInv, LifecycleTypes
<1>2. UNCHANGED <<keeper, stored, late>> /\ officer[o].kind \in Kinds
  BY <1>1 DEF AddJob, OffDuty, OfficerRow
<1> DEFINE fresh == FreeJobs # {} /\ \A l \in Job : jobs[l].kind # officer[o].kind
<1>3. CASE ~fresh
  <2>1. UNCHANGED <<jobs, expired>>
    BY <1>3 DEF AddJob
  <2> QED BY <1>1, <1>2, <2>1, OfficerInv
<1>4. CASE fresh
  <2> DEFINE j == CHOOSE j \in FreeJobs : TRUE
             queued == [jobs[j] EXCEPT !.kind = officer[o].kind]
             new == [queued EXCEPT !.status = "queued"]
  <2>1. FreeJobs # {} /\ jobs' = [jobs EXCEPT ![j] = [@ EXCEPT !.kind = officer[o].kind, !.status = "queued"]]
    BY <1>4 DEF AddJob
  <2>2. j \in Job /\ jobs[j] = NoJob
    BY <2>1 DEF FreeJobs
  <2>3. jobs' = [jobs EXCEPT ![j] = new]
    BY <2>1, <2>2 DEF LifecycleInv, LifecycleTypes
  <2>4. /\ new \in JobRow /\ new.status = "queued" /\ new.token = 0
        /\ new.kind = officer[o].kind
        /\ \A a \in Store : new.result[a] = "pending"
    <3>1. /\ queued \in JobRow /\ queued.token = 0 /\ queued.result = NoJob.result
          /\ queued.kind = officer[o].kind
      BY <1>2, <2>2, NoJobFacts DEF JobRow
    <3> HIDE DEF queued
    <3>2. "queued" \in JobStatus
      BY DEF JobStatus
    <3> QED BY <3>1, <3>2, StatusFacts, NoJobFacts
  <2> HIDE DEF j, new
  <2>5. JobHolds(new)
    <3>1. new.kind # "none"
      BY <1>2, <2>4, LifecycleAssumption
    <3>2. PICK b : b \in Store
      BY AdapterFacts
    <3> QED BY <2>4, <3>1, <3>2 DEF JobHolds
  <2>11. jobs[j].kind \in {"none", new.kind}
    BY <2>2, NoJobFacts
  <2>12. \/ UNCHANGED expired
         \/ /\ NoRetention /\ new.kind = "retention"
            /\ \A a \in Store : new.result[a] # "succeeded"
    BY <1>4, <2>4 DEF AddJob, NoRetention
  <2>13. expired' \in [sessions : SUBSET Item, traces : SUBSET Item]
    <3>1. CASE UNCHANGED expired
      BY <3>1 DEF LifecycleInv, LifecycleTypes
    <3>2. CASE ~UNCHANGED expired
      BY <1>4, <3>2 DEF AddJob, Indexed
    <3> QED BY <3>1, <3>2
  <2>6. ASSUME NEW l \in Keeper PROVE keeper[l].pc # "idle" => keeper[l].job # j
    <3>1. RoundHolds(keeper[l]) /\ keeper[l] \in RoundRow
      BY DEF LifecycleInv, LifecycleTypes
    <3> SUFFICES ASSUME keeper[l].pc # "idle", keeper[l].job = j PROVE FALSE
      OBVIOUS
    <3>2. keeper[l].copy.token = 0
      BY <3>1, <2>2, NoJobFacts DEF RoundHolds, CopyHolds, RoundRow, JobRow
    <3>3. keeper[l].copy.status = "none"
      BY <3>1, <3>2, <2>2, NoJobFacts DEF RoundHolds, CopyHolds
    <3> QED BY <3>1, <3>3 DEF RoundHolds, PlaceHolds, RoundRow
  <2>7. \A l \in Keeper : /\ keeper'[l] = keeper[l]
                          /\ ~WorksOn(keeper[l], j)
                          /\ keeper[l].pc # "idle" /\ keeper[l].job = j =>
                               keeper[l].copy.token < new.token
    BY <2>6, <1>2 DEF WorksOn, RoundSteps
  <2>8. keeper' \in [Keeper -> RoundRow]
    BY <1>2 DEF LifecycleInv, LifecycleTypes
  <2>9. \A l \in Keeper \ {} : /\ keeper'[l] = keeper[l]
                               /\ ~WorksOn(keeper[l], j)
                               /\ keeper[l].pc # "idle" /\ keeper[l].job = j =>
                                    keeper[l].copy.token < new.token
    BY <2>7
  <2>10. /\ {} \in SUBSET Keeper
         /\ \A k \in {} : /\ RoundHolds(keeper[k])'
                          /\ keeper'[k].pc \in RoundSteps => keeper'[k].job = j
                          /\ \A l \in {} : k = l
    OBVIOUS
  <2> QED BY <1>1, <1>2, <2>2, <2>3, <2>4, <2>5, <2>8, <2>9, <2>10, <2>11, <2>12, <2>13, RowMoves
<1> QED BY <1>3, <1>4

LEMMA RetryJobInv ==
  ASSUME LifecycleInv, NEW j \in Job, RetryJob(j)
  PROVE  LifecycleInv'
<1> DEFINE task == jobs[j]
           again == [a \in Store |-> IF ~Erases(task) \/ task.result[a] = "failed"
                                       THEN "pending" ELSE task.result[a]]
           queued == [Next1(task) EXCEPT !.status = "queued"]
           new == [queued EXCEPT !.result = again]
<1>1. task \in JobRow /\ JobHolds(task) /\ task.status \in {"failed", "partial_failed"}
  BY DEF LifecycleInv, LifecycleTypes, RetryJob
<1>2. jobs' = [jobs EXCEPT ![j] = new] /\ UNCHANGED <<keeper, officer, stored, expired, late>>
  BY DEF RetryJob, WorldUnchanged
<1>3. again \in [Store -> AdapterStatus]
  BY <1>1 DEF JobRow, AdapterStatus
<1>4. /\ new \in JobRow /\ new.status = "queued" /\ new.token = task.token + 1
      /\ new.kind = task.kind /\ new.result = again
  <2>1. "queued" \in JobStatus
    BY DEF JobStatus
  <2>2. /\ queued \in JobRow /\ queued.status = "queued" /\ queued.token = task.token + 1
        /\ queued.kind = task.kind
    BY <1>1, <2>1, NextFacts, StatusFacts
  <2> HIDE DEF queued, again
  <2> QED BY <2>2, <1>3 DEF JobRow
<1>5. JobHolds(new)
  <2>1. \E a \in Store : new.result[a] # "succeeded"
    <3>1. CASE Erases(task)
      BY <1>1, <1>4, <3>1 DEF JobHolds
    <3>2. CASE ~Erases(task)
      BY <1>4, <3>2, AdapterFacts
    <3> QED BY <3>1, <3>2
  <2>2. Wipes(new.kind) => \A a \in Store : new.result[a] = "succeeded" => Gone(new.kind, a)
    <3>1. \A a \in Store : new.result[a] = "succeeded" => task.result[a] = "succeeded"
      BY <1>4
    <3> HIDE DEF new
    <3> QED BY <1>1, <1>4, <3>1 DEF JobHolds
  <2>3. new.kind # "none"
    BY <1>1, <1>4 DEF JobHolds
  <2> HIDE DEF new
  <2> QED BY <1>4, <2>1, <2>2, <2>3 DEF JobHolds
<1>6. ASSUME NEW l \in Keeper
      PROVE  /\ keeper'[l] = keeper[l] /\ ~WorksOn(keeper[l], j)
             /\ keeper[l].pc # "idle" /\ keeper[l].job = j =>
                  keeper[l].copy.token < new.token
  <2>1. RoundHolds(keeper[l]) /\ keeper[l] \in RoundRow
    BY DEF LifecycleInv, LifecycleTypes
  <2>2. ~WorksOn(keeper[l], j)
    BY <2>1, <1>1 DEF RoundHolds, PlaceHolds, CopyHolds, WorksOn
  <2>3. keeper[l].copy.token \in Nat /\ task.token \in Nat
    BY <2>1, <1>1 DEF RoundRow, JobRow
  <2> HIDE DEF new
  <2> QED BY <1>2, <1>4, <2>1, <2>2, <2>3 DEF RoundHolds, CopyHolds
<1> HIDE DEF new
<1>7. \A l \in Keeper \ {} : /\ keeper'[l] = keeper[l]
                             /\ ~WorksOn(keeper[l], j)
                             /\ keeper[l].pc # "idle" /\ keeper[l].job = j =>
                                  keeper[l].copy.token < new.token
  BY <1>6
<1>8. /\ {} \in SUBSET Keeper
      /\ \A k \in {} : /\ RoundHolds(keeper[k])'
                       /\ keeper'[k].pc \in RoundSteps => keeper'[k].job = j
                       /\ \A l \in {} : k = l
  OBVIOUS
<1>9. /\ keeper' \in [Keeper -> RoundRow] /\ officer' \in [Officer -> OfficerRow]
      /\ expired' \in [sessions : SUBSET Item, traces : SUBSET Item]
      /\ UNCHANGED expired /\ jobs[j].kind \in {"none", new.kind}
  BY <1>2, <1>4 DEF LifecycleInv, LifecycleTypes
<1> QED BY <1>2, <1>4, <1>5, <1>7, <1>8, <1>9, RowMoves

(* The rounds of a keeper.                                                  *)
LEMMA LifecycleKept ==
  ASSUME LifecycleInv, UNCHANGED <<stored, expired, late>>
  PROVE  Shrinks /\ IndexLast' /\ stored' \in [Item -> SUBSET Store]
BY DEF Shrinks, LifecycleInv, LifecycleTypes, IndexLast, Indexed

LEMMA ListRunnableInv ==
  ASSUME LifecycleInv, NEW k \in Keeper, ListRunnable(k)
  PROVE  LifecycleInv'
<1>1. PICK j \in Job : jobs[j].status = "queued" /\ keeper' = [keeper EXCEPT ![k] =
        [pc |-> "claim", job |-> j, copy |-> jobs[j], at |-> 1]]
  BY DEF ListRunnable
<1> DEFINE r == [pc |-> "claim", job |-> j, copy |-> jobs[j], at |-> 1]
<1>2. r \in RoundRow /\ jobs[j] \in JobRow /\ jobs[j].token \in Nat
  BY AdapterFacts DEF RoundRow, LifecycleInv, LifecycleTypes, JobRow
<1>3. /\ keeper' \in [Keeper -> RoundRow] /\ keeper'[k] = r
      /\ \A l \in Keeper : l # k => keeper'[l] = keeper[l]
  BY <1>1, <1>2 DEF LifecycleInv, LifecycleTypes
<1>4. UNCHANGED <<jobs, officer, stored, expired, late>>
  BY DEF ListRunnable, WorldUnchanged
<1>5. RoundHolds(keeper[k])'
  BY <1>1, <1>2, <1>3, <1>4 DEF RoundHolds, PlaceHolds, CopyHolds, RoundSteps, AtAdapter
<1>6. keeper'[k].pc \notin RoundSteps
  BY <1>3 DEF RoundSteps
<1> QED BY <1>3, <1>4, <1>5, <1>6, LifecycleKept, RoundMoves

LEMMA ClaimInv ==
  ASSUME LifecycleInv, NEW k \in Keeper, Claim(k)
  PROVE  LifecycleInv'
<1> DEFINE copy == keeper[k].copy
           j == keeper[k].job
           new == [copy EXCEPT !.status = "running"]
<1>1. keeper[k] \in RoundRow /\ RoundHolds(keeper[k]) /\ keeper[k].pc = "claim" /\ copy \in JobRow
  BY DEF Claim, LifecycleInv, LifecycleTypes, RoundRow
<1>2. WriteRow(k, new, "check", 1) /\ UNCHANGED <<officer, stored, expired, late>>
  BY DEF Claim, WorldUnchanged
<1>3. CASE ~Stored(jobs[j], copy)
  <2>1. keeper' = [keeper EXCEPT ![k] = NoRound] /\ jobs' = jobs
    BY <1>2, <1>3 DEF WriteRow
  <2> QED BY <1>2, <2>1, RoundEnds
<1>4. CASE Stored(jobs[j], copy)
  <2>1. j \in Job /\ copy = jobs[j] /\ copy.status = "queued"
    BY <1>1, <1>4 DEF RoundHolds, CopyHolds, PlaceHolds, Stored
  <2>2. JobHolds(copy)
    BY <2>1 DEF LifecycleInv
  <2>3. /\ new \in JobRow /\ new.token = copy.token /\ new.kind = copy.kind
        /\ new.status = "running" /\ new.result = copy.result
    <3>1. "running" \in JobStatus
      BY DEF JobStatus
    <3> QED BY <1>1, <3>1, StatusFacts
  <2> HIDE DEF new
  <2>4. JobHolds(new)
    <3>1. /\ copy.status # "none" /\ new.status # "none"
          /\ new.status \notin {"queued", "failed", "partial_failed", "succeeded"}
      BY <2>1, <2>3
    <3> QED BY <2>2, <2>3, <3>1 DEF JobHolds
  <2>5. PlaceHolds("check", new, 1)
    BY <2>1, <2>2, <2>3 DEF PlaceHolds, JobHolds, AtAdapter
  <2>6. ASSUME NEW l \in Keeper, WorksOn(keeper[l], j) PROVE l = k
    <3>1. RoundHolds(keeper[l])
      BY DEF LifecycleInv
    <3> QED BY <2>1, <2>6, <3>1 DEF RoundHolds, PlaceHolds, CopyHolds, WorksOn
  <2>7. "check" \in RoundSteps \cup {"idle"} /\ 1 \in DOMAIN Adapters
    BY AdapterFacts DEF RoundSteps
  <2>8. keeper[k].pc # "idle" /\ keeper[k].copy = jobs[keeper[k].job]
    BY <1>1, <2>1
  <2> QED BY <1>2, <2>3, <2>4, <2>5, <2>6, <2>7, <2>8, WriteInv
<1> QED BY <1>3, <1>4

(* What a keeper knows within its round.                                    *)
LEMMA RoundFacts ==
  ASSUME LifecycleInv, NEW k \in Keeper, keeper[k].pc \in RoundSteps
  PROVE  /\ keeper[k] \in RoundRow /\ RoundHolds(keeper[k])
         /\ keeper[k].copy \in JobRow /\ keeper[k].at \in DOMAIN Adapters
         /\ keeper[k].job \in Job /\ keeper[k].copy = jobs[keeper[k].job]
         /\ keeper[k].copy.status = "running" /\ keeper[k].pc # "idle"
         /\ JobHolds(keeper[k].copy)
         /\ \A l \in Keeper : WorksOn(keeper[l], keeper[k].job) => l = k
<1>1. keeper[k] \in RoundRow /\ RoundHolds(keeper[k]) /\ keeper[k].pc # "idle"
  BY DEF LifecycleInv, LifecycleTypes, RoundSteps
<1>2. /\ keeper[k].job \in Job /\ keeper[k].copy = jobs[keeper[k].job]
      /\ keeper[k].copy.status = "running"
  BY <1>1 DEF RoundHolds, CopyHolds, PlaceHolds
<1> QED BY <1>1, <1>2 DEF LifecycleInv, OneRound, RoundRow

LEMMA RecheckHoldInv ==
  ASSUME LifecycleInv, NEW k \in Keeper, RecheckHold(k)
  PROVE  LifecycleInv'
<1> DEFINE copy == keeper[k].copy
           next == FirstOf(Pending(copy))
<1>1. keeper[k].pc = "check" /\ UNCHANGED <<officer, stored, expired, late>>
  BY DEF RecheckHold, WorldUnchanged
<1>2. keeper[k].pc \in RoundSteps
  BY <1>1 DEF RoundSteps
<1>3. Pending(copy) # {} /\ Pending(copy) \in SUBSET DOMAIN Adapters
  BY <1>1, <1>2, RoundFacts, AdapterFacts DEF Pending, RoundHolds, PlaceHolds
<1>4. next \in Pending(copy) /\ \A m \in Pending(copy) : next <= m
  BY <1>3, FirstOfSome
<1>5. next \in DOMAIN Adapters
  BY <1>3, <1>4
<1> HIDE DEF next
<1>6. CASE BlockingHold(copy)
  <2> DEFINE new == [copy EXCEPT !.result[AdapterOf(next)] = "failed"]
  <2>1. WriteRow(k, new, "finish", 1)
    BY <1>6 DEF RecheckHold, next
  <2>2. AdapterOf(next) \in Store /\ "failed" \in AdapterStatus /\ copy \in JobRow
    BY <1>2, <1>5, AdapterFacts, RoundFacts DEF AdapterStatus
  <2>3. /\ new \in JobRow /\ new.token = copy.token /\ new.kind = copy.kind
        /\ new.status = "running" /\ new.result[AdapterOf(next)] = "failed"
        /\ \A b \in Store : b # AdapterOf(next) => new.result[b] = copy.result[b]
    BY <1>2, <2>2, RoundFacts, ResultFacts
  <2> HIDE DEF new
  <2>4. JobHolds(new)
    BY <1>2, <2>3, RoundFacts DEF JobHolds, Erases
  <2>5. PlaceHolds("finish", new, 1)
    BY <2>2, <2>3 DEF PlaceHolds, AtAdapter
  <2>6. "finish" \in RoundSteps \cup {"idle"} /\ 1 \in DOMAIN Adapters
    BY AdapterFacts DEF RoundSteps
  <2> QED BY <1>1, <1>2, <2>1, <2>3, <2>4, <2>5, <2>6, RoundFacts, WriteInv
<1>7. CASE ~BlockingHold(copy)
  <2>1. keeper' = [keeper EXCEPT ![k].pc = "start", ![k].at = next] /\ UNCHANGED jobs
    BY <1>7 DEF RecheckHold, next
  <2> DEFINE r == [[keeper[k] EXCEPT !.pc = "start"] EXCEPT !.at = next]
  <2>2. /\ r \in RoundRow /\ r.pc = "start" /\ r.job = keeper[k].job /\ r.copy = copy
        /\ r.at = next
    BY <1>2, <1>5, RoundFacts DEF RoundRow, RoundSteps
  <2>3. /\ keeper' \in [Keeper -> RoundRow] /\ keeper'[k] = r
        /\ \A l \in Keeper : l # k => keeper'[l] = keeper[l]
    <3>1. keeper \in [Keeper -> RoundRow]
      BY DEF LifecycleInv, LifecycleTypes
    <3>2. keeper' = [keeper EXCEPT ![k] = r]
      BY <2>1, <3>1
    <3> HIDE DEF r
    <3> QED BY <2>2, <3>1, <3>2
  <2> HIDE DEF r
  <2>4. PlaceHolds("start", copy, next)
    <3>1. \A m \in DOMAIN Adapters : m < next => copy.result[AdapterOf(m)] = "succeeded"
      <4>1. ASSUME NEW m \in DOMAIN Adapters, m < next PROVE m \notin Pending(copy)
        BY <1>4, <1>5, <4>1, AdapterFacts
      <4> QED BY <4>1 DEF Pending
    <3> QED BY <1>2, <3>1, RoundFacts DEF PlaceHolds, SettledAs
  <2>5. RoundHolds(keeper[k])'
    <3>1. PlaceHolds(keeper[k].pc, keeper[k].copy, keeper[k].at)'
      BY <2>2, <2>3, <2>4 DEF PlaceHolds, SettledAs, Erases
    <3>2. CopyHolds(keeper[k])'
      <4>1. copy.token \in Nat
        BY <1>2, RoundFacts DEF JobRow
      <4> QED BY <1>2, <2>1, <2>2, <2>3, <4>1, RoundFacts DEF CopyHolds
    <3> QED BY <2>2, <2>3, <3>1, <3>2 DEF RoundHolds
  <2>6. keeper[k].pc \in RoundSteps /\ keeper'[k].job = keeper[k].job
    BY <1>2, <2>2, <2>3
  <2> QED BY <1>1, <2>1, <2>3, <2>5, <2>6, LifecycleKept, RoundMoves
<1> QED BY <1>6, <1>7

LEMMA StartAdapterInv ==
  ASSUME LifecycleInv, NEW k \in Keeper, StartAdapter(k)
  PROVE  LifecycleInv'
<1> DEFINE copy == keeper[k].copy
           at == keeper[k].at
           new == [copy EXCEPT !.result[AdapterOf(at)] = "running"]
<1>1. /\ keeper[k].pc = "start" /\ UNCHANGED <<officer, stored, expired, late>>
      /\ WriteRow(k, new, "work", at)
  BY DEF StartAdapter, WorldUnchanged
<1>2. keeper[k].pc \in RoundSteps
  BY <1>1 DEF RoundSteps
<1>3. AdapterOf(at) \in Store /\ "running" \in AdapterStatus /\ copy \in JobRow
  BY <1>2, AdapterFacts, RoundFacts DEF AdapterStatus
<1>4. /\ new \in JobRow /\ new.token = copy.token /\ new.kind = copy.kind
      /\ new.status = "running" /\ new.result[AdapterOf(at)] = "running"
      /\ \A b \in Store : b # AdapterOf(at) => new.result[b] = copy.result[b]
  BY <1>2, <1>3, RoundFacts, ResultFacts
<1> HIDE DEF new
<1>5. JobHolds(new)
  BY <1>2, <1>4, RoundFacts DEF JobHolds, Erases
<1>6. PlaceHolds("work", new, at)
  <2>1. ASSUME NEW m \in DOMAIN Adapters, m < at PROVE new.result[AdapterOf(m)] \in SettledAs(new)
    <3>1. AdapterOf(m) # AdapterOf(at) /\ AdapterOf(m) \in Store
      BY <2>1, <1>2, RoundFacts, AdapterFacts
    <3>2. copy.result[AdapterOf(m)] \in SettledAs(copy)
      BY <1>1, <1>2, <2>1, RoundFacts DEF RoundHolds, PlaceHolds, AtAdapter
    <3> QED BY <1>4, <3>1, <3>2 DEF SettledAs, Erases
  <2> QED BY <1>4, <2>1 DEF PlaceHolds
<1>7. "work" \in RoundSteps \cup {"idle"}
  BY DEF RoundSteps
<1> QED BY <1>1, <1>2, <1>4, <1>5, <1>6, <1>7, RoundFacts, WriteInv

(* A keeper is done with its adapter.                                       *)
LEMMA WorkedInv ==
  ASSUME LifecycleInv, NEW k \in Keeper, keeper[k].pc = "work",
         NEW pc \in {"succeeded", "failed"}, keeper' = [keeper EXCEPT ![k].pc = pc],
         UNCHANGED <<jobs, officer, expired, late>>,
         stored' \in [Item -> SUBSET Store], Shrinks, IndexLast',
         pc = "succeeded" /\ Wipes(keeper[k].copy.kind) =>
           \A which, a : which = keeper[k].copy.kind /\ a = AdapterOf(keeper[k].at) => Gone(which, a)'
  PROVE  LifecycleInv'
<1> DEFINE r == [keeper[k] EXCEPT !.pc = pc]
<1>1. keeper[k].pc \in RoundSteps
  BY DEF RoundSteps
<1>2. /\ r \in RoundRow /\ r.pc = pc /\ r.job = keeper[k].job /\ r.copy = keeper[k].copy
      /\ r.at = keeper[k].at
  BY <1>1, RoundFacts DEF RoundRow, RoundSteps
<1>3. /\ keeper' \in [Keeper -> RoundRow] /\ keeper'[k] = r
      /\ \A l \in Keeper : l # k => keeper'[l] = keeper[l]
  <2>1. keeper \in [Keeper -> RoundRow]
    BY DEF LifecycleInv, LifecycleTypes
  <2>2. keeper' = [keeper EXCEPT ![k] = r]
    BY <2>1
  <2> HIDE DEF r
  <2> QED BY <1>2, <2>1, <2>2
<1> HIDE DEF r
<1>4. RoundHolds(keeper[k]) /\ PlaceHolds("work", keeper[k].copy, keeper[k].at)
  BY <1>1, RoundFacts DEF RoundHolds
<1>5. PlaceHolds(pc, keeper[k].copy, keeper[k].at)
  BY <1>4 DEF PlaceHolds, RoundSteps, AtAdapter
<1>6. RoundHolds(keeper[k])'
  <2>1. PlaceHolds(keeper[k].pc, keeper[k].copy, keeper[k].at)'
    BY <1>2, <1>3, <1>5 DEF PlaceHolds, SettledAs, Erases
  <2>2. CopyHolds(keeper[k])'
    <3>1. keeper[k].copy.token \in Nat
      BY <1>1, RoundFacts DEF JobRow
    <3> QED BY <1>1, <1>2, <1>3, <3>1, RoundFacts DEF CopyHolds
  <2>3. (keeper[k].pc = "succeeded" /\ Wipes(keeper[k].copy.kind) =>
           Gone(keeper[k].copy.kind, AdapterOf(keeper[k].at)))'
    <3> SUFFICES ASSUME pc = "succeeded", Wipes(keeper[k].copy.kind)
                 PROVE  Gone(keeper[k].copy.kind, AdapterOf(keeper[k].at))'
      BY <1>2, <1>3
    <3>1. PICK which, a : which = keeper[k].copy.kind /\ a = AdapterOf(keeper[k].at)
      OBVIOUS
    <3>2. Gone(which, a)'
      BY <3>1
    <3>3. keeper'[k].copy.kind = which /\ AdapterOf(keeper'[k].at) = a
      BY <1>2, <1>3, <3>1
    <3> QED BY <3>2, <3>3
  <2> QED BY <2>1, <2>2, <2>3 DEF RoundHolds
<1>7. keeper[k].pc \in RoundSteps /\ keeper'[k].job = keeper[k].job
  BY <1>1, <1>2, <1>3
<1> QED BY <1>3, <1>6, <1>7, RoundMoves

(* What an adapter finds: everything that the job has to erase of its store.*)
LEMMA ReachIsEnough ==
  ASSUME LifecycleInv, NEW which, NEW a \in Store, NEW i \in Item \ late,
         a \in stored[i], i \in Aims(which, a), ~Left(i, a)
  PROVE  i \in Reach(a, which)
<1>1. a \in {"object-store", "sdk-session", "memory", "langfuse", "postgresql"}
  BY LifecycleAssumption DEF Store
<1>2. CASE a = "memory"
  BY <1>2 DEF Reach, FindsMemories
<1>3. CASE a \in External
  <2>1. i \in Indexed
    <3> SUFFICES ASSUME i \notin Indexed PROVE FALSE
      OBVIOUS
    <3>1. a = "langfuse" /\ i \in expired.sessions \ expired.traces
      BY <1>3 DEF LifecycleInv, IndexLast
    <3> QED BY <3>1 DEF Left
  <2> QED BY <1>3, <2>1 DEF External, Reach, FindsObjects, FindsSdkSessions, FindsTraces, Aims
<1>4. CASE a = "postgresql"
  BY <1>4 DEF Reach, FindsRows, Indexed, Aims
<1> QED BY <1>1, <1>2, <1>3, <1>4 DEF External

LEMMA AdapterWorksInv ==
  ASSUME LifecycleInv, NEW k \in Keeper, AdapterWorks(k)
  PROVE  LifecycleInv'
<1> DEFINE copy == keeper[k].copy
           at == keeper[k].at
           a == AdapterOf(at)
<1>1. /\ keeper[k].pc = "work" /\ keeper' = [keeper EXCEPT ![k].pc = "succeeded"]
      /\ UNCHANGED <<jobs, officer, expired, late>>
  BY DEF AdapterWorks
<1>2. keeper[k].pc \in RoundSteps
  BY <1>1 DEF RoundSteps
<1>3. at \in DOMAIN Adapters /\ a \in Store
  BY <1>2, RoundFacts, AdapterFacts
<1>4. CASE ~Erases(copy)
  <2>1. stored' = stored
    BY <1>4 DEF AdapterWorks
  <2>2. ~Wipes(copy.kind)
    BY <1>4 DEF Erases, Wipes
  <2> QED BY <1>1, <1>4, <2>1, <2>2, LifecycleKept, WorkedInv
<1>5. CASE Erases(copy)
  <2>1. stored' = Erased(a, copy.kind)
    BY <1>5 DEF AdapterWorks
  <2>7. Wipes(copy.kind)
    <3>1. copy.kind \in Kinds \cup {"none"} /\ copy.kind # "none"
      BY <1>2, RoundFacts DEF JobHolds, JobRow
    <3> QED BY <1>5, <3>1, LifecycleAssumption DEF Erases, Wipes
  <2> HIDE DEF a
  <2>2. stored \in [Item -> SUBSET Store]
    BY DEF LifecycleInv, LifecycleTypes
  <2>3. \A i \in Item : stored'[i] = IF i \in Reach(a, copy.kind) THEN stored[i] \ {a} ELSE stored[i]
    BY <2>1 DEF Erased
  <2>4. stored' \in [Item -> SUBSET Store] /\ Shrinks
    <3>1. \A i \in Item : (IF i \in Reach(a, copy.kind) THEN stored[i] \ {a} ELSE stored[i]) \in SUBSET Store
      BY <2>2
    <3>2. Erased(a, copy.kind) \in [Item -> SUBSET Store]
      BY <3>1 DEF Erased
    <3> QED BY <1>1, <2>1, <2>3, <3>2 DEF Shrinks
  <2>5. ASSUME NEW which, NEW store, which = copy.kind, store = a PROVE Gone(which, store)'
    <3> SUFFICES ASSUME NEW i \in Item \ late, i \in Aims(which, store), store \in stored'[i]
                 PROVE  Left(i, store)'
      BY <1>1 DEF Gone, Aims, Beyond
    <3>1. stored'[i] = IF i \in Reach(a, copy.kind) THEN stored[i] \ {a} ELSE stored[i]
      BY <2>3
    <3>2. store \in stored[i] /\ i \notin Reach(store, which)
      BY <2>5, <3>1
    <3>3. Left(i, store)
      BY <1>3, <2>5, <3>2, ReachIsEnough
    <3> QED BY <1>1, <2>4, <3>3 DEF Left, Indexed, Shrinks
  <2>6. IndexLast'
    <3> SUFFICES ASSUME NEW i \in Item \ late, i \notin Indexed', NEW e \in stored'[i] \cap External
                 PROVE  e = "langfuse" /\ i \in expired.sessions \ expired.traces
      BY <1>1 DEF IndexLast
    <3>1. e \in stored[i] /\ e \in Store
      BY <1>1, <2>2, <2>4 DEF Shrinks
    <3>2. CASE i \notin Indexed
      BY <3>1, <3>2 DEF LifecycleInv, IndexLast
    <3>3. CASE i \in Indexed
      <4>1. "postgresql" \in stored[i] /\ "postgresql" \notin stored'[i]
        BY <3>3 DEF Indexed
      <4>2. a = "postgresql" /\ i \in Reach(a, copy.kind)
        BY <2>3, <4>1
      <4>3. at = Len(Adapters)
        BY <1>3, <4>2, AdapterFacts DEF a
      <4>4. PICK m \in DOMAIN Adapters : e = AdapterOf(m)
        BY <3>1, AdapterFacts
      <4>5. e # "postgresql"
        BY DEF External
      <4>6. m < at
        BY <4>3, <4>4, <4>5, AdapterFacts
      <4>7. copy.result[e] = "succeeded"
        BY <1>1, <1>2, <1>5, <4>4, <4>6, RoundFacts DEF RoundHolds, PlaceHolds, AtAdapter, SettledAs
      <4>8. Gone(copy.kind, e)
        BY <1>2, <2>7, <3>1, <4>7, RoundFacts DEF JobHolds
      <4>9. i \notin Aims(copy.kind, e)
        BY <3>1, <3>3, <4>8 DEF Gone, Left
      <4>10. i \in Beyond(copy.kind, expired.sessions)
        BY <4>2 DEF Reach, FindsRows
      <4> QED BY <4>9, <4>10 DEF Aims, Beyond
    <3> QED BY <3>2, <3>3
  <2>8. \A which, store : which = copy.kind /\ store = a => Gone(which, store)'
    BY <2>5
  <2> QED BY <1>1, <2>4, <2>6, <2>8, WorkedInv DEF a
<1> QED BY <1>4, <1>5

LEMMA AdapterFailsInv ==
  ASSUME LifecycleInv, NEW k \in Keeper, AdapterFails(k)
  PROVE  LifecycleInv'
<1>1. /\ keeper[k].pc = "work" /\ keeper' = [keeper EXCEPT ![k].pc = "failed"]
      /\ UNCHANGED <<jobs, officer, stored, expired, late>>
  BY DEF AdapterFails, WorldUnchanged
<1> QED BY <1>1, LifecycleKept, WorkedInv

LEMMA RecordResultInv ==
  ASSUME LifecycleInv, NEW k \in Keeper, RecordResult(k)
  PROVE  LifecycleInv'
<1> DEFINE copy == keeper[k].copy
           at == keeper[k].at
           how == keeper[k].pc
           done == [copy EXCEPT !.result[AdapterOf(at)] = how]
           rest == {n \in Pending(done) : n > at}
           stop == rest = {} \/ (how = "failed" /\ Erases(copy))
<1>1. /\ how \in {"succeeded", "failed"} /\ UNCHANGED <<officer, stored, expired, late>>
      /\ WriteRow(k, done, IF stop THEN "finish" ELSE "start", IF stop THEN 1 ELSE FirstOf(rest))
  BY DEF RecordResult, WorldUnchanged
<1>2. how \in RoundSteps
  BY <1>1 DEF RoundSteps
<1>3. AdapterOf(at) \in Store /\ how \in AdapterStatus /\ copy \in JobRow /\ at \in DOMAIN Adapters
  BY <1>1, <1>2, AdapterFacts, RoundFacts DEF AdapterStatus
<1>4. /\ done \in JobRow /\ done.token = copy.token /\ done.kind = copy.kind
      /\ done.status = "running" /\ done.result[AdapterOf(at)] = how
      /\ \A b \in Store : b # AdapterOf(at) => done.result[b] = copy.result[b]
  BY <1>2, <1>3, RoundFacts, ResultFacts
<1> HIDE DEF done
<1>5. JobHolds(done)
  <2>1. ASSUME Wipes(done.kind), NEW a \in Store, done.result[a] = "succeeded"
        PROVE  Gone(done.kind, a)
    <3>1. Wipes(copy.kind)
      BY <1>4, <2>1
    <3>2. CASE a = AdapterOf(at)
      BY <1>2, <1>4, <2>1, <3>1, <3>2, RoundFacts DEF RoundHolds
    <3>3. CASE a # AdapterOf(at)
      BY <1>2, <1>4, <2>1, <3>1, <3>3, RoundFacts DEF JobHolds
    <3> QED BY <3>2, <3>3
  <2>2. done.kind # "none"
    BY <1>2, <1>4, RoundFacts DEF JobHolds
  <2> QED BY <1>4, <2>1, <2>2 DEF JobHolds
<1>6. ASSUME NEW m \in DOMAIN Adapters, m < at
      PROVE  done.result[AdapterOf(m)] \in SettledAs(copy)
  <2>1. AdapterOf(m) # AdapterOf(at) /\ AdapterOf(m) \in Store
    BY <1>3, <1>6, AdapterFacts
  <2>2. copy.result[AdapterOf(m)] \in SettledAs(copy)
    BY <1>1, <1>2, <1>6, RoundFacts DEF RoundHolds, PlaceHolds, AtAdapter
  <2> QED BY <1>4, <2>1, <2>2
<1>7. ASSUME NEW m \in DOMAIN Adapters, m > at, m \notin rest
      PROVE  done.result[AdapterOf(m)] = "succeeded"
  BY <1>7 DEF Pending
<1>8. rest \in SUBSET DOMAIN Adapters
  BY DEF Pending
<1> HIDE DEF rest
<1>9. CASE stop
  <2>1. PlaceHolds("finish", done, 1)
    <3>1. CASE how = "failed"
      BY <1>3, <1>4, <3>1 DEF PlaceHolds, AtAdapter
    <3>2. CASE how # "failed"
      <4>1. rest = {}
        BY <1>9, <3>2
      <4>2. \A m \in DOMAIN Adapters : done.result[AdapterOf(m)] \in {"succeeded", "failed"}
        <5> TAKE m \in DOMAIN Adapters
        <5>1. m < at \/ m = at \/ m > at
          BY <1>3, AdapterFacts
        <5> QED BY <1>1, <1>4, <1>6, <1>7, <4>1, <5>1 DEF SettledAs
      <4>3. \A b \in Store : done.result[b] \in {"succeeded", "failed"}
        BY <4>2, AdapterFacts
      <4> QED BY <1>4, <4>3 DEF PlaceHolds, AtAdapter
    <3> QED BY <3>1, <3>2
  <2>2. "finish" \in RoundSteps \cup {"idle"} /\ 1 \in DOMAIN Adapters
    BY AdapterFacts DEF RoundSteps
  <2>3. WriteRow(k, done, "finish", 1)
    BY <1>1, <1>9
  <2> QED BY <1>1, <1>2, <1>4, <1>5, <2>1, <2>2, <2>3, RoundFacts, WriteInv
<1>10. CASE ~stop
  <2> DEFINE next == FirstOf(rest)
  <2>1. next \in rest /\ \A m \in rest : next <= m
    BY <1>8, <1>10, FirstOfSome
  <2>2. next \in DOMAIN Adapters
    BY <1>8, <2>1
  <2>3. WriteRow(k, done, "start", next)
    BY <1>1, <1>10
  <2> HIDE DEF next
  <2>4. PlaceHolds("start", done, next)
    <3>1. ASSUME NEW m \in DOMAIN Adapters, m < next
          PROVE  done.result[AdapterOf(m)] \in SettledAs(done)
      <4>1. SettledAs(done) = SettledAs(copy) /\ "succeeded" \in SettledAs(copy)
        BY <1>4 DEF SettledAs, Erases
      <4>2. CASE m < at
        BY <1>6, <4>1, <4>2
      <4>3. CASE m = at
        BY <1>1, <1>4, <1>10, <4>1, <4>3 DEF SettledAs
      <4>4. CASE m > at
        <5>1. m \notin rest
          BY <2>1, <2>2, <3>1, AdapterFacts
        <5> QED BY <1>7, <4>1, <4>4, <5>1
      <4>5. m < at \/ m = at \/ m > at
        BY <1>3, AdapterFacts
      <4> QED BY <4>2, <4>3, <4>4, <4>5
    <3> QED BY <1>4, <3>1 DEF PlaceHolds
  <2>5. "start" \in RoundSteps \cup {"idle"}
    BY DEF RoundSteps
  <2> QED BY <1>1, <1>2, <1>4, <1>5, <2>2, <2>3, <2>4, <2>5, RoundFacts, WriteInv
<1> QED BY <1>9, <1>10

LEMMA FinishInv ==
  ASSUME LifecycleInv, NEW k \in Keeper, Finish(k)
  PROVE  LifecycleInv'
<1> DEFINE copy == keeper[k].copy
           Ended(saved) ==
             IF saved /\ \A a \in Store : copy.result[a] # "failed" THEN "succeeded"
             ELSE IF \E a \in Store : copy.result[a] = "succeeded" THEN "partial_failed" ELSE "failed"
           Outcome(s) == [copy EXCEPT !.status = s]
<1>1. keeper[k].pc = "finish" /\ UNCHANGED <<officer, stored, expired, late>>
  BY DEF Finish, WorldUnchanged
<1>2. keeper[k].pc \in RoundSteps
  BY <1>1 DEF RoundSteps
<1>3. PICK s \in {"succeeded", "partial_failed", "failed"} :
        /\ WriteRow(k, Outcome(s), "idle", 1)
        /\ s = "succeeded" => \A a \in Store : copy.result[a] # "failed"
        /\ s # "succeeded" /\ Erases(copy) => \E a \in Store : copy.result[a] = "failed"
  <2>1. CASE WriteRow(k, Outcome(Ended(TRUE)), "idle", 1)
    <3>1. Ended(TRUE) \in {"succeeded", "partial_failed", "failed"}
      OBVIOUS
    <3>2. /\ Ended(TRUE) = "succeeded" => \A a \in Store : copy.result[a] # "failed"
          /\ Ended(TRUE) # "succeeded" => \E a \in Store : copy.result[a] = "failed"
      OBVIOUS
    <3> QED BY <2>1, <3>1, <3>2
  <2>2. CASE ~Erases(copy) /\ WriteRow(k, Outcome(Ended(FALSE)), "idle", 1)
    <3>1. Ended(FALSE) \in {"partial_failed", "failed"}
      OBVIOUS
    <3> QED BY <2>2, <3>1
  <2> QED BY <2>1, <2>2 DEF Finish
<1> DEFINE new == Outcome(s)
<1>4. /\ new \in JobRow /\ new.token = copy.token /\ new.kind = copy.kind
      /\ new.status = s /\ new.result = copy.result
  <2>1. s \in JobStatus
    BY DEF JobStatus
  <2> QED BY <1>2, <2>1, RoundFacts, StatusFacts
<1> HIDE DEF Outcome, Ended
<1>5. JobHolds(new)
  <2>1. s = "succeeded" => \A a \in Store : copy.result[a] = "succeeded"
    BY <1>1, <1>2, <1>3, RoundFacts DEF RoundHolds, PlaceHolds
  <2>2. s # "queued"
    OBVIOUS
  <2>3. JobHolds(copy)
    BY <1>2, RoundFacts
  <2>4. Wipes(new.kind) => \A a \in Store : new.result[a] = "succeeded" => Gone(new.kind, a)
    BY <1>4, <2>3 DEF JobHolds
  <2>5. new.kind # "none"
    BY <1>2, <1>4, <2>3, RoundFacts DEF JobHolds
  <2> HIDE DEF new
  <2> QED BY <1>3, <1>4, <2>1, <2>2, <2>4, <2>5 DEF JobHolds, Erases
<1>6. PlaceHolds("idle", new, 1) /\ "idle" \in RoundSteps \cup {"idle"} /\ 1 \in DOMAIN Adapters
  BY AdapterFacts DEF PlaceHolds, RoundSteps, AtAdapter
<1>7. WriteRow(k, new, "idle", 1)
  BY <1>3
<1> QED BY <1>1, <1>2, <1>4, <1>5, <1>6, <1>7, RoundFacts, WriteInv

(* A user goes on working while nothing or something has been erased.       *)
LEMMA NewItemInv ==
  ASSUME LifecycleInv, NEW i \in Item, NewItem(i)
  PROVE  LifecycleInv'
<1>1. /\ stored' = [stored EXCEPT ![i] = Store]
      /\ late' = IF UnderWay THEN late \cup {i} ELSE late \ {i}
      /\ expired' = [sessions |-> expired.sessions \ {i}, traces |-> expired.traces \ {i}]
      /\ UNCHANGED <<jobs, keeper, officer>>
  BY DEF NewItem
<1>2. /\ stored \in [Item -> SUBSET Store] /\ stored' \in [Item -> SUBSET Store]
      /\ expired \in [sessions : SUBSET Item, traces : SUBSET Item]
      /\ expired' \in [sessions : SUBSET Item, traces : SUBSET Item]
  BY <1>1 DEF LifecycleInv, LifecycleTypes
<1>3. UnderWay => Shrinks
  BY <1>1, <1>2 DEF Shrinks
<1>8. ASSUME NEW a, Gone("retention", a) PROVE Gone("retention", a)'
  <2> SUFFICES ASSUME NEW m \in Item \ late', m \in Aims("retention", a)'
               PROVE  a \notin stored'[m] \/ Left(m, a)'
    BY DEF Gone
  <2>1. m # i /\ m \in Aims("retention", a)
    BY <1>1, <1>2 DEF Aims, Beyond
  <2>2. m \in Item \ late /\ stored'[m] = stored[m]
    BY <1>1, <1>2, <2>1
  <2> QED BY <1>1, <1>2, <1>8, <2>1, <2>2 DEF Gone, Left, Indexed
<1>4. \A j \in Job : JobHolds(jobs[j])'
  <2> TAKE j \in Job
  <2>1. JobHolds(jobs[j])
    BY DEF LifecycleInv
  <2>2. ASSUME Wipes(jobs[j].kind), NEW a \in Store, jobs[j].result[a] = "succeeded"
        PROVE  \A which : which = jobs[j].kind => Gone(which, a)'
    <3> SUFFICES ASSUME NEW which, which = jobs[j].kind PROVE Gone(which, a)'
      OBVIOUS
    <3>1. Gone(which, a)
      BY <2>1, <2>2 DEF JobHolds
    <3>2. CASE jobs[j].kind = "retention"
      BY <1>8, <3>1, <3>2
    <3>3. CASE jobs[j].kind = "delete"
      <4>1. UnderWay
        BY <2>2, <3>3 DEF UnderWay
      <4> QED BY <1>3, <3>1, <4>1, GoneStays
    <3> QED BY <2>2, <3>2, <3>3 DEF Wipes
  <2>3. PICK which : which = jobs[j].kind
    OBVIOUS
  <2>4. Wipes(which) => \A a \in Store : jobs[j].result[a] = "succeeded" => Gone(which, a)'
    BY <2>2, <2>3
  <2> QED BY <1>1, <2>1, <2>3, <2>4 DEF JobHolds, Erases
<1>5. \A k \in Keeper : RoundHolds(keeper[k])'
  <2> TAKE k \in Keeper
  <2>1. RoundHolds(keeper[k])
    BY DEF LifecycleInv
  <2>2. PlaceHolds(keeper[k].pc, keeper[k].copy, keeper[k].at)'
    BY <1>1, <2>1 DEF RoundHolds, PlaceHolds, SettledAs, Erases
  <2>3. CopyHolds(keeper[k])'
    BY <1>1, <2>1 DEF RoundHolds, CopyHolds
  <2>4. (keeper[k].pc = "succeeded" /\ Wipes(keeper[k].copy.kind) =>
           Gone(keeper[k].copy.kind, AdapterOf(keeper[k].at)))'
    <3> SUFFICES ASSUME keeper[k].pc = "succeeded", Wipes(keeper[k].copy.kind)
                 PROVE  Gone(keeper[k].copy.kind, AdapterOf(keeper[k].at))'
      BY <1>1
    <3>1. keeper[k].pc \in RoundSteps
      BY DEF RoundSteps
    <3>2. keeper[k].copy.result[AdapterOf(keeper[k].at)] = "running"
      BY <2>1 DEF RoundHolds, PlaceHolds
    <3>3. keeper[k].job \in Job /\ keeper[k].copy = jobs[keeper[k].job]
          /\ AdapterOf(keeper[k].at) \in Store
      BY <3>1, RoundFacts, AdapterFacts
    <3>7. PICK which, a : which = keeper[k].copy.kind /\ a = AdapterOf(keeper[k].at)
      OBVIOUS
    <3>4. Gone(which, a)
      BY <2>1, <3>7 DEF RoundHolds
    <3>5. CASE which = "retention"
      BY <1>1, <1>8, <3>4, <3>5, <3>7
    <3>6. CASE which = "delete"
      <4>1. UnderWay
        BY <3>2, <3>3, <3>6, <3>7 DEF UnderWay
      <4>2. Gone(which, a)'
        BY <1>3, <3>4, <4>1, GoneStays
      <4> QED BY <1>1, <3>7, <4>2
    <3> QED BY <3>5, <3>6, <3>7 DEF Wipes
  <2> QED BY <2>2, <2>3, <2>4 DEF RoundHolds
<1>6. OneRound'
  BY <1>1 DEF LifecycleInv, OneRound, WorksOn
<1>7. IndexLast'
  <2> SUFFICES ASSUME NEW m \in Item \ late', m \notin Indexed', NEW e \in stored'[m] \cap External
               PROVE  e = "langfuse" /\ m \in expired'.sessions \ expired'.traces
    BY DEF IndexLast
  <2>1. m # i
    BY <1>1, <1>2, AdapterFacts DEF Indexed
  <2>2. m \in Item \ late /\ stored'[m] = stored[m] /\ m \notin Indexed
    BY <1>1, <1>2, <2>1 DEF Indexed
  <2>3. e = "langfuse" /\ m \in expired.sessions \ expired.traces
    BY <2>2 DEF LifecycleInv, IndexLast
  <2> QED BY <1>1, <2>1, <2>3
<1>9. NoRetention' => expired'.sessions = {}
  BY <1>1 DEF NoRetention, LifecycleInv
<1> QED BY <1>1, <1>2, <1>4, <1>5, <1>6, <1>7, <1>9 DEF LifecycleInv, LifecycleTypes

LEMMA LifecycleStepInv ==
  ASSUME LifecycleInv, [LifecycleNext]_lifecycleVars
  PROVE  LifecycleInv'
<1>1. CASE \E o \in Officer : CheckHold(o) \/ AddJob(o)
  BY <1>1, CheckHoldInv, AddJobInv
<1>2. CASE \E j \in Job : RetryJob(j)
  BY <1>2, RetryJobInv
<1>3. CASE CreateHold \/ ReleaseHold \/ UNCHANGED lifecycleVars
  <2>1. UNCHANGED <<jobs, keeper, officer, stored, expired, late>>
    BY <1>3 DEF CreateHold, ReleaseHold, lifecycleVars
  <2>2. officer' \in [Officer -> OfficerRow]
    BY <2>1 DEF LifecycleInv, LifecycleTypes
  <2> QED BY <2>1, <2>2, OfficerInv
<1>4. ASSUME NEW k \in Keeper, KeeperCrash(k) PROVE LifecycleInv'
  BY <1>4, RoundEnds DEF KeeperCrash, WorldUnchanged
<1>5. CASE \E k \in Keeper : \/ ListRunnable(k) \/ Claim(k) \/ RecheckHold(k) \/ StartAdapter(k)
                             \/ AdapterWorks(k) \/ AdapterFails(k) \/ RecordResult(k)
                             \/ Finish(k) \/ KeeperCrash(k)
  BY <1>4, <1>5, ListRunnableInv, ClaimInv, RecheckHoldInv, StartAdapterInv, AdapterWorksInv,
     AdapterFailsInv, RecordResultInv, FinishInv
<1>6. CASE \E i \in Item : NewItem(i)
  BY <1>6, NewItemInv
<1> QED BY <1>1, <1>2, <1>3, <1>5, <1>6 DEF LifecycleNext

LEMMA LifecyclePart ==
  /\ ServicesInit => LifecycleInit
  /\ [ServicesNext]_servicesVars => [LifecycleNext]_lifecycleVars
<1>1. ServicesInit => LifecycleInit
  BY DEF ServicesInit
<1>2. ServicesNext => LifecycleNext \/ UNCHANGED lifecycleVars
  BY DEF ServicesNext, Only
<1>3. UNCHANGED servicesVars => UNCHANGED lifecycleVars
  BY DEF servicesVars
<1> QED BY <1>1, <1>2, <1>3

(* Theorem: the database's rows outlive everything they refer to but the    *)
(* young traces that retention leaves of old Sessions, and a job that       *)
(* succeeded has been through every store, for any kinds of jobs, number of *)
(* jobs, processes that work on them, holds, cutoffs, retries, crashes and  *)
(* items made in the meantime (lifecycle/service.py).                       *)
THEOREM ErasureGoesInOrder == ServicesSpec => []ErasedInOrder
<1>1. LifecycleInv => ErasedInOrder
  BY DEF LifecycleInv, IndexLast, JobHolds, ErasedInOrder
<1> QED BY <1>1, LifecyclePart, LifecycleInitInv, LifecycleStepInv, PTL DEF ServicesSpec
-----------------------------------------------------------------------------
(* The stream of the agent runtime.                                          *)

LEMMA StreamPart ==
  /\ ServicesInit => StreamInit
  /\ [ServicesNext]_servicesVars => [StreamNext]_streamVars
<1>1. ServicesInit => StreamInit
  BY DEF ServicesInit
<1>2. ServicesNext => StreamNext \/ UNCHANGED streamVars
  BY DEF ServicesNext, Only
<1>3. UNCHANGED servicesVars => UNCHANGED streamVars
  BY DEF servicesVars
<1> QED BY <1>1, <1>2, <1>3

(* Theorem: what the model said is in the log when the stream has ended, and *)
(* every subagent whose start was told has its end there, also after an      *)
(* exception (runtime/claude_sdk.py and the orchestrator's                   *)
(* _fail_active_subagents); once, in order and inside one message each time, *)
(* unless a subagent was heard out of its turn, which only those that run in *)
(* the background are.                                                       *)
THEOREM StreamIsToldOnce == ServicesSpec => []StreamToldOnce
<1>1. ServicesInit => StreamAccount
  BY StreamPart, StreamAccountInit
<1>2. StreamAccount /\ [ServicesNext]_servicesVars => StreamAccount'
  BY StreamPart, StreamAccountStep
<1>3. StreamAccount => StreamToldOnce
  BY StreamTold DEF StreamToldOnce
<1> QED BY <1>1, <1>2, <1>3, PTL DEF ServicesSpec

-----------------------------------------------------------------------------
(* The CLI of a remote sandbox.                                              *)

LEMMA CliPart ==
  /\ ServicesInit => CliInit
  /\ [ServicesNext]_servicesVars => [CliNext]_cliVars
<1>1. ServicesInit => CliInit
  BY DEF ServicesInit
<1>2. ServicesNext => CliNext \/ UNCHANGED cliVars
  BY DEF ServicesNext, Only
<1>3. UNCHANGED servicesVars => UNCHANGED cliVars
  BY DEF servicesVars
<1> QED BY <1>1, <1>2, <1>3

(* Theorem: the worker hears what the CLI said, each message once, in order  *)
(* and whole unless a chunk ended inside a character, wherever the chunks    *)
(* end (read_messages of runtime/daytona_transport.py); a request the CLI    *)
(* waits on can be read although Daytona holds a suffix of the output back;  *)
(* a normal end means that all was heard of a CLI that exited with 0, unless *)
(* Daytona's log ended early; a CLI that runs was checked to be the pinned   *)
(* one, now or when its sandbox was prepared before; and a complete          *)
(* collection leaves the worker's mirror with the sandbox's files            *)
(* (sandbox/daytona.py, kubernetes.py and e2b.py, collect).                  *)
THEOREM CliIsHeard == ServicesSpec => []RemoteFaithful
<1>1. ServicesInit => CliInv
  BY CliPart, CliInitInv
<1>2. CliInv /\ [ServicesNext]_servicesVars => CliInv'
  BY CliPart, CliStepInv
<1>3. CliInv => RemoteFaithful
  BY CliInvImplies DEF RemoteFaithful
<1> QED BY <1>1, <1>2, <1>3, PTL DEF ServicesSpec

-----------------------------------------------------------------------------
(* What a thread shows.                                                      *)

LEMMA HistoryPart ==
  /\ ServicesInit => HistoryInit
  /\ [ServicesNext]_servicesVars => [HistoryNext]_historyVars
<1>1. ServicesInit => HistoryInit
  BY DEF ServicesInit
<1>2. ServicesNext => HistoryNext \/ UNCHANGED historyVars
  BY DEF ServicesNext, Only
<1>3. UNCHANGED servicesVars => UNCHANGED historyVars
  BY DEF servicesVars
<1> QED BY <1>1, <1>2, <1>3

(* Theorem: a thread that is short enough to be listed whole shows the branch *)
(* that the client has on its screen, a prompt for a prompt, each with a Run  *)
(* of its own, in their order, and with the Run that answered it when no      *)
(* other message had its text, whatever was edited, regenerated or cancelled  *)
(* before, as long as no message of the branch shares its Run                 *)
(* (_visible_thread_runs of agui/routes.py, which knows no branches and finds *)
(* the Runs again by their prompts).                                         *)
THEOREM ThreadShowsBranch == ServicesSpec => []HistoryIsBranch
<1>1. ServicesInit => HistInv
  BY HistoryPart, HistInitInv
<1>2. HistInv /\ [ServicesNext]_servicesVars => HistInv'
  BY HistoryPart, HistStepInv
<1> QED BY <1>1, <1>2, HistInvImplies, PTL DEF ServicesSpec
===============================================================================
