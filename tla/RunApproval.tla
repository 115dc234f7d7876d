----------------------------- MODULE RunApproval -----------------------------
(***************************************************************************)
(* Tool approvals (application/approvals.py) around one Run.  A tool call   *)
(* that policy marks ASK adds a pending approval and pauses the Run.  With  *)
(* inline, the SDK's tool gate (runtime/sdk_tool_gate.py) asks and its hook *)
(* waits inside the running execution; otherwise the orchestrator asks, the *)
(* execution ends, and the decision must hand the Run to a worker again.    *)
(* Decisions come from the API, expiry from whoever notices it first.       *)
(***************************************************************************)
EXTENDS RunExecution

CONSTANTS Gates,     \* whether the runtimes to start from have a tool gate
          Call,      \* tool calls that need an approval
          Decider    \* API requests that decide an approval

ASSUME GatesAssumption == Gates \subseteq BOOLEAN

VARIABLES approval,  \* the status of each call's approval, "none" before it is added
          due,       \* the approval's TTL has passed
          host,      \* the slot whose execution makes the call
          inline,    \* the runtime has a tool gate
          acts,      \* the hook of each call, each decider, and the sweeper of expired
          allowed    \* calls with a tool.allowed event: the tool runs

approvalVars == <<approval, due, host, inline, acts, allowed>>
allVars == <<execVars, approvalVars>>

Sweeper == "sweeper"
ASSUME ActorsAssumption == Call \cap Decider = {} /\ Sweeper \notin Call \cup Decider
Actor == Call \cup Decider \cup {Sweeper}
NoCall == "none"
IdleActor == [pc |-> "idle", call |-> NoCall, want |-> "none", snap |-> NoSnap]

ApprovalInit ==
  /\ ExecInit
  /\ approval = [c \in Call |-> "none"]
  /\ due = [c \in Call |-> FALSE]
  /\ host \in [Call -> Slot]
  /\ inline \in Gates
  /\ acts = [a \in Actor |-> IdleActor]
  /\ allowed = {}

Is(a, pc) == acts[a].pc = pc
Act(a, pc, want, snap) ==
  acts' = [acts EXCEPT ![a] = [pc |-> pc, call |-> @.call, want |-> want, snap |-> snap]]
(* The sweeper starts over; a hook or a request has done its work.          *)
Over(a) == acts' = [acts EXCEPT ![a] =
                      IF a = Sweeper THEN IdleActor ELSE [IdleActor EXCEPT !.pc = "done"]]

RunUnchanged == UNCHANGED execVars
OnlyRow == UNCHANGED <<published, children, quotaHeld, queueVars, slots, cancels, reaper,
                       creating, owner, boundVars>>

(* compare_and_set(PENDING, ...) on the approval                            *)
SetApproval(c, status) ==
  approval[c] = "pending" /\ approval' = [approval EXCEPT ![c] = status]

-----------------------------------------------------------------------------
(* ApprovalService.request.  The call's waiter is registered before the     *)
(* approval is added, and stays registered if the pause then fails.         *)
Asks(c, d) ==
  /\ slots[d].pc = "handle" \/ (inline /\ slots[d].pc = "stream")
  /\ acts[c].pc \in IF inline THEN {"idle"} ELSE {"idle", "done"}

Request(c, d) ==
  /\ Asks(c, d)
  /\ approval[c] = "none"
  /\ host' = [host EXCEPT ![c] = d]
  /\ acts' = [acts EXCEPT ![c] =
       IF row.status = "running"
         THEN [pc |-> "add", call |-> c, want |-> "none", snap |-> row]
         ELSE [IdleActor EXCEPT !.pc = "done"]]
  /\ IF inline \/ row.status = "running" THEN UNCHANGED slots ELSE Go(d, "unexpected")
  /\ UNCHANGED <<dataVars, queueVars, cancels, reaper, creating, owner, boundVars,
                 approval, due, inline, allowed>>

(* A later execution repeats a call the orchestrator has asked about: only  *)
(* a pending approval stops it.                                             *)
RequestAgain(c, d) ==
  /\ ~inline /\ Asks(c, d)
  /\ approval[c] # "none"
  /\ IF approval[c] = "pending"
       THEN Return(d, row.status) /\ UNCHANGED allowed
       ELSE Go(d, "stream") /\ allowed' = allowed \cup {c}
  /\ UNCHANGED <<dataVars, queueVars, cancels, reaper, creating, owner, boundVars,
                 approval, due, host, inline, acts>>

RequestAdd(c) ==
  /\ Is(c, "add")
  /\ approval' = [approval EXCEPT ![c] = "pending"]
  /\ Act(c, "pause", "none", acts[c].snap)
  /\ RunUnchanged /\ UNCHANGED <<due, host, inline, allowed>>

RequestPause(c) ==
  LET snap == acts[c].snap
  IN  /\ Is(c, "pause")
      /\ \/ /\ Matches(row, snap)
            /\ row' = Bumped(snap, "waiting_approval")
            /\ Act(c, IF inline THEN "wait" ELSE "paused", "none", NoSnap)
            /\ UNCHANGED slots
         \/ /\ ~Matches(row, snap) /\ inline
            /\ Act(c, "leaked", "none", NoSnap)
            /\ UNCHANGED <<row, slots>>
         \/ /\ ~Matches(row, snap) /\ ~inline
            /\ Over(c) /\ Go(host[c], "unexpected") /\ UNCHANGED row
      /\ UNCHANGED <<published, children, quotaHeld, queueVars, cancels, reaper, creating,
                     owner, boundVars, approval, due, host, inline, allowed>>

(* The orchestrator reads the Run once more and returns it.                 *)
RequestReturn(c) ==
  /\ Is(c, "paused")
  /\ Over(c) /\ Return(host[c], row.status)
  /\ UNCHANGED <<dataVars, queueVars, cancels, reaper, creating, owner, boundVars,
                 approval, due, host, inline, allowed>>

-----------------------------------------------------------------------------
(* wait_for_decision in the tool gate's hook.                               *)
HookPoll(c) ==
  /\ Is(c, "wait")
  /\ \/ /\ approval[c] = "approved"
        /\ Act(c, "resume", "approved", NoSnap)
     \/ /\ approval[c] \in {"rejected", "expired", "cancelled"}
        /\ Over(c)
     \/ /\ approval[c] = "pending" /\ row.status \in {"cancelling", "cancelled"}
        /\ Act(c, "cancel", "none", NoSnap)
     \/ /\ approval[c] = "pending" /\ row.status \notin {"cancelling", "cancelled"}
        /\ due[c]
        /\ Act(c, "expire", "none", NoSnap)
  /\ RunUnchanged /\ UNCHANGED <<approval, due, host, inline, allowed>>

(* Mutant of Verdict: whatever won, the hook goes on to the tool.           *)
VerdictAllows(a, status) ==
  IF a \in Call THEN Act(a, "allow", "none", NoSnap) ELSE Over(a)

(* A compare-and-set that loses returns the decision that won.              *)
Verdict(a, status) ==
  IF a \in Call /\ status = "approved" THEN Act(a, "allow", "none", NoSnap) ELSE Over(a)

HookCancel(c) ==
  /\ Is(c, "cancel")
  /\ \/ SetApproval(c, "cancelled") /\ Over(c)
     \/ approval[c] # "pending" /\ Verdict(c, approval[c]) /\ UNCHANGED approval
  /\ RunUnchanged /\ UNCHANGED <<due, host, inline, allowed>>

(* The execution closes its stream: a hook that waits closes its approval,  *)
(* one that has not begun to wait just ends.                                *)
Streaming(c) == slots[host[c]].pc \in {"stream", "handle"}
Waiting == {"wait", "cancel", "expire", "expired", "resume", "resumeMove"}

HookInterrupt(c) ==
  /\ inline /\ ~Streaming(c)
  /\ \/ Is(c, "add") /\ Over(c)
     \/ Is(c, "allow") /\ Over(c)
     \/ Is(c, "pause") /\ Act(c, "leaked", "none", NoSnap)
     \/ acts[c].pc \in Waiting /\ Act(c, "close", "none", NoSnap)
  /\ RunUnchanged /\ UNCHANGED <<approval, due, host, inline, allowed>>

HookClose(c) ==
  /\ Is(c, "close")
  /\ SetApproval(c, "cancelled") \/ (approval[c] # "pending" /\ UNCHANGED approval)
  /\ Over(c)
  /\ RunUnchanged /\ UNCHANGED <<due, host, inline, allowed>>

HookAllow(c) ==
  /\ Is(c, "allow")
  /\ allowed' = allowed \cup {c}
  /\ Over(c)
  /\ RunUnchanged /\ UNCHANGED <<approval, due, host, inline>>

-----------------------------------------------------------------------------
(* _expire, by a hook, by a late decision or by the sweep of reap_expired.  *)
TtlPasses(c) ==
  /\ approval[c] = "pending" /\ ~due[c]
  /\ due' = [due EXCEPT ![c] = TRUE]
  /\ RunUnchanged /\ UNCHANGED <<approval, host, inline, acts, allowed>>

(* Mutant of SweepRead: approvals whose Run is not paused are skipped.      *)
SweepReadPaused(c) ==
  /\ Is(Sweeper, "idle") /\ row.status = "waiting_approval"
  /\ approval[c] = "pending" /\ due[c]
  /\ acts' = [acts EXCEPT ![Sweeper] = [IdleActor EXCEPT !.pc = "expire", !.call = c]]
  /\ RunUnchanged /\ UNCHANGED <<approval, due, host, inline, allowed>>

SweepRead(c) ==
  /\ Is(Sweeper, "idle")
  /\ approval[c] = "pending" /\ due[c]
  /\ acts' = [acts EXCEPT ![Sweeper] = [IdleActor EXCEPT !.pc = "expire", !.call = c]]
  /\ RunUnchanged /\ UNCHANGED <<approval, due, host, inline, allowed>>

Expire(a) ==
  LET c == acts[a].call
  IN  /\ Is(a, "expire")
      /\ \/ SetApproval(c, "expired") /\ Act(a, "expired", "none", NoSnap)
         \/ approval[c] # "pending" /\ Verdict(a, approval[c]) /\ UNCHANGED approval
      /\ RunUnchanged /\ UNCHANGED <<due, host, inline, allowed>>

(* A waiter of this process lets its Run go on; anyone else rejects it.     *)
Registered(c) == inline /\ acts[c].pc \in Waiting \cup {"pause", "leaked"}
HasLocalWaiter(a) ==
  IF a \in Call THEN {TRUE}
  ELSE IF a = Sweeper THEN {FALSE, Registered(acts[a].call)}
  ELSE {FALSE}

Expired(a) ==
  /\ Is(a, "expired")
  /\ \E local \in HasLocalWaiter(a) :
       \/ local /\ Act(a, "resume", "expired", NoSnap)
       \/ /\ ~local /\ row.status = "waiting_approval"
          /\ Act(a, "move", "rejected", row)
       \/ /\ ~local /\ row.status # "waiting_approval"
          /\ Over(a)
  /\ RunUnchanged /\ UNCHANGED <<approval, due, host, inline, allowed>>

(* _ensure_inline_run_resumed                                               *)
Resumed(a) ==
  IF a \in Call /\ acts[a].want = "approved"
    THEN Act(a, "allow", "none", NoSnap) ELSE Over(a)

ResumeRead(a) ==
  /\ Is(a, "resume")
  /\ IF row.status = "waiting_approval"
       THEN Act(a, "resumeMove", acts[a].want, row)
       ELSE Resumed(a)
  /\ RunUnchanged /\ UNCHANGED <<approval, due, host, inline, allowed>>

ResumeMove(a) ==
  LET snap == acts[a].snap
  IN  /\ Is(a, "resumeMove")
      /\ \/ /\ Matches(row, snap)
            /\ row' = Bumped(snap, "running")
            /\ Resumed(a)
         \/ /\ ~Matches(row, snap)
            /\ IF row.status = "waiting_approval" THEN Over(a) ELSE Resumed(a)
            /\ UNCHANGED row
      /\ OnlyRow /\ UNCHANGED <<approval, due, host, inline, allowed>>

-----------------------------------------------------------------------------
(* ApprovalService.decide                                                   *)
DecideRead(x, c, want) ==
  /\ Is(x, "idle")
  /\ approval[c] # "none"
  /\ LET go(pc) == acts' = [acts EXCEPT ![x] = [pc |-> pc, call |-> c, want |-> want,
                                                snap |-> NoSnap]]
     IN  \/ /\ approval[c] = want
            /\ IF want = "approved"
                 THEN go(IF inline THEN "resume" ELSE "enqueue")
                 ELSE Over(x)
         \/ approval[c] \notin {want, "pending"} /\ Over(x)
         \/ approval[c] = "pending" /\ due[c] /\ go("expire")
         \/ approval[c] = "pending" /\ ~due[c] /\ go("set")
  /\ RunUnchanged /\ UNCHANGED <<approval, due, host, inline, allowed>>

DecideSet(x) ==
  LET c == acts[x].call
  IN  /\ Is(x, "set")
      /\ \/ SetApproval(c, acts[x].want) /\ Act(x, "run", acts[x].want, NoSnap)
         \/ approval[c] # "pending" /\ Over(x) /\ UNCHANGED approval
      /\ RunUnchanged /\ UNCHANGED <<due, host, inline, allowed>>

DecideRun(x) ==
  /\ Is(x, "run")
  /\ Act(x, "move", acts[x].want, row)
  /\ RunUnchanged /\ UNCHANGED <<approval, due, host, inline, allowed>>

(* _move(RUNNING) or _move(REJECTED), of a decision or of an expiry.        *)
MoveRun(a) ==
  LET snap == acts[a].snap
      target == IF acts[a].want = "approved" THEN "running" ELSE "rejected"
  IN  /\ Is(a, "move")
      /\ \/ /\ CanMove(snap.status, target) /\ Matches(row, snap)
            /\ row' = Bumped(snap, target)
            /\ \/ target = "rejected" /\ Act(a, "emit", "none", NoSnap)
               \/ target = "running" /\ inline /\ Over(a)
               \/ target = "running" /\ ~inline /\ Act(a, "enqueue", "none", NoSnap)
         \/ /\ ~CanMove(snap.status, target) \/ ~Matches(row, snap)
            /\ Over(a) /\ UNCHANGED row
      /\ OnlyRow /\ UNCHANGED <<approval, due, host, inline, allowed>>

(* Mutant of EmitRejected: run.rejected is never appended.                  *)
EmitRejectedForgets(a) == Is(a, "emit") /\ Over(a) /\ RunUnchanged
                          /\ UNCHANGED <<approval, due, host, inline, allowed>>

EmitRejected(a) ==
  /\ Is(a, "emit")
  /\ Publish("rejected", "approval")
  /\ Over(a)
  /\ UNCHANGED <<row, children, quotaHeld, queueVars, slots, cancels, reaper, creating,
                 owner, boundVars, approval, due, host, inline, allowed>>

EnqueueResumed(x) ==
  /\ Is(x, "enqueue")
  /\ Q!Put(TheTask)
  /\ Over(x)
  /\ UNCHANGED <<dataVars, slots, cancels, reaper, creating, owner, boundVars, approval,
                 due, host, inline, allowed>>

(* A request or the sweep dies between two writes.                          *)
ActorCrash(a) ==
  /\ a \notin Call /\ acts[a].pc \notin {"idle", "done"}
  /\ Fault
  /\ Over(a)
  /\ UNCHANGED <<dataVars, queueVars, slots, cancels, reaper, creating, owner, deliveries,
                 approval, due, host, inline, allowed>>

-----------------------------------------------------------------------------
HookStep(c) ==
  \/ RequestAdd(c) \/ RequestPause(c) \/ RequestReturn(c) \/ HookPoll(c)
  \/ HookCancel(c) \/ HookInterrupt(c) \/ HookClose(c) \/ HookAllow(c)
ActorStep(a) ==
  \/ Expire(a) \/ Expired(a) \/ ResumeRead(a) \/ ResumeMove(a)
  \/ MoveRun(a) \/ EmitRejected(a)
DeciderStep(x) == DecideSet(x) \/ DecideRun(x) \/ EnqueueResumed(x)

(* A stream that was closed has ended its hooks before _execute goes on;    *)
(* an exception in the loop's own body leaves them to be closed later.  The *)
(* orchestrator's own request is part of its loop.                          *)
Hooks(d) == {c \in Call : host[c] = d /\ acts[c].pc \notin {"idle", "done", "leaked"}}
MayStep(d) ==
  \/ Hooks(d) = {}
  \/ /\ inline
     /\ \/ slots[d].caught
        \/ slots[d].pc \notin {"settle", "timeout", "result", "unexpected", "failChildren"}

CrashWithHooks(d) ==
  /\ WorkerCrash(d)
  /\ acts' = [a \in Actor |-> IF a \in Call /\ host[a] = d /\ ~Is(a, "idle")
                                THEN [IdleActor EXCEPT !.pc = "done"] ELSE acts[a]]
  /\ UNCHANGED <<approval, due, host, inline, allowed>>

Alone(A) == A /\ UNCHANGED approvalVars

ApprovalNext ==
  \/ Alone(ControlPlane)
  \/ \E d \in Slot : Alone(Deliver(d) \/ SlotFault(d) \/ (MayStep(d) /\ SlotStep(d)))
  \/ \E d \in Slot : CrashWithHooks(d)
  \/ \E c \in Call, d \in Slot : Request(c, d) \/ RequestAgain(c, d)
  \/ \E c \in Call : HookStep(c) \/ TtlPasses(c) \/ SweepRead(c)
  \/ \E a \in Actor : ActorStep(a) \/ ActorCrash(a)
  \/ \E x \in Decider :
       \/ DeciderStep(x)
       \/ \E c \in Call, want \in {"approved", "rejected"} : DecideRead(x, c, want)

ApprovalSafety == ApprovalInit /\ [][ApprovalNext]_allVars

(* A live handler goes on and the runtime's stream ends (the manifest's     *)
(* time limit ends it); a visible task, or one whose lease has lapsed, is   *)
(* taken; hooks poll, requests that started go on, time passes and the      *)
(* sweep is periodic.  Nothing is asked of the reaper of stuck Runs.        *)
ApprovalFairness ==
  /\ WF_allVars(Alone(CreateEnqueue))
  /\ \A d \in Slot : /\ WF_allVars(Alone(Deliver(d)))
                      /\ WF_allVars(Alone(MayStep(d) /\ SlotStep(d)))
                      /\ SF_allVars(Alone(MayStep(d) /\ StreamEnd(d)))
  /\ \A k \in Canceller : WF_allVars(Alone(CancelStep(k)))
  /\ \A c \in Call : WF_allVars(HookStep(c)) /\ WF_allVars(TtlPasses(c))
                      /\ WF_allVars(SweepRead(c))
  /\ \A a \in Actor : WF_allVars(ActorStep(a))
  /\ \A x \in Decider : WF_allVars(DeciderStep(x))

ApprovalSpec == ApprovalSafety /\ ApprovalFairness

(* The reaper's maintenance loop never stops.  Hand-off approvals need it.  *)
ReapedSpec == ApprovalSpec /\ WF_allVars(~inline /\ Alone(ReapStep))

-----------------------------------------------------------------------------
(* The types of the approvals and of their actors.                          *)
ApprovalTypeOK ==
  /\ ExecTypeOK
  /\ approval \in [Call -> {"none", "pending", "approved", "rejected", "expired", "cancelled"}]
  /\ due \in [Call -> BOOLEAN]
  /\ host \in [Call -> Slot] /\ inline \in BOOLEAN
  /\ acts \in [Actor -> [pc : Waiting \cup {"idle", "done", "leaked", "add", "pause", "paused",
                                            "allow", "close", "set", "run", "move", "emit",
                                            "enqueue"},
                         call : Call \cup {NoCall},
                         want : {"none", "approved", "rejected", "expired"},
                         snap : RowType]]
  /\ allowed \subseteq Call

(* docs/local-development.md: after a rejection or a timeout the tool does  *)
(* not run.  A tool is allowed only with an approval, whatever races with   *)
(* the expiry, the cancellation and the decision.                           *)
AllowedOnlyApproved == \A c \in allowed : approval[c] = "approved"

(* A decision is final: no expiry, cancellation or second decision changes  *)
(* an approval that is no longer pending.                                   *)
DecisionIsFinal ==
  [][\A c \in Call : approval[c] \notin {"none", "pending"} => approval'[c] = approval[c]]_allVars

AllOver == Quiet /\ \A a \in Actor : acts[a].pc \in {"idle", "done", "leaked"}

(* Without faults, an inline approval never costs the Run its end: when     *)
(* everybody is done, the row is terminal with one terminal event and no    *)
(* quota, also if the Run was rejected or cancelled, or its approval        *)
(* expired, while a hook waited.                                            *)
ApprovalSettled ==
  AllOver /\ faults = 0 =>
    row.status \in Terminal /\ Len(published) = 1 /\ ~quotaHeld

(* No approval stays pending for ever, whether its hook lives, was          *)
(* interrupted or died with its process.                                    *)
ApprovalsClose == \A c \in Call : approval[c] = "pending" ~> approval[c] # "pending"

(* application/approvals.py: "Non-inline approvals still need a fresh       *)
(* worker handoff."  When everybody is done and nothing failed, a Run that  *)
(* an approval resumed is not left running without a task in the queue.     *)
ResumedRunHasWorker == AllOver /\ faults = 0 => row.status # "running"
=============================================================================
