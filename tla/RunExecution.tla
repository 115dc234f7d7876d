---------------------------- MODULE RunExecution ----------------------------
(***************************************************************************)
(* One Run from its creation to its terminal state: the worker slots that   *)
(* execute it (worker/orchestrator.py under worker/main.py), the API that   *)
(* cancels it (application/runs.py) and the reaper of stuck Runs            *)
(* (reliability/controller.py).  All of them change the Run row by compare- *)
(* and-set on (status, fencing_token), reading it in one step and writing   *)
(* it in a later one; the terminal event and the release of the quota are   *)
(* steps of their own, so a process can fail between any two of them.       *)
(*                                                                         *)
(* A slot is a worker process with one handler.  The run's task is in a     *)
(* queue of leases (LeaseQueue, implemented by RunQueue).                   *)
(***************************************************************************)
EXTENDS Naturals, Sequences, FiniteSets

CONSTANTS Slot,           \* worker processes, one handler each
          Canceller,      \* API requests that cancel the Run
          MaxDeliveries,  \* bound: how often the task is delivered
          MaxFaults       \* bound: crashes, failed writes and failed heartbeats

ASSUME BoundsAssumption == MaxDeliveries \in Nat /\ MaxFaults \in Nat

VARIABLES row,         \* the Run row: status and fencing token
          published,   \* the terminal run.* events of the durable event log
          children,    \* executions whose subagent has started and has no terminal event
          quotaHeld,   \* the Run's quota reservations are active
          place,       \* the task in the queue
          holder,      \* ... and the slot of its latest lease
          slots,       \* the handler of every slot
          cancels,     \* the cancel request of every caller
          reaper,      \* the stuck-run reaper
          creating,    \* RunService.create has not enqueued the task yet
          owner,       \* history: the slot that last claimed or reclaimed the Run
          deliveries, faults

dataVars == <<row, published, children, quotaHeld>>
queueVars == <<place, holder>>
boundVars == <<deliveries, faults>>
execVars == <<row, published, children, quotaHeld, place, holder, slots, cancels,
              reaper, creating, owner, deliveries, faults>>

-----------------------------------------------------------------------------
(* The Run state machine (core/): the statuses, the terminal ones, the      *)
(* allowed transitions, and the compare-and-set on (status, fencing_token). *)

Active   == {"queued", "provisioning", "running", "waiting_approval", "cancelling"}
Terminal == {"cancelled", "succeeded", "failed", "timed_out", "rejected"}
Status   == Active \cup Terminal

(***************************************************************************)
(* transition(current, target) raises unless the pair is in this table.    *)
(***************************************************************************)
AllowedTransitions ==
  [queued           |-> {"provisioning", "cancelling", "cancelled", "timed_out"},
   provisioning     |-> {"running", "cancelling", "failed", "timed_out"},
   running          |-> {"waiting_approval", "cancelling", "succeeded", "failed", "timed_out"},
   waiting_approval |-> {"running", "cancelling", "rejected", "failed", "timed_out"},
   cancelling       |-> {"cancelled", "failed"}]

CanMove(current, target) ==
  /\ current \in Active
  /\ target \in AllowedTransitions[current]

(***************************************************************************)
(* compare_and_set: the row changes only when it still has the status and  *)
(* the fencing token the writer read; the token then grows by one.         *)
(***************************************************************************)
Matches(current, snap) == current.status = snap.status /\ current.token = snap.token
Bumped(snap, target) == [status |-> target, token |-> snap.token + 1]

-----------------------------------------------------------------------------
TheTask == "run"
Q == INSTANCE LeaseQueue WITH Task <- {TheTask}, Proc <- Slot

NoSnap == [status |-> "queued", token |-> 0]

(* exec numbers the execution: each delivery of the task starts a new one.  *)
FreshSlot(pc, exec) == [pc |-> pc, exec |-> exec, snap |-> NoSnap, target |-> "none",
                        caught |-> FALSE, resume |-> FALSE]
IdleSlot == FreshSlot("idle", 0)
IdleCancel == [pc |-> "idle", snap |-> NoSnap, from |-> "none"]
IdleReaper == [pc |-> "idle", snap |-> NoSnap]

(* RunService.create has admitted the Run to its quotas and added the row;  *)
(* the task is not in the queue yet.                                        *)
ExecInit ==
  /\ row = [status |-> "queued", token |-> 0]
  /\ published = <<>>
  /\ children = {}
  /\ quotaHeld = TRUE
  /\ Q!LeaseInit
  /\ slots = [d \in Slot |-> IdleSlot]
  /\ cancels = [k \in Canceller |-> IdleCancel]
  /\ reaper = IdleReaper
  /\ creating = TRUE
  /\ owner \in Slot
  /\ deliveries = 0
  /\ faults = 0

CreateEnqueue ==
  /\ creating
  /\ creating' = FALSE
  /\ Q!Put(TheTask)
  /\ UNCHANGED <<dataVars, slots, cancels, reaper, owner, boundVars>>

Fault == faults < MaxFaults /\ faults' = faults + 1

(* The API process dies before it enqueues the task.                        *)
CreateCrash ==
  /\ creating
  /\ creating' = FALSE
  /\ Fault
  /\ UNCHANGED <<dataVars, queueVars, slots, cancels, reaper, owner, deliveries>>

-----------------------------------------------------------------------------
(* A slot's handler.  Go moves slot d to a program counter; the fields it   *)
(* does not name return to their defaults, which also keeps the state small.*)
At(d, pc) == slots[d].pc = pc

GoWith(d, pc, snap, target, caught, resume) ==
  slots' = [slots EXCEPT ![d] = [pc |-> pc, exec |-> @.exec, snap |-> snap,
                                 target |-> target, caught |-> caught,
                                 resume |-> resume]]

Go(d, pc) == GoWith(d, pc, NoSnap, "none", FALSE, FALSE)
Rest(d) == slots' = [slots EXCEPT ![d] = IdleSlot]

(* a delivery starts a new execution                                        *)
Delivery(d) ==
  /\ At(d, "idle")
  /\ deliveries < MaxDeliveries
  /\ deliveries' = deliveries + 1
  /\ slots' = [slots EXCEPT ![d] = FreshSlot("start", deliveries')]

(* return from _execute with a Run in this status                           *)
Return(d, status) == GoWith(d, "leave", NoSnap, status, FALSE, FALSE)

(* an exception that no handler of _execute catches                         *)
Raise(d) == Go(d, "retry")

SlotOnly == UNCHANGED <<dataVars, queueVars, cancels, reaper, creating, owner, boundVars>>

(* queue.dequeue of a visible task, or of one whose holder no longer renews *)
(* the lease because it crashed or finished.                                *)
Deliver(d) ==
  /\ Delivery(d)
  /\ \E lapsed \in SUBSET {TheTask} :
       /\ lapsed # {} => At(holder[TheTask], "idle")
       /\ Q!Take(d, TheTask, lapsed)
  /\ UNCHANGED <<dataVars, cancels, reaper, creating, owner, faults>>

(* The heartbeat of a live holder fails, which is only logged, and the task *)
(* is delivered a second time while the first handler goes on.              *)
DeliverTwice(d) ==
  /\ Delivery(d)
  /\ ~At(holder[TheTask], "idle")
  /\ Fault
  /\ Q!Take(d, TheTask, {TheTask})
  /\ UNCHANGED <<dataVars, cancels, reaper, creating, owner>>

(* The first read of _execute decides what this delivery is for.            *)
Start(d) ==
  /\ At(d, "start")
  /\ \/ /\ row.status \in Terminal \cup {"waiting_approval"}
        /\ Return(d, row.status)
     \/ /\ row.status = "cancelling"
        /\ GoWith(d, "finish", row, "cancelled", TRUE, FALSE)
     \/ /\ row.status \in {"queued", "provisioning", "running"}
        /\ GoWith(d, "claim", row, "none", FALSE, row.status = "running")
  /\ SlotOnly

(* _move(PROVISIONING) of a queued Run, _reclaim of any other.              *)
Claim(d) ==
  LET snap == slots[d].snap
      target == IF snap.status = "queued" THEN "provisioning" ELSE snap.status
  IN  /\ At(d, "claim")
      /\ IF Matches(row, snap)
           THEN /\ row' = Bumped(snap, target)
                /\ owner' = d
                /\ GoWith(d, "provision", row', "none", FALSE, slots[d].resume)
           ELSE Go(d, "conflict") /\ UNCHANGED <<row, owner>>
      /\ UNCHANGED <<published, children, quotaHeld, queueVars, cancels, reaper,
                     creating, boundVars>>

(* Quota check, provisioning, staging and preparing: they succeed, raise,   *)
(* or are abandoned when the poll of the row sees a cancellation.           *)
Provision(d) ==
  /\ At(d, "provision")
  /\ \/ GoWith(d, "begin", slots[d].snap, "none", FALSE, slots[d].resume)
     \/ Go(d, "unexpected")
     \/ row.status \in {"cancelling", "cancelled"} /\ Go(d, "timeout")
  /\ SlotOnly

Begin(d) ==
  LET snap == slots[d].snap
  IN  /\ At(d, "begin")
      /\ \/ /\ slots[d].resume
            /\ Go(d, "stream") /\ UNCHANGED row
         \/ /\ ~slots[d].resume /\ Matches(row, snap)
            /\ row' = Bumped(snap, "running")
            /\ Go(d, "stream")
         \/ /\ ~slots[d].resume /\ ~Matches(row, snap)
            /\ Go(d, "conflict") /\ UNCHANGED row
      /\ UNCHANGED <<published, children, quotaHeld, queueVars, cancels, reaper,
                     creating, owner, boundVars>>

(* One event of the runtime: read the row again, and adopt whatever it has. *)
StreamEvent(d) ==
  /\ At(d, "stream")
  /\ \/ /\ row.status = "cancelling"
        /\ children' \in {children, children \cup {slots[d].exec}}
        /\ GoWith(d, "failChildren", row, "cancelled", FALSE, FALSE)
     \/ /\ row.status \in Terminal
        /\ Return(d, row.status) /\ UNCHANGED children
     \/ /\ row.status \in Active \ {"cancelling"}
        /\ Go(d, "handle") /\ UNCHANGED children
  /\ UNCHANGED <<row, published, quotaHeld, queueVars, cancels, reaper, creating, owner,
                 boundVars>>

(* ... and append what it says: a subagent starts or ends, or other news.   *)
HandleEvent(d) ==
  /\ At(d, "handle")
  /\ children' \in {children, children \cup {slots[d].exec}, children \ {slots[d].exec}}
  /\ Go(d, "stream")
  /\ UNCHANGED <<row, published, quotaHeld, queueVars, cancels, reaper, creating, owner,
                 boundVars>>

(* The body of the loop raises, for instance because an append failed: the  *)
(* stream is not closed yet (marked by `caught`) when the handler runs.     *)
HandleFails(d) ==
  /\ At(d, "handle")
  /\ Fault
  /\ GoWith(d, "unexpected", NoSnap, "none", TRUE, FALSE)
  /\ UNCHANGED <<dataVars, queueVars, cancels, reaper, creating, owner, deliveries>>

(* The stream ends: normally (then quota, artifacts and the archive may     *)
(* still raise), by the runtime limit or the cancellation poll, by an error *)
(* result of the provider, or by any other exception.  The SDK runtime ends *)
(* its unfinished subagents before it reports a result of either kind.      *)
StreamEnd(d) ==
  /\ At(d, "stream")
  /\ \/ \E pc \in {"timeout", "unexpected"} : Go(d, pc)
     \/ /\ slots[d].exec \notin children
        /\ \E pc \in {"settle", "result"} : Go(d, pc)
  /\ SlotOnly

-----------------------------------------------------------------------------
(* The ends of _execute: each reads the row again and decides.              *)
SettleFrom(d, target, caught, failChildren) ==
  /\ \/ /\ row.status = "cancelling"
        /\ GoWith(d, IF failChildren THEN "failChildren" ELSE "finish",
                  row, "cancelled", caught, FALSE)
     \/ /\ row.status \in Terminal
        /\ Return(d, row.status)
     \/ /\ row.status \in Active \ {"cancelling"}
        /\ GoWith(d, IF failChildren THEN "failChildren" ELSE "finish",
                  row, target, caught, FALSE)
  /\ SlotOnly

Settle(d) == At(d, "settle") /\ SettleFrom(d, "succeeded", FALSE, FALSE)

(* except RuntimeExecutionTimeoutError                                      *)
OnTimeout(d) == At(d, "timeout") /\ SettleFrom(d, "timed_out", TRUE, TRUE)

(* except RuntimeResultError: the subagents are not failed here.            *)
OnResultError(d) == At(d, "result") /\ SettleFrom(d, "failed", TRUE, FALSE)

(* except Exception: _handle_unexpected_error.  A lost compare-and-set of   *)
(* this worker ("conflict") means another one owns the Run, unless the Run  *)
(* is being cancelled.                                                      *)
OnUnexpected(d) ==
  /\ At(d, "unexpected") \/ At(d, "conflict")
  /\ \/ /\ row.status = "cancelling"
        /\ GoWith(d, "finish", row, "cancelled", TRUE, FALSE)
     \/ /\ row.status \in Terminal \/ (At(d, "conflict") /\ row.status # "cancelling")
        /\ Return(d, row.status)
     \/ /\ At(d, "unexpected") /\ row.status \in Active \ {"cancelling"}
        /\ GoWith(d, "failChildren", row, "failed", TRUE, FALSE)
  /\ SlotOnly

(* _fail_active_subagents: a terminal event for every started child.        *)
FailChildren(d) ==
  /\ At(d, "failChildren")
  /\ children' = {}
  /\ slots' = [slots EXCEPT ![d].pc = "finish"]
  /\ UNCHANGED <<row, published, quotaHeld, queueVars, cancels, reaper, creating, owner,
                 boundVars>>

(* _move(target) to a terminal state.  Inside the body of _execute a failed *)
(* one becomes an exception it catches; inside a handler it escapes.        *)
Finish(d) ==
  LET s == slots[d]
  IN  /\ At(d, "finish")
      /\ \/ /\ CanMove(s.snap.status, s.target) /\ Matches(row, s.snap)
            /\ row' = Bumped(s.snap, s.target)
            /\ GoWith(d, "emit", NoSnap, s.target, s.caught, FALSE)
         \/ /\ CanMove(s.snap.status, s.target) /\ ~Matches(row, s.snap)
            /\ IF s.caught THEN Raise(d) ELSE Go(d, "conflict")
            /\ UNCHANGED row
         \/ /\ ~CanMove(s.snap.status, s.target)
            /\ IF s.caught THEN Raise(d) ELSE Go(d, "unexpected")
            /\ UNCHANGED row
      /\ UNCHANGED <<published, children, quotaHeld, queueVars, cancels, reaper, creating,
                     owner, boundVars>>

Publish(status, by) == published' = Append(published, [status |-> status, by |-> by])

Emit(d) ==
  /\ At(d, "emit")
  /\ Publish(slots[d].target, "worker")
  /\ Return(d, slots[d].target)
  /\ UNCHANGED <<row, children, quotaHeld, queueVars, cancels, reaper, creating, owner,
                 boundVars>>

EmitFails(d) ==
  /\ At(d, "emit")
  /\ Fault
  /\ IF slots[d].caught THEN Raise(d) ELSE Go(d, "unexpected")
  /\ UNCHANGED <<dataVars, queueVars, cancels, reaper, creating, owner, deliveries>>

(* Mutant of Leave: the quota of a terminal Run is not released.            *)
LeaveKeepsQuota(d) == At(d, "leave") /\ Go(d, "ack") /\ SlotOnly

(* Leaving execute: the finally block, which may itself raise, and then the *)
(* release of a terminal Run's quota.                                       *)
Leave(d) ==
  /\ At(d, "leave")
  /\ quotaHeld' = (quotaHeld /\ slots[d].target \notin Terminal)
  /\ Go(d, "ack")
  /\ UNCHANGED <<row, published, children, queueVars, cancels, reaper, creating, owner,
                 boundVars>>

LeaveFails(d) ==
  /\ At(d, "leave")
  /\ Fault
  /\ Raise(d)
  /\ UNCHANGED <<dataVars, queueVars, cancels, reaper, creating, owner, deliveries>>

(* worker_loop: acknowledge after a return, retry after an exception.  A    *)
(* slot that lost its lease presents a stale receipt: nothing happens.      *)
Settled(d, effect) ==
  /\ IF Q!Holds(d, TheTask) THEN effect ELSE UNCHANGED queueVars
  /\ Rest(d)
  /\ UNCHANGED <<dataVars, cancels, reaper, creating, owner, boundVars>>

Acknowledge(d) == At(d, "ack") /\ Settled(d, Q!Finish(d, TheTask))
Retry(d) == At(d, "retry") /\ Settled(d, Q!GiveBack(d, TheTask))

(* Redis did not run the call; the lease stays until it lapses.             *)
QueueCallFails(d) ==
  /\ At(d, "ack") \/ At(d, "retry")
  /\ Fault
  /\ Rest(d)
  /\ UNCHANGED <<dataVars, queueVars, cancels, reaper, creating, owner, deliveries>>

WorkerCrash(d) ==
  /\ ~At(d, "idle")
  /\ Fault
  /\ Rest(d)
  /\ UNCHANGED <<dataVars, queueVars, cancels, reaper, creating, owner, deliveries>>

SlotStep(d) ==
  \/ Start(d) \/ Claim(d) \/ Provision(d) \/ Begin(d)
  \/ StreamEvent(d) \/ HandleEvent(d) \/ StreamEnd(d)
  \/ Settle(d) \/ OnTimeout(d) \/ OnResultError(d) \/ OnUnexpected(d)
  \/ FailChildren(d) \/ Finish(d) \/ Emit(d) \/ Leave(d)
  \/ Acknowledge(d) \/ Retry(d)

-----------------------------------------------------------------------------
(* RunService.cancel.  What the caller does after its first write depends   *)
(* on the status it read first (`from`), not on the one it replaced.        *)
CancelAt(k, pc) == cancels[k].pc = pc
CancelGo(k, pc, snap, from) ==
  cancels' = [cancels EXCEPT ![k] = [pc |-> pc, snap |-> snap, from |-> from]]
CancelDone(k) == CancelGo(k, "done", NoSnap, "none")

WorkerOwned == {"provisioning", "running"}

(* Where cancel goes once the row is CANCELLING in `snap`.                  *)
AfterRequest(k, snap) ==
  IF cancels[k].from \in WorkerOwned
    THEN CancelDone(k)
    ELSE CancelGo(k, "terminate", snap, "none")

CancelRead(k) ==
  /\ CancelAt(k, "idle")
  /\ \/ /\ row.status \in Terminal
        /\ quotaHeld' = FALSE
        /\ CancelDone(k)
     \/ /\ row.status = "cancelling"
        /\ CancelDone(k) /\ UNCHANGED quotaHeld
     \/ /\ row.status \in Active \ {"cancelling"}
        /\ CancelGo(k, "request", row, row.status) /\ UNCHANGED quotaHeld
  /\ UNCHANGED <<row, published, children, queueVars, slots, reaper, creating, owner,
                 boundVars>>

CancelRequest(k) ==
  LET snap == cancels[k].snap
  IN  /\ CancelAt(k, "request")
      /\ \/ /\ Matches(row, snap)
            /\ row' = Bumped(snap, "cancelling")
            /\ AfterRequest(k, row')
         \/ /\ ~Matches(row, snap) /\ row.status = "cancelling"
            /\ AfterRequest(k, row) /\ UNCHANGED row
         \/ /\ ~Matches(row, snap) /\ row.status # "cancelling"
            /\ CancelDone(k) /\ UNCHANGED row
      /\ UNCHANGED <<published, children, quotaHeld, queueVars, slots, reaper, creating,
                     owner, boundVars>>

(* Mutant of CancelTerminate: the answer of the compare-and-set is ignored. *)
CancelTerminateBlind(k) ==
  LET snap == cancels[k].snap
  IN  /\ CancelAt(k, "terminate")
      /\ row' = IF Matches(row, snap) THEN Bumped(snap, "cancelled") ELSE row
      /\ CancelGo(k, "emit", NoSnap, "none")
      /\ UNCHANGED <<published, children, quotaHeld, queueVars, slots, reaper, creating,
                     owner, boundVars>>

CancelTerminate(k) ==
  LET snap == cancels[k].snap
  IN  /\ CancelAt(k, "terminate")
      /\ IF Matches(row, snap)
           THEN row' = Bumped(snap, "cancelled") /\ CancelGo(k, "emit", NoSnap, "none")
           ELSE CancelDone(k) /\ UNCHANGED row
      /\ UNCHANGED <<published, children, quotaHeld, queueVars, slots, reaper, creating,
                     owner, boundVars>>

CancelEmit(k) ==
  /\ CancelAt(k, "emit")
  /\ Publish("cancelled", "api")
  /\ CancelGo(k, "release", NoSnap, "none")
  /\ UNCHANGED <<row, children, quotaHeld, queueVars, slots, reaper, creating, owner,
                 boundVars>>

CancelRelease(k) ==
  /\ CancelAt(k, "release")
  /\ quotaHeld' = FALSE
  /\ CancelDone(k)
  /\ UNCHANGED <<row, published, children, queueVars, slots, reaper, creating, owner,
                 boundVars>>

(* The API process dies, or a write of the request raises.                  *)
CancelCrash(k) ==
  /\ cancels[k].pc \notin {"idle", "done"}
  /\ Fault
  /\ CancelDone(k)
  /\ UNCHANGED <<dataVars, queueVars, slots, reaper, creating, owner, deliveries>>

CancelStep(k) ==
  CancelRequest(k) \/ CancelTerminate(k) \/ CancelEmit(k) \/ CancelRelease(k)

-----------------------------------------------------------------------------
(* Mutant of ReapRead: paused Runs have no threshold and are never looked at.*)
ReapReadNotPaused ==
  /\ reaper.pc = "idle"
  /\ row.status \in Active \ {"waiting_approval"}
  /\ reaper' = [pc |-> "move", snap |-> row]
  /\ UNCHANGED <<dataVars, queueVars, slots, cancels, creating, owner, boundVars>>

(* reap_stuck_runs.  Any active Run may have been idle for longer than the  *)
(* threshold of its status when the reaper looks.                           *)
ReapRead ==
  /\ reaper.pc = "idle"
  /\ row.status \in Active
  /\ reaper' = [pc |-> "move", snap |-> row]
  /\ UNCHANGED <<dataVars, queueVars, slots, cancels, creating, owner, boundVars>>

ReapMove ==
  LET target == IF reaper.snap.status = "cancelling" THEN "cancelled" ELSE "timed_out"
  IN  /\ reaper.pc = "move"
      /\ IF Matches(row, reaper.snap)
           THEN /\ row' = Bumped(reaper.snap, target)
                /\ reaper' = [IdleReaper EXCEPT !.pc = "finalize"]
           ELSE reaper' = IdleReaper /\ UNCHANGED row
      /\ UNCHANGED <<published, children, quotaHeld, queueVars, slots, cancels, creating,
                     owner, boundVars>>

(* _finalize_run appends its own terminal event unless it already has, then *)
(* releases the quota.                                                      *)
ReapPublish ==
  /\ reaper.pc = "finalize"
  /\ IF \E i \in DOMAIN published : published[i].by = "reaper"
       THEN UNCHANGED published
       ELSE Publish(row.status, "reaper")
  /\ reaper' = [IdleReaper EXCEPT !.pc = "release"]
  /\ UNCHANGED <<row, children, quotaHeld, queueVars, slots, cancels, creating, owner,
                 boundVars>>

ReapRelease ==
  /\ reaper.pc = "release"
  /\ quotaHeld' = FALSE
  /\ reaper' = IdleReaper
  /\ UNCHANGED <<row, published, children, queueVars, slots, cancels, creating, owner,
                 boundVars>>

(* A step of _finalize_run raises: an incident is opened, and the whole of  *)
(* _finalize_run is repeated by _repair_finalize_failures.                  *)
ReapFinalizeFails ==
  /\ reaper.pc \in {"finalize", "release"}
  /\ Fault
  /\ reaper' = [IdleReaper EXCEPT !.pc = "finalize"]
  /\ UNCHANGED <<dataVars, queueVars, slots, cancels, creating, owner, deliveries>>

(* The reaper dies before the incident is written: nobody repairs it.       *)
ReaperCrash ==
  /\ reaper.pc # "idle"
  /\ Fault
  /\ reaper' = IdleReaper
  /\ UNCHANGED <<dataVars, queueVars, slots, cancels, creating, owner, deliveries>>

ReapStep == ReapRead \/ ReapMove \/ ReapPublish \/ ReapRelease

-----------------------------------------------------------------------------
SlotFault(d) ==
  DeliverTwice(d) \/ HandleFails(d) \/ EmitFails(d) \/ LeaveFails(d) \/ QueueCallFails(d)

(* Everything but the worker slots.                                         *)
ControlPlane ==
  \/ CreateEnqueue \/ CreateCrash
  \/ \E k \in Canceller : CancelRead(k) \/ CancelStep(k) \/ CancelCrash(k)
  \/ ReapStep \/ ReapFinalizeFails \/ ReaperCrash

ExecNext ==
  \/ ControlPlane
  \/ \E d \in Slot : Deliver(d) \/ SlotStep(d) \/ SlotFault(d) \/ WorkerCrash(d)

ExecSafety == ExecInit /\ [][ExecNext]_execVars

-----------------------------------------------------------------------------
SlotPc == {"idle", "start", "claim", "provision", "begin", "stream", "handle", "settle",
           "timeout", "result", "unexpected", "conflict", "failChildren", "finish", "emit",
           "leave", "ack", "retry"}
RowType == [status : Status, token : Nat]

(* The types of the row, the log and the actors' local state.               *)
ExecTypeOK ==
  /\ row \in RowType
  /\ published \in Seq([status : Terminal, by : {"worker", "api", "reaper", "approval"}])
  /\ children \subseteq 1..MaxDeliveries
  /\ quotaHeld \in BOOLEAN
  /\ place \in [{TheTask} -> Q!Places]
  /\ holder \in [{TheTask} -> Slot]
  /\ slots \in [Slot -> [pc : SlotPc, exec : 0..MaxDeliveries, snap : RowType,
                         target : Status \cup {"none"}, caught : BOOLEAN, resume : BOOLEAN]]
  /\ cancels \in [Canceller -> [pc : {"idle", "request", "terminate", "emit", "release",
                                      "done"},
                                snap : RowType, from : Status \cup {"none"}]]
  /\ reaper \in [pc : {"idle", "move", "finalize", "release"}, snap : RowType]
  /\ creating \in BOOLEAN
  /\ owner \in Slot
  /\ deliveries \in 0..MaxDeliveries
  /\ faults \in 0..MaxFaults

(* Whoever writes the row, every change takes the next fencing token and    *)
(* either keeps an active status (a reclaim) or follows the transition      *)
(* table; a terminal row never changes again.                               *)
RowMovesLegally ==
  [][row' # row =>
       /\ row'.token = row.token + 1
       /\ \/ CanMove(row.status, row'.status)
          \/ row'.status = row.status /\ row.status \in WorkerOwned]_execVars

(* A Run whose cancellation is durable ends cancelled: no late success,     *)
(* failure or timeout of a worker, and no reclaim, overrides it.            *)
CancellationWins ==
  [][row.status = "cancelling" => row'.status \in {"cancelling", "cancelled"}]_execVars

(* The event log never shows two terminals of one Run, nor one that differs *)
(* from the row, although workers, cancel requests and the reaper race to   *)
(* end it and the reaper repeats its finalization.                          *)
OneTerminalEvent ==
  /\ Len(published) <= 1
  /\ \A i \in DOMAIN published : published[i].status = row.status

Quiet ==
  /\ ~creating
  /\ place[TheTask] = "absent"
  /\ \A d \in Slot : At(d, "idle")
  /\ \A k \in Canceller : cancels[k].pc \in {"idle", "done"}
  /\ reaper.pc = "idle"

(* Without crashes, failed writes or a pending approval, a task that has    *)
(* left the queue leaves a finished Run behind: terminal row, terminal      *)
(* event and released quota, whoever raced to end it.                       *)
NothingLeftBehind ==
  Quiet /\ faults = 0 /\ row.status # "waiting_approval" =>
    row.status \in Terminal /\ Len(published) = 1 /\ ~quotaHeld

(* Every Run reaches a terminal state, whatever crashes: the queue          *)
(* redelivers and the reaper ends what nobody works on.                     *)
EventuallyTerminal == <>(row.status \in Terminal)

(* Once the Run is terminal, every worker that still executes it stops.     *)
WorkersStop == row.status \in Terminal ~> \A d \in Slot : At(d, "idle") \/ At(d, "start")

(* _handle_unexpected_error gives up an active Run after a lost compare-and-*)
(* set only when another worker has claimed it since.                       *)
ConflictMeansAnotherOwner ==
  [][\A d \in Slot : At(d, "conflict") /\ slots'[d].pc = "leave" /\ row.status \in Active
                     => owner # d]_execVars

(* worker/main.py calls a duplicate delivery safe "because Run fencing      *)
(* rejects the stale owner": while the Run is provisioning or running, a    *)
(* slot changes it only if no other slot has claimed it since.              *)
StaleOwnerRejected ==
  [][\A d \in Slot : /\ slots'[d] # slots[d] /\ ~At(d, "claim")
                     /\ row' # row /\ row.status \in WorkerOwned
                     => owner = d]_execVars
=============================================================================
