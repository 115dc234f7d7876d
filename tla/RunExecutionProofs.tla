-------------------------- MODULE RunExecutionProofs --------------------------
(***************************************************************************)
(* What holds of the execution of a Run, and of its tool approvals, for     *)
(* every number of worker slots, cancel requests, deliveries, tool calls,   *)
(* deciders and faults: it ends once, whoever is done has left nothing      *)
(* behind, decisions are final, and no tool runs without one that allows    *)
(* it.                                                                      *)
(***************************************************************************)
EXTENDS RunApproval, TLAPS

-----------------------------------------------------------------------------
(* The inductive invariant.                                                 *)

(* What an actor read is active, and what it will write ends the Run: a     *)
(* cancelling Run is only ever cancelled.  A busy slot has an execution.    *)
SlotReads ==
  \A d \in Slot :
    LET s == slots[d]
    IN /\ s.pc # "idle" => s.exec # 0
       /\ s.pc = "claim" => s.snap.status \in {"queued", "provisioning", "running"}
       /\ s.pc \in {"provision", "begin"} => s.snap.status \in {"provisioning", "running"}
       /\ s.pc \in {"failChildren", "finish"} =>
            /\ s.target \in {"cancelled", "succeeded", "failed", "timed_out"}
            /\ s.snap.status = "cancelling" => s.target = "cancelled"

OtherReads ==
  /\ \A k \in Canceller :
       /\ CancelAt(k, "request") => cancels[k].snap.status \in Active \ {"cancelling"}
       /\ CancelAt(k, "terminate") => cancels[k].snap.status = "cancelling"
  /\ reaper.pc = "move" => reaper.snap.status \in Active

(* Whoever won the compare-and-set that ended the Run is the only one who   *)
(* has the terminal event still to append.                                  *)
ReaperEnds == reaper.pc \in {"finalize", "release"}

EndsOnce ==
  /\ row.status \in Active =>
       /\ published = <<>> /\ ~ReaperEnds
       /\ \A d \in Slot : ~At(d, "emit")
       /\ \A k \in Canceller : ~CancelAt(k, "emit")
  /\ \A d \in Slot : At(d, "emit") =>
       /\ slots[d].target = row.status /\ published = <<>> /\ ~ReaperEnds
       /\ \A e \in Slot : At(e, "emit") => e = d
       /\ \A k \in Canceller : ~CancelAt(k, "emit")
  /\ \A k \in Canceller : CancelAt(k, "emit") =>
       /\ row.status = "cancelled" /\ published = <<>> /\ ~ReaperEnds
       /\ \A j \in Canceller : CancelAt(j, "emit") => j = k
  /\ ReaperEnds => \A i \in DOMAIN published : published[i].by = "reaper"

(* What the owner read is what the row holds, unless the Run was cancelled  *)
(* or ended since: nobody else moves it on.  Without faults this is so for  *)
(* every slot, as the one that holds the task is the only one.              *)
IsOver == row.status \in {"cancelling"} \cup Terminal

OwnerReads ==
  \A d \in Slot :
    /\ slots[d].snap.token <= row.token
    /\ At(d, "provision") \/ At(d, "begin") =>
         (slots[d].snap.token = row.token => owner = d)
    /\ owner = d \/ faults = 0 =>
         /\ slots[d].pc \in {"claim", "provision", "begin", "failChildren", "finish"} =>
              Matches(row, slots[d].snap) \/ IsOver
         /\ At(d, "conflict") => IsOver

(* Without faults every end is carried through.                             *)
CarriedThrough ==
  /\ row.status # "waiting_approval"
  /\ row.status \in Active /\ ~creating => place[TheTask] # "absent"
  /\ \A d \in Slot :
       /\ ~At(d, "idle") => Q!Holds(d, TheTask)
       /\ At(d, "leave") => slots[d].target \in Terminal
       /\ At(d, "leave") \/ At(d, "ack") => row.status \in Terminal
  /\ row.status \in Terminal /\ published = <<>> =>
       \/ \E d \in Slot : At(d, "emit")
       \/ \E k \in Canceller : CancelAt(k, "emit")
       \/ reaper.pc = "finalize"
  /\ row.status \in Terminal /\ quotaHeld =>
       \/ \E d \in Slot : At(d, "emit") \/ At(d, "leave")
       \/ \E k \in Canceller : CancelAt(k, "emit") \/ CancelAt(k, "release")
       \/ ReaperEnds

ExecInv ==
  /\ ExecTypeOK
  /\ SlotReads
  /\ OtherReads
  /\ EndsOnce
  /\ OneTerminalEvent
  /\ OwnerReads
  /\ faults = 0 => CarriedThrough

(* The initial state of a Run satisfies it.                                 *)
LEMMA ExecInitInv == ExecInit => ExecInv
<1> SUFFICES ASSUME ExecInit PROVE ExecInv
  OBVIOUS
<1> USE DEF ExecInit
<1>1. ExecTypeOK
  BY BoundsAssumption DEF ExecTypeOK, RowType, Status, Active, Terminal, IdleSlot, FreshSlot, NoSnap,
       IdleCancel, IdleReaper, SlotPc, Q!LeaseInit, Q!Places, TheTask
<1>2. SlotReads /\ OtherReads
  BY DEF SlotReads, OtherReads, CancelAt, IdleSlot, FreshSlot, IdleCancel, IdleReaper
<1>3. EndsOnce /\ OneTerminalEvent
  BY DEF EndsOnce, OneTerminalEvent, ReaperEnds, At, CancelAt, IdleSlot, FreshSlot, IdleCancel,
         IdleReaper, Active
<1>4. OwnerReads
  BY DEF OwnerReads, At, IdleSlot, FreshSlot, NoSnap
<1>5. CarriedThrough
  BY DEF CarriedThrough, At, CancelAt, IdleSlot, FreshSlot, IdleCancel, IdleReaper, Terminal, Active
<1> QED BY <1>1, <1>2, <1>3, <1>4, <1>5 DEF ExecInv

-----------------------------------------------------------------------------
(* A move of one handler.                                                   *)
SlotRecord ==
  [pc : SlotPc, exec : 0..MaxDeliveries, snap : RowType, target : Status \cup {"none"},
   caught : BOOLEAN, resume : BOOLEAN]

OthersKept(d) == \A e \in Slot : e # d => slots'[e] = slots[e]

LEMMA GoEffect ==
  ASSUME ExecTypeOK, NEW d \in Slot, NEW pc \in SlotPc, NEW snap \in RowType,
         NEW target \in Status \cup {"none"}, NEW caught \in BOOLEAN, NEW resume \in BOOLEAN,
         GoWith(d, pc, snap, target, caught, resume)
  PROVE  /\ slots' \in [Slot -> SlotRecord]
         /\ slots'[d] = [pc |-> pc, exec |-> slots[d].exec, snap |-> snap,
                         target |-> target, caught |-> caught, resume |-> resume]
         /\ OthersKept(d)
<1>1. slots \in [Slot -> SlotRecord]
  BY DEF ExecTypeOK, SlotRecord
<1> QED BY <1>1 DEF GoWith, SlotRecord, OthersKept

(* What a handler may hold at a program counter, given the row and whether   *)
(* a fault has occurred: the parts of ExecInv about one slot.                *)
SlotWell(d, s) ==
  /\ s.pc # "idle" => s.exec # 0
  /\ s.pc = "claim" => s.snap.status \in {"queued", "provisioning", "running"}
  /\ s.pc \in {"provision", "begin"} => s.snap.status \in {"provisioning", "running"}
  /\ s.pc \in {"failChildren", "finish"} =>
       /\ s.target \in {"cancelled", "succeeded", "failed", "timed_out"}
       /\ s.snap.status = "cancelling" => s.target = "cancelled"
  /\ s.snap.token <= row.token
  /\ s.pc \in {"provision", "begin"} => (s.snap.token = row.token => owner = d)
  /\ owner = d \/ faults = 0 =>
       /\ s.pc \in {"claim", "provision", "begin", "failChildren", "finish"} =>
            Matches(row, s.snap) \/ IsOver
       /\ s.pc = "conflict" => IsOver
  /\ faults = 0 =>
       /\ s.pc = "leave" => s.target \in Terminal
       /\ s.pc \in {"leave", "ack"} => row.status \in Terminal

(* A step of one handler that changes neither the row nor the log nor the    *)
(* quota: it suffices that the handler may be where it goes, and that it     *)
(* does not forget an end it still has to carry through.                     *)
LEMMA HandlerMoves ==
  ASSUME ExecInv, NEW d \in Slot, slots' \in [Slot -> SlotRecord], OthersKept(d),
         UNCHANGED <<row, published, quotaHeld, queueVars, cancels, reaper, creating, owner>>,
         children' \subseteq 1..MaxDeliveries, deliveries' \in 0..MaxDeliveries,
         faults' \in 0..MaxFaults, faults <= faults',
         SlotWell(d, slots'[d]), slots'[d].pc # "emit",
         faults' = 0 => /\ ~At(d, "idle") /\ ~At(d, "emit") /\ ~At(d, "leave")
                        /\ slots'[d].pc # "idle"
  PROVE  ExecInv'
<1> USE DEF OthersKept, queueVars
<1>1. ExecTypeOK'
  BY DEF ExecInv, ExecTypeOK, SlotRecord
<1>2. SlotReads' /\ OtherReads'
  BY DEF ExecInv, SlotReads, OtherReads, SlotWell, CancelAt
<1>3. EndsOnce' /\ OneTerminalEvent'
  BY DEF ExecInv, EndsOnce, OneTerminalEvent, ReaperEnds, At, CancelAt
<1>4. OwnerReads'
  BY DEF ExecInv, ExecTypeOK, OwnerReads, SlotWell, At, IsOver, Matches
<1>5. faults' = 0 => CarriedThrough'
  <2> SUFFICES ASSUME faults' = 0 PROVE CarriedThrough'
    OBVIOUS
  <2>1. faults = 0 /\ CarriedThrough
    BY DEF ExecInv, ExecTypeOK
  <2> QED BY <2>1 DEF CarriedThrough, SlotWell, At, CancelAt, Q!Holds, ReaperEnds
<1> QED BY <1>1, <1>2, <1>3, <1>4, <1>5 DEF ExecInv

(* The steps of a handler that neither write the row nor end the Run: each   *)
(* goes on with what it has just read, so SlotWell holds where it goes.      *)
LEMMA RowReadable ==
  ASSUME ExecInv
  PROVE  /\ row \in RowType /\ NoSnap \in RowType /\ faults \in 0..MaxFaults
         /\ row.token \in Nat /\ row.status \in Status
         /\ row.status \in Terminal => row.status \notin Active
         /\ \A d \in Slot : /\ slots[d] \in SlotRecord
                            /\ SlotWell(d, slots[d])
                            /\ ~At(d, "idle") => slots[d].exec # 0
         /\ faults = 0 => row.status # "waiting_approval"
<1>1. \A d \in Slot : SlotWell(d, slots[d])
  BY DEF ExecInv, SlotReads, OwnerReads, CarriedThrough, SlotWell, At
<1>2. \A d \in Slot : ~At(d, "idle") => slots[d].exec # 0
  BY DEF ExecInv, SlotReads, At
<1> QED
  BY <1>1, <1>2 DEF ExecInv, ExecTypeOK, SlotRecord, RowType, NoSnap, Status, Active,
                    Terminal, CarriedThrough

LEMMA HandlerGoes ==
  ASSUME ExecInv, NEW d \in Slot, NEW pc \in SlotPc \ {"idle", "emit"},
         NEW snap \in RowType, NEW target \in Status \cup {"none"},
         NEW caught \in BOOLEAN, NEW resume \in BOOLEAN,
         GoWith(d, pc, snap, target, caught, resume),
         SlotWell(d, [pc |-> pc, exec |-> slots[d].exec, snap |-> snap,
                      target |-> target, caught |-> caught, resume |-> resume]),
         UNCHANGED <<row, published, quotaHeld, queueVars, cancels, reaper, creating, owner,
                     boundVars>>,
         children' \subseteq 1..MaxDeliveries,
         ~At(d, "idle"), ~At(d, "emit"), ~At(d, "leave")
  PROVE  ExecInv'
<1>1. ExecTypeOK
  BY DEF ExecInv
<1>2. /\ slots' \in [Slot -> SlotRecord]
      /\ slots'[d] = [pc |-> pc, exec |-> slots[d].exec, snap |-> snap,
                      target |-> target, caught |-> caught, resume |-> resume]
      /\ OthersKept(d)
  BY <1>1, GoEffect
<1>3. deliveries' \in 0..MaxDeliveries /\ faults' = faults /\ faults' \in 0..MaxFaults
      /\ faults <= faults'
  BY <1>1, BoundsAssumption DEF ExecTypeOK, boundVars
<1>4. SlotWell(d, slots'[d]) /\ slots'[d].pc # "emit" /\ slots'[d].pc # "idle"
  BY <1>2
<1> QED BY <1>2, <1>3, <1>4, HandlerMoves

LEMMA ExecutionNumber ==
  ASSUME ExecInv, NEW d \in Slot, ~At(d, "idle")
  PROVE  slots[d].exec \in 1..MaxDeliveries
BY RowReadable, BoundsAssumption DEF SlotWell, SlotRecord, At

LEMMA ReturnEffect ==
  ASSUME ExecInv, NEW d \in Slot, ~At(d, "idle"), ~At(d, "emit"), ~At(d, "leave"),
         Return(d, row.status), SlotOnly, row.status \in Terminal \/ faults # 0
  PROVE  ExecInv'
<1>1. SlotWell(d, [pc |-> "leave", exec |-> slots[d].exec, snap |-> NoSnap,
                   target |-> row.status, caught |-> FALSE, resume |-> FALSE])
  BY RowReadable DEF SlotWell, NoSnap
<1>2. row.status \in Status \cup {"none"} /\ "leave" \in SlotPc \ {"idle", "emit"}
      /\ children \subseteq 1..MaxDeliveries
  BY RowReadable DEF SlotPc, ExecInv, ExecTypeOK
<1> QED
  BY <1>1, <1>2, RowReadable, HandlerGoes DEF Return, SlotOnly, dataVars

LEMMA StartInv == ASSUME ExecInv, NEW d \in Slot, Start(d) PROVE ExecInv'
<1> USE DEF Start
<1>1. ~At(d, "idle") /\ ~At(d, "emit") /\ ~At(d, "leave")
  BY DEF At
<1>2. CASE row.status \in Terminal \cup {"waiting_approval"} /\ Return(d, row.status)
  BY <1>1, <1>2, ReturnEffect, RowReadable
<1>3. CASE /\ row.status = "cancelling"
           /\ GoWith(d, "finish", row, "cancelled", TRUE, FALSE)
  <2>1. SlotWell(d, [pc |-> "finish", exec |-> slots[d].exec, snap |-> row,
                     target |-> "cancelled", caught |-> TRUE, resume |-> FALSE])
    BY <1>1, <1>3, RowReadable DEF SlotWell, Matches
  <2> QED
    BY <1>1, <1>3, <2>1, RowReadable, HandlerGoes
    DEF SlotOnly, dataVars, SlotPc, Status, Terminal, ExecInv, ExecTypeOK
<1>4. CASE /\ row.status \in {"queued", "provisioning", "running"}
           /\ GoWith(d, "claim", row, "none", FALSE, row.status = "running")
  <2>1. SlotWell(d, [pc |-> "claim", exec |-> slots[d].exec, snap |-> row,
                     target |-> "none", caught |-> FALSE, resume |-> row.status = "running"])
    BY <1>1, <1>4, RowReadable DEF SlotWell, Matches
  <2> QED
    BY <1>1, <1>4, <2>1, RowReadable, HandlerGoes
    DEF SlotOnly, dataVars, SlotPc, ExecInv, ExecTypeOK
<1> QED BY <1>2, <1>3, <1>4

(* Go: the fields that are not named return to their defaults.               *)
LEMMA PlainGo ==
  ASSUME ExecInv, NEW d \in Slot, NEW pc \in SlotPc, Go(d, pc),
         pc \in {"conflict", "stream", "handle", "settle", "timeout", "result", "unexpected",
                 "retry"},
         pc = "conflict" => (owner = d \/ faults = 0 => IsOver),
         ~At(d, "idle"), ~At(d, "emit"), ~At(d, "leave"),
         UNCHANGED <<row, published, quotaHeld, queueVars, cancels, reaper, creating, owner,
                     boundVars>>,
         children' \subseteq 1..MaxDeliveries
  PROVE  ExecInv'
<1>1. SlotWell(d, [pc |-> pc, exec |-> slots[d].exec, snap |-> NoSnap, target |-> "none",
                   caught |-> FALSE, resume |-> FALSE])
  BY RowReadable DEF SlotWell, NoSnap
<1>2. pc \in SlotPc \ {"idle", "emit"}
  OBVIOUS
<1> QED BY <1>1, <1>2, RowReadable, HandlerGoes DEF Go

LEMMA ProvisionInv == ASSUME ExecInv, NEW d \in Slot, Provision(d) PROVE ExecInv'
<1> USE DEF Provision
<1>1. ~At(d, "idle") /\ ~At(d, "emit") /\ ~At(d, "leave")
      /\ children \subseteq 1..MaxDeliveries
  BY DEF At, ExecInv, ExecTypeOK
<1>2. CASE GoWith(d, "begin", slots[d].snap, "none", FALSE, slots[d].resume)
  <2>1. SlotWell(d, [pc |-> "begin", exec |-> slots[d].exec, snap |-> slots[d].snap,
                     target |-> "none", caught |-> FALSE, resume |-> slots[d].resume])
    BY RowReadable DEF SlotWell, At
  <2>2. slots[d].snap \in RowType /\ slots[d].resume \in BOOLEAN
        /\ "begin" \in SlotPc \ {"idle", "emit"}
    BY RowReadable DEF SlotRecord, SlotPc
  <2> QED BY <1>1, <1>2, <2>1, <2>2, HandlerGoes DEF SlotOnly, dataVars
<1>3. CASE \E pc \in {"unexpected", "timeout"} : Go(d, pc)
  BY <1>1, <1>3, PlainGo DEF SlotOnly, dataVars, SlotPc
<1> QED BY <1>2, <1>3

LEMMA StreamEventInv == ASSUME ExecInv, NEW d \in Slot, StreamEvent(d) PROVE ExecInv'
<1> USE DEF StreamEvent
<1>1. ~At(d, "idle") /\ ~At(d, "emit") /\ ~At(d, "leave")
      /\ children \subseteq 1..MaxDeliveries
  BY DEF At, ExecInv, ExecTypeOK
<1>2. CASE /\ row.status = "cancelling"
           /\ children' \in {children, children \cup {slots[d].exec}}
           /\ GoWith(d, "failChildren", row, "cancelled", FALSE, FALSE)
  <2>1. SlotWell(d, [pc |-> "failChildren", exec |-> slots[d].exec, snap |-> row,
                     target |-> "cancelled", caught |-> FALSE, resume |-> FALSE])
    BY <1>1, <1>2, RowReadable DEF SlotWell, Matches
  <2>2. children' \subseteq 1..MaxDeliveries
    BY <1>1, <1>2, ExecutionNumber
  <2> QED
    BY <1>1, <1>2, <2>1, <2>2, RowReadable, HandlerGoes DEF SlotPc, Status, Terminal
<1>3. CASE row.status \in Terminal /\ Return(d, row.status) /\ UNCHANGED children
  BY <1>1, <1>3, ReturnEffect DEF SlotOnly, dataVars
<1>4. CASE row.status \in Active \ {"cancelling"} /\ Go(d, "handle") /\ UNCHANGED children
  BY <1>1, <1>4, PlainGo DEF SlotPc
<1> QED BY <1>2, <1>3, <1>4

LEMMA StreamInv ==
  ASSUME ExecInv, NEW d \in Slot, HandleEvent(d) \/ StreamEnd(d)
  PROVE  ExecInv'
<1>1. ~At(d, "idle") /\ ~At(d, "emit") /\ ~At(d, "leave")
      /\ children \subseteq 1..MaxDeliveries
  BY DEF At, ExecInv, ExecTypeOK, HandleEvent, StreamEnd
<1>2. CASE HandleEvent(d)
  <2>1. children' \subseteq 1..MaxDeliveries
    BY <1>1, <1>2, ExecutionNumber DEF HandleEvent
  <2> QED BY <1>1, <1>2, <2>1, PlainGo DEF HandleEvent, SlotPc
<1>3. CASE StreamEnd(d)
  BY <1>1, <1>3, PlainGo DEF StreamEnd, SlotOnly, dataVars, SlotPc
<1> QED BY <1>2, <1>3

(* The ends of _execute, which decide by the row they have just read.        *)
LEMMA DecideInv ==
  ASSUME ExecInv, NEW d \in Slot, ~At(d, "idle"), ~At(d, "emit"), ~At(d, "leave"),
         SlotOnly,
         NEW pc \in {"failChildren", "finish"}, NEW caught \in BOOLEAN,
         NEW target \in {"cancelled", "succeeded", "failed", "timed_out"},
         row.status = "cancelling" => target = "cancelled",
         GoWith(d, pc, row, target, caught, FALSE)
  PROVE  ExecInv'
<1>1. SlotWell(d, [pc |-> pc, exec |-> slots[d].exec, snap |-> row,
                   target |-> target, caught |-> caught, resume |-> FALSE])
  BY RowReadable DEF SlotWell, Matches
<1>2. pc \in SlotPc \ {"idle", "emit"} /\ target \in Status \cup {"none"}
      /\ children \subseteq 1..MaxDeliveries
  BY DEF SlotPc, Status, Terminal, ExecInv, ExecTypeOK
<1> QED BY <1>1, <1>2, RowReadable, HandlerGoes DEF SlotOnly, dataVars

LEMMA SettleFromInv ==
  ASSUME ExecInv, NEW d \in Slot, ~At(d, "idle"), ~At(d, "emit"), ~At(d, "leave"),
         NEW target \in {"succeeded", "failed", "timed_out"},
         NEW caught \in BOOLEAN, NEW failChildren \in BOOLEAN,
         SettleFrom(d, target, caught, failChildren)
  PROVE  ExecInv'
<1> DEFINE pc == IF failChildren THEN "failChildren" ELSE "finish"
<1>1. pc \in {"failChildren", "finish"}
  OBVIOUS
<1>2. CASE row.status = "cancelling" /\ GoWith(d, pc, row, "cancelled", caught, FALSE)
  BY <1>1, <1>2, DecideInv DEF SettleFrom
<1>3. CASE row.status \in Terminal /\ Return(d, row.status)
  BY <1>3, ReturnEffect DEF SettleFrom
<1>4. CASE row.status \in Active \ {"cancelling"} /\ GoWith(d, pc, row, target, caught, FALSE)
  BY <1>1, <1>4, DecideInv DEF SettleFrom
<1> QED BY <1>2, <1>3, <1>4 DEF SettleFrom

LEMMA EndsInv ==
  ASSUME ExecInv, NEW d \in Slot, Settle(d) \/ OnTimeout(d) \/ OnResultError(d)
  PROVE  ExecInv'
<1>1. ~At(d, "idle") /\ ~At(d, "emit") /\ ~At(d, "leave")
  BY DEF At, Settle, OnTimeout, OnResultError
<1> QED BY <1>1, SettleFromInv DEF Settle, OnTimeout, OnResultError

LEMMA OnUnexpectedInv == ASSUME ExecInv, NEW d \in Slot, OnUnexpected(d) PROVE ExecInv'
<1> USE DEF OnUnexpected
<1>1. ~At(d, "idle") /\ ~At(d, "emit") /\ ~At(d, "leave")
  BY DEF At
<1>2. CASE row.status = "cancelling" /\ GoWith(d, "finish", row, "cancelled", TRUE, FALSE)
  BY <1>1, <1>2, DecideInv
<1>3. CASE /\ row.status \in Terminal \/ (At(d, "conflict") /\ row.status # "cancelling")
           /\ Return(d, row.status)
  <2>1. row.status \in Terminal \/ faults # 0
    BY <1>3, RowReadable DEF SlotWell, At, IsOver
  <2> QED BY <1>1, <1>3, <2>1, ReturnEffect
<1>4. CASE /\ At(d, "unexpected") /\ row.status \in Active \ {"cancelling"}
           /\ GoWith(d, "failChildren", row, "failed", TRUE, FALSE)
  BY <1>1, <1>4, DecideInv
<1> QED BY <1>2, <1>3, <1>4

LEMMA FailChildrenInv == ASSUME ExecInv, NEW d \in Slot, FailChildren(d) PROVE ExecInv'
<1> USE DEF FailChildren
<1>1. ~At(d, "idle") /\ ~At(d, "emit") /\ ~At(d, "leave")
  BY DEF At
<1>2. slots \in [Slot -> SlotRecord]
  BY DEF ExecInv, ExecTypeOK, SlotRecord
<1>3. /\ slots' \in [Slot -> SlotRecord]
      /\ slots'[d].pc = "finish" /\ slots'[d].snap = slots[d].snap
      /\ slots'[d].target = slots[d].target /\ slots'[d].exec = slots[d].exec
      /\ OthersKept(d)
  BY <1>2 DEF SlotRecord, OthersKept, SlotPc
<1>4. SlotWell(d, slots'[d])
  BY <1>1, <1>3, RowReadable DEF SlotWell, At
<1>5. /\ deliveries' \in 0..MaxDeliveries /\ faults' = faults /\ faults' \in 0..MaxFaults
      /\ faults <= faults' /\ children' \subseteq 1..MaxDeliveries
  BY BoundsAssumption DEF ExecInv, ExecTypeOK, boundVars
<1> QED BY <1>1, <1>3, <1>4, <1>5, HandlerMoves

(* After a fault only what ExecInv says of every state is left to show.      *)
LEMMA HandlerFaultInv ==
  ASSUME ExecInv, NEW d \in Slot,
         HandleFails(d) \/ EmitFails(d) \/ LeaveFails(d) \/ QueueCallFails(d) \/ WorkerCrash(d)
  PROVE  ExecInv'
<1>1. /\ faults' \in 0..MaxFaults /\ faults <= faults' /\ faults' # 0
      /\ deliveries' \in 0..MaxDeliveries /\ children' \subseteq 1..MaxDeliveries
      /\ UNCHANGED <<row, published, quotaHeld, queueVars, cancels, reaper, creating, owner>>
  <2>1. /\ Fault /\ UNCHANGED <<dataVars, deliveries, queueVars, cancels, reaper, creating,
                                 owner>>
    BY DEF HandleFails, EmitFails, LeaveFails, QueueCallFails, WorkerCrash
  <2>2. faults \in 0..MaxFaults /\ deliveries \in 0..MaxDeliveries
        /\ children \subseteq 1..MaxDeliveries
    BY DEF ExecInv, ExecTypeOK
  <2> QED BY <2>1, <2>2, BoundsAssumption DEF Fault, dataVars
<1>2. CASE WorkerCrash(d) \/ QueueCallFails(d)
  <2>1. slots' = [slots EXCEPT ![d] = IdleSlot]
    BY <1>2 DEF WorkerCrash, QueueCallFails, Rest
  <2>2. IdleSlot \in SlotRecord /\ SlotWell(d, IdleSlot) /\ IdleSlot.pc # "emit"
    BY RowReadable, BoundsAssumption
    DEF IdleSlot, FreshSlot, SlotRecord, SlotWell, NoSnap, SlotPc, RowType, Status, Active
  <2>3. slots' \in [Slot -> SlotRecord] /\ slots'[d] = IdleSlot /\ OthersKept(d)
    BY <2>1, <2>2, RowReadable DEF ExecInv, ExecTypeOK, SlotRecord, OthersKept
  <2> QED BY <1>1, <2>2, <2>3, HandlerMoves
<1>3. ASSUME NEW pc \in {"retry", "unexpected"}, NEW caught \in BOOLEAN, ~At(d, "idle"),
             GoWith(d, pc, NoSnap, "none", caught, FALSE)
      PROVE  ExecInv'
  <2>1. SlotWell(d, [pc |-> pc, exec |-> slots[d].exec, snap |-> NoSnap, target |-> "none",
                     caught |-> caught, resume |-> FALSE])
    BY <1>3, RowReadable DEF SlotWell, NoSnap
  <2>2. pc \in SlotPc /\ ExecTypeOK
    BY DEF SlotPc, ExecInv
  <2>3. /\ slots' \in [Slot -> SlotRecord] /\ OthersKept(d)
        /\ slots'[d] = [pc |-> pc, exec |-> slots[d].exec, snap |-> NoSnap,
                        target |-> "none", caught |-> caught, resume |-> FALSE]
    BY <1>3, <2>2, RowReadable
    DEF GoWith, ExecTypeOK, SlotRecord, OthersKept
  <2>4. SlotWell(d, slots'[d]) /\ slots'[d].pc # "emit"
    BY <2>1, <2>3
  <2> QED BY <1>1, <2>3, <2>4, HandlerMoves
<1>4. CASE HandleFails(d) \/ EmitFails(d) \/ LeaveFails(d)
  <2>1. ~At(d, "idle")
    BY <1>4 DEF HandleFails, EmitFails, LeaveFails, At
  <2>2. \E pc \in {"retry", "unexpected"}, caught \in BOOLEAN :
          GoWith(d, pc, NoSnap, "none", caught, FALSE)
    BY <1>4 DEF HandleFails, EmitFails, LeaveFails, Raise, Go
  <2> QED BY <1>3, <2>1, <2>2
<1> QED BY <1>2, <1>4

-----------------------------------------------------------------------------
(* The queue and the slots.  Without faults the slot that holds the lease is *)
(* the only busy one, and a lease lapses only when nobody is.                *)
LEMMA OnlyHolderBusy ==
  ASSUME ExecInv, faults = 0, NEW d \in Slot, NEW e \in Slot, ~At(d, "idle"), ~At(e, "idle")
  PROVE  d = e
BY DEF ExecInv, CarriedThrough, Q!Holds

LEMMA DeliverInv ==
  ASSUME ExecInv, NEW d \in Slot, Deliver(d) \/ DeliverTwice(d)
  PROVE  ExecInv'
<1>1. /\ At(d, "idle") /\ deliveries' = deliveries + 1 /\ deliveries < MaxDeliveries
      /\ slots' = [slots EXCEPT ![d] = FreshSlot("start", deliveries')]
      /\ UNCHANGED <<dataVars, cancels, reaper, creating, owner>>
  BY DEF Deliver, DeliverTwice, Delivery
<1>2. PICK lapsed \in SUBSET {TheTask} : Q!Take(d, TheTask, lapsed)
  BY DEF Deliver, DeliverTwice
<1>3. /\ place' \in [{TheTask} -> Q!Places] /\ holder' \in [{TheTask} -> Slot]
      /\ place'[TheTask] = "leased" /\ holder'[TheTask] = d
  BY <1>2 DEF Q!Take, Q!Places, ExecInv, ExecTypeOK
<1>4. /\ deliveries' \in 1..MaxDeliveries
      /\ faults' \in 0..MaxFaults /\ (faults' = 0 => faults = 0 /\ Deliver(d))
  <2>1. deliveries \in 0..MaxDeliveries /\ faults \in 0..MaxFaults
    BY DEF ExecInv, ExecTypeOK
  <2>2. Deliver(d) => faults' = faults
    BY DEF Deliver
  <2>3. DeliverTwice(d) => faults < MaxFaults /\ faults' = faults + 1
    BY DEF DeliverTwice, Fault
  <2> QED BY <1>1, <2>1, <2>2, <2>3, BoundsAssumption
<1>5. /\ slots' \in [Slot -> SlotRecord] /\ OthersKept(d)
      /\ slots'[d].pc = "start" /\ slots'[d].snap = NoSnap /\ slots'[d].exec # 0
  <2>1. /\ FreshSlot("start", deliveries') \in SlotRecord /\ deliveries' # 0
        /\ FreshSlot("start", deliveries').pc = "start"
        /\ FreshSlot("start", deliveries').snap = NoSnap
        /\ FreshSlot("start", deliveries').exec = deliveries'
    BY <1>4, RowReadable, BoundsAssumption DEF FreshSlot, SlotRecord, SlotPc
  <2> QED
    BY <1>1, <2>1 DEF ExecInv, ExecTypeOK, SlotRecord, OthersKept
<1>6. ExecTypeOK'
  BY <1>1, <1>3, <1>4, <1>5 DEF ExecInv, ExecTypeOK, SlotRecord, dataVars
<1>7. SlotReads' /\ OtherReads'
  BY <1>1, <1>5 DEF ExecInv, SlotReads, OtherReads, CancelAt, OthersKept
<1>8. EndsOnce' /\ OneTerminalEvent'
  BY <1>1, <1>5 DEF ExecInv, EndsOnce, OneTerminalEvent, ReaperEnds, At, CancelAt, OthersKept,
                    dataVars
<1>9. OwnerReads'
  BY <1>1, <1>4, <1>5, RowReadable
  DEF ExecInv, OwnerReads, OthersKept, At, IsOver, Matches, dataVars, NoSnap
<1>10. faults' = 0 => CarriedThrough'
  <2> SUFFICES ASSUME faults' = 0 PROVE CarriedThrough'
    OBVIOUS
  <2>1. faults = 0 /\ Deliver(d) /\ CarriedThrough
    BY <1>4 DEF ExecInv
  <2>2. \A e \in Slot : At(e, "idle")
    <3>1. PICK gone \in SUBSET {TheTask} :
            /\ gone # {} => At(holder[TheTask], "idle")
            /\ Q!Take(d, TheTask, gone)
      BY <2>1 DEF Deliver
    <3>2. CASE gone = {}
      BY <2>1, <3>1, <3>2 DEF CarriedThrough, Q!Take, Q!Holds
    <3>3. CASE gone # {}
      BY <2>1, <3>1, <3>3 DEF CarriedThrough, Q!Holds
    <3> QED BY <3>2, <3>3
  <2> QED
    BY <1>1, <1>3, <1>5, <2>1, <2>2
    DEF CarriedThrough, At, CancelAt, Q!Holds, ReaperEnds, OthersKept, dataVars
<1> QED BY <1>6, <1>7, <1>8, <1>9, <1>10 DEF ExecInv

LEMMA LeaseEndsInv ==
  ASSUME ExecInv, NEW d \in Slot, Acknowledge(d) \/ Retry(d)
  PROVE  ExecInv'
<1>1. /\ At(d, "ack") \/ At(d, "retry")
      /\ slots' = [slots EXCEPT ![d] = IdleSlot]
      /\ UNCHANGED <<dataVars, cancels, reaper, creating, owner, boundVars>>
  BY DEF Acknowledge, Retry, Settled, Rest
<1>2. /\ place' \in [{TheTask} -> Q!Places] /\ holder' = holder
      /\ place'[TheTask] # place[TheTask] => Q!Holds(d, TheTask)
      /\ place'[TheTask] = "absent" => place[TheTask] = "absent" \/ At(d, "ack")
  <2>1. place \in [{TheTask} -> Q!Places]
    BY DEF ExecInv, ExecTypeOK
  <2>2. CASE Acknowledge(d)
    BY <2>1, <2>2 DEF Acknowledge, Settled, Q!Finish, Q!Places, queueVars
  <2>3. CASE Retry(d)
    BY <2>1, <2>3 DEF Retry, Settled, Q!GiveBack, Q!Places, queueVars
  <2> QED BY <2>2, <2>3
<1>3. IdleSlot \in SlotRecord
  BY RowReadable, BoundsAssumption DEF IdleSlot, FreshSlot, SlotRecord, SlotPc
<1>4. slots' \in [Slot -> SlotRecord] /\ OthersKept(d) /\ slots'[d] = IdleSlot
  BY <1>1, <1>3 DEF ExecInv, ExecTypeOK, SlotRecord, OthersKept
<1>5. slots'[d].pc = "idle" /\ slots'[d].snap = NoSnap
  BY <1>4 DEF IdleSlot, FreshSlot
<1>6. ExecTypeOK'
  BY <1>1, <1>2, <1>4 DEF ExecInv, ExecTypeOK, SlotRecord, dataVars, boundVars
<1>7. SlotReads' /\ OtherReads'
  BY <1>1, <1>4, <1>5 DEF ExecInv, SlotReads, OtherReads, CancelAt, OthersKept
<1>8. EndsOnce' /\ OneTerminalEvent'
  BY <1>1, <1>4, <1>5 DEF ExecInv, EndsOnce, OneTerminalEvent, ReaperEnds, At, CancelAt,
                          OthersKept, dataVars
<1>9. OwnerReads'
  BY <1>1, <1>4, <1>5, RowReadable
  DEF ExecInv, OwnerReads, OthersKept, At, IsOver, Matches, dataVars, NoSnap, boundVars
<1>10. faults' = 0 => CarriedThrough'
  <2> SUFFICES ASSUME faults = 0, faults' = 0 PROVE CarriedThrough'
    BY <1>1 DEF boundVars
  <2>1. CarriedThrough /\ \A e \in Slot : e # d => At(e, "idle")
    BY <1>1, OnlyHolderBusy DEF ExecInv, At
  <2>2. row.status \in Active => ~At(d, "ack")
    BY <2>1, RowReadable DEF CarriedThrough
  <2>3. \A e \in Slot : slots'[e].pc = "idle"
    BY <1>4, <1>5, <2>1 DEF OthersKept, At
  <2> QED
    BY <1>1, <1>2, <2>1, <2>2, <2>3
    DEF CarriedThrough, At, CancelAt, ReaperEnds, dataVars
<1> QED BY <1>6, <1>7, <1>8, <1>9, <1>10 DEF ExecInv

-----------------------------------------------------------------------------
(* The writes of the row.  Every one takes the next fencing token, so what   *)
(* any other handler has read no longer matches; each either is by the owner *)
(* or ends the Run's active work.                                            *)
LEMMA BumpedRow ==
  ASSUME ExecInv, NEW snap, NEW target \in Status, Matches(row, snap)
  PROVE  /\ Bumped(snap, target) \in RowType
         /\ Bumped(snap, target).status = target
         /\ Bumped(snap, target).token = row.token + 1
BY RowReadable DEF Bumped, Matches, RowType

(* An active row has no terminal event yet, so its end may be the first.     *)
LEMMA NothingPublished ==
  ASSUME ExecInv, row.status \in Active
  PROVE  /\ published = <<>> /\ ~ReaperEnds
         /\ \A d \in Slot : ~At(d, "emit")
         /\ \A k \in Canceller : ~CancelAt(k, "emit")
         /\ OneTerminalEvent
BY DEF ExecInv, EndsOnce

LEMMA ClaimInv == ASSUME ExecInv, NEW d \in Slot, Claim(d) PROVE ExecInv'
<1> DEFINE snap == slots[d].snap
           target == IF snap.status = "queued" THEN "provisioning" ELSE snap.status
<1>1. /\ At(d, "claim") /\ ~At(d, "idle") /\ ~At(d, "emit") /\ ~At(d, "leave")
      /\ UNCHANGED <<published, children, quotaHeld, queueVars, cancels, reaper, creating,
                     boundVars>>
      /\ children \subseteq 1..MaxDeliveries
  BY DEF Claim, At, ExecInv, ExecTypeOK
<1>2. /\ snap \in RowType /\ snap.status \in {"queued", "provisioning", "running"}
      /\ target \in {"provisioning", "running"}
      /\ owner = d \/ faults = 0 => Matches(row, snap) \/ IsOver
  BY <1>1, RowReadable DEF SlotWell, SlotRecord, At
<1>3. CASE ~Matches(row, snap)
  BY <1>1, <1>2, <1>3, PlainGo DEF Claim, SlotPc
<1>4. CASE Matches(row, snap)
  <2>1. /\ row' = Bumped(snap, target) /\ owner' = d
        /\ GoWith(d, "provision", row', "none", FALSE, slots[d].resume)
    BY <1>4 DEF Claim
  <2>2. /\ row' \in RowType /\ row'.status = target /\ row'.token = row.token + 1
        /\ row.status \in Active
    BY <1>2, <1>4, <2>1, BumpedRow DEF Matches, Active, Status
  <2>3. ExecTypeOK /\ slots[d].resume \in BOOLEAN
    BY RowReadable DEF ExecInv, SlotRecord
  <2>4. /\ slots' \in [Slot -> SlotRecord] /\ OthersKept(d)
        /\ slots'[d].pc = "provision" /\ slots'[d].snap = row' /\ slots'[d].exec # 0
    BY <1>1, <2>1, <2>2, <2>3, RowReadable
    DEF GoWith, ExecTypeOK, SlotRecord, OthersKept, SlotPc
  <2>5. ExecTypeOK'
    BY <1>1, <2>1, <2>2, <2>3, <2>4
    DEF ExecTypeOK, SlotRecord, queueVars, boundVars
  <2>6. SlotReads' /\ OtherReads'
    BY <1>1, <1>2, <2>2, <2>4 DEF ExecInv, SlotReads, OtherReads, CancelAt, OthersKept
  <2>7. EndsOnce' /\ OneTerminalEvent'
    BY <1>1, <2>2, <2>4, NothingPublished
    DEF EndsOnce, OneTerminalEvent, ReaperEnds, At, CancelAt, OthersKept
  <2>8. OwnerReads'
    <3>1. \A e \in Slot : e # d =>
            /\ slots'[e].snap.token \in Nat /\ slots'[e].snap.token < row'.token
            /\ owner' # e /\ (faults' = 0 => slots'[e].pc = "idle")
      BY <1>1, <2>1, <2>2, <2>4, RowReadable, OnlyHolderBusy
      DEF SlotWell, SlotRecord, RowType, OthersKept, At, boundVars
    <3>2. Matches(row', slots'[d].snap) /\ slots'[d].snap.token = row'.token /\ owner' = d
          /\ row'.token \in Nat
      BY <2>1, <2>2, <2>4 DEF Matches, RowType
    <3> QED BY <2>4, <3>1, <3>2 DEF OwnerReads, At
  <2>9. faults' = 0 => CarriedThrough'
    BY <1>1, <1>2, <2>2, <2>4
    DEF ExecInv, CarriedThrough, At, CancelAt, Q!Holds, ReaperEnds, OthersKept, Active,
        Terminal, queueVars, boundVars
  <2> QED BY <2>5, <2>6, <2>7, <2>8, <2>9 DEF ExecInv
<1> QED BY <1>3, <1>4

LEMMA BeginInv == ASSUME ExecInv, NEW d \in Slot, Begin(d) PROVE ExecInv'
<1> DEFINE snap == slots[d].snap
<1>1. /\ At(d, "begin") /\ ~At(d, "idle") /\ ~At(d, "emit") /\ ~At(d, "leave")
      /\ UNCHANGED <<published, children, quotaHeld, queueVars, cancels, reaper, creating,
                     owner, boundVars>>
      /\ children \subseteq 1..MaxDeliveries
  BY DEF Begin, At, ExecInv, ExecTypeOK
<1>2. /\ snap \in RowType /\ snap.status \in {"provisioning", "running"}
      /\ owner = d \/ faults = 0 => Matches(row, snap) \/ IsOver
      /\ snap.token = row.token => owner = d
  BY <1>1, RowReadable DEF SlotWell, SlotRecord, At
<1>3. CASE slots[d].resume /\ Go(d, "stream") /\ UNCHANGED row
  BY <1>1, <1>3, PlainGo DEF SlotPc
<1>4. CASE ~Matches(row, snap) /\ Go(d, "conflict") /\ UNCHANGED row
  BY <1>1, <1>2, <1>4, PlainGo DEF SlotPc
<1>5. CASE Matches(row, snap) /\ row' = Bumped(snap, "running") /\ Go(d, "stream")
  <2>1. /\ row' \in RowType /\ row'.status = "running" /\ row'.token = row.token + 1
        /\ row.status \in Active /\ owner = d
    BY <1>2, <1>5, BumpedRow DEF Matches, Active, Status
  <2>2. /\ slots' \in [Slot -> SlotRecord] /\ OthersKept(d)
        /\ slots'[d].pc = "stream" /\ slots'[d].snap = NoSnap /\ slots'[d].exec # 0
    BY <1>1, <1>5, RowReadable
    DEF Go, GoWith, ExecInv, ExecTypeOK, SlotRecord, OthersKept, SlotPc
  <2>3. ExecTypeOK'
    BY <1>1, <2>1, <2>2 DEF ExecInv, ExecTypeOK, SlotRecord, queueVars, boundVars
  <2>4. SlotReads' /\ OtherReads'
    BY <1>1, <2>1, <2>2 DEF ExecInv, SlotReads, OtherReads, CancelAt, OthersKept
  <2>5. EndsOnce' /\ OneTerminalEvent'
    BY <1>1, <2>1, <2>2, NothingPublished
    DEF EndsOnce, OneTerminalEvent, ReaperEnds, At, CancelAt, OthersKept
  <2>6. OwnerReads'
    <3>1. \A e \in Slot : e # d =>
            /\ slots'[e].snap.token \in Nat /\ slots'[e].snap.token < row'.token
            /\ owner' # e /\ (faults' = 0 => slots'[e].pc = "idle")
      BY <1>1, <2>1, <2>2, RowReadable, OnlyHolderBusy
      DEF SlotWell, SlotRecord, RowType, OthersKept, At, boundVars
    <3>2. slots'[d].snap.token <= row'.token /\ row'.token \in Nat
      BY <2>1, <2>2 DEF NoSnap, RowType
    <3> QED BY <2>2, <3>1, <3>2 DEF OwnerReads, At
  <2>7. faults' = 0 => CarriedThrough'
    BY <1>1, <2>1, <2>2
    DEF ExecInv, CarriedThrough, At, CancelAt, Q!Holds, ReaperEnds, OthersKept, Active,
        Terminal, queueVars, boundVars
  <2> QED BY <2>3, <2>4, <2>5, <2>6, <2>7 DEF ExecInv
<1> QED BY <1>3, <1>4, <1>5 DEF Begin

(* Once the row is cancelling or terminal, what the handlers have read no    *)
(* longer matters.                                                           *)
LEMMA OverReads ==
  ASSUME ExecInv, row' \in RowType, row'.token = row.token + 1, IsOver',
         \A e \in Slot : slots'[e] = slots[e] \/ (/\ slots'[e].snap = NoSnap
                                                 /\ slots'[e].pc = "emit")
  PROVE  OwnerReads'
<1>1. \A e \in Slot : /\ slots[e].snap.token \in Nat /\ slots[e].snap.token <= row.token
                      /\ row.token \in Nat /\ NoSnap.token = 0
  BY RowReadable DEF SlotRecord, RowType, SlotWell, NoSnap
<1>2. \A e \in Slot : slots'[e].snap.token < row'.token \/ slots'[e].pc = "emit"
  BY <1>1
<1>3. \A e \in Slot : slots'[e].snap.token <= row'.token
  BY <1>1
<1>4. \A e \in Slot : slots'[e].pc \in {"provision", "begin"} =>
        slots'[e].snap.token # row'.token
  BY <1>1, <1>2
<1> QED BY <1>3, <1>4 DEF OwnerReads, At

LEMMA FinishInv == ASSUME ExecInv, NEW d \in Slot, Finish(d) PROVE ExecInv'
<1> DEFINE s == slots[d]
<1>1. /\ At(d, "finish") /\ ~At(d, "idle") /\ ~At(d, "emit") /\ ~At(d, "leave")
      /\ UNCHANGED <<published, children, quotaHeld, queueVars, cancels, reaper, creating,
                     owner, boundVars>>
      /\ children \subseteq 1..MaxDeliveries
  BY DEF Finish, At, ExecInv, ExecTypeOK
<1>2. /\ s.target \in {"cancelled", "succeeded", "failed", "timed_out"}
      /\ s.caught \in BOOLEAN
      /\ owner = d \/ faults = 0 => Matches(row, s.snap) \/ IsOver
  BY <1>1, RowReadable DEF SlotWell, SlotRecord, At
<1>3. CASE /\ CanMove(s.snap.status, s.target) /\ Matches(row, s.snap)
           /\ row' = Bumped(s.snap, s.target)
           /\ GoWith(d, "emit", NoSnap, s.target, s.caught, FALSE)
  <2>1. /\ row' \in RowType /\ row'.status = s.target /\ row'.token = row.token + 1
        /\ row.status \in Active /\ IsOver' /\ row'.status \in Terminal
        /\ s.target \in Status /\ row'.status \notin Active
    BY <1>2, <1>3, BumpedRow DEF Matches, CanMove, IsOver, Terminal, Active, Status
  <2>2. /\ slots' \in [Slot -> SlotRecord] /\ OthersKept(d)
        /\ slots'[d].pc = "emit" /\ slots'[d].snap = NoSnap /\ slots'[d].target = row'.status
        /\ slots'[d].exec # 0
    BY <1>1, <1>2, <1>3, <2>1, RowReadable
    DEF GoWith, ExecInv, ExecTypeOK, SlotRecord, OthersKept, SlotPc
  <2>3. ExecTypeOK'
    BY <1>1, <2>1, <2>2 DEF ExecInv, ExecTypeOK, SlotRecord, queueVars, boundVars
  <2>4. SlotReads' /\ OtherReads'
    BY <1>1, <2>1, <2>2 DEF ExecInv, SlotReads, OtherReads, CancelAt, OthersKept
  <2>5. EndsOnce' /\ OneTerminalEvent'
    BY <1>1, <2>1, <2>2, NothingPublished
    DEF EndsOnce, OneTerminalEvent, ReaperEnds, At, CancelAt, OthersKept
  <2>6. OwnerReads'
    BY <2>1, <2>2, OverReads DEF OthersKept
  <2>7. faults' = 0 => CarriedThrough'
    <3> SUFFICES ASSUME faults = 0, faults' = 0 PROVE CarriedThrough'
      BY <1>1 DEF boundVars
    <3>1. CarriedThrough /\ \A e \in Slot : e # d => At(e, "idle")
      BY <1>1, OnlyHolderBusy DEF ExecInv
    <3>2. row'.status # "waiting_approval"
      BY <2>1 DEF Terminal
    <3> QED
      BY <1>1, <2>1, <2>2, <3>1, <3>2
      DEF CarriedThrough, At, CancelAt, Q!Holds, ReaperEnds, OthersKept, queueVars
  <2> QED BY <2>3, <2>4, <2>5, <2>6, <2>7 DEF ExecInv
<1>4. CASE /\ ~Matches(row, s.snap) /\ UNCHANGED row
           /\ IF s.caught THEN Raise(d) ELSE Go(d, "conflict")
  BY <1>1, <1>2, <1>4, PlainGo DEF Raise, SlotPc
<1>5. CASE /\ ~CanMove(s.snap.status, s.target) /\ UNCHANGED row
           /\ IF s.caught THEN Raise(d) ELSE Go(d, "unexpected")
  BY <1>1, <1>2, <1>5, PlainGo DEF Raise, SlotPc
<1> QED BY <1>3, <1>4, <1>5 DEF Finish

(* The terminal event of the one who won, appended to an empty log.          *)
LEMMA PublishFirst ==
  ASSUME ExecInv, published = <<>>, NEW by \in {"worker", "api", "reaper"},
         row.status \in Terminal, Publish(row.status, by)
  PROVE  /\ published' \in Seq([status : Terminal, by : {"worker", "api", "reaper", "approval"}])
         /\ Len(published') = 1 /\ published' # <<>> /\ DOMAIN published' = {1}
         /\ published'[1] = [status |-> row.status, by |-> by]
BY DEF Publish

LEMMA EmitInv == ASSUME ExecInv, NEW d \in Slot, Emit(d) PROVE ExecInv'
<1>1. /\ At(d, "emit")
      /\ UNCHANGED <<row, children, quotaHeld, queueVars, cancels, reaper, creating, owner,
                     boundVars>>
      /\ published = <<>> /\ slots[d].target = row.status /\ row.status \in Terminal
      /\ row.status \notin Active /\ ~ReaperEnds
      /\ \A e \in Slot : At(e, "emit") => e = d
      /\ \A k \in Canceller : ~CancelAt(k, "emit")
  BY RowReadable DEF Emit, ExecInv, EndsOnce, Status
<1>2. /\ published' \in Seq([status : Terminal, by : {"worker", "api", "reaper", "approval"}])
      /\ Len(published') = 1 /\ published' # <<>> /\ DOMAIN published' = {1}
      /\ published'[1].status = row.status
  BY <1>1, PublishFirst DEF Emit
<1>3. /\ slots' \in [Slot -> SlotRecord] /\ OthersKept(d)
      /\ slots'[d].pc = "leave" /\ slots'[d].snap = NoSnap /\ slots'[d].target = row.status
      /\ slots'[d].exec # 0
  BY <1>1, RowReadable
  DEF Emit, Return, GoWith, ExecInv, ExecTypeOK, SlotRecord, OthersKept, SlotPc, Status, At
<1>4. ExecTypeOK'
  BY <1>1, <1>2, <1>3 DEF ExecInv, ExecTypeOK, SlotRecord, queueVars, boundVars
<1>5. SlotReads' /\ OtherReads'
  BY <1>1, <1>3 DEF ExecInv, SlotReads, OtherReads, CancelAt, OthersKept
<1>6. EndsOnce' /\ OneTerminalEvent'
  BY <1>1, <1>2, <1>3 DEF EndsOnce, OneTerminalEvent, ReaperEnds, At, CancelAt, OthersKept
<1>7. OwnerReads'
  BY <1>1, <1>3, RowReadable
  DEF ExecInv, OwnerReads, OthersKept, At, IsOver, Matches, NoSnap, boundVars
<1>8. faults' = 0 => CarriedThrough'
  BY <1>1, <1>2, <1>3
  DEF ExecInv, CarriedThrough, At, CancelAt, Q!Holds, ReaperEnds, OthersKept, queueVars,
      boundVars
<1> QED BY <1>4, <1>5, <1>6, <1>7, <1>8 DEF ExecInv

LEMMA LeaveInv == ASSUME ExecInv, NEW d \in Slot, Leave(d) PROVE ExecInv'
<1>1. /\ At(d, "leave") /\ Go(d, "ack")
      /\ quotaHeld' = (quotaHeld /\ slots[d].target \notin Terminal)
      /\ UNCHANGED <<row, published, children, queueVars, cancels, reaper, creating, owner,
                     boundVars>>
  BY DEF Leave
<1>2. /\ slots' \in [Slot -> SlotRecord] /\ OthersKept(d)
      /\ slots'[d].pc = "ack" /\ slots'[d].snap = NoSnap /\ slots'[d].exec # 0
  BY <1>1, RowReadable
  DEF Go, GoWith, ExecInv, ExecTypeOK, SlotRecord, OthersKept, SlotPc, At
<1>3. ExecTypeOK'
  BY <1>1, <1>2 DEF ExecInv, ExecTypeOK, SlotRecord, queueVars, boundVars
<1>4. SlotReads' /\ OtherReads'
  BY <1>1, <1>2 DEF ExecInv, SlotReads, OtherReads, CancelAt, OthersKept
<1>5. EndsOnce' /\ OneTerminalEvent'
  BY <1>1, <1>2 DEF ExecInv, EndsOnce, OneTerminalEvent, ReaperEnds, At, CancelAt, OthersKept
<1>6. OwnerReads'
  BY <1>1, <1>2, RowReadable
  DEF ExecInv, OwnerReads, OthersKept, At, IsOver, Matches, NoSnap, boundVars
<1>7. faults' = 0 => CarriedThrough'
  BY <1>1, <1>2
  DEF ExecInv, CarriedThrough, At, CancelAt, Q!Holds, ReaperEnds, OthersKept, queueVars,
      boundVars
<1> QED BY <1>3, <1>4, <1>5, <1>6, <1>7 DEF ExecInv

-----------------------------------------------------------------------------
(* The cancel requests.                                                      *)
CancelRecord ==
  [pc : {"idle", "request", "terminate", "emit", "release", "done"}, snap : RowType,
   from : Status \cup {"none"}]

OtherCancels(k) == \A j \in Canceller : j # k => cancels'[j] = cancels[j]

LEMMA CancelEffect ==
  ASSUME ExecInv, NEW k \in Canceller, NEW snap \in RowType,
         NEW pc \in {"idle", "request", "terminate", "emit", "release", "done"},
         NEW from \in Status \cup {"none"}, CancelGo(k, pc, snap, from)
  PROVE  /\ cancels' \in [Canceller -> CancelRecord] /\ OtherCancels(k)
         /\ cancels'[k].pc = pc /\ cancels'[k].snap = snap
<1>1. cancels \in [Canceller -> CancelRecord]
  BY DEF ExecInv, ExecTypeOK, CancelRecord
<1> QED BY <1>1 DEF CancelGo, CancelRecord, OtherCancels

(* A step of a request that leaves the row and the log alone, and does not   *)
(* forget an end it still has to carry through.                              *)
LEMMA CancelMoves ==
  ASSUME ExecInv, NEW k \in Canceller, cancels' \in [Canceller -> CancelRecord],
         OtherCancels(k),
         UNCHANGED <<row, published, children, queueVars, slots, reaper, creating, owner,
                     deliveries>>,
         faults' \in 0..MaxFaults, faults <= faults',
         quotaHeld' = quotaHeld \/ quotaHeld' = FALSE,
         cancels'[k].pc # "emit",
         cancels'[k].pc = "request" => cancels'[k].snap.status \in Active \ {"cancelling"},
         cancels'[k].pc = "terminate" => cancels'[k].snap.status = "cancelling",
         faults' = 0 => ~CancelAt(k, "emit") /\ (CancelAt(k, "release") => ~quotaHeld')
  PROVE  ExecInv'
<1>1. ExecTypeOK'
  BY DEF ExecInv, ExecTypeOK, CancelRecord, queueVars
<1>2. SlotReads' /\ OtherReads'
  BY DEF ExecInv, SlotReads, OtherReads, CancelAt, OtherCancels
<1>3. EndsOnce' /\ OneTerminalEvent'
  BY DEF ExecInv, EndsOnce, OneTerminalEvent, ReaperEnds, At, CancelAt, OtherCancels
<1>4. faults' = 0 => faults = 0
  BY DEF ExecInv, ExecTypeOK
<1>5. OwnerReads'
  BY <1>4 DEF ExecInv, OwnerReads, At, IsOver, Matches
<1>6. faults' = 0 => CarriedThrough'
  BY <1>4
  DEF ExecInv, CarriedThrough, At, CancelAt, Q!Holds, ReaperEnds, OtherCancels, queueVars
<1> QED BY <1>1, <1>2, <1>3, <1>5, <1>6 DEF ExecInv

LEMMA CancelReadInv == ASSUME ExecInv, NEW k \in Canceller, CancelRead(k) PROVE ExecInv'
<1>1. /\ CancelAt(k, "idle")
      /\ UNCHANGED <<row, published, children, queueVars, slots, reaper, creating, owner,
                     boundVars>>
      /\ faults' = faults /\ deliveries' = deliveries /\ faults \in 0..MaxFaults
      /\ faults <= faults'
      /\ ~CancelAt(k, "emit") /\ ~CancelAt(k, "release")
  BY BoundsAssumption DEF CancelRead, CancelAt, boundVars, ExecInv, ExecTypeOK
<1>2. CASE CancelDone(k) /\ (quotaHeld' = quotaHeld \/ quotaHeld' = FALSE)
  <2>1. /\ cancels' \in [Canceller -> CancelRecord] /\ OtherCancels(k)
        /\ cancels'[k].pc = "done"
    BY <1>2, RowReadable, CancelEffect DEF CancelDone
  <2> QED BY <1>1, <1>2, <2>1, CancelMoves
<1>3. CASE /\ row.status \in Active \ {"cancelling"}
           /\ CancelGo(k, "request", row, row.status) /\ UNCHANGED quotaHeld
  <2>1. /\ cancels' \in [Canceller -> CancelRecord] /\ OtherCancels(k)
        /\ cancels'[k].pc = "request" /\ cancels'[k].snap = row
    BY <1>3, RowReadable, CancelEffect
  <2> QED BY <1>1, <1>3, <2>1, CancelMoves
<1> QED BY <1>2, <1>3 DEF CancelRead

(* The row moves to cancelling, or from there to cancelled.                  *)
LEMMA CancelWrites ==
  ASSUME ExecInv, NEW k \in Canceller,
         cancels' \in [Canceller -> CancelRecord], OtherCancels(k),
         UNCHANGED <<published, children, quotaHeld, queueVars, slots, reaper, creating,
                     owner, boundVars>>,
         ~CancelAt(k, "emit"), ~CancelAt(k, "release"),
         row' \in RowType, row'.token = row.token + 1, row.status \in Active,
         \/ row'.status = "cancelling" /\ cancels'[k].pc \in {"done", "terminate"}
         \/ row'.status = "cancelled" /\ cancels'[k].pc = "emit",
         cancels'[k].pc = "terminate" => cancels'[k].snap.status = "cancelling"
  PROVE  ExecInv'
<1>1. ExecTypeOK'
  BY DEF ExecInv, ExecTypeOK, CancelRecord, queueVars, boundVars
<1>2. SlotReads' /\ OtherReads'
  BY DEF ExecInv, SlotReads, OtherReads, CancelAt, OtherCancels
<1>3. EndsOnce' /\ OneTerminalEvent'
  BY NothingPublished
  DEF EndsOnce, OneTerminalEvent, ReaperEnds, At, CancelAt, OtherCancels, Active
<1>4. OwnerReads'
  BY OverReads DEF IsOver, Terminal
<1>5. faults' = 0 => CarriedThrough'
  <2> SUFFICES ASSUME faults = 0, faults' = 0 PROVE CarriedThrough'
    BY DEF boundVars
  <2>1. CarriedThrough
    BY DEF ExecInv
  <2>2. row.status \notin Terminal
    BY RowReadable
  <2>3. row'.status = "cancelling" => row'.status \in Active /\ row'.status \notin Terminal
    BY DEF Active, Terminal
  <2>4. row'.status = "cancelled" => row'.status \notin Active /\ row'.status \in Terminal
    BY DEF Active, Terminal
  <2>5. \A d \in Slot : ~At(d, "leave") /\ ~At(d, "ack")
    BY <2>1, <2>2 DEF CarriedThrough
  <2> QED
    BY <2>1, <2>2, <2>3, <2>4, <2>5
    DEF CarriedThrough, At, CancelAt, Q!Holds, ReaperEnds, OtherCancels, queueVars
<1> QED BY <1>1, <1>2, <1>3, <1>4, <1>5 DEF ExecInv

LEMMA CancelRequestInv == ASSUME ExecInv, NEW k \in Canceller, CancelRequest(k) PROVE ExecInv'
<1> DEFINE snap == cancels[k].snap
<1>1. /\ CancelAt(k, "request") /\ ~CancelAt(k, "emit") /\ ~CancelAt(k, "release")
      /\ snap.status \in Active \ {"cancelling"}
      /\ UNCHANGED <<published, children, quotaHeld, queueVars, slots, reaper, creating,
                     owner, boundVars>>
      /\ faults' = faults /\ deliveries' = deliveries /\ faults \in 0..MaxFaults
      /\ faults <= faults'
  BY BoundsAssumption
  DEF CancelRequest, CancelAt, ExecInv, ExecTypeOK, OtherReads, boundVars
<1>2. ASSUME NEW after \in RowType, after.status = "cancelling", AfterRequest(k, after)
      PROVE  /\ cancels' \in [Canceller -> CancelRecord] /\ OtherCancels(k)
             /\ cancels'[k].pc \in {"done", "terminate"}
             /\ cancels'[k].pc = "terminate" => cancels'[k].snap.status = "cancelling"
  <2>1. CancelDone(k) \/ CancelGo(k, "terminate", after, "none")
    BY <1>2 DEF AfterRequest
  <2> QED BY <1>2, <2>1, RowReadable, CancelEffect DEF CancelDone
<1>3. CASE Matches(row, snap) /\ row' = Bumped(snap, "cancelling") /\ AfterRequest(k, row')
  <2>1. /\ row' \in RowType /\ row'.status = "cancelling" /\ row'.token = row.token + 1
        /\ row.status \in Active
    BY <1>1, <1>3, BumpedRow DEF Matches, Active, Status
  <2>2. /\ cancels' \in [Canceller -> CancelRecord] /\ OtherCancels(k)
        /\ cancels'[k].pc \in {"done", "terminate"}
        /\ cancels'[k].pc = "terminate" => cancels'[k].snap.status = "cancelling"
    BY <1>2, <1>3, <2>1
  <2> QED BY <1>1, <2>1, <2>2, CancelWrites
<1>4. CASE row.status = "cancelling" /\ AfterRequest(k, row) /\ UNCHANGED row
  <2>1. /\ cancels' \in [Canceller -> CancelRecord] /\ OtherCancels(k)
        /\ cancels'[k].pc \in {"done", "terminate"}
        /\ cancels'[k].pc = "terminate" => cancels'[k].snap.status = "cancelling"
    BY <1>2, <1>4, RowReadable
  <2> QED BY <1>1, <1>4, <2>1, CancelMoves
<1>5. CASE CancelDone(k) /\ UNCHANGED row
  <2>1. /\ cancels' \in [Canceller -> CancelRecord] /\ OtherCancels(k)
        /\ cancels'[k].pc = "done"
    BY <1>5, RowReadable, CancelEffect DEF CancelDone
  <2> QED BY <1>1, <1>5, <2>1, CancelMoves
<1> QED BY <1>3, <1>4, <1>5 DEF CancelRequest

LEMMA CancelTerminateInv ==
  ASSUME ExecInv, NEW k \in Canceller, CancelTerminate(k)
  PROVE  ExecInv'
<1> DEFINE snap == cancels[k].snap
<1>1. /\ CancelAt(k, "terminate") /\ ~CancelAt(k, "emit") /\ ~CancelAt(k, "release")
      /\ snap.status = "cancelling"
      /\ UNCHANGED <<published, children, quotaHeld, queueVars, slots, reaper, creating,
                     owner, boundVars>>
      /\ faults' = faults /\ deliveries' = deliveries /\ faults \in 0..MaxFaults
      /\ faults <= faults'
  BY BoundsAssumption
  DEF CancelTerminate, CancelAt, ExecInv, ExecTypeOK, OtherReads, boundVars
<1>2. CASE /\ Matches(row, snap) /\ row' = Bumped(snap, "cancelled")
           /\ CancelGo(k, "emit", NoSnap, "none")
  <2>1. /\ row' \in RowType /\ row'.status = "cancelled" /\ row'.token = row.token + 1
        /\ row.status \in Active
    BY <1>1, <1>2, BumpedRow DEF Matches, Active, Status, Terminal
  <2>2. /\ cancels' \in [Canceller -> CancelRecord] /\ OtherCancels(k)
        /\ cancels'[k].pc = "emit"
    BY <1>2, RowReadable, CancelEffect
  <2> QED BY <1>1, <2>1, <2>2, CancelWrites
<1>3. CASE CancelDone(k) /\ UNCHANGED row
  <2>1. /\ cancels' \in [Canceller -> CancelRecord] /\ OtherCancels(k)
        /\ cancels'[k].pc = "done"
    BY <1>3, RowReadable, CancelEffect DEF CancelDone
  <2> QED BY <1>1, <1>3, <2>1, CancelMoves
<1> QED BY <1>2, <1>3 DEF CancelTerminate

LEMMA CancelEmitInv == ASSUME ExecInv, NEW k \in Canceller, CancelEmit(k) PROVE ExecInv'
<1>1. /\ CancelAt(k, "emit")
      /\ UNCHANGED <<row, children, quotaHeld, queueVars, slots, reaper, creating, owner,
                     boundVars>>
      /\ published = <<>> /\ row.status = "cancelled" /\ row.status \in Terminal
      /\ row.status \notin Active /\ ~ReaperEnds
      /\ \A e \in Slot : ~At(e, "emit")
      /\ \A j \in Canceller : CancelAt(j, "emit") => j = k
  BY RowReadable DEF CancelEmit, ExecInv, EndsOnce, Active, Terminal
<1>2. /\ published' \in Seq([status : Terminal, by : {"worker", "api", "reaper", "approval"}])
      /\ Len(published') = 1 /\ published' # <<>> /\ DOMAIN published' = {1}
      /\ published'[1].status = row.status
  BY <1>1, PublishFirst DEF CancelEmit
<1>3. /\ cancels' \in [Canceller -> CancelRecord] /\ OtherCancels(k)
      /\ cancels'[k].pc = "release"
  BY RowReadable, CancelEffect DEF CancelEmit
<1>4. ExecTypeOK'
  BY <1>1, <1>2, <1>3 DEF ExecInv, ExecTypeOK, CancelRecord, queueVars, boundVars
<1>5. SlotReads' /\ OtherReads'
  BY <1>1, <1>3 DEF ExecInv, SlotReads, OtherReads, CancelAt, OtherCancels
<1>6. EndsOnce' /\ OneTerminalEvent'
  BY <1>1, <1>2, <1>3 DEF EndsOnce, OneTerminalEvent, ReaperEnds, At, CancelAt, OtherCancels
<1>7. OwnerReads'
  BY <1>1 DEF ExecInv, OwnerReads, At, IsOver, Matches, boundVars
<1>8. faults' = 0 => CarriedThrough'
  BY <1>1, <1>2, <1>3
  DEF ExecInv, CarriedThrough, At, CancelAt, Q!Holds, ReaperEnds, OtherCancels, queueVars,
      boundVars
<1> QED BY <1>4, <1>5, <1>6, <1>7, <1>8 DEF ExecInv

LEMMA CancelEndInv ==
  ASSUME ExecInv, NEW k \in Canceller, CancelRelease(k) \/ CancelCrash(k)
  PROVE  ExecInv'
<1>1. /\ CancelDone(k) /\ (quotaHeld' = quotaHeld \/ quotaHeld' = FALSE)
      /\ UNCHANGED <<row, published, children, queueVars, slots, reaper, creating, owner,
                     deliveries>>
  BY DEF CancelRelease, CancelCrash, dataVars, boundVars
<1>2. /\ faults' \in 0..MaxFaults /\ faults <= faults'
      /\ faults' = 0 => ~CancelAt(k, "emit") /\ ~quotaHeld'
  <2>1. faults \in 0..MaxFaults
    BY DEF ExecInv, ExecTypeOK
  <2>2. CASE CancelRelease(k)
    BY <2>1, <2>2, BoundsAssumption DEF CancelRelease, CancelAt, boundVars
  <2>3. CASE CancelCrash(k)
    BY <2>1, <2>3, BoundsAssumption DEF CancelCrash, Fault
  <2> QED BY <2>2, <2>3
<1>3. /\ cancels' \in [Canceller -> CancelRecord] /\ OtherCancels(k)
      /\ cancels'[k].pc = "done"
  BY <1>1, RowReadable, CancelEffect DEF CancelDone
<1> QED BY <1>1, <1>2, <1>3, CancelMoves

-----------------------------------------------------------------------------
(* The reaper, and the end of RunService.create.                             *)
ReaperRecord == [pc : {"idle", "move", "finalize", "release"}, snap : RowType]

(* A step of the reaper that leaves the row and the log alone, and does not  *)
(* forget an end it still has to carry through.                              *)
LEMMA ReaperMoves ==
  ASSUME ExecInv, reaper' \in ReaperRecord,
         UNCHANGED <<row, published, children, queueVars, slots, cancels, creating, owner,
                     deliveries>>,
         faults' \in 0..MaxFaults, faults <= faults',
         quotaHeld' = quotaHeld \/ quotaHeld' = FALSE,
         reaper'.pc = "move" => reaper'.snap.status \in Active,
         ReaperEnds' => ReaperEnds,
         faults' = 0 => reaper.pc # "finalize" /\ (ReaperEnds => ~quotaHeld')
  PROVE  ExecInv'
<1>1. ExecTypeOK'
  BY DEF ExecInv, ExecTypeOK, ReaperRecord, queueVars
<1>2. SlotReads' /\ OtherReads'
  BY DEF ExecInv, SlotReads, OtherReads, CancelAt
<1>3. EndsOnce' /\ OneTerminalEvent'
  BY DEF ExecInv, EndsOnce, OneTerminalEvent, At, CancelAt
<1>4. faults' = 0 => faults = 0
  BY DEF ExecInv, ExecTypeOK
<1>5. OwnerReads'
  BY <1>4 DEF ExecInv, OwnerReads, At, IsOver, Matches
<1>6. faults' = 0 => CarriedThrough'
  BY <1>4
  DEF ExecInv, CarriedThrough, At, CancelAt, Q!Holds, queueVars
<1> QED BY <1>1, <1>2, <1>3, <1>5, <1>6 DEF ExecInv

LEMMA ReaperStepInv ==
  ASSUME ExecInv, ReapRead \/ ReapRelease \/ ReapFinalizeFails \/ ReaperCrash
  PROVE  ExecInv'
<1>1. /\ reaper \in ReaperRecord /\ faults \in 0..MaxFaults /\ row \in RowType
      /\ NoSnap \in RowType
  BY RowReadable DEF ExecInv, ExecTypeOK, ReaperRecord
<1>2. CASE ReapRead
  BY <1>1, <1>2, BoundsAssumption, ReaperMoves
  DEF ReapRead, ReaperEnds, ReaperRecord, dataVars, boundVars
<1>3. CASE ReapRelease
  <2>1. /\ reaper' \in ReaperRecord /\ ~ReaperEnds' /\ reaper'.pc # "move"
        /\ quotaHeld' = FALSE /\ reaper.pc # "finalize"
    BY <1>1, <1>3 DEF ReapRelease, ReaperEnds, ReaperRecord, IdleReaper
  <2>2. /\ faults' \in 0..MaxFaults /\ faults <= faults'
        /\ UNCHANGED <<row, published, children, queueVars, slots, cancels, creating, owner,
                       deliveries>>
    BY <1>1, <1>3, BoundsAssumption DEF ReapRelease, boundVars
  <2> QED BY <2>1, <2>2, ReaperMoves
<1>4. CASE ReapFinalizeFails \/ ReaperCrash
  <2>1. /\ reaper' \in ReaperRecord /\ reaper'.pc # "move" /\ (ReaperEnds' => ReaperEnds)
        /\ UNCHANGED <<dataVars, queueVars, slots, cancels, creating, owner, deliveries>>
        /\ Fault
    BY <1>1, <1>4
    DEF ReapFinalizeFails, ReaperCrash, ReaperEnds, ReaperRecord, IdleReaper
  <2>2. faults' \in 0..MaxFaults /\ faults <= faults' /\ faults' # 0
    BY <1>1, <2>1, BoundsAssumption DEF Fault
  <2> QED BY <2>1, <2>2, ReaperMoves DEF dataVars
<1> QED BY <1>2, <1>3, <1>4

LEMMA ReapMoveInv == ASSUME ExecInv, ReapMove PROVE ExecInv'
<1> DEFINE snap == reaper.snap
           target == IF snap.status = "cancelling" THEN "cancelled" ELSE "timed_out"
<1>1. /\ reaper.pc = "move" /\ snap.status \in Active /\ reaper \in ReaperRecord
      /\ NoSnap \in RowType
      /\ UNCHANGED <<published, children, quotaHeld, queueVars, slots, cancels, creating,
                     owner, boundVars>>
  BY RowReadable DEF ReapMove, ExecInv, ExecTypeOK, OtherReads, ReaperRecord
<1>2. CASE ~Matches(row, snap) /\ reaper' = IdleReaper /\ UNCHANGED row
  <2>1. /\ reaper' \in ReaperRecord /\ ~ReaperEnds /\ ~ReaperEnds' /\ reaper'.pc # "move"
        /\ reaper.pc # "finalize"
    BY <1>1, <1>2 DEF IdleReaper, ReaperRecord, ReaperEnds
  <2>2. faults' \in 0..MaxFaults /\ faults <= faults'
    BY <1>1, BoundsAssumption DEF ExecInv, ExecTypeOK, boundVars
  <2> QED BY <1>1, <1>2, <2>1, <2>2, ReaperMoves DEF boundVars
<1>3. CASE /\ Matches(row, snap) /\ row' = Bumped(snap, target)
           /\ reaper' = [IdleReaper EXCEPT !.pc = "finalize"]
  <2>1. /\ row' \in RowType /\ row'.status = target /\ row'.token = row.token + 1
        /\ row.status \in Active /\ row'.status \in Terminal /\ row'.status \notin Active
        /\ IsOver' /\ row'.status # "waiting_approval"
    BY <1>1, <1>3, BumpedRow DEF Matches, Active, Status, Terminal, IsOver
  <2>2. reaper' \in ReaperRecord /\ reaper'.pc = "finalize"
    BY <1>1, <1>3 DEF IdleReaper, ReaperRecord
  <2>3. ExecTypeOK'
    BY <1>1, <2>1, <2>2 DEF ExecInv, ExecTypeOK, ReaperRecord, queueVars, boundVars
  <2>4. SlotReads' /\ OtherReads'
    BY <1>1, <2>1, <2>2 DEF ExecInv, SlotReads, OtherReads, CancelAt
  <2>5. EndsOnce' /\ OneTerminalEvent'
    BY <1>1, <2>1, <2>2, NothingPublished
    DEF EndsOnce, OneTerminalEvent, ReaperEnds, At, CancelAt
  <2>6. OwnerReads'
    BY <1>1, <2>1, OverReads
  <2>7. faults' = 0 => CarriedThrough'
    BY <1>1, <2>1, <2>2
    DEF ExecInv, CarriedThrough, At, CancelAt, Q!Holds, ReaperEnds, queueVars, boundVars
  <2> QED BY <2>3, <2>4, <2>5, <2>6, <2>7 DEF ExecInv
<1> QED BY <1>2, <1>3 DEF ReapMove

(* The reaper ended this Run, or it repeats a finalization of its own: what  *)
(* is in the log is either nothing or its own event.                         *)
LEMMA ReapPublishInv == ASSUME ExecInv, ReapPublish PROVE ExecInv'
<1>1. /\ reaper.pc = "finalize" /\ ReaperEnds /\ row.status \in Terminal
      /\ row.status \notin Active
      /\ \A d \in Slot : ~At(d, "emit")
      /\ \A k \in Canceller : ~CancelAt(k, "emit")
      /\ \A i \in DOMAIN published : published[i].by = "reaper"
      /\ OneTerminalEvent /\ ExecTypeOK
      /\ UNCHANGED <<row, children, quotaHeld, queueVars, slots, cancels, creating, owner,
                     boundVars>>
  BY RowReadable DEF ReapPublish, ReaperEnds, ExecInv, EndsOnce, Status
<1>2. reaper' \in ReaperRecord /\ reaper'.pc = "release"
  BY RowReadable DEF ReapPublish, IdleReaper, ReaperRecord
<1>3. /\ published' \in Seq([status : Terminal, by : {"worker", "api", "reaper", "approval"}])
      /\ Len(published') = 1 /\ published' # <<>> /\ DOMAIN published' = {1}
      /\ published'[1].status = row.status /\ published'[1].by = "reaper"
  <2>1. CASE \E i \in DOMAIN published : published[i].by = "reaper"
    <3>1. /\ published' = published /\ DOMAIN published = 1..Len(published)
          /\ Len(published) \in Nat /\ Len(published) <= 1
          /\ published \in Seq([status : Terminal, by : {"worker", "api", "reaper", "approval"}])
      BY <1>1, <2>1 DEF ReapPublish, OneTerminalEvent, ExecTypeOK
    <3>2. Len(published) = 1
      BY <2>1, <3>1
    <3> QED BY <1>1, <3>1, <3>2 DEF OneTerminalEvent
  <2>2. CASE ~\E i \in DOMAIN published : published[i].by = "reaper"
    <3>1. published = <<>>
      BY <1>1, <2>2 DEF ExecTypeOK
    <3> QED BY <1>1, <2>2, <3>1, PublishFirst DEF ReapPublish
  <2> QED BY <2>1, <2>2
<1>4. ExecTypeOK'
  BY <1>1, <1>2, <1>3 DEF ExecTypeOK, ReaperRecord, queueVars, boundVars
<1>5. SlotReads' /\ OtherReads'
  BY <1>1, <1>2 DEF ExecInv, SlotReads, OtherReads, CancelAt
<1>6. EndsOnce' /\ OneTerminalEvent'
  BY <1>1, <1>2, <1>3 DEF EndsOnce, OneTerminalEvent, ReaperEnds, At, CancelAt
<1>7. OwnerReads'
  BY <1>1 DEF ExecInv, OwnerReads, At, IsOver, Matches, boundVars
<1>8. faults' = 0 => CarriedThrough'
  BY <1>1, <1>2, <1>3
  DEF ExecInv, CarriedThrough, At, CancelAt, Q!Holds, ReaperEnds, queueVars, boundVars
<1> QED BY <1>4, <1>5, <1>6, <1>7, <1>8 DEF ExecInv

LEMMA CreateInv == ASSUME ExecInv, CreateEnqueue \/ CreateCrash PROVE ExecInv'
<1>1. /\ creating /\ creating' = FALSE
      /\ UNCHANGED <<dataVars, slots, cancels, reaper, owner, deliveries>>
      /\ place' \in [{TheTask} -> Q!Places] /\ holder' = holder
  BY DEF CreateEnqueue, CreateCrash, Q!Put, Q!Places, ExecInv, ExecTypeOK, queueVars, boundVars
<1>2. /\ faults' \in 0..MaxFaults
      /\ faults' = 0 => /\ faults = 0 /\ place'[TheTask] # "absent"
                        /\ place[TheTask] # "absent" => place' = place
  <2>1. faults \in 0..MaxFaults /\ place \in [{TheTask} -> Q!Places]
    BY DEF ExecInv, ExecTypeOK
  <2>2. CASE CreateEnqueue
    BY <2>1, <2>2 DEF CreateEnqueue, Q!Put, Q!Places, boundVars
  <2>3. CASE CreateCrash
    BY <2>1, <2>3, BoundsAssumption DEF CreateCrash, Fault
  <2> QED BY <2>2, <2>3
<1>3. ExecTypeOK'
  BY <1>1, <1>2 DEF ExecInv, ExecTypeOK, dataVars
<1>4. SlotReads' /\ OtherReads'
  BY <1>1 DEF ExecInv, SlotReads, OtherReads, CancelAt
<1>5. EndsOnce' /\ OneTerminalEvent'
  BY <1>1 DEF ExecInv, EndsOnce, OneTerminalEvent, ReaperEnds, At, CancelAt, dataVars
<1>6. OwnerReads'
  BY <1>1, <1>2 DEF ExecInv, OwnerReads, At, IsOver, Matches, dataVars
<1>7. faults' = 0 => CarriedThrough'
  BY <1>1, <1>2
  DEF ExecInv, CarriedThrough, At, CancelAt, Q!Holds, ReaperEnds, dataVars
<1> QED BY <1>3, <1>4, <1>5, <1>6, <1>7 DEF ExecInv

-----------------------------------------------------------------------------
(* Every step preserves the invariant.                                       *)
LEMMA ExecStepInv == ExecInv /\ [ExecNext]_execVars => ExecInv'
<1> SUFFICES ASSUME ExecInv, [ExecNext]_execVars PROVE ExecInv'
  OBVIOUS
<1>1. CASE UNCHANGED execVars
  BY <1>1
  DEF execVars, ExecInv, ExecTypeOK, SlotReads, OtherReads, EndsOnce, OneTerminalEvent,
      OwnerReads, CarriedThrough, ReaperEnds, IsOver, Matches, At, CancelAt, Q!Holds
<1>2. CASE ControlPlane
  BY <1>2, CreateInv, CancelReadInv, CancelRequestInv, CancelTerminateInv, CancelEmitInv,
     CancelEndInv, ReaperStepInv, ReapMoveInv, ReapPublishInv
  DEF ControlPlane, CancelStep, ReapStep
<1>3. CASE \E d \in Slot : Deliver(d) \/ SlotStep(d) \/ SlotFault(d) \/ WorkerCrash(d)
  BY <1>3, DeliverInv, StartInv, ClaimInv, ProvisionInv, BeginInv, StreamEventInv, StreamInv,
     EndsInv, OnUnexpectedInv, FailChildrenInv, FinishInv, EmitInv, LeaveInv, LeaseEndsInv,
     HandlerFaultInv
  DEF SlotStep, SlotFault
<1> QED BY <1>1, <1>2, <1>3 DEF ExecNext

THEOREM ExecInvariant == ExecSafety => []ExecInv
BY ExecInitInv, ExecStepInv, PTL DEF ExecSafety

-----------------------------------------------------------------------------
(* The row, the log, the queue and every actor keep to their types.          *)
THEOREM ExecTypeCorrect == ExecSafety => []ExecTypeOK
<1>1. ExecInv => ExecTypeOK
  BY DEF ExecInv
<1> QED BY <1>1, ExecInvariant, PTL

(* Whatever number of workers, cancel requests and repairs race to end the   *)
(* Run, the log shows one terminal event at most, and the row's.             *)
THEOREM OneEnd == ExecSafety => []OneTerminalEvent
<1>1. ExecInv => OneTerminalEvent
  BY DEF ExecInv
<1> QED BY <1>1, ExecInvariant, PTL

(* Without faults, once nobody has anything left to do, the Run is finished, *)
(* announced once and charged for nothing: the actor that wins the end       *)
(* carries it through and the others leave the task to it.                   *)
THEOREM EndsAreCarriedThrough == ExecSafety => []NothingLeftBehind
<1>1. ExecInv => NothingLeftBehind
  <2> SUFFICES ASSUME ExecInv, Quiet, faults = 0
               PROVE  row.status \in Terminal /\ Len(published) = 1 /\ ~quotaHeld
    BY DEF NothingLeftBehind
  <2>1. CarriedThrough /\ ~creating /\ place[TheTask] = "absent"
        /\ (\A d \in Slot : ~At(d, "emit") /\ ~At(d, "leave"))
        /\ (\A k \in Canceller : ~CancelAt(k, "emit") /\ ~CancelAt(k, "release"))
        /\ ~ReaperEnds /\ reaper.pc # "finalize"
    BY DEF ExecInv, Quiet, At, CancelAt, ReaperEnds
  <2>2. row.status \in Terminal
    BY <2>1, RowReadable DEF CarriedThrough, Status
  <2>3. published # <<>> /\ ~quotaHeld
    BY <2>1, <2>2 DEF CarriedThrough
  <2>4. Len(published) = 1
    <3> DEFINE Events == Seq([status : Terminal, by : {"worker", "api", "reaper", "approval"}])
    <3>1. published \in Events
      BY DEF ExecInv, ExecTypeOK
    <3> DEFINE n == Len(published)
    <3>2. n \in Nat /\ n # 0
      BY <2>3, <3>1
    <3>3. n <= 1
      BY DEF ExecInv, OneTerminalEvent
    <3> HIDE DEF n
    <3>4. n = 1
      BY <3>2, <3>3
    <3> QED BY <3>4 DEF n
  <2> QED BY <2>2, <2>3, <2>4
<1> QED BY <1>1, ExecInvariant, PTL

-----------------------------------------------------------------------------
(* The transitions that the writers use.                                     *)
LEMMA TransitionTable ==
  /\ CanMove("queued", "provisioning") /\ CanMove("provisioning", "running")
  /\ CanMove("cancelling", "cancelled")
  /\ \A s \in Active \ {"cancelling"} : CanMove(s, "cancelling") /\ CanMove(s, "timed_out")
<1>1. /\ AllowedTransitions["queued"] = {"provisioning", "cancelling", "cancelled", "timed_out"}
      /\ AllowedTransitions["provisioning"] = {"running", "cancelling", "failed", "timed_out"}
      /\ AllowedTransitions["running"] =
           {"waiting_approval", "cancelling", "succeeded", "failed", "timed_out"}
      /\ AllowedTransitions["waiting_approval"] =
           {"running", "cancelling", "rejected", "failed", "timed_out"}
      /\ AllowedTransitions["cancelling"] = {"cancelled", "failed"}
  BY DEF AllowedTransitions
<1> QED BY <1>1 DEF CanMove, Active

(* What a step may do to the row: only the five writes change it.            *)
LEMMA RowSteps ==
  ASSUME ExecInv, ExecNext, row' # row
  PROVE  /\ row'.token = row.token + 1
         /\ \/ CanMove(row.status, row'.status)
            \/ row'.status = row.status /\ row.status \in WorkerOwned
         /\ row.status = "cancelling" => row'.status = "cancelled"
<1>1. CASE \E d \in Slot : Claim(d)
  <2>1. PICK d \in Slot : Claim(d)
    BY <1>1
  <2>2. /\ Matches(row, slots[d].snap)
        /\ row' = Bumped(slots[d].snap, IF row.status = "queued" THEN "provisioning"
                                                                  ELSE row.status)
        /\ row.status \in {"queued", "provisioning", "running"}
    BY <2>1, RowReadable DEF Claim, Matches, SlotWell, At
  <2> QED
    BY <2>2, RowReadable, TransitionTable DEF Bumped, Matches, WorkerOwned
<1>2. CASE \E d \in Slot : Begin(d)
  <2>1. PICK d \in Slot : Begin(d)
    BY <1>2
  <2>2. /\ Matches(row, slots[d].snap) /\ row' = Bumped(slots[d].snap, "running")
        /\ row.status \in {"provisioning", "running"}
    BY <2>1, RowReadable DEF Begin, Matches, SlotWell, At
  <2> QED
    BY <2>2, RowReadable, TransitionTable DEF Bumped, Matches, WorkerOwned
<1>3. CASE \E d \in Slot : Finish(d)
  <2>1. PICK d \in Slot : Finish(d)
    BY <1>3
  <2>2. /\ Matches(row, slots[d].snap) /\ CanMove(slots[d].snap.status, slots[d].target)
        /\ row' = Bumped(slots[d].snap, slots[d].target)
        /\ slots[d].snap.status = "cancelling" => slots[d].target = "cancelled"
    BY <2>1, RowReadable DEF Finish, SlotWell, At
  <2> QED BY <2>2 DEF Bumped, Matches
<1>4. CASE \E k \in Canceller : CancelRequest(k) \/ CancelTerminate(k)
  <2>1. PICK k \in Canceller : CancelRequest(k) \/ CancelTerminate(k)
    BY <1>4
  <2>2. CASE CancelRequest(k)
    <3>1. /\ Matches(row, cancels[k].snap) /\ row' = Bumped(cancels[k].snap, "cancelling")
          /\ row.status \in Active \ {"cancelling"}
      BY <2>2 DEF CancelRequest, Matches, ExecInv, OtherReads
    <3> QED BY <3>1, TransitionTable DEF Bumped, Matches, Active
  <2>3. CASE CancelTerminate(k)
    <3>1. /\ Matches(row, cancels[k].snap) /\ row' = Bumped(cancels[k].snap, "cancelled")
          /\ row.status = "cancelling"
      BY <2>3 DEF CancelTerminate, Matches, ExecInv, OtherReads
    <3> QED BY <3>1, TransitionTable DEF Bumped, Matches, Active
  <2> QED BY <2>1, <2>2, <2>3
<1>5. CASE ReapMove
  <2>1. /\ Matches(row, reaper.snap) /\ row.status \in Active
        /\ row' = Bumped(reaper.snap, IF row.status = "cancelling" THEN "cancelled"
                                                                    ELSE "timed_out")
    BY <1>5 DEF ReapMove, Matches, ExecInv, OtherReads
  <2> QED BY <2>1, TransitionTable DEF Bumped, Matches, Active
<1>6. CASE ControlPlane
  BY <1>4, <1>5, <1>6
  DEF ControlPlane, CreateEnqueue, CreateCrash, CancelRead, CancelStep, CancelEmit,
      CancelRelease, CancelCrash, ReapStep, ReapRead, ReapPublish, ReapRelease,
      ReapFinalizeFails, ReaperCrash, dataVars
<1>7. CASE \E d \in Slot : Deliver(d) \/ SlotStep(d) \/ SlotFault(d) \/ WorkerCrash(d)
  BY <1>1, <1>2, <1>3, <1>7
  DEF Deliver, DeliverTwice, SlotStep, SlotFault, WorkerCrash, Start, Provision, StreamEvent,
      HandleEvent, HandleFails, StreamEnd, Settle, OnTimeout, OnResultError, SettleFrom,
      OnUnexpected, FailChildren, Emit, EmitFails, Leave, LeaveFails, Acknowledge, Retry,
      Settled, QueueCallFails, SlotOnly, dataVars
<1> QED BY <1>6, <1>7 DEF ExecNext

(* Every change of the row follows the transition table, or is a reclaim,    *)
(* and takes the next fencing token, whoever writes it.                      *)
THEOREM RowFollowsTable == ExecSafety => RowMovesLegally
<1>1. ExecInv /\ [ExecNext]_execVars =>
        [row' # row =>
           /\ row'.token = row.token + 1
           /\ \/ CanMove(row.status, row'.status)
              \/ row'.status = row.status /\ row.status \in WorkerOwned]_execVars
  BY RowSteps
<1> QED BY <1>1, ExecInvariant, PTL DEF ExecSafety, RowMovesLegally

(* No late success, failure or timeout overrides a durable cancellation: a   *)
(* handler that has read it only ever writes cancelled.                      *)
THEOREM CancelledStays == ExecSafety => CancellationWins
<1>1. ExecInv /\ [ExecNext]_execVars =>
        [row.status = "cancelling" => row'.status \in {"cancelling", "cancelled"}]_execVars
  BY RowSteps
<1> QED BY <1>1, ExecInvariant, PTL DEF ExecSafety, CancellationWins

LEMMA OneSlotMoves ==
  ASSUME ExecInv, NEW e \in Slot, Deliver(e) \/ SlotStep(e) \/ SlotFault(e) \/ WorkerCrash(e)
  PROVE  OthersKept(e)
<1>1. \E s : slots' = [slots EXCEPT ![e] = s]
  <2>1. CASE Deliver(e) \/ DeliverTwice(e)
    BY <2>1 DEF Deliver, DeliverTwice, Delivery
  <2>2. CASE SlotStep(e)
    BY <2>2
    DEF SlotStep, Start, Claim, Provision, Begin, StreamEvent, HandleEvent, StreamEnd, Settle,
        OnTimeout, OnResultError, SettleFrom, OnUnexpected, FailChildren, Finish, Emit, Leave,
        Acknowledge, Retry, Settled, Return, Raise, Go, GoWith, Rest
  <2>3. CASE SlotFault(e) \/ WorkerCrash(e)
    BY <2>1, <2>3
    DEF SlotFault, WorkerCrash, HandleFails, EmitFails, LeaveFails, QueueCallFails, Raise, Go,
        GoWith, Rest
  <2> QED BY <2>1, <2>2, <2>3
<1>2. slots \in [Slot -> SlotRecord]
  BY DEF ExecInv, ExecTypeOK, SlotRecord
<1> QED BY <1>1, <1>2 DEF OthersKept

(* A worker that lost a compare-and-set and leaves the Run active leaves it  *)
(* to another worker, not to nobody: the loser is no longer the owner.       *)
THEOREM LoserIsNotOwner == ExecSafety => ConflictMeansAnotherOwner
<1>1. ASSUME ExecInv, ExecNext, NEW d \in Slot, At(d, "conflict"), slots'[d].pc = "leave",
             row.status \in Active
      PROVE  owner # d
  <2>1. slots'[d] # slots[d]
    BY <1>1 DEF At
  <2>2. CASE ControlPlane
    BY <2>1, <2>2
    DEF ControlPlane, CreateEnqueue, CreateCrash, CancelRead, CancelStep, CancelRequest,
        CancelTerminate, CancelEmit, CancelRelease, CancelCrash, ReapStep, ReapRead, ReapMove,
        ReapPublish, ReapRelease, ReapFinalizeFails, ReaperCrash
  <2>3. CASE Deliver(d) \/ SlotStep(d) \/ SlotFault(d) \/ WorkerCrash(d)
    <3>1. slots \in [Slot -> SlotRecord]
      BY <1>1 DEF ExecInv, ExecTypeOK, SlotRecord
    <3>2. ~WorkerCrash(d)
      BY <1>1, <3>1 DEF WorkerCrash, Rest, IdleSlot, FreshSlot
    <3>3. OnUnexpected(d)
      BY <1>1, <2>3, <3>2
      DEF At, Deliver, Delivery, SlotFault, DeliverTwice, HandleFails, EmitFails, LeaveFails,
          QueueCallFails, SlotStep, Start, Claim, Provision, Begin, StreamEvent, HandleEvent,
          StreamEnd, Settle, OnTimeout, OnResultError, FailChildren, Finish, Emit, Leave,
          Acknowledge, Retry
    <3>4. row.status # "cancelling" /\ At(d, "conflict")
      BY <1>1, <3>1, <3>3, RowReadable DEF OnUnexpected, GoWith, At
    <3> QED BY <1>1, <3>4, RowReadable DEF SlotWell, At, IsOver
  <2>4. CASE \E e \in Slot : e # d /\ (Deliver(e) \/ SlotStep(e) \/ SlotFault(e)
                                       \/ WorkerCrash(e))
    BY <1>1, <2>1, <2>4, OneSlotMoves DEF OthersKept
  <2> QED BY <1>1, <2>2, <2>3, <2>4 DEF ExecNext
<1>2. ExecInv /\ [ExecNext]_execVars =>
        [\A d \in Slot : At(d, "conflict") /\ slots'[d].pc = "leave" /\ row.status \in Active
                         => owner # d]_execVars
  BY <1>1
<1> QED BY <1>2, ExecInvariant, PTL DEF ExecSafety, ConflictMeansAnotherOwner

-----------------------------------------------------------------------------
(* Tool approvals.  The inductive invariant is about them and their actors  *)
(* alone: whatever the execution does, it touches neither.                  *)

Decisions == {"approved", "rejected", "expired", "cancelled"}

(* Every approval and every actor has a state.                              *)
ApprovalShape ==
  /\ approval \in [Call -> {"none", "pending"} \cup Decisions]
  /\ DOMAIN acts = Actor
  /\ \A a \in Actor : DOMAIN acts[a] = {"pc", "call", "want", "snap"}
  /\ allowed \subseteq Call

(* A hook works for its own call, and has found it approved when it goes on *)
(* to the tool, directly or by way of resuming the Run.                     *)
HooksKnow ==
  /\ \A a \in Actor : /\ acts[a].pc \notin {"idle", "done"} => acts[a].call \in Call
                      /\ Is(a, "set") => acts[a].want \in Decisions
  /\ \A c \in Call :
    /\ acts[c].pc \notin {"idle", "done"} => acts[c].call = c
    /\ Is(c, "add") => approval[c] = "none"
    /\ Is(c, "allow") => approval[c] = "approved"
    /\ acts[c].pc \in {"resume", "resumeMove"} /\ acts[c].want = "approved" =>
         approval[c] = "approved"

AllowInv ==
  /\ ApprovalShape
  /\ HooksKnow
  /\ inline => AllowedOnlyApproved

(* One actor moves, and no other.                                           *)
OnlyActs(a) == \A b \in Actor : b # a => acts'[b] = acts[b]

LEMMA ActEffect ==
  ASSUME ApprovalShape, NEW a \in Actor, NEW pc, NEW want, NEW snap, Act(a, pc, want, snap)
  PROVE  /\ DOMAIN acts' = Actor /\ OnlyActs(a)
         /\ acts'[a] = [pc |-> pc, call |-> acts[a].call, want |-> want, snap |-> snap]
BY DEF ApprovalShape, Act, OnlyActs

LEMMA OverEffect ==
  ASSUME ApprovalShape, NEW a \in Actor, Over(a)
  PROVE  /\ DOMAIN acts' = Actor /\ OnlyActs(a)
         /\ DOMAIN acts'[a] = {"pc", "call", "want", "snap"}
         /\ acts'[a].pc \in {"idle", "done"}
BY DEF ApprovalShape, Over, OnlyActs, IdleActor

(* An actor that goes on within a call that is decided as it has seen it.   *)
Knows(a, s) ==
  /\ s.pc \notin {"idle", "done"} => s.call \in Call
  /\ s.pc = "set" => s.want \in Decisions
  /\ a \in Call =>
    /\ s.pc \notin {"idle", "done"} => s.call = a
    /\ s.pc = "add" => approval'[a] = "none"
    /\ s.pc = "allow" => approval'[a] = "approved"
    /\ s.pc \in {"resume", "resumeMove"} /\ s.want = "approved" => approval'[a] = "approved"

LEMMA ActorMoves ==
  ASSUME AllowInv, NEW a \in Actor, DOMAIN acts' = Actor, OnlyActs(a),
         DOMAIN acts'[a] = {"pc", "call", "want", "snap"}, Knows(a, acts'[a]),
         UNCHANGED <<approval, inline, allowed>>
  PROVE  AllowInv'
<1>1. ApprovalShape'
  BY DEF AllowInv, ApprovalShape, OnlyActs
<1>2. HooksKnow'
  BY DEF AllowInv, HooksKnow, Knows, OnlyActs, Is, Actor
<1>3. inline' => AllowedOnlyApproved'
  BY DEF AllowInv, AllowedOnlyApproved
<1> QED BY <1>1, <1>2, <1>3 DEF AllowInv

LEMMA Ends ==
  ASSUME AllowInv, NEW a \in Actor, Over(a), UNCHANGED <<approval, inline, allowed>>
  PROVE  AllowInv'
<1>1. ApprovalShape
  BY DEF AllowInv
<1>2. /\ DOMAIN acts' = Actor /\ OnlyActs(a)
      /\ DOMAIN acts'[a] = {"pc", "call", "want", "snap"}
      /\ acts'[a].pc \in {"idle", "done"}
  BY <1>1, OverEffect
<1>3. Knows(a, acts'[a])
  BY <1>2 DEF Knows
<1> QED BY <1>2, <1>3, ActorMoves

LEMMA GoesOn ==
  ASSUME AllowInv, NEW a \in Actor, NEW pc, NEW want, NEW snap, Act(a, pc, want, snap),
         UNCHANGED <<approval, inline, allowed>>,
         acts[a].pc \notin {"idle", "done"}, pc # "set",
         a \in Call => /\ pc # "add"
                       /\ pc = "allow" => approval[a] = "approved"
                       /\ pc \in {"resume", "resumeMove"} /\ want = "approved" =>
                            approval[a] = "approved"
  PROVE  AllowInv'
<1>1. ApprovalShape
  BY DEF AllowInv
<1>2. /\ DOMAIN acts' = Actor /\ OnlyActs(a)
      /\ acts'[a] = [pc |-> pc, call |-> acts[a].call, want |-> want, snap |-> snap]
  BY <1>1, ActEffect
<1>3. DOMAIN acts'[a] = {"pc", "call", "want", "snap"}
  BY <1>2
<1>4. Knows(a, acts'[a])
  BY <1>2 DEF Knows, AllowInv, HooksKnow
<1> QED BY <1>2, <1>3, <1>4, ActorMoves

(* A decision of a pending approval: no tool is allowed by it yet, and no   *)
(* hook knows of it.                                                        *)
LEMMA Decides ==
  ASSUME AllowInv, NEW a \in Actor, NEW c \in Call, NEW status \in Decisions,
         SetApproval(c, status), UNCHANGED <<inline, allowed>>,
         DOMAIN acts' = Actor, OnlyActs(a),
         DOMAIN acts'[a] = {"pc", "call", "want", "snap"}, Knows(a, acts'[a])
  PROVE  AllowInv'
<1>1. /\ approval[c] = "pending" /\ approval'[c] = status
      /\ \A b \in Call : b # c => approval'[b] = approval[b]
      /\ approval' \in [Call -> {"none", "pending"} \cup Decisions]
  BY DEF SetApproval, AllowInv, ApprovalShape
<1>2. ApprovalShape'
  BY <1>1 DEF AllowInv, ApprovalShape, OnlyActs
<1>3. HooksKnow'
  BY <1>1 DEF AllowInv, HooksKnow, Knows, OnlyActs, Is, Actor
<1>4. inline' => AllowedOnlyApproved'
  BY <1>1 DEF AllowInv, AllowedOnlyApproved, ApprovalShape
<1> QED BY <1>2, <1>3, <1>4 DEF AllowInv

-----------------------------------------------------------------------------
(* The steps, by who makes them.                                            *)

LEMMA RequestInv ==
  ASSUME AllowInv, NEW c \in Call, NEW d \in Slot, Request(c, d)
  PROVE  AllowInv'
<1>1. /\ DOMAIN acts' = Actor /\ OnlyActs(c)
      /\ DOMAIN acts'[c] = {"pc", "call", "want", "snap"}
      /\ Knows(c, acts'[c])
  BY DEF AllowInv, ApprovalShape, Request, OnlyActs, IdleActor, Actor, Knows
<1> QED BY <1>1, ActorMoves DEF Request, Actor

LEMMA RequestAgainInv ==
  ASSUME AllowInv, NEW c \in Call, NEW d \in Slot, RequestAgain(c, d)
  PROVE  AllowInv'
<1>1. ApprovalShape'
  BY DEF AllowInv, ApprovalShape, RequestAgain
<1>2. HooksKnow' /\ ~inline'
  BY DEF AllowInv, HooksKnow, Is, RequestAgain
<1> QED BY <1>1, <1>2 DEF AllowInv

LEMMA RequestAddInv ==
  ASSUME AllowInv, NEW c \in Call, RequestAdd(c)
  PROVE  AllowInv'
<1>1. /\ DOMAIN acts' = Actor /\ OnlyActs(c)
      /\ acts'[c] = [pc |-> "pause", call |-> acts[c].call, want |-> "none",
                     snap |-> acts[c].snap]
  BY ActEffect DEF RequestAdd, AllowInv, Actor
<1>2. /\ approval[c] = "none" /\ approval'[c] = "pending" /\ acts[c].call = c
      /\ \A b \in Call : b # c => approval'[b] = approval[b]
      /\ approval' \in [Call -> {"none", "pending"} \cup Decisions]
  BY DEF AllowInv, ApprovalShape, HooksKnow, RequestAdd, Is
<1>3. ApprovalShape'
  BY <1>1, <1>2 DEF AllowInv, ApprovalShape, OnlyActs, RequestAdd
<1>4. HooksKnow'
  BY <1>1, <1>2 DEF AllowInv, HooksKnow, OnlyActs, Is, Actor
<1>5. inline' => AllowedOnlyApproved'
  BY <1>2 DEF AllowInv, AllowedOnlyApproved, ApprovalShape, RequestAdd
<1> QED BY <1>3, <1>4, <1>5 DEF AllowInv

LEMMA RequestEndsInv ==
  ASSUME AllowInv, NEW c \in Call, RequestPause(c) \/ RequestReturn(c)
  PROVE  AllowInv'
<1>1. c \in Actor
  BY DEF Actor
<1>2. CASE RequestPause(c)
  BY <1>1, <1>2, Ends, GoesOn DEF RequestPause, Is
<1>3. CASE RequestReturn(c)
  BY <1>1, <1>3, Ends DEF RequestReturn
<1> QED BY <1>2, <1>3

LEMMA HookPollInv ==
  ASSUME AllowInv, NEW c \in Call, HookPoll(c) \/ HookInterrupt(c)
  PROVE  AllowInv'
<1>1. c \in Actor
  BY DEF Actor
<1>2. CASE HookPoll(c)
  BY <1>1, <1>2, Ends, GoesOn DEF HookPoll, Is
<1>3. CASE HookInterrupt(c)
  BY <1>1, <1>3, Ends, GoesOn DEF HookInterrupt, Is, Waiting
<1> QED BY <1>2, <1>3

LEMMA VerdictInv ==
  ASSUME AllowInv, NEW a \in Actor, acts[a].pc \notin {"idle", "done"},
         NEW c \in Call, a \in Call => a = c,
         Verdict(a, approval[c]), UNCHANGED <<approval, inline, allowed>>
  PROVE  AllowInv'
BY Ends, GoesOn DEF Verdict

(* A hook that closes or cancels its approval has nothing more to do.       *)
LEMMA DecidesAndEnds ==
  ASSUME AllowInv, NEW a \in Actor, NEW c \in Call, NEW status \in Decisions,
         SetApproval(c, status), Over(a), UNCHANGED <<inline, allowed>>
  PROVE  AllowInv'
<1>1. /\ DOMAIN acts' = Actor /\ OnlyActs(a)
      /\ DOMAIN acts'[a] = {"pc", "call", "want", "snap"}
      /\ acts'[a].pc \in {"idle", "done"}
  BY OverEffect DEF AllowInv
<1>2. Knows(a, acts'[a])
  BY <1>1 DEF Knows
<1> QED BY <1>1, <1>2, Decides

(* ... and one that decides and goes on is not on its way to the tool.      *)
LEMMA DecidesAndGoesOn ==
  ASSUME AllowInv, NEW a \in Actor, NEW c \in Call, NEW status \in Decisions,
         SetApproval(c, status), UNCHANGED <<inline, allowed>>,
         NEW pc \in {"expired", "run"}, NEW want, Act(a, pc, want, NoSnap),
         acts[a].pc \notin {"idle", "done"}
  PROVE  AllowInv'
<1>1. /\ DOMAIN acts' = Actor /\ OnlyActs(a)
      /\ acts'[a] = [pc |-> pc, call |-> acts[a].call, want |-> want, snap |-> NoSnap]
  BY ActEffect DEF AllowInv
<1>2. DOMAIN acts'[a] = {"pc", "call", "want", "snap"}
  BY <1>1
<1>3. Knows(a, acts'[a])
  BY <1>1 DEF Knows, AllowInv, HooksKnow
<1> QED BY <1>1, <1>2, <1>3, Decides

LEMMA HookDecidesInv ==
  ASSUME AllowInv, NEW c \in Call, HookCancel(c) \/ HookClose(c)
  PROVE  AllowInv'
<1>1. c \in Actor /\ "cancelled" \in Decisions
  BY DEF Actor, Decisions
<1>2. CASE HookCancel(c)
  BY <1>1, <1>2, DecidesAndEnds, VerdictInv DEF HookCancel, Is
<1>3. CASE HookClose(c)
  BY <1>1, <1>3, DecidesAndEnds, Ends DEF HookClose
<1> QED BY <1>2, <1>3

LEMMA HookAllowInv ==
  ASSUME AllowInv, NEW c \in Call, HookAllow(c)
  PROVE  AllowInv'
<1>1. c \in Actor /\ approval[c] = "approved"
  BY DEF Actor, AllowInv, HooksKnow, HookAllow
<1>2. /\ DOMAIN acts' = Actor /\ OnlyActs(c)
      /\ DOMAIN acts'[c] = {"pc", "call", "want", "snap"}
      /\ acts'[c].pc \in {"idle", "done"}
  BY <1>1, OverEffect DEF AllowInv, HookAllow
<1>3. ApprovalShape'
  BY <1>2 DEF AllowInv, ApprovalShape, OnlyActs, HookAllow
<1>4. HooksKnow'
  BY <1>2 DEF AllowInv, HooksKnow, OnlyActs, Is, Actor, HookAllow
<1>5. inline' => AllowedOnlyApproved'
  BY <1>1 DEF AllowInv, AllowedOnlyApproved, HookAllow
<1> QED BY <1>3, <1>4, <1>5 DEF AllowInv

LEMMA ActorStepInv ==
  ASSUME AllowInv, NEW a \in Actor, ActorStep(a)
  PROVE  AllowInv'
<1>1. CASE Expire(a)
  <2>1. acts[a].call \in Call /\ (a \in Call => acts[a].call = a)
    BY <1>1 DEF AllowInv, HooksKnow, Expire, Is
  <2>2. "expired" \in Decisions /\ acts[a].pc \notin {"idle", "done"}
    BY <1>1 DEF Decisions, Expire, Is
  <2>3. UNCHANGED <<inline, allowed>>
    BY <1>1 DEF Expire
  <2>4. CASE SetApproval(acts[a].call, "expired") /\ Act(a, "expired", "none", NoSnap)
    BY <2>1, <2>2, <2>3, <2>4, DecidesAndGoesOn
  <2>5. CASE Verdict(a, approval[acts[a].call]) /\ UNCHANGED approval
    BY <2>1, <2>2, <2>3, <2>5, VerdictInv
  <2> QED BY <1>1, <2>4, <2>5 DEF Expire
<1>2. CASE Expired(a)
  BY <1>2, Ends, GoesOn DEF Expired, Is
<1>3. CASE ResumeRead(a) \/ ResumeMove(a)
  <2>1. /\ acts[a].pc \in {"resume", "resumeMove"} /\ UNCHANGED <<approval, inline, allowed>>
        /\ a \in Call /\ acts[a].want = "approved" => approval[a] = "approved"
    BY <1>3 DEF AllowInv, HooksKnow, ResumeRead, ResumeMove, Is
  <2>2. CASE Over(a)
    BY <2>1, <2>2, Ends
  <2>3. CASE a \in Call /\ acts[a].want = "approved" /\ Act(a, "allow", "none", NoSnap)
    BY <2>1, <2>3, GoesOn
  <2>4. CASE Act(a, "resumeMove", acts[a].want, row)
    BY <2>1, <2>4, GoesOn
  <2> QED BY <1>3, <2>2, <2>3, <2>4 DEF ResumeRead, ResumeMove, Resumed
<1>4. CASE MoveRun(a)
  BY <1>4, Ends, GoesOn DEF MoveRun, Is
<1>5. CASE EmitRejected(a)
  BY <1>5, Ends DEF EmitRejected
<1> QED BY <1>1, <1>2, <1>3, <1>4, <1>5 DEF ActorStep

(* A decider is no hook: what it has read of an approval does not let the   *)
(* tool go on.                                                              *)
LEMMA DeciderInv ==
  ASSUME AllowInv, NEW x \in Decider,
         \/ DeciderStep(x)
         \/ \E c \in Call, want \in {"approved", "rejected"} : DecideRead(x, c, want)
  PROVE  AllowInv'
<1>1. x \in Actor /\ x \notin Call
  BY ActorsAssumption DEF Actor
<1>2. CASE DecideSet(x)
  <2>1. acts[x].call \in Call /\ acts[x].want \in Decisions /\ acts[x].pc \notin {"idle", "done"}
    BY <1>1, <1>2 DEF AllowInv, HooksKnow, DecideSet, Is
  <2>2. UNCHANGED <<inline, allowed>>
    BY <1>2 DEF DecideSet
  <2>3. CASE SetApproval(acts[x].call, acts[x].want) /\ Act(x, "run", acts[x].want, NoSnap)
    BY <1>1, <1>2, <2>1, <2>2, <2>3, DecidesAndGoesOn
  <2>4. CASE Over(x) /\ UNCHANGED approval
    BY <1>1, <2>2, <2>4, Ends
  <2> QED BY <1>2, <2>3, <2>4 DEF DecideSet
<1>3. CASE DecideRun(x)
  BY <1>1, <1>3, GoesOn DEF DecideRun, Is
<1>4. CASE EnqueueResumed(x)
  BY <1>1, <1>4, Ends DEF EnqueueResumed
<1>5. ASSUME NEW c \in Call, NEW want \in {"approved", "rejected"}, DecideRead(x, c, want)
      PROVE  AllowInv'
  <2>1. UNCHANGED <<approval, inline, allowed>>
    BY <1>5 DEF DecideRead
  <2>2. CASE Over(x)
    BY <1>1, <2>1, <2>2, Ends
  <2>3. CASE \E pc \in {"resume", "enqueue", "expire", "set"} :
               acts' = [acts EXCEPT ![x] = [pc |-> pc, call |-> c, want |-> want,
                                            snap |-> NoSnap]]
    <3>1. /\ DOMAIN acts' = Actor /\ OnlyActs(x)
          /\ DOMAIN acts'[x] = {"pc", "call", "want", "snap"}
          /\ Knows(x, acts'[x])
      BY <1>1, <2>3 DEF AllowInv, ApprovalShape, OnlyActs, Knows, Decisions
    <3> QED BY <1>1, <2>1, <3>1, ActorMoves
  <2> QED BY <1>5, <2>2, <2>3 DEF DecideRead
<1> QED BY <1>2, <1>3, <1>4, <1>5 DEF DeciderStep

LEMMA SweepInv ==
  ASSUME AllowInv, NEW c \in Call, TtlPasses(c) \/ SweepRead(c)
  PROVE  AllowInv'
<1>1. CASE TtlPasses(c)
  BY <1>1 DEF TtlPasses, AllowInv, ApprovalShape, HooksKnow, AllowedOnlyApproved, Is
<1>2. CASE SweepRead(c)
  <2>1. Sweeper \in Actor /\ Sweeper \notin Call
    BY ActorsAssumption DEF Actor
  <2>2. acts'[Sweeper] = [IdleActor EXCEPT !.pc = "expire", !.call = c]
    BY <1>2, <2>1 DEF SweepRead, AllowInv, ApprovalShape
  <2>3. /\ DOMAIN acts' = Actor /\ OnlyActs(Sweeper)
        /\ DOMAIN acts'[Sweeper] = {"pc", "call", "want", "snap"}
    BY <1>2, <2>1, <2>2 DEF SweepRead, AllowInv, ApprovalShape, OnlyActs, IdleActor
  <2>4. acts'[Sweeper].call = c
    BY <2>2 DEF IdleActor
  <2>5. acts'[Sweeper].pc = "expire"
    BY <2>2 DEF IdleActor
  <2>6. Knows(Sweeper, acts'[Sweeper])
    BY <2>1, <2>4, <2>5 DEF Knows
  <2> QED BY <1>2, <2>1, <2>3, <2>6, ActorMoves DEF SweepRead
<1> QED BY <1>1, <1>2

LEMMA CrashInv ==
  ASSUME AllowInv, \/ \E a \in Actor : ActorCrash(a)
                   \/ \E d \in Slot : CrashWithHooks(d)
  PROVE  AllowInv'
<1>1. ASSUME NEW a \in Actor, ActorCrash(a) PROVE AllowInv'
  BY <1>1, Ends DEF ActorCrash
<1>2. ASSUME NEW d \in Slot, CrashWithHooks(d) PROVE AllowInv'
  <2>1. /\ DOMAIN acts' = Actor
        /\ \A a \in Actor : \/ acts'[a] = acts[a]
                            \/ acts'[a] = [IdleActor EXCEPT !.pc = "done"]
    BY <1>2 DEF CrashWithHooks
  <2>2. \A a \in Actor : \/ acts'[a] = acts[a]
                         \/ /\ DOMAIN acts'[a] = {"pc", "call", "want", "snap"}
                            /\ acts'[a].pc = "done"
    BY <2>1 DEF IdleActor
  <2>3. ApprovalShape'
    BY <1>2, <2>1, <2>2 DEF CrashWithHooks, AllowInv, ApprovalShape
  <2>4. HooksKnow'
    BY <1>2, <2>2 DEF CrashWithHooks, AllowInv, HooksKnow, Is, Actor
  <2> QED BY <1>2, <2>3, <2>4 DEF CrashWithHooks, AllowInv, AllowedOnlyApproved
<1> QED BY <1>1, <1>2

LEMMA AllowStepInv == AllowInv /\ [ApprovalNext]_allVars => AllowInv'
<1> SUFFICES ASSUME AllowInv, [ApprovalNext]_allVars PROVE AllowInv'
  OBVIOUS
<1>1. CASE UNCHANGED approvalVars
  BY <1>1 DEF approvalVars, AllowInv, ApprovalShape, HooksKnow, AllowedOnlyApproved, Is
<1>2. ASSUME NEW c \in Call, HookStep(c) PROVE AllowInv'
  BY <1>2, RequestAddInv, RequestEndsInv, HookPollInv, HookDecidesInv, HookAllowInv DEF HookStep
<1>3. CASE UNCHANGED allVars
  BY <1>1, <1>3 DEF allVars
<1> QED
  BY <1>1, <1>2, <1>3, RequestInv, RequestAgainInv, SweepInv, ActorStepInv, CrashInv, DeciderInv
  DEF ApprovalNext, Alone

LEMMA AllowInitInv == ApprovalInit => AllowInv
BY DEF ApprovalInit, AllowInv, ApprovalShape, HooksKnow, AllowedOnlyApproved, Is, IdleActor,
       Actor, Decisions

-----------------------------------------------------------------------------
(* AllowInv is inductive: whatever races between the hook of a tool call,   *)
(* the deciders, the sweep of expired approvals and crashes.                *)
THEOREM AllowInvariant == ApprovalSafety => []AllowInv
<1>1. ApprovalInit => AllowInv
  BY AllowInitInv
<1>2. AllowInv /\ [ApprovalNext]_allVars => AllowInv'
  BY AllowStepInv
<1> QED BY <1>1, <1>2, PTL DEF ApprovalSafety

(* A tool that an inline hook let run has an approval that says so, and     *)
(* always will: an expiry or a rejection that comes later does not take it  *)
(* back, and none that came before was overlooked (application/             *)
(* approvals.py, wait_for_decision and _expire).                            *)
THEOREM ToolsRunApproved == ApprovalSafety => [](inline => AllowedOnlyApproved)
<1>1. AllowInv => (inline => AllowedOnlyApproved)
  BY DEF AllowInv
<1> QED BY <1>1, AllowInvariant, PTL

(* Whoever decides first has decided: compare_and_set from PENDING is the   *)
(* only write of an approval after its insertion, for every request,        *)
(* expiry, cancellation and interruption.                                   *)
LEMMA DecisionsStay ==
  ASSUME AllowInv, [ApprovalNext]_allVars, NEW c \in Call, approval[c] \in Decisions
  PROVE  approval'[c] = approval[c]
<1>1. CASE UNCHANGED approval
  BY <1>1
<1>2. ASSUME NEW b \in Call, RequestAdd(b) PROVE approval'[c] = approval[c]
  BY <1>2 DEF RequestAdd, AllowInv, ApprovalShape, HooksKnow, Decisions
<1>3. ASSUME NEW b, NEW status, SetApproval(b, status) PROVE approval'[c] = approval[c]
  BY <1>3 DEF SetApproval, AllowInv, ApprovalShape, Decisions
<1>4. ASSUME NEW b \in Call, HookStep(b) PROVE approval'[c] = approval[c]
  <2>1. CASE RequestAdd(b)
    BY <1>2, <2>1
  <2>2. CASE HookCancel(b) \/ HookClose(b)
    BY <1>1, <1>3, <2>2 DEF HookCancel, HookClose
  <2>3. CASE ~RequestAdd(b) /\ ~HookCancel(b) /\ ~HookClose(b)
    BY <1>1, <1>4, <2>3 DEF HookStep, RequestPause, RequestReturn, HookPoll, HookInterrupt,
                            HookAllow
  <2> QED BY <2>1, <2>2, <2>3
<1>5. ASSUME NEW a \in Actor, ActorStep(a) \/ ActorCrash(a) PROVE approval'[c] = approval[c]
  BY <1>1, <1>3, <1>5
  DEF ActorStep, ActorCrash, Expire, Expired, ResumeRead, ResumeMove, MoveRun, EmitRejected
<1>6. ASSUME NEW x \in Decider,
             \/ DeciderStep(x)
             \/ \E b \in Call, want \in {"approved", "rejected"} : DecideRead(x, b, want)
      PROVE  approval'[c] = approval[c]
  BY <1>1, <1>3, <1>6 DEF DeciderStep, DecideSet, DecideRun, EnqueueResumed, DecideRead
<1>7. ASSUME NEW b \in Call, \/ TtlPasses(b) \/ SweepRead(b)
                             \/ \E d \in Slot : Request(b, d) \/ RequestAgain(b, d)
      PROVE  approval'[c] = approval[c]
  BY <1>1, <1>7 DEF TtlPasses, SweepRead, Request, RequestAgain
<1>8. ASSUME NEW d \in Slot, CrashWithHooks(d) PROVE approval'[c] = approval[c]
  BY <1>1, <1>8 DEF CrashWithHooks
<1>9. CASE UNCHANGED approvalVars \/ UNCHANGED allVars
  BY <1>1, <1>9 DEF approvalVars, allVars
<1> QED BY <1>4, <1>5, <1>6, <1>7, <1>8, <1>9 DEF ApprovalNext, Alone

THEOREM DecisionsAreFinal == ApprovalSafety => DecisionIsFinal
<1>1. AllowInv /\ [ApprovalNext]_allVars =>
        [\A c \in Call : approval[c] \notin {"none", "pending"} => approval'[c] = approval[c]]_allVars
  BY DecisionsStay DEF AllowInv, ApprovalShape
<1> QED BY <1>1, AllowInvariant, PTL DEF ApprovalSafety, DecisionIsFinal
===============================================================================
