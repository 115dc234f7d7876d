----------------------------- MODULE DurableJob -----------------------------
(***************************************************************************)
(* What the control-plane jobs share: Previews, Eval Runs, Deployments and  *)
(* quality exports are a row with a status and a fencing token and a task   *)
(* in a queue of leases (LeaseQueue, which RunQueue implements).  A client  *)
(* adds the row and then enqueues the task; a controller of any worker      *)
(* process leases the task, reads the row and moves it.  Only previews      *)
(* renew their lease, and only while they provision, so a slow controller   *)
(* may go on beside its successor.  The jobs of one behaviour are of one    *)
(* kind, chosen at the start: kinds share no state.                         *)
(***************************************************************************)
EXTENDS Naturals, FiniteSets

CONSTANTS Kinds,        \* the kinds of job to start from
          Job,          \* idempotency keys: one job each
          Single,       \* bound: the job of the kinds whose jobs share nothing
          Controller,   \* control loops, one per worker process
          Client,       \* API requests
          MaxRequests,  \* bound: requests of one client
          MaxFaults     \* bound: crashes, failed calls and overrun leases

ASSUME SingleAssumption == Single \in Job

VARIABLES kind,
          row,          \* the job's row: status, fencing token and the kind's progress
          place, holder,\* its task in the queue
          ctl,          \* the controllers (and the reaper of previews)
          client,       \* the requests in progress
          quota,        \* the state of the job's quota reservation
          faults

queueVars == <<place, holder>>
jobVars == <<kind, row, place, holder, ctl, client, quota, faults>>

Queue == INSTANCE LeaseQueue WITH Task <- Job, Proc <- Controller

Reaper == "reaper"
Actor == Controller \cup {Reaper}
NoJob == "none"
NoProgress == [none |-> TRUE]
NoRow == [status |-> "none", token |-> 0, at |-> NoProgress]
IdleCtl == [pc |-> "idle", job |-> NoJob, snap |-> NoRow, want |-> NoRow, err |-> "retry"]
IdleClient == [pc |-> "idle", job |-> NoJob, snap |-> NoRow, made |-> 0]

JobInit ==
  /\ kind \in Kinds
  /\ row = [j \in Job |-> NoRow]
  /\ Queue!LeaseInit /\ holder = [j \in Job |-> CHOOSE c \in Controller : TRUE]
  /\ ctl = [c \in Actor |-> IdleCtl]
  /\ client = [u \in Client |-> IdleClient]
  /\ quota = [j \in Job |-> "none"]
  /\ faults = 0

(* Deployments meet in an Environment and scores in an incident.            *)
Target == IF kind \in {"deployment", "quality"} THEN Job ELSE {Single}

Ended(status) ==
  status \in {"cancelled", "failed", "expired", "passed", "succeeded"}

-----------------------------------------------------------------------------
(* compare_and_set of the preview, eval and deployment repositories         *)
Same(j, snap) == row[j].status = snap.status /\ row[j].token = snap.token

With(snap, status, at) == [status |-> status, token |-> snap.token + 1, at |-> at]
Store(j, new) == row' = [row EXCEPT ![j] = new]

(* Clients.                                                                 *)
Asking(u, pc) == client[u].pc = pc
Ask(u, pc) == client' = [client EXCEPT ![u].pc = pc]
Answer(u) ==
  client' = [client EXCEPT ![u] = [IdleClient EXCEPT !.made = client[u].made]]
Begin(u, pc, j, snap) ==
  /\ Asking(u, "idle") /\ client[u].made < MaxRequests
  /\ client' = [client EXCEPT ![u] =
                  [pc |-> pc, job |-> j, snap |-> snap, made |-> @.made + 1]]

OnlyClient == UNCHANGED <<kind, queueVars, ctl, faults>>

(* quotas.reserve: the reservation of an idempotency key is made once and   *)
(* returned whatever has become of it.                                      *)
Reserve(j) == quota' = [quota EXCEPT ![j] = IF @ = "none" THEN "reserved" ELSE @]
Release(j) == quota' = [quota EXCEPT ![j] = IF @ = "reserved" THEN "released" ELSE @]

ReserveQuota(u, next) ==
  /\ Asking(u, "reserve")
  /\ Reserve(client[u].job)
  /\ Ask(u, next)
  /\ UNCHANGED row /\ OnlyClient

(* The task is put into the queue in a call of its own, after the row.      *)
EnqueueTask(u, next) ==
  /\ Asking(u, "enqueue")
  /\ Queue!Put(client[u].job)
  /\ IF next = "idle" THEN Answer(u) ELSE Ask(u, next)
  /\ UNCHANGED <<kind, row, ctl, quota, faults>>

(* cancel: a compare-and-set from the row it read, then the task again.     *)
Cancellable(status) == status \notin {"none", "cancelling"} /\ ~Ended(status)

CancelBegin(u, j) ==
  /\ row[j].status # "none" /\ ~Ended(row[j].status)
  /\ Begin(u, IF Cancellable(row[j].status) THEN "cancel" ELSE "enqueue", j, row[j])
  /\ UNCHANGED <<row, quota>> /\ OnlyClient

CancelMove(u) ==
  LET j == client[u].job
      snap == client[u].snap
  IN  /\ Asking(u, "cancel")
      /\ \/ /\ Same(j, snap)
            /\ Store(j, With(snap, "cancelling", snap.at))
            /\ Ask(u, "enqueue")
         \/ /\ ~Same(j, snap)
            /\ Answer(u) /\ UNCHANGED row
      /\ UNCHANGED quota /\ OnlyClient

-----------------------------------------------------------------------------
(* Controllers.                                                             *)
At(c, pc) == ctl[c].pc = pc
Go(c, pc) == ctl' = [ctl EXCEPT ![c].pc = pc]
Rest(c) == ctl' = [ctl EXCEPT ![c] = IdleCtl]
(* The next write of c: from the row it read to the row it wants.           *)
Plan(c, pc, snap, want, err) ==
  ctl' = [ctl EXCEPT ![c] =
            [pc |-> pc, job |-> @.job, snap |-> snap, want |-> want, err |-> err]]

OnlyCtl == UNCHANGED <<kind, row, queueVars, client, quota, faults>>

Works(c, j) == ctl[c].pc # "idle" /\ ctl[c].job = j

(* A lease lapses when its controller died, or (a fault) runs longer than   *)
(* the visibility timeout.                                                  *)
Dequeue(c, j) ==
  \E lapsed \in SUBSET {j} :
    LET overrun == lapsed # {} /\ Works(holder[j], j)
    IN  /\ At(c, "idle") /\ c # Reaper
        /\ overrun => faults < MaxFaults
        /\ Queue!Take(c, j, lapsed)
        /\ ctl' = [ctl EXCEPT ![c] = [IdleCtl EXCEPT !.pc = "read", !.job = j]]
        /\ faults' = IF overrun THEN faults + 1 ELSE faults
        /\ UNCHANGED <<kind, row, client, quota>>

(* acknowledge and retry do nothing without the lease.                      *)
Acknowledge(c) ==
  /\ At(c, "ack")
  /\ IF Queue!Holds(c, ctl[c].job) THEN Queue!Finish(c, ctl[c].job) ELSE UNCHANGED queueVars
  /\ Rest(c)
  /\ UNCHANGED <<kind, row, client, quota, faults>>

Retry(c) ==
  /\ At(c, "retry")
  /\ IF Queue!Holds(c, ctl[c].job) THEN Queue!GiveBack(c, ctl[c].job) ELSE UNCHANGED queueVars
  /\ Rest(c)
  /\ UNCHANGED <<kind, row, client, quota, faults>>

(* A process dies: its requests and its controller forget everything.       *)
Crash ==
  /\ faults < MaxFaults /\ faults' = faults + 1
  /\ \/ \E c \in Actor : ~At(c, "idle") /\ Rest(c) /\ UNCHANGED client
     \/ \E u \in Client : ~Asking(u, "idle") /\ Answer(u) /\ UNCHANGED ctl
  /\ UNCHANGED <<kind, row, queueVars, quota>>

JobTypeOK ==
  /\ \A j \in Job : row[j].token \in Nat
  /\ place \in [Job -> Queue!Places] /\ holder \in [Job -> Controller]
  /\ \A c \in Actor : ctl[c].job \in Job \cup {NoJob}
  /\ quota \in [Job -> {"none", "reserved", "committed", "released"}]
  /\ faults \in 0 .. MaxFaults
=============================================================================
