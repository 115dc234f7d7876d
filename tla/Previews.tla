------------------------------ MODULE Previews ------------------------------
(***************************************************************************)
(* Preview Deployments: studio/preview_service.py creates and cancels them, *)
(* studio/preview_controller.py provisions and expires them.                *)
(***************************************************************************)
EXTENDS DurableJob

VARIABLE due    \* the Preview's time to live has passed

previewVars == <<jobVars, due>>

PreviewInit == JobInit /\ due = FALSE

(* _ALLOWED_TRANSITIONS; nothing leaves a terminal status.                  *)
PreviewMoves(status) ==
  IF status = "queued" THEN {"provisioning", "cancelling", "expired"}
  ELSE IF status = "provisioning" THEN {"ready", "cancelling", "failed", "expired"}
  ELSE IF status = "ready" THEN {"cancelling", "failed", "expired"}
  ELSE IF status = "cancelling" THEN {"cancelled", "failed", "expired"}
  ELSE {}

-----------------------------------------------------------------------------
(* PreviewService.create                                                    *)
CreatePreview(u, j) ==
  /\ row[j].status = "none"
  /\ Begin(u, "reserve", j, NoRow)
  /\ UNCHANGED <<row, quota, due>> /\ OnlyClient

(* A concurrent request with the same key has won: its Preview is returned. *)
AddPreview(u) ==
  LET j == client[u].job
  IN  /\ Asking(u, "add")
      /\ \/ /\ row[j].status = "none"
            /\ Store(j, [status |-> "queued", token |-> 0, at |-> NoProgress])
            /\ Ask(u, "enqueue")
         \/ /\ row[j].status # "none"
            /\ Answer(u) /\ UNCHANGED row
      /\ UNCHANGED <<quota, due>> /\ OnlyClient

(* add fails otherwise: the reservation is given back.                      *)
AddPreviewFails(u) ==
  /\ Asking(u, "add")
  /\ faults < MaxFaults /\ faults' = faults + 1
  /\ Release(client[u].job)
  /\ Answer(u)
  /\ UNCHANGED <<kind, row, queueVars, ctl, due>>

-----------------------------------------------------------------------------
(* PreviewController.  _move raises on an illegal transition and on a lost  *)
(* compare-and-set; err says who handles it.                                *)
MovePreview(c, snap, target, err) ==
  IF target \in PreviewMoves(snap.status)
    THEN Plan(c, "move", snap, With(snap, target, snap.at), err)
    ELSE Go(c, err)

(* Mutant of MoveWrites: quotas.release_subject is forgotten.               *)
MoveWritesKeepsQuota(c) ==
  LET j == ctl[c].job
      want == ctl[c].want
  IN  /\ At(c, "move") /\ Same(j, ctl[c].snap)
      /\ Store(j, want)
      /\ Go(c, IF want.status = "provisioning" THEN "provision" ELSE "ack")
      /\ UNCHANGED <<kind, queueVars, client, quota, faults, due>>

MoveWrites(c) ==
  LET j == ctl[c].job
      want == ctl[c].want
  IN  /\ At(c, "move") /\ Same(j, ctl[c].snap)
      /\ Store(j, want)
      /\ Go(c, IF want.status = "provisioning" THEN "provision"
               ELSE IF want.status = "ready" THEN "ack" ELSE "release")
      /\ UNCHANGED <<kind, queueVars, client, quota, faults, due>>

MoveLoses(c) ==
  /\ At(c, "move") /\ ~Same(ctl[c].job, ctl[c].snap)
  /\ IF c = Reaper THEN Rest(c) ELSE Go(c, ctl[c].err)
  /\ OnlyCtl /\ UNCHANGED due

(* release_subject after a terminal move                                    *)
ReleaseSubject(c) ==
  /\ At(c, "release")
  /\ Release(ctl[c].job)
  /\ IF c = Reaper THEN Rest(c) ELSE Go(c, "ack")
  /\ UNCHANGED <<kind, row, queueVars, client, faults, due>>

(* reconcile                                                                *)
ReadPreview(c) ==
  LET now == row[ctl[c].job]
  IN  /\ At(c, "read")
      /\ IF Ended(now.status) THEN Go(c, "ack")
         ELSE IF due THEN MovePreview(c, now, "expired", "fail")
         ELSE \/ now.status = "cancelling" /\ MovePreview(c, now, "cancelled", "fail")
              \/ now.status = "queued" /\ MovePreview(c, now, "provisioning", "fail")
              \/ now.status = "provisioning" /\ Go(c, "provision")
              \/ now.status \notin {"cancelling", "queued", "provisioning"} /\ Go(c, "ack")
      /\ OnlyCtl /\ UNCHANGED due

Provision(c) ==
  /\ At(c, "provision")
  /\ Go(c, "provisioned") \/ Go(c, "unprovisioned")
  /\ OnlyCtl /\ UNCHANGED due

(* The row is read again after provisioning, which took any time.           *)
Provisioned(c) ==
  LET latest == row[ctl[c].job]
  IN  /\ At(c, "provisioned")
      /\ IF due THEN MovePreview(c, latest, "expired", "fail")
         ELSE \/ latest.status = "cancelling" /\ MovePreview(c, latest, "cancelled", "fail")
              \/ latest.status = "provisioning" /\ MovePreview(c, latest, "ready", "fail")
              \/ latest.status \notin {"cancelling", "provisioning"} /\ Go(c, "ack")
      /\ OnlyCtl /\ UNCHANGED due

Unprovisioned(c) ==
  LET latest == row[ctl[c].job]
  IN  /\ At(c, "unprovisioned")
      /\ IF Ended(latest.status) THEN Go(c, "ack") ELSE MovePreview(c, latest, "failed", "fail")
      /\ OnlyCtl /\ UNCHANGED due

(* _fail: whatever escaped reconcile fails the Preview, or is retried.      *)
FailPreview(c) ==
  LET now == row[ctl[c].job]
  IN  /\ At(c, "fail")
      /\ IF Ended(now.status) THEN Go(c, "ack") ELSE MovePreview(c, now, "failed", "retry")
      /\ OnlyCtl /\ UNCHANGED due

(* A call to the database or the heartbeat fails.                           *)
PreviewCallFails(c) ==
  /\ c \in Controller /\ ctl[c].pc \notin {"idle", "ack", "retry"}
  /\ faults < MaxFaults /\ faults' = faults + 1
  /\ Go(c, IF At(c, "fail") \/ (ctl[c].pc \in {"move", "release"} /\ ctl[c].err = "retry")
             THEN "retry" ELSE "fail")
  /\ UNCHANGED <<kind, row, queueVars, client, quota, due>>

(* reap_expired, in the reliability loop of every worker                    *)
ReapPreview(j) ==
  /\ At(Reaper, "idle") /\ due
  /\ row[j].status # "none" /\ ~Ended(row[j].status)
  /\ ctl' = [ctl EXCEPT ![Reaper] =
               [pc |-> "move", job |-> j, snap |-> row[j],
                want |-> With(row[j], "expired", row[j].at), err |-> "idle"]]
  /\ OnlyCtl /\ UNCHANGED due

TimeToLivePasses == ~due /\ due' = TRUE /\ UNCHANGED jobVars

PreviewControls(c) ==
  \/ MoveWrites(c) \/ MoveLoses(c) \/ ReleaseSubject(c)
  \/ ReadPreview(c) \/ Provision(c) \/ Provisioned(c) \/ Unprovisioned(c) \/ FailPreview(c)

PreviewAsks(u) ==
  \E j \in Target : CreatePreview(u, j) \/ (CancelBegin(u, j) /\ UNCHANGED due)
PreviewAnswers(u) ==
  \/ AddPreview(u)
  \/ (ReserveQuota(u, "add") \/ EnqueueTask(u, "idle") \/ CancelMove(u)) /\ UNCHANGED due

PreviewFaults ==
  \/ (\E u \in Client : AddPreviewFails(u)) \/ (\E c \in Controller : PreviewCallFails(c))

-----------------------------------------------------------------------------
(* A Preview that has ended gives its ACTIVE_PREVIEWS reservation back, and *)
(* one that has not ended holds it: no faulty call, no early release.       *)
PreviewsAccounted ==
  kind = "preview" /\ faults = 0 =>
    \A j \in Job :
      /\ Ended(row[j].status) =>
           \/ quota[j] = "released"
           \/ \E c \in Actor : At(c, "release") /\ ctl[c].job = j
      /\ row[j].status # "none" /\ ~Ended(row[j].status) => quota[j] = "reserved"
=============================================================================
