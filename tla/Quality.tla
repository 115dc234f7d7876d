------------------------------- MODULE Quality -------------------------------
(***************************************************************************)
(* Quality scores of finished Runs (quality/service.py): every worker that  *)
(* ends a Run stores its score, queues its export and brings the alert      *)
(* incident of the Agent version up to date, which blocks promotion while   *)
(* it is open.  quality/controller.py exports a score with blind writes of  *)
(* its sync row.  The alert rule of the model opens the incident as soon as *)
(* one score is low.                                                        *)
(***************************************************************************)
EXTENDS DurableJob

CONSTANT MaxAttempts   \* max_attempts of the controller

VARIABLES scores,      \* the stored score of each Run
          incident     \* the alert incident: none, open or resolved

qualityVars == <<jobVars, scores, incident>>

QualityInit ==
  /\ JobInit
  /\ scores = [j \in Job |-> "none"]
  /\ incident = "none"

QualityUnchanged == UNCHANGED <<scores, incident>>

(* record_terminal_run: a Run is scored once, a second score conflicts.     *)
StoreScore(u, j, value) ==
  /\ scores[j] = "none"
  /\ Begin(u, "sync", j, NoRow)
  /\ scores' = [scores EXCEPT ![j] = value]
  /\ UNCHANGED <<row, quota, incident>> /\ OnlyClient

AddSync(u) ==
  LET j == client[u].job
  IN  /\ Asking(u, "sync")
      /\ \/ /\ row[j].status = "none"
            /\ Store(j, [status |-> "queued", token |-> 0, at |-> [attempts |-> 0]])
            /\ Ask(u, "enqueue")
         \/ /\ row[j].status # "none"
            /\ Ask(u, "alerts") /\ UNCHANGED row
      /\ UNCHANGED quota /\ OnlyClient /\ QualityUnchanged

State(values) == IF "low" \in values THEN "open" ELSE "resolved"

(* _evaluate_alerts reads all scores and later overwrites the incident.     *)
ReadScores(u) ==
  /\ Asking(u, "alerts")
  /\ client' = [client EXCEPT ![u].pc = "upsert",
                              ![u].snap = [NoRow EXCEPT !.status = State({scores[j] : j \in Job})]]
  /\ UNCHANGED <<row, quota>> /\ OnlyClient /\ QualityUnchanged

UpsertIncident(u) ==
  /\ Asking(u, "upsert")
  /\ incident' = client[u].snap.status
  /\ Answer(u)
  /\ UNCHANGED <<row, quota, scores>> /\ OnlyClient

-----------------------------------------------------------------------------
(* QualitySyncController.process_once: every write is unconditional.        *)
ReadSync(c) ==
  LET now == row[ctl[c].job]
  IN  /\ At(c, "read")
      /\ Plan(c, "syncing", now, [now EXCEPT !.status = "syncing", !.at.attempts = @ + 1], "lost")
      /\ OnlyCtl /\ QualityUnchanged

Syncing(c) ==
  /\ At(c, "syncing")
  /\ Store(ctl[c].job, ctl[c].want)
  /\ Go(c, "export")
  /\ UNCHANGED <<kind, queueVars, client, quota, faults>> /\ QualityUnchanged

Export(c) ==
  /\ At(c, "export")
  /\ Go(c, "exported") \/ Go(c, "refused")
  /\ OnlyCtl /\ QualityUnchanged

Settled(c, status, next) ==
  /\ Store(ctl[c].job, [ctl[c].want EXCEPT !.status = status])
  /\ Go(c, next)
  /\ UNCHANGED <<kind, queueVars, client, quota, faults>> /\ QualityUnchanged

Refused(c) ==
  /\ At(c, "refused")
  /\ IF ctl[c].want.at.attempts >= MaxAttempts THEN Settled(c, "failed", "ack")
     ELSE Settled(c, "retrying", "retry")

Exported(c) == At(c, "exported") /\ Settled(c, "succeeded", "ack")

(* A call outside the export fails: the exception leaves the lease behind.  *)
SyncCallFails(c) ==
  /\ ctl[c].pc \in {"read", "syncing", "refused", "exported"}
  /\ faults < MaxFaults /\ faults' = faults + 1
  /\ Rest(c)
  /\ UNCHANGED <<kind, row, queueVars, client, quota>> /\ QualityUnchanged

QualityControls(c) ==
  ReadSync(c) \/ Syncing(c) \/ Export(c) \/ Refused(c) \/ Exported(c)
QualityAsks(u) ==
  \E j \in Target, value \in {"high", "low"} : StoreScore(u, j, value)
QualityAnswers(u) ==
  \/ AddSync(u) \/ ReadScores(u) \/ UpsertIncident(u)
  \/ EnqueueTask(u, "alerts") /\ QualityUnchanged

-----------------------------------------------------------------------------
(* "When a new score arrives the mean of the Agent version is aggregated    *)
(* and the incident opened or resolved": once every worker that stored a    *)
(* score has updated the incident, it agrees with the stored scores.        *)
IncidentFollowsScores ==
  kind = "quality" /\ faults = 0 /\ (\E j \in Job : scores[j] # "none")
    /\ (\A u \in Client : Asking(u, "idle")) =>
      incident = State({scores[j] : j \in Job})
=============================================================================
