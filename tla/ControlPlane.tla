---------------------------- MODULE ControlPlane ----------------------------
(***************************************************************************)
(* The control loops of the worker processes (worker/main.py, serve) over   *)
(* every kind of durable job.                                               *)
(***************************************************************************)
EXTENDS Previews, Evals, Deployments, Quality

controlVars == <<jobVars, due, results, child, env, snapshots, applied, scores, incident>>

ControlInit ==
  /\ PreviewInit /\ EvalInit /\ DeployInit /\ QualityInit
  /\ kind = "deployment" \/ env = FreshEnv

Others(k) ==
  /\ IF k = "preview" THEN TRUE ELSE UNCHANGED due
  /\ IF k = "eval" THEN TRUE ELSE EvalUnchanged
  /\ IF k = "deployment" THEN TRUE ELSE DeployUnchanged
  /\ IF k = "quality" THEN TRUE ELSE QualityUnchanged

(* One turn of a control loop: lease, reconcile, acknowledge or give back.  *)
Controls(c) ==
  \/ kind = "preview" /\ PreviewControls(c) /\ Others("preview")
  \/ kind = "eval" /\ EvalControls(c) /\ Others("eval")
  \/ kind = "deployment" /\ DeployControls(c) /\ Others("deployment")
  \/ kind = "quality" /\ QualityControls(c) /\ Others("quality")
  \/ (Acknowledge(c) \/ Retry(c) \/ (\E j \in Job : Dequeue(c, j))) /\ Others("none")

Requests(u) ==
  \/ kind = "preview" /\ PreviewAsks(u) /\ Others("preview")
  \/ kind = "eval" /\ EvalAsks(u) /\ Others("eval")
  \/ kind = "deployment" /\ DeployAsks(u) /\ Others("deployment")
  \/ kind = "quality" /\ QualityAsks(u) /\ Others("quality")

Answers(u) ==
  \/ kind = "preview" /\ PreviewAnswers(u) /\ Others("preview")
  \/ kind = "eval" /\ EvalAnswers(u) /\ Others("eval")
  \/ kind = "deployment" /\ DeployAnswers(u) /\ Others("deployment")
  \/ kind = "quality" /\ QualityAnswers(u) /\ Others("quality")

(* Time, the reaper of the reliability loop, and the workers that execute   *)
(* child Runs.                                                              *)
Background ==
  \/ kind = "preview" /\ TimeToLivePasses /\ Others("preview")
  \/ kind = "preview" /\ (\E j \in Target : ReapPreview(j)) /\ Others("preview")
  \/ kind = "preview" /\ PreviewControls(Reaper) /\ Others("preview")
  \/ kind = "eval" /\ (\E k \in Case : ChildEnds(k)) /\ Others("eval")

Faults ==
  \/ kind = "preview" /\ PreviewFaults /\ Others("preview")
  \/ kind = "eval" /\ (\E c \in Controller : EvalCallFails(c)) /\ Others("eval")
  \/ kind = "deployment" /\ DeployFaults /\ Others("deployment")
  \/ kind = "quality" /\ (\E c \in Controller : SyncCallFails(c)) /\ Others("quality")
  \/ Crash /\ Others("none")

ControlNext ==
  \/ \E c \in Controller : Controls(c)
  \/ \E u \in Client : Requests(u) \/ Answers(u)
  \/ Background \/ Faults

ControlSafety == ControlInit /\ [][ControlNext]_controlVars

(* A control loop keeps turning and a request that began goes on; time      *)
(* passes, and the workers end every child Run.                             *)
ControlSpec ==
  /\ ControlSafety
  /\ \A c \in Controller : WF_controlVars(Controls(c))
  /\ \A u \in Client : WF_controlVars(Answers(u))
  /\ WF_controlVars(Background)

-----------------------------------------------------------------------------
ControlTypeOK ==
  /\ JobTypeOK
  /\ due \in BOOLEAN
  /\ results \in [Case -> {"none", "passed", "failed"}]
  /\ child \in [Case -> {"none", "active", "good", "bad", "cancelled"}]
  /\ env.revision \in Nat /\ env.routes \subseteq Version
  /\ snapshots \subseteq Version /\ applied \subseteq Job
  /\ scores \in [Job -> {"none", "high", "low"}]
  /\ incident \in {"none", "open", "resolved"}

(* _ALLOWED_TRANSITIONS of Eval Runs                                        *)
EvalTransitions(status) ==
  IF status = "queued" THEN {"running", "cancelling"}
  ELSE IF status = "running" THEN {"cancelling", "passed", "failed"}
  ELSE IF status = "cancelling" THEN {"cancelled"}
  ELSE {}

DeployTransitions(status) ==
  IF status = "queued" THEN {"reconciling"}
  ELSE IF status = "reconciling" THEN {"succeeded", "failed"}
  ELSE {}

(* An Eval Run also stores its progress without a change of status.         *)
Moves(status) ==
  IF kind = "preview" THEN PreviewMoves(status)
  ELSE IF kind = "eval" THEN EvalTransitions(status) \cup ({status} \cap {"running", "cancelling"})
  ELSE DeployTransitions(status)

(* Cancelled, expired and finished jobs stay so and every write moves the   *)
(* row one fencing token on, although cancel requests, the reaper, two      *)
(* controllers and a controller that lost its lease write from old copies.  *)
JobsMoveOnce ==
  [][\A j \in Job : kind # "quality" /\ row[j].status # "none" /\ row'[j] # row[j] =>
       /\ row'[j].status \in Moves(row[j].status)
       /\ row'[j].token = row[j].token + 1]_controlVars

(* The jobs that requests have stored end, all of them.  A Preview ends (or *)
(* is ready) whatever fails; the other kinds have no reaper, and end in a   *)
(* behaviour without faults.                                                *)
Rests(j) ==
  \/ row[j].status \in {"none", "ready"} \/ Ended(row[j].status)
  \/ kind # "preview" /\ faults > 0

JobsEnd == (\E j \in Job : row[j].status # "none") ~> (\A j \in Job : Rests(j))
=============================================================================
