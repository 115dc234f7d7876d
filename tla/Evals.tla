-------------------------------- MODULE Evals --------------------------------
(***************************************************************************)
(* Eval Runs: evals/service.py creates and cancels them; every delivery to  *)
(* evals/controller.py makes one durable step of the current case (session, *)
(* input files, child Run, result) and gives the task back until the row is *)
(* terminal.  The row's progress is the index of the case, its phase and    *)
(* whether the reports are written.                                         *)
(***************************************************************************)
EXTENDS DurableJob

CONSTANT Cases    \* the number of cases of the dataset

ASSUME CasesAssumption == Cases \in Nat \ {0}

Case == 1 .. Cases

VARIABLES results,  \* the stored result of each case
          child     \* the child Run of each case

evalVars == <<jobVars, results, child>>

EvalInit ==
  /\ JobInit
  /\ results = [k \in Case |-> "none"]
  /\ child = [k \in Case |-> "none"]

EvalUnchanged == UNCHANGED <<results, child>>
Start == [index |-> 0, phase |-> "none", reports |-> FALSE]
CaseOf(r) == r.at.index + 1
InPhase(r, phase) == With(r, "running", [r.at EXCEPT !.phase = phase])
NextCase(r) == With(r, "running", [r.at EXCEPT !.index = @ + 1, !.phase = "none"])

(* EvalService.create_run, after its reads                                  *)
CreateEval(u, j) ==
  /\ row[j].status = "none"
  /\ Begin(u, "add", j, NoRow)
  /\ UNCHANGED <<row, quota>> /\ OnlyClient /\ EvalUnchanged

AddEval(u) ==
  LET j == client[u].job
  IN  /\ Asking(u, "add")
      /\ \/ /\ row[j].status = "none"
            /\ Store(j, [status |-> "queued", token |-> 0, at |-> Start])
            /\ Ask(u, "enqueue")
         \/ /\ row[j].status # "none"
            /\ Answer(u) /\ UNCHANGED row
      /\ UNCHANGED quota /\ OnlyClient /\ EvalUnchanged

(* reconcile: which step of the Eval Run comes next.  What is raised while  *)
(* a case runs goes to the handler, everything else to a retry.             *)
ReadEval(c) ==
  LET now == row[ctl[c].job]
      CaseStep ==
        \/ now.at.phase = "none" /\ Plan(c, "replace", now, InPhase(now, "started"), "handle")
        \/ now.at.phase = "started" /\ Plan(c, "replace", now, InPhase(now, "uploaded"), "handle")
        \/ now.at.phase \in {"started", "uploaded"} /\ Plan(c, "spawn", now, InPhase(now, "child"), "handle")
        \/ now.at.phase = "child" /\ Plan(c, "poll", now, NextCase(now), "handle")
  IN  /\ At(c, "read")
      /\ \/ Ended(now.status) /\ Go(c, "ack")
         \/ now.status = "cancelling" /\ Plan(c, "stop", now, NoRow, "retry")
         \/ /\ now.status = "queued"
            /\ Plan(c, "replace", now, With(now, "running", now.at), "retry")
         \/ /\ now.status = "running"
            /\ IF now.at.index >= Cases THEN Plan(c, "finalize", now, NoRow, "retry")
               ELSE CaseStep
      /\ OnlyCtl /\ EvalUnchanged

(* Mutant of Replace: the task is acknowledged and not enqueued again.      *)
ReplaceAcknowledges(c) ==
  LET j == ctl[c].job
  IN  /\ At(c, "replace")
      /\ row' = IF Same(j, ctl[c].snap) THEN [row EXCEPT ![j] = ctl[c].want] ELSE row
      /\ Go(c, IF Same(j, ctl[c].snap) THEN "ack" ELSE ctl[c].err)
      /\ UNCHANGED <<kind, queueVars, client, quota, faults>> /\ EvalUnchanged

(* _replace: a compare-and-set that raises when it loses.  A row that is    *)
(* still active gives the task back.                                        *)
Replace(c) ==
  LET j == ctl[c].job
  IN  /\ At(c, "replace")
      /\ \/ /\ Same(j, ctl[c].snap)
            /\ Store(j, ctl[c].want)
            /\ Go(c, IF Ended(ctl[c].want.status) THEN "ack" ELSE "retry")
         \/ /\ ~Same(j, ctl[c].snap)
            /\ Go(c, ctl[c].err) /\ UNCHANGED row
      /\ UNCHANGED <<kind, queueVars, client, quota, faults>> /\ EvalUnchanged

(* _create_child_run: the child has an idempotency key; its id is stored    *)
(* by the _replace that follows.                                            *)
Spawn(c) ==
  /\ At(c, "spawn")
  /\ child' = [child EXCEPT ![CaseOf(ctl[c].snap)] = IF @ = "none" THEN "active" ELSE @]
  /\ Go(c, "replace")
  /\ OnlyCtl /\ UNCHANGED results

Stop(k) == child' = [child EXCEPT ![k] = IF @ = "active" THEN "cancelled" ELSE @]

(* A child that has ended is scored; an active one may have timed out or    *)
(* wait in a status the case accepts (and is cancelled), else it is polled  *)
(* again.                                                                   *)
Poll(c) ==
  LET k == CaseOf(ctl[c].snap)
  IN  /\ At(c, "poll")
      /\ \/ child[k] = "good" /\ Go(c, "addPassed") /\ UNCHANGED child
         \/ child[k] \in {"bad", "cancelled"} /\ Go(c, "addFailed") /\ UNCHANGED child
         \/ child[k] = "active" /\ Go(c, "retry") /\ UNCHANGED child
         \/ child[k] = "active" /\ Go(c, "addFailed") /\ Stop(k)
         \/ child[k] = "active" /\ Go(c, "addPassed") /\ Stop(k)
      /\ OnlyCtl /\ UNCHANGED results

(* Mutant of AddResult: the result replaces the one that is stored.         *)
AddResultAgain(c) ==
  LET k == CaseOf(ctl[c].snap)
  IN  /\ ctl[c].pc \in {"addPassed", "addFailed"}
      /\ results' = [results EXCEPT ![k] = IF At(c, "addPassed") THEN "passed" ELSE "failed"]
      /\ Go(c, "replace")
      /\ OnlyCtl /\ UNCHANGED child

(* add_case_result in _complete_case: a second result of a case differs at  *)
(* least in its time, and is a conflict.                                    *)
AddResult(c) ==
  LET k == CaseOf(ctl[c].snap)
  IN  /\ ctl[c].pc \in {"addPassed", "addFailed"}
      /\ \/ /\ results[k] = "none"
            /\ results' = [results EXCEPT ![k] =
                             IF At(c, "addPassed") THEN "passed" ELSE "failed"]
            /\ Go(c, "replace")
         \/ /\ results[k] # "none"
            /\ Go(c, ctl[c].err) /\ UNCHANGED results
      /\ OnlyCtl /\ UNCHANGED child

(* except Exception: cancel the child the row knows of and record an error. *)
Handle(c) ==
  /\ At(c, "handle")
  /\ IF ctl[c].snap.at.phase = "child" THEN Stop(CaseOf(ctl[c].snap)) ELSE UNCHANGED child
  /\ Plan(c, "addFailed", ctl[c].snap, NextCase(ctl[c].snap), "retry")
  /\ OnlyCtl /\ UNCHANGED results

(* _cancel: stop the child, complete the results, write the reports.        *)
CancelChild(c) ==
  /\ At(c, "stop")
  /\ IF ctl[c].snap.at.phase = "child" THEN Stop(CaseOf(ctl[c].snap)) ELSE UNCHANGED child
  /\ Go(c, "list")
  /\ OnlyCtl /\ UNCHANGED results

(* The reports are a compare-and-set of their own, the outcome another.     *)
Outcome(c, status) ==
  LET now == ctl[c].snap
      reported == With(now, now.status, [now.at EXCEPT !.reports = TRUE])
  IN  IF now.at.reports THEN Plan(c, "replace", now, With(now, status, now.at), "retry")
      ELSE Plan(c, "report", now, With(reported, status, reported.at), "retry")

ListResults(c) ==
  LET now == ctl[c].snap
  IN  /\ At(c, "list")
      /\ IF now.at.phase # "none" /\ results[CaseOf(now)] = "none"
           THEN Go(c, "addCancelled") ELSE Outcome(c, "cancelled")
      /\ OnlyCtl /\ EvalUnchanged

AddCancelled(c) ==
  LET k == CaseOf(ctl[c].snap)
  IN  /\ At(c, "addCancelled")
      /\ \/ /\ results[k] = "none"
            /\ results' = [results EXCEPT ![k] = "failed"]
            /\ Outcome(c, "cancelled")
         \/ /\ results[k] # "none"
            /\ Go(c, "retry") /\ UNCHANGED results
      /\ OnlyCtl /\ UNCHANGED child

Finalize(c) ==
  /\ At(c, "finalize")
  /\ LET stored == {results[k] : k \in Case} \ {"none"}
     IN  Outcome(c, IF stored = {"passed"} THEN "passed" ELSE "failed")
  /\ OnlyCtl /\ EvalUnchanged

(* _write_artifacts                                                         *)
WriteReports(c) ==
  LET j == ctl[c].job
      snap == ctl[c].snap
      reported == With(snap, snap.status, [snap.at EXCEPT !.reports = TRUE])
  IN  /\ At(c, "report")
      /\ \/ /\ Same(j, snap)
            /\ Store(j, reported)
            /\ Plan(c, "replace", reported, ctl[c].want, "retry")
         \/ /\ ~Same(j, snap)
            /\ Go(c, "retry") /\ UNCHANGED row
      /\ UNCHANGED <<kind, queueVars, client, quota, faults>> /\ EvalUnchanged

(* A call fails: inside the case it is handled, elsewhere retried.          *)
EvalCallFails(c) ==
  /\ ctl[c].pc \notin {"idle", "ack", "retry", "handle"}
  /\ faults < MaxFaults /\ faults' = faults + 1
  /\ Go(c, ctl[c].err)
  /\ UNCHANGED <<kind, row, queueVars, client, quota>> /\ EvalUnchanged

(* The run workers execute the child.                                       *)
ChildEnds(k) ==
  /\ child[k] = "active"
  /\ \E how \in {"good", "bad"} : child' = [child EXCEPT ![k] = how]
  /\ UNCHANGED jobVars /\ UNCHANGED results

EvalControls(c) ==
  \/ ReadEval(c) \/ Replace(c) \/ Spawn(c) \/ Poll(c) \/ AddResult(c) \/ Handle(c)
  \/ CancelChild(c) \/ ListResults(c) \/ AddCancelled(c) \/ Finalize(c) \/ WriteReports(c)

EvalAsks(u) ==
  \E j \in Target : CreateEval(u, j) \/ (CancelBegin(u, j) /\ EvalUnchanged)
EvalAnswers(u) ==
  \/ AddEval(u)
  \/ (EnqueueTask(u, "idle") \/ CancelMove(u)) /\ EvalUnchanged

-----------------------------------------------------------------------------
(* An Eval Run that passed, and so opens the promotion gate, has a passing  *)
(* stored result for every case, whichever controllers worked on it.        *)
PassedMeansEveryCase ==
  kind = "eval" =>
    \A j \in Job : row[j].status = "passed" => \A k \in Case : results[k] = "passed"
=============================================================================
