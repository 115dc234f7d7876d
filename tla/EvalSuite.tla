------------------------------- MODULE EvalSuite -------------------------------
(***************************************************************************)
(* The live evaluation of an Agent version (evals/runner.py): for each case   *)
(* of a suite a Session, its input files and a Run over HTTP, polling until   *)
(* the Run has a status the case accepts or a terminal one, reading its       *)
(* events and scoring them.  Whatever is raised cancels the Run, if its id    *)
(* is known, and gives the case an error result.                              *)
(***************************************************************************)
EXTENDS Naturals, Sequences, FiniteSets

CONSTANTS Expect,        \* a sequence: the expectation of each case
          Deed,          \* what a Run logs: tools, subagents that start and end, approvals
          MaxDeeds,      \* events of a Run
          MaxOutages     \* calls that fail or whose answer is lost

ASSUME SuiteAssumption ==
  /\ Deed \subseteq [type : {"tool", "started", "completed", "approval"}, name : STRING]
  /\ Expect \in Seq([statuses : SUBSET STRING, required : SUBSET STRING, forbidden : SUBSET STRING,
                     least : Nat, most : Nat, approval : BOOLEAN])

VARIABLES turn,          \* the case being evaluated
          stage,         \* the call it makes next
          tried,         \* for each case the status of its Run
          deeds,         \* events of the current case's Run
          seen,          \* the status and the events the runner has read
          report,        \* results: [case, passed, right]
          outages,
          strayed        \* cases whose create answer or a cancellation was lost

suiteVars == <<turn, stage, tried, deeds, seen, report, outages, strayed>>

CaseIndex == DOMAIN Expect
RunState == {"none", "queued", "running", "waiting", "cancelling", "ended"}
NotSeen == [status |-> "none", log |-> << >>, known |-> FALSE]

SuiteInit ==
  /\ turn = 1 /\ stage = "session"
  /\ tried = [k \in CaseIndex |-> "none"]
  /\ deeds = << >> /\ seen = NotSeen /\ report = << >>
  /\ outages = 0 /\ strayed = {}

Called(at) == stage = at /\ turn \in CaseIndex
RunOn == UNCHANGED <<tried, deeds, outages, strayed>>

-----------------------------------------------------------------------------
(* evaluate_recorded_run                                                     *)

LoggedTools(log) == {log[n].name : n \in {n \in DOMAIN log : log[n].type = "tool"}}
LoggedApproval(log) == \E n \in DOMAIN log : log[n].type = "approval"

(* The most subagents that were active at once, counted along the log         *)
Tallied(before, event) ==
  LET active == IF event.type = "started" THEN before.active \cup {event.name}
                ELSE IF event.type = "completed" THEN before.active \ {event.name}
                ELSE before.active
  IN [active |-> active,
      peak |-> IF Cardinality(active) > before.peak THEN Cardinality(active) ELSE before.peak]

PeakConcurrent(log) ==
  LET tally[n \in 0 .. Len(log)] ==
        IF n = 0 THEN [active |-> {}, peak |-> 0] ELSE Tallied(tally[n - 1], log[n])
  IN tally[Len(log)].peak

EvaluateRecordedRun(expect, status, log, late) ==
  /\ status \in expect.statuses
  /\ expect.required \subseteq LoggedTools(log)
  /\ expect.forbidden \cap LoggedTools(log) = {}
  /\ PeakConcurrent(log) \in expect.least .. expect.most
  /\ expect.approval <=> LoggedApproval(log)
  /\ ~late

-----------------------------------------------------------------------------
(* EvalRunner.run and the calls of HttpHarnessEvalClient                      *)

(* create_session and upload_input: what they make has no Run yet.            *)
CreateEvalSession ==
  /\ Called("session") /\ stage' \in {"upload", "create"}
  /\ RunOn /\ UNCHANGED <<turn, seen, report>>

UploadFixture ==
  /\ Called("upload") /\ stage' = "create"
  /\ RunOn /\ UNCHANGED <<turn, seen, report>>

(* create_run; the answer may be lost after the Run was made.                 *)
CreateEvalRun(lost) ==
  /\ Called("create")
  /\ tried' = [tried EXCEPT ![turn] = "queued"]
  /\ lost => outages < MaxOutages
  /\ outages' = IF lost THEN outages + 1 ELSE outages
  /\ strayed' = IF lost THEN strayed \cup {turn} ELSE strayed
  /\ stage' = IF lost THEN "error" ELSE "wait"
  /\ seen' = [seen EXCEPT !.known = ~lost]
  /\ UNCHANGED <<turn, deeds, report>>

(* wait_for_run: one poll.  The status counts when the case accepts it or it  *)
(* is terminal; else the loop goes on until the time is over.                 *)
PollRun ==
  /\ Called("wait")
  /\ IF tried[turn] = "ended" \/ tried[turn] \in Expect[turn].statuses
     THEN seen' = [seen EXCEPT !.status = tried[turn]] /\ stage' = "events"
     ELSE stage' \in {"wait", "error"} /\ UNCHANGED seen
  /\ RunOn /\ UNCHANGED <<turn, report>>

(* The events are read after the status.                                      *)
FetchEvents ==
  /\ Called("events")
  /\ seen' = [seen EXCEPT !.log = deeds] /\ stage' = "score"
  /\ RunOn /\ UNCHANGED <<turn, report>>

(* What a passing result says of the events of a Run that has ended           *)
ActiveAt(log, n) ==
  {t \in {log[j].name : j \in DOMAIN log} :
     \E i \in 1 .. n : /\ log[i] = [type |-> "started", name |-> t]
                      /\ \A j \in i .. n : log[j] # [type |-> "completed", name |-> t]}

KeepsTo(log) ==
  /\ \A tool \in Expect[turn].required :
       \E n \in DOMAIN log : log[n] = [type |-> "tool", name |-> tool]
  /\ \A n \in DOMAIN log : Cardinality(ActiveAt(log, n)) <= Expect[turn].most

AddSuiteResult(passed) ==
  report' = Append(report, [case |-> turn, passed |-> passed,
                            right |-> seen.status = "ended" => KeepsTo(deeds)])

Following == turn' = turn + 1 /\ stage' = "session" /\ seen' = NotSeen /\ deeds' = << >>

(* The result is appended before the Run is cancelled.                       *)
ScoreRun(late) ==
  /\ Called("score")
  /\ AddSuiteResult(EvaluateRecordedRun(Expect[turn], seen.status, seen.log, late))
  /\ IF seen.status = "ended" THEN Following
     ELSE stage' = "stop" /\ UNCHANGED <<turn, seen, deeds>>
  /\ UNCHANGED <<tried, outages, strayed>>

(* RunService.cancel: a Run that its worker executes is cancelled by that     *)
(* worker, later.                                                            *)
CancelRun(status) ==
  IF status \in {"queued", "waiting"} THEN "ended"
  ELSE IF status = "running" THEN "cancelling" ELSE status

(* cancel_run; a call that fails may have reached the platform all the same.  *)
CallCancel(fails) ==
  /\ fails => outages < MaxOutages
  /\ outages' = IF fails THEN outages + 1 ELSE outages
  /\ strayed' = IF fails THEN strayed \cup {turn} ELSE strayed
  /\ \/ tried' = [tried EXCEPT ![turn] = CancelRun(@)]
     \/ fails /\ UNCHANGED tried

(* A Run that was scored while it waits is cancelled; a failure raises.       *)
StopScored(fails) ==
  /\ Called("stop") /\ CallCancel(fails)
  /\ IF fails THEN stage' = "error" /\ UNCHANGED <<turn, seen, deeds>> ELSE Following
  /\ UNCHANGED report

SuiteCallFails ==
  /\ stage \in {"session", "upload", "create", "wait", "events"} /\ turn \in CaseIndex
  /\ outages < MaxOutages /\ outages' = outages + 1
  /\ stage' = "error"
  /\ UNCHANGED <<turn, tried, deeds, seen, report, strayed>>

(* Mutant of HandleError: the Run is left as it is.                           *)
HandleErrorLeaves(fails) ==
  /\ Called("error") /\ ~fails
  /\ AddSuiteResult(FALSE) /\ Following
  /\ UNCHANGED <<tried, outages, strayed>>

(* except Exception: a Run whose id is known is cancelled, a failure of that  *)
(* is dropped, and the case has an error result.                             *)
HandleError(fails) ==
  /\ Called("error") /\ (fails => seen.known)
  /\ IF seen.known THEN CallCancel(fails) ELSE UNCHANGED <<tried, outages, strayed>>
  /\ AddSuiteResult(FALSE) /\ Following

-----------------------------------------------------------------------------
(* The platform executes the Run, whether or not the runner knows of it.      *)
LogDeed(deed) ==
  /\ turn \in CaseIndex /\ tried[turn] = "running" /\ Len(deeds) < MaxDeeds
  /\ deeds' = Append(deeds, deed)
  /\ UNCHANGED <<turn, stage, tried, seen, report, outages, strayed>>

MoveTried(k, status) ==
  /\ \/ tried[k] \in {"queued", "running", "waiting"} \ {status}
     \/ tried[k] = "cancelling" /\ status = "ended"
  /\ status = "waiting" => k = turn /\ tried[k] = "running" /\ LoggedApproval(deeds)
  /\ tried' = [tried EXCEPT ![k] = status]
  /\ UNCHANGED <<turn, stage, deeds, seen, report, outages, strayed>>

SuiteNext ==
  \/ CreateEvalSession \/ UploadFixture \/ PollRun \/ FetchEvents \/ SuiteCallFails
  \/ \E b \in BOOLEAN : CreateEvalRun(b) \/ ScoreRun(b) \/ StopScored(b) \/ HandleError(b)
  \/ \E deed \in Deed : LogDeed(deed)
  \/ \E k \in CaseIndex, status \in {"running", "waiting", "ended"} : MoveTried(k, status)

-----------------------------------------------------------------------------
(* The report has the results of the cases in their order, one for each, and  *)
(* another only after its Run could not be cancelled, which is a failure; the *)
(* Run of a case that is over has ended or is being cancelled by its worker,  *)
(* unless its create answer or its cancellation was lost; and a case that     *)
(* passed on a Run that had ended is one whose events used the required tools *)
(* and kept to the expected concurrency.                                      *)
SuiteAccounted ==
  /\ \A n \in DOMAIN report :
       /\ report[n].passed => report[n].right
       /\ n > 1 => /\ report[n - 1].case <= report[n].case
                   /\ report[n].passed => report[n - 1].case # report[n].case
  /\ \A k \in 1 .. turn - 1 :
       LET results == {n \in DOMAIN report : report[n].case = k}
       IN /\ results # {}
          /\ k \notin strayed => /\ Cardinality(results) = 1
                                 /\ tried[k] \in {"none", "cancelling", "ended"}
===============================================================================
