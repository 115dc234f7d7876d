------------------------------- MODULE Incidents -------------------------------
(***************************************************************************)
(* Reliability incidents (reliability/controller.py, reliability/service.py, *)
(* storage/reliability_repository.py): reapers that end a stuck Run and      *)
(* finalize it, the incident a failed finalization opens and the repairs     *)
(* that claim it under a lease, the maintenance jobs whose failures are      *)
(* incidents too, and the operations page, which opens and resolves alerts   *)
(* of its own among the same rows.  A reaper may die at any step.            *)
(***************************************************************************)
EXTENDS Naturals, FiniteSets

CONSTANTS Repairer,       \* processes that run a ReliabilityController
          Measured,     \* alerts of the load: "slo" (an objective), "queue"
          MaxBreaks     \* bound: failing steps, deaths, lapses and changes of the load

ASSUME MeasuredAssumption == Measured \cap {"finalize", "maintenance", "stuck"} = {}

VARIABLES stuckRun,     \* [ended, events, quota, lease]: how far it is finalized
          incidents,    \* fingerprint -> [status, lease]
          reapers,      \* reaper -> [pc, why, seen, copy]
          page,         \* the overview: [pc, active, listed, stuck]
          load,         \* what the overview measures: breached and congested alerts
          gauge,        \* harness_stuck_runs
          breaks,
          lapsed, died  \* a claim outlived its lease; a reaper died with work begun

incidentVars == <<stuckRun, incidents, reapers, page, load, gauge, breaks, lapsed, died>>

Fingerprint == {"finalize", "maintenance", "stuck"} \cup Measured
NoIncident == [status |-> "none", lease |-> FALSE]
IdleAt == [pc |-> "idle", why |-> "none", seen |-> FALSE, copy |-> NoIncident]
ClosedPage == [pc |-> "closed", active |-> {}, listed |-> {}, stuck |-> 0]

IncidentInit ==
  /\ stuckRun = [ended |-> FALSE, events |-> 0, quota |-> FALSE, lease |-> FALSE]
  /\ incidents = [f \in Fingerprint |-> NoIncident]
  /\ reapers = [r \in Repairer |-> IdleAt]
  /\ page = ClosedPage /\ load = {} /\ gauge = 0 /\ breaks = 0 /\ lapsed = FALSE /\ died = FALSE

Break == breaks < MaxBreaks /\ breaks' = breaks + 1
ReaperAt(r, pc) == reapers[r].pc = pc
MoveReaper(r, pc) == reapers' = [reapers EXCEPT ![r].pc = pc]
RestReaper(r) == reapers' = [reapers EXCEPT ![r] = IdleAt]
PageRests == UNCHANGED <<page, load, gauge, lapsed, died>>

(* PostgresReliabilityRepository.upsert_incident: the row of a fingerprint   *)
(* becomes what is given, whatever it has become since it was read.          *)
Upsert(f, incident) == incidents' = [incidents EXCEPT ![f] = incident]
OpenNow == [status |-> "open", lease |-> FALSE]

-----------------------------------------------------------------------------
(* _reap_run moves the row by compare-and-set, then finalizes.               *)
ReapStuck(r) ==
  /\ ReaperAt(r, "idle") /\ ~stuckRun.ended
  /\ stuckRun' = [stuckRun EXCEPT !.ended = TRUE]
  /\ reapers' = [reapers EXCEPT ![r] = [IdleAt EXCEPT !.pc = "check", !.why = "reap"]]
  /\ UNCHANGED <<incidents, breaks>> /\ PageRests

(* try_claim_incident: open, and no lease in force                           *)
Claimed(f) == IF incidents[f].status = "open" /\ ~incidents[f].lease
              THEN [status |-> "open", lease |-> TRUE] ELSE NoIncident

(* Mutant of ClaimIncident: the lease of another reaper is not looked at.    *)
ClaimIncidentAnyway(r) ==
  /\ ReaperAt(r, "idle") /\ incidents["finalize"].status = "open"
  /\ Upsert("finalize", [status |-> "open", lease |-> TRUE])
  /\ reapers' = [reapers EXCEPT ![r] = [IdleAt EXCEPT !.pc = "check", !.why = "repair",
                                                      !.copy = [status |-> "open", lease |-> TRUE]]]
  /\ UNCHANGED <<stuckRun, breaks>> /\ PageRests

(* _repair_finalize_failures: the Run is terminal and its status stays.      *)
ClaimIncident(r) ==
  /\ ReaperAt(r, "idle") /\ Claimed("finalize") # NoIncident
  /\ Upsert("finalize", Claimed("finalize"))
  /\ reapers' = [reapers EXCEPT ![r] = [IdleAt EXCEPT !.pc = "check", !.why = "repair",
                                                      !.copy = Claimed("finalize")]]
  /\ UNCHANGED <<stuckRun, breaks>> /\ PageRests

-----------------------------------------------------------------------------
(* _finalize_run                                                             *)
ReadEvents(r) ==
  /\ ReaperAt(r, "check")
  /\ reapers' = [reapers EXCEPT ![r].pc = "append", ![r].seen = stuckRun.events > 0]
  /\ UNCHANGED <<stuckRun, incidents, breaks>> /\ PageRests

AppendTerminal(r) ==
  /\ ReaperAt(r, "append") /\ MoveReaper(r, "quota")
  /\ stuckRun' = [stuckRun EXCEPT !.events = IF reapers[r].seen THEN @ ELSE @ + 1]
  /\ UNCHANGED <<incidents, breaks>> /\ PageRests

ReleaseSubject(r) ==
  /\ ReaperAt(r, "quota") /\ MoveReaper(r, "lease") /\ stuckRun' = [stuckRun EXCEPT !.quota = TRUE]
  /\ UNCHANGED <<incidents, breaks>> /\ PageRests

(* revoke_run; a repair then resolves its incident.                          *)
RevokeLeases(r) ==
  /\ ReaperAt(r, "lease") /\ stuckRun' = [stuckRun EXCEPT !.lease = TRUE]
  /\ IF reapers[r].why = "repair" THEN MoveReaper(r, "resolve") ELSE RestReaper(r)
  /\ UNCHANGED <<incidents, breaks>> /\ PageRests

(* A step raises: the reaper opens an incident, and a repair puts its claimed *)
(* copy back, open and with the lease over.                                   *)
FinalizeFails(r) ==
  /\ reapers[r].pc \in {"check", "append", "quota", "lease"} /\ Break
  /\ IF reapers[r].why = "repair" THEN MoveReaper(r, "reopen") ELSE MoveReaper(r, "open")
  /\ UNCHANGED <<stuckRun, incidents>> /\ PageRests

ReopenIncident(r) ==
  /\ ReaperAt(r, "reopen") /\ RestReaper(r)
  /\ Upsert("finalize", [reapers[r].copy EXCEPT !.lease = FALSE])
  /\ UNCHANGED <<stuckRun, breaks>> /\ PageRests

(* _open_incident, for a Run and for a maintenance job; _reap_run's outcome  *)
(* FAILED also counts in the gauge.                                          *)
OpenIncident(r) ==
  /\ ReaperAt(r, "open") /\ RestReaper(r)
  /\ Upsert(IF reapers[r].why = "reap" THEN "finalize" ELSE "maintenance", OpenNow)
  /\ gauge' = IF reapers[r].why = "reap" THEN 1 ELSE gauge
  /\ UNCHANGED <<stuckRun, breaks, page, load, lapsed, died>>

(* _resolve_incident reads the row and writes it back.                       *)
Resolves(r) == IF reapers[r].why = "repair" THEN "finalize" ELSE "maintenance"
ReadIncident(r) ==
  /\ ReaperAt(r, "resolve")
  /\ IF incidents[Resolves(r)].status = "open"
     THEN reapers' = [reapers EXCEPT ![r].pc = "close", ![r].copy = incidents[Resolves(r)]]
     ELSE RestReaper(r)
  /\ UNCHANGED <<stuckRun, incidents, breaks>> /\ PageRests

ResolveIncident(r) ==
  /\ ReaperAt(r, "close") /\ RestReaper(r)
  /\ Upsert(Resolves(r), [status |-> "resolved", lease |-> FALSE])
  /\ UNCHANGED <<stuckRun, breaks>> /\ PageRests

(* _run_maintenance: the callback succeeds or raises.                        *)
RunMaintenance(r) ==
  /\ ReaperAt(r, "idle") /\ stuckRun.ended
  /\ \/ /\ reapers' = [reapers EXCEPT ![r] = [IdleAt EXCEPT !.pc = "open", !.why = "maintain"]]
        /\ Break
     \/ /\ incidents["maintenance"].status = "open" /\ UNCHANGED breaks
        /\ reapers' = [reapers EXCEPT ![r] = [IdleAt EXCEPT !.pc = "resolve", !.why = "maintain"]]
  /\ UNCHANGED <<stuckRun, incidents>> /\ PageRests

(* The next round finds no stale Run: the gauge falls.                       *)
StuckRound(r) ==
  /\ ReaperAt(r, "idle") /\ gauge = 1 /\ gauge' = 0
  /\ UNCHANGED <<stuckRun, incidents, reapers, page, load, breaks, lapsed, died>>

(* The lease of 30 s passes; the reaper that holds it may be at work still.  *)
LeasePasses ==
  /\ incidents["finalize"].lease /\ Break
  /\ incidents' = [incidents EXCEPT !["finalize"].lease = FALSE]
  /\ lapsed' = (lapsed \/ \E r \in Repairer : reapers[r].why = "repair")
  /\ UNCHANGED <<stuckRun, reapers, page, load, gauge, died>>

ReaperDies(r) ==
  /\ ~ReaperAt(r, "idle") /\ Break /\ RestReaper(r)
  /\ died' = (died \/ reapers[r].why = "reap")
  /\ UNCHANGED <<stuckRun, incidents, page, load, gauge, lapsed>>

-----------------------------------------------------------------------------
(* ReliabilityService.overview                                               *)

(* Objectives and the ready queue get better and worse.                      *)
LoadChanges(f) ==
  /\ Break /\ load' = IF f \in load THEN load \ {f} ELSE load \cup {f}
  /\ UNCHANGED <<stuckRun, incidents, reapers, page, gauge, lapsed, died>>

(* The alerts of the moment: breached objectives, the queue, the gauge       *)
Alerts == load \cup (IF gauge > 0 THEN {"stuck"} ELSE {})
ListOpen == {f \in Fingerprint : incidents[f].status = "open"}

(* The kinds the page may resolve                                            *)
ManagedKinds == {"stuck"} \cup Measured

OpenPage ==
  /\ page.pc = "closed"
  /\ page' = [ClosedPage EXCEPT !.pc = "list", !.active = Alerts, !.stuck = gauge]
  /\ UNCHANGED <<stuckRun, incidents, reapers, load, gauge, breaks, lapsed, died>>

(* _publish_capacity writes back the count that was read.                    *)
PublishCapacity == gauge' = page.stuck

ListIncidents ==
  /\ page.pc = "list" /\ PublishCapacity
  /\ page' = [page EXCEPT !.pc = "raise", !.listed = ListOpen, !.stuck = 0]
  /\ UNCHANGED <<stuckRun, incidents, reapers, load, breaks, lapsed, died>>

(* _reconcile_alerts: every active alert, then every listed one that is not  *)
RaiseAlert(f) ==
  /\ page.pc = "raise" /\ f \in page.active
  /\ Upsert(f, OpenNow) /\ page' = [page EXCEPT !.active = @ \ {f}, !.listed = @ \ {f}]
  /\ UNCHANGED <<stuckRun, reapers, load, gauge, breaks, lapsed, died>>

ResolveAlert(f) ==
  /\ page.pc = "raise" /\ page.active = {} /\ f \in page.listed
  /\ f \in ManagedKinds
  /\ Upsert(f, [status |-> "resolved", lease |-> FALSE])
  /\ page' = [page EXCEPT !.listed = @ \ {f}]
  /\ UNCHANGED <<stuckRun, reapers, load, gauge, breaks, lapsed, died>>

ClosePage ==
  /\ page.pc = "raise" /\ page.active = {} /\ page.listed \cap ManagedKinds = {}
  /\ page' = ClosedPage
  /\ UNCHANGED <<stuckRun, incidents, reapers, load, gauge, breaks, lapsed, died>>

IncidentNext ==
  \/ \E r \in Repairer :
       \/ ReapStuck(r) \/ ClaimIncident(r) \/ ReadEvents(r) \/ AppendTerminal(r)
       \/ ReleaseSubject(r) \/ RevokeLeases(r) \/ FinalizeFails(r) \/ ReopenIncident(r)
       \/ OpenIncident(r) \/ ReadIncident(r) \/ ResolveIncident(r) \/ RunMaintenance(r)
       \/ StuckRound(r) \/ ReaperDies(r)
  \/ LeasePasses
  \/ \E f \in Measured : LoadChanges(f)
  \/ OpenPage \/ ListIncidents \/ ClosePage
  \/ \E f \in Fingerprint : RaiseAlert(f) \/ ResolveAlert(f)

-----------------------------------------------------------------------------
Finalized == stuckRun.events > 0 /\ stuckRun.quota /\ stuckRun.lease

(* A Run the reaper ended is not left half finalized: until its event, its    *)
(* quota and its credentials are done with, a reaper is at it or an open      *)
(* incident keeps it on record, whatever the repairs, the maintenance and the *)
(* operations page write to the incidents; only a reaper that dies before it  *)
(* has recorded the incident leaves it.  Its terminal event is appended once  *)
(* unless a repair outlived its lease.                                        *)
HalfDoneIsRecorded ==
  /\ (stuckRun.ended /\ ~Finalized /\ ~died) =>
       \/ \E r \in Repairer : reapers[r].why = "reap"
       \/ incidents["finalize"].status = "open"
  /\ stuckRun.events > 1 => lapsed
===============================================================================
