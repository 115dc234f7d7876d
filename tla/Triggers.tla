------------------------------- MODULE Triggers -------------------------------
(***************************************************************************)
(* One managed trigger of an Agent (triggers/service.py): administrators    *)
(* edit it, callers of a webhook, A2A or ChatOps trigger invoke it with an  *)
(* idempotency key, and the maintenance loops of the worker processes fire  *)
(* the slots of a schedule.  An invocation finds or creates the Session of  *)
(* its key, pinned to the deployment of that moment, and the Run.           *)
(*                                                                          *)
(* The row keeps revision, enabled and next_fire_at twice, as columns and   *)
(* inside the JSON payload; every read compares the two and raises if they  *)
(* differ.  replace and advance_schedule write both; touch_invoked writes   *)
(* back the payload it read.                                                *)
(***************************************************************************)
EXTENDS Naturals, FiniteSets

CONSTANTS Caller,       \* HTTP requests that invoke the trigger, all with one key
          Dispatcher,   \* worker processes that run dispatch_due
          Admin,        \* requests that edit the trigger
          MaxSlot,      \* bound: schedule slots
          MaxRoute,     \* bound: deployments of the environment
          MaxFailed     \* bound: failed calls

ASSUME TriggerAssumption == MaxSlot \in Nat

VARIABLES kind,         \* "webhook" (A2A and ChatOps alike) or "schedule"
          columns,      \* revision, enabled, next
          payload,      \* the same and the secret
          invocation,   \* the calls of callers, dispatchers and administrators
          sessions,     \* deployment a key's Session is pinned to, 0: no Session
          runsOf,       \* Runs in the store with that key
          route,        \* current deployment of the environment
          failed

triggerVars == <<kind, columns, payload, invocation, sessions, runsOf, route, failed>>

Key == 0 .. MaxSlot       \* 0: the callers' key; n: schedule slot n
Client == Caller \cup Dispatcher \cup Admin
Columns(p) == [revision |-> p.revision, enabled |-> p.enabled, next |-> p.next]
Corrupt == columns # Columns(payload)

TriggerInit ==
  /\ kind \in {"webhook", "schedule"}
  /\ payload = [revision |-> 1, enabled |-> TRUE, next |-> 1, secret |-> 1]
  /\ columns = Columns(payload)
  /\ invocation = [c \in Client |-> [pc |-> "idle", key |-> 0, copy |-> payload, route |-> 0]]
  /\ sessions = [k \in Key |-> 0]
  /\ runsOf = [k \in Key |-> 0]
  /\ route = 1
  /\ failed = 0

At(c, pc) == invocation[c].pc = pc
Step(c, pc) == invocation' = [invocation EXCEPT ![c].pc = pc]
StoreUnchanged == UNCHANGED <<columns, payload>>
DataUnchanged == UNCHANGED <<sessions, runsOf>>

-----------------------------------------------------------------------------
(* update and rotate_secret: read, then replace at the revision read        *)
AdminRead(a) ==
  /\ At(a, "idle") /\ ~Corrupt
  /\ invocation' = [invocation EXCEPT ![a] = [@ EXCEPT !.pc = "replace", !.copy = payload]]
  /\ StoreUnchanged /\ DataUnchanged /\ UNCHANGED <<route, failed>>

SwitchTrigger(copy) == [copy EXCEPT !.revision = @ + 1, !.enabled = ~@]
RotateSecret(copy) == [copy EXCEPT !.revision = @ + 1, !.secret = @ + 1]

ReplaceTrigger(a) ==
  LET copy == invocation[a].copy
  IN  /\ At(a, "replace") /\ Step(a, "done")
      /\ IF columns.revision = copy.revision
           THEN \E p \in {SwitchTrigger(copy), RotateSecret(copy)} :
                   payload' = p /\ columns' = Columns(p)
           ELSE StoreUnchanged
      /\ DataUnchanged /\ UNCHANGED <<route, failed>>

-----------------------------------------------------------------------------
(* _authenticate *)
Authenticate(c) ==
  /\ kind = "webhook" /\ At(c, "idle")
  /\ Step(c, IF ~Corrupt /\ payload.enabled /\ payload.secret = 1 THEN "session" ELSE "failed")
  /\ StoreUnchanged /\ DataUnchanged /\ UNCHANGED <<route, failed>>

(* dispatch_due: list_due, then advance_schedule from the slot it listed    *)
ListDue(d) ==
  /\ kind = "schedule" /\ At(d, "idle") /\ ~Corrupt
  /\ columns.enabled /\ columns.next <= MaxSlot
  /\ invocation' = [invocation EXCEPT ![d] = [@ EXCEPT !.pc = "advance", !.key = columns.next]]
  /\ StoreUnchanged /\ DataUnchanged /\ UNCHANGED <<route, failed>>

(* advance_schedule from slot n to slot m, under the row's lock             *)
Moved(n, m) ==
  IF ~Corrupt /\ payload.next = n
    THEN columns' = [columns EXCEPT !.next = m] /\ payload' = [payload EXCEPT !.next = m]
    ELSE StoreUnchanged

AdvanceSchedule(d) ==
  LET slot == invocation[d].key
  IN  /\ At(d, "advance") /\ Moved(slot, slot + 1)
      /\ Step(d, IF ~Corrupt /\ payload.next = slot THEN "session" ELSE "idle")
      /\ DataUnchanged /\ UNCHANGED <<route, failed>>

(* The invocation failed: the slot is made eligible again, if nobody        *)
(* advanced the schedule meanwhile.                                         *)
Revert(d) ==
  LET slot == invocation[d].key
  IN  /\ d \in Dispatcher /\ At(d, "failed") /\ Moved(slot + 1, slot)
      /\ Step(d, "idle")
      /\ DataUnchanged /\ UNCHANGED <<route, failed>>

-----------------------------------------------------------------------------
(* _existing_session, then SessionService.create resolves a deployment      *)
FindSession(c) ==
  /\ At(c, "session")
  /\ invocation' = [invocation EXCEPT ![c] =
       [@ EXCEPT !.pc = IF sessions[invocation[c].key] = 0 THEN "addSession" ELSE "find",
                 !.route = route]]
  /\ StoreUnchanged /\ DataUnchanged /\ UNCHANGED <<route, failed>>

(* add; a Session that exists already must be the same in every field       *)
AddSession(c) ==
  LET k == invocation[c].key
      mine == invocation[c].route
  IN  /\ At(c, "addSession")
      /\ sessions' = IF sessions[k] = 0 THEN [sessions EXCEPT ![k] = mine] ELSE sessions
      /\ Step(c, IF sessions'[k] = mine THEN "find" ELSE "failed")
      /\ StoreUnchanged /\ UNCHANGED <<runsOf, route, failed>>

(* RunService._create_locked: an existing Run with the key is the answer.   *)
FindRun(c) ==
  /\ At(c, "find")
  /\ Step(c, IF runsOf[invocation[c].key] = 0 THEN "addRun" ELSE "touch")
  /\ StoreUnchanged /\ DataUnchanged /\ UNCHANGED <<route, failed>>

(* Mutant of AddRun: no unique constraint on the idempotency key.           *)
AddRunBlind(c) ==
  /\ At(c, "addRun") /\ Step(c, "touch")
  /\ runsOf' = [runsOf EXCEPT ![invocation[c].key] = @ + 1]
  /\ StoreUnchanged /\ UNCHANGED <<sessions, route, failed>>

(* runs.add under uq_run_idempotency, run.queued and the task               *)
AddRun(c) ==
  LET k == invocation[c].key
  IN  /\ At(c, "addRun")
      /\ IF runsOf[k] = 0
           THEN runsOf' = [runsOf EXCEPT ![k] = 1] /\ Step(c, "touch")
           ELSE UNCHANGED runsOf /\ Step(c, "failed")
      /\ StoreUnchanged /\ UNCHANGED <<sessions, route, failed>>

(* touch_invoked reads the row and writes its payload back in a later       *)
(* statement, without a lock.                                               *)
TouchRead(c) ==
  /\ At(c, "touch")
  /\ invocation' = [invocation EXCEPT ![c] =
       [@ EXCEPT !.pc = IF Corrupt THEN "failed" ELSE "write", !.copy = payload]]
  /\ StoreUnchanged /\ DataUnchanged /\ UNCHANGED <<route, failed>>

TouchWrite(c) ==
  /\ At(c, "write") /\ payload' = invocation[c].copy
  /\ Step(c, IF c \in Caller THEN "answered" ELSE "idle")
  /\ DataUnchanged /\ UNCHANGED <<columns, route, failed>>

(* Any of the calls raises; a caller may repeat its request.                *)
InvocationFails(c) ==
  /\ invocation[c].pc \in {"session", "addSession", "find", "addRun", "touch", "write"}
  /\ failed < MaxFailed /\ failed' = failed + 1
  /\ Step(c, "failed")
  /\ StoreUnchanged /\ DataUnchanged /\ UNCHANGED route

Repeat(c) ==
  /\ c \in Caller /\ At(c, "failed") /\ Step(c, "idle")
  /\ StoreUnchanged /\ DataUnchanged /\ UNCHANGED <<route, failed>>

Promote ==
  /\ route < MaxRoute /\ route' = route + 1
  /\ StoreUnchanged /\ DataUnchanged /\ UNCHANGED <<invocation, failed>>

Invoke(c) == \/ FindSession(c) \/ AddSession(c) \/ FindRun(c) \/ AddRun(c)
             \/ TouchRead(c) \/ TouchWrite(c) \/ InvocationFails(c)

TriggerNext ==
  /\ UNCHANGED kind
  /\ \/ \E a \in Admin : AdminRead(a) \/ ReplaceTrigger(a)
     \/ \E c \in Caller : Authenticate(c) \/ Repeat(c)
     \/ \E d \in Dispatcher : ListDue(d) \/ AdvanceSchedule(d) \/ Revert(d)
     \/ \E c \in Caller \cup Dispatcher : Invoke(c)
     \/ Promote

TriggerSpec == TriggerInit /\ [][TriggerNext]_triggerVars

-----------------------------------------------------------------------------
(* A key names at most one Run, however many callers and dispatchers work   *)
(* on it at once, a slot comes back or a request is repeated; who got an    *)
(* answer got that Run, in a Session.                                       *)
TriggerRunsOnce ==
  /\ \A k \in Key : runsOf[k] <= 1 /\ (runsOf[k] = 1 => sessions[k] # 0)
  /\ \A c \in Caller : At(c, "answered") => runsOf[invocation[c].key] = 1
===============================================================================
