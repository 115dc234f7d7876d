------------------------------- MODULE Sandboxes -------------------------------
(***************************************************************************)
(* Sandboxes (sandbox/): those of a Session, which a worker keeps warm, and  *)
(* those of one execution.                                                   *)
(***************************************************************************)
EXTENDS Naturals, Sequences, SequencesExt, FiniteSets
-----------------------------------------------------------------------------
(***************************************************************************)
(* A worker process and its Daytona sandboxes.  worker_loop takes tasks     *)
(* between two rounds of maintenance and executes the tasks of one session  *)
(* one after the other (session_locks).  DaytonaSandboxProvider keeps one   *)
(* warm sandbox per session, guarded by an asyncio.Lock per session that    *)
(* Runs, the eviction at the end of a Run and the maintenance round share;  *)
(* the dict of those locks forgets a lock although others wait for it.      *)
(* With the deferred provider around it a Run takes one of a few slots and  *)
(* leases the sandbox at its first tool call.                               *)
(*                                                                          *)
(* One event loop runs everything: between two awaits a coroutine is        *)
(* atomic, and a coroutine that got its lock runs before any pending I/O    *)
(* completes (Ready).                                                       *)
(***************************************************************************)

CONSTANTS Run, Session, SessionOf,
          Loop,         \* the maintenance coroutine of the process
          Modes,        \* sandbox_execution_mode: "remote" and "deferred"
          Concurrency,  \* tasks a worker executes at once
          Slots,        \* max_active_runs of the deferred provider
          WarmMax,      \* warm_pool_max_sessions
          Lock, NoLock, \* the lock objects of the process
          NoSession,
          MaxFaults     \* bound: failed calls and crashes

VARIABLES mode,
          actor,        \* what every Run and the maintenance coroutine is doing
          line,         \* session_locks: the Run that executes, then who waits
          started,      \* Daytona: the sandbox of the session is running
          entry,        \* _sandboxes: absent, leased or free (released_at is set)
          warm,         \* the free entries, longest free first
          keep,         \* recovery_until of the entry has not passed
          lockOf,       \* _session_locks
          held,         \* of a lock object the holder, then its waiters (FIFO)
          faults

poolVars == <<started, entry, warm, keep>>
lockVars == <<lockOf, held>>
sandboxVars == <<mode, actor, line, poolVars, lockVars, faults>>

Actor == Run \cup {Loop}
Resting == [pc |-> "idle", s |-> NoSession, lock |-> NoLock, todo |-> <<>>, back |-> "idle"]

SandboxInit ==
  /\ mode \in Modes
  /\ actor = [a \in Actor |-> Resting]
  /\ line = [s \in Session |-> <<>>]
  /\ started = [s \in Session |-> FALSE]
  /\ entry = [s \in Session |-> "none"]
  /\ warm = <<>>
  /\ keep = [s \in Session |-> FALSE]
  /\ lockOf = [s \in Session |-> NoLock]
  /\ held = [l \in Lock |-> <<>>]
  /\ faults = 0

Is(a, pc) == actor[a].pc = pc
Goes(a, pc) == actor' = [actor EXCEPT ![a].pc = pc]
Fault == faults < MaxFaults /\ faults' = faults + 1

Ready(a) == \/ actor[a].pc \in {"evict", "victims"}
            \/ actor[a].pc \in {"lock", "victimLock"} /\ Head(held[actor[a].lock]) = a
Calm == \A a \in Actor : ~Ready(a)

-----------------------------------------------------------------------------
(* setdefault, and wait for the lock object it returned                     *)
Want(a, s, pc, todo) ==
  LET free == {l \in Lock : held[l] = <<>> /\ \A t \in Session : lockOf[t] # l}
      l == IF lockOf[s] # NoLock THEN lockOf[s] ELSE CHOOSE n \in free : TRUE
  IN  /\ lockOf' = [lockOf EXCEPT ![s] = l]
      /\ held' = [held EXCEPT ![l] = Append(@, a)]
      /\ actor' = [actor EXCEPT ![a] = [@ EXCEPT !.pc = pc, !.s = s, !.lock = l, !.todo = todo]]

(* release; the dict forgets the lock of a session without a sandbox, since *)
(* locked() is false until a waiter has run                                 *)
Unlock(a, pc, forget) ==
  LET s == actor[a].s
  IN  /\ held' = [held EXCEPT ![actor[a].lock] = Tail(@)]
      /\ lockOf' = IF forget /\ entry'[s] = "none" THEN [lockOf EXCEPT ![s] = NoLock] ELSE lockOf
      /\ actor' = [actor EXCEPT ![a] = [@ EXCEPT !.pc = pc, !.lock = NoLock]]

DropEntry(s) ==
  /\ entry' = [entry EXCEPT ![s] = "none"]
  /\ warm' = SelectSeq(warm, LAMBDA t : t # s)
  /\ keep' = [keep EXCEPT ![s] = FALSE]

(* _retire: stop, and delete if so configured; the entry is dropped         *)
Retired(s) == started' = [started EXCEPT ![s] = FALSE] /\ DropEntry(s)

-----------------------------------------------------------------------------
(* worker_loop *)
Active == {r \in Run : actor[r].pc \notin {"idle", "done"}}

(* Runs of one session are alike: they are numbered as they are taken.      *)
Take(r) ==
  /\ Is(r, "idle") /\ Is(Loop, "idle") /\ Cardinality(Active) < Concurrency
  /\ \A q \in Run : q < r /\ SessionOf[q] = SessionOf[r] => ~Is(q, "idle")
  /\ actor' = [actor EXCEPT ![r] = [@ EXCEPT !.pc = "line", !.s = SessionOf[r]]]
  /\ line' = [line EXCEPT ![SessionOf[r]] = Append(@, r)]
  /\ UNCHANGED <<poolVars, lockVars, faults>>

(* The first in line executes; the deferred provider has a slot for it.     *)
Start(r) ==
  /\ Is(r, "line") /\ Head(line[SessionOf[r]]) = r
  /\ mode = "deferred" => Cardinality({q \in Active : ~Is(q, "line")}) < Slots
  /\ Goes(r, "run")
  /\ UNCHANGED <<line, poolVars, lockVars, faults>>

(* A deferred Run whose tools need no sandbox leases none.                  *)
Skip(r) ==
  /\ Is(r, "run") /\ mode = "deferred" /\ Goes(r, "leave")
  /\ UNCHANGED <<line, poolVars, lockVars, faults>>

(* provision, or the first isolated tool of a deferred Run: _ensure_remote  *)
Provision(r) ==
  /\ Is(r, "run") /\ Want(r, SessionOf[r], "lock", <<>>)
  /\ UNCHANGED <<line, poolVars, faults>>

(* _acquire_session_entry: the warm sandbox if it answers; otherwise its    *)
(* entry is retired and a sandbox created.                                  *)
AcquireEntry(r) ==
  LET s == actor[r].s
  IN  /\ Is(r, "open")
      /\ IF entry[s] # "none" /\ started[s]
           THEN /\ entry' = [entry EXCEPT ![s] = "leased"]
                /\ warm' = SelectSeq(warm, LAMBDA t : t # s)
                /\ Goes(r, "use") /\ UNCHANGED <<started, keep>>
           ELSE Retired(s) /\ Goes(r, "create")
      /\ UNCHANGED <<line, lockVars, faults>>

(* _create_session_sandbox: get by name and start it, or create it          *)
CreateSandbox(r) ==
  LET s == actor[r].s
  IN  /\ Is(r, "create")
      /\ started' = [started EXCEPT ![s] = TRUE]
      /\ entry' = [entry EXCEPT ![s] = "leased"]
      /\ Goes(r, "use")
      /\ UNCHANGED <<line, warm, keep, lockVars, faults>>

(* provision raises: the Run ends, or goes on without that tool             *)
AfterFailure == IF mode = "deferred" THEN "run" ELSE "leave"

ProvisionFails(r) ==
  /\ actor[r].pc \in {"open", "create"} /\ Fault
  /\ UNCHANGED <<line, poolVars>> /\ Unlock(r, AfterFailure, FALSE)

(* The Run ends and destroys its handle, or prepare fails.                  *)
EndUse(r) ==
  /\ Is(r, "use")
  /\ actor' = [actor EXCEPT ![r] = [@ EXCEPT !.pc = "destroy", !.back = "leave"]]
  /\ UNCHANGED <<line, poolVars, lockVars, faults>>

PrepareFails(r) ==
  /\ Is(r, "use") /\ Fault
  /\ actor' = [actor EXCEPT ![r] = [@ EXCEPT !.pc = "destroy", !.back = AfterFailure]]
  /\ UNCHANGED <<line, poolVars, lockVars>>

(* destroy: the workspace is removed and excess warm sandboxes are evicted, *)
(* or (never through the deferred provider, which drops the flag) kept.     *)
Destroy(r) ==
  LET s == actor[r].s
  IN  /\ Is(r, "destroy")
      /\ \E preserve \in IF mode = "remote" THEN BOOLEAN ELSE {FALSE} :
           /\ keep' = [keep EXCEPT ![s] = @ \/ preserve]
           /\ entry' = [entry EXCEPT ![s] = "free"]
           /\ warm' = Append(warm, s)
           /\ Unlock(r, IF preserve THEN actor[r].back ELSE "evict", TRUE)
      /\ UNCHANGED <<line, started, faults>>

(* remove_tree fails: the entry is dropped at once, then retired            *)
CleanFails(r) ==
  /\ Is(r, "destroy") /\ Fault
  /\ DropEntry(actor[r].s) /\ Goes(r, "contaminated")
  /\ UNCHANGED <<line, started, lockVars>>

Contaminated(r) ==
  /\ Is(r, "contaminated") /\ UNCHANGED line
  /\ \/ Retired(actor[r].s) /\ UNCHANGED faults
     \/ Fault /\ UNCHANGED poolVars
  /\ Unlock(r, actor[r].back, TRUE)

Leave(r) ==
  /\ Is(r, "leave")
  /\ line' = [line EXCEPT ![SessionOf[r]] = Tail(@)]
  /\ actor' = [actor EXCEPT ![r] = [Resting EXCEPT !.pc = "done"]]
  /\ UNCHANGED <<poolVars, lockVars, faults>>

-----------------------------------------------------------------------------
(* Victims are listed, then retired one after the other under their locks,  *)
(* which a Run may hold by then.                                            *)
Reapable == SelectSeq(warm, LAMBDA s : ~keep[s])

ReapIdle ==
  /\ Is(Loop, "idle")
  /\ \E n \in 1 .. Len(Reapable) :
       actor' = [actor EXCEPT ![Loop] = [@ EXCEPT !.pc = "victims", !.back = "evict",
                                                  !.todo = SubSeq(Reapable, 1, n)]]
  /\ UNCHANGED <<line, poolVars, lockVars, faults>>

EvictExcess(a) ==
  LET excess == Len(Reapable) - WarmMax
  IN  /\ Is(a, "evict")
      /\ actor' = [actor EXCEPT ![a] =
           [@ EXCEPT !.pc = "victims",
                     !.todo = IF excess > 0 THEN SubSeq(Reapable, 1, excess) ELSE <<>>,
                     !.back = IF a = Loop THEN "idle" ELSE @]]
      /\ UNCHANGED <<line, poolVars, lockVars, faults>>

NextVictim(a) ==
  LET todo == actor[a].todo
  IN  /\ Is(a, "victims") /\ UNCHANGED <<line, poolVars, faults>>
      /\ \/ todo # <<>> /\ Want(a, Head(todo), "victimLock", Tail(todo))
         \/ /\ todo = <<>> /\ UNCHANGED lockVars
            /\ actor' = [actor EXCEPT ![a] = [@ EXCEPT !.pc = actor[a].back, !.s = NoSession]]

(* _reap_warm_entry under the lock: an entry that is leased again or kept   *)
(* is left alone, and so is one that was replaced or freed again since.     *)
Recheck(a) ==
  /\ UNCHANGED <<line, poolVars, faults>>
  /\ \/ /\ entry[actor[a].s] = "free" /\ ~keep[actor[a].s]
        /\ Goes(a, "retire") /\ UNCHANGED lockVars
     \/ Unlock(a, "victims", TRUE)

Retire(a) ==
  /\ Is(a, "retire") /\ UNCHANGED line
  /\ \/ Retired(actor[a].s) /\ UNCHANGED faults
     \/ Fault /\ UNCHANGED poolVars
  /\ Unlock(a, "victims", TRUE)

(* The holder of a lock runs: a Run goes on provisioning, a reaper checks.  *)
Wake(a) ==
  /\ actor[a].pc \in {"lock", "victimLock"} /\ Head(held[actor[a].lock]) = a
  /\ IF Is(a, "lock") THEN Goes(a, "open") /\ UNCHANGED <<line, poolVars, lockVars, faults>>
                      ELSE Recheck(a)

-----------------------------------------------------------------------------
(* Daytona stops a sandbox that nobody uses.                                *)
AutoStop(s) ==
  /\ started[s] /\ entry[s] # "leased"
  /\ started' = [started EXCEPT ![s] = FALSE]
  /\ UNCHANGED <<actor, line, entry, warm, keep, lockVars, faults>>

RecoveryEnds(s) ==
  /\ keep[s] /\ keep' = [keep EXCEPT ![s] = FALSE]
  /\ UNCHANGED <<actor, line, started, entry, warm, lockVars, faults>>

(* The process dies; its tasks are delivered again, its sandboxes stay.     *)
ProcessCrash ==
  /\ Fault
  /\ actor' = [a \in Actor |-> IF Is(a, "done") THEN actor[a] ELSE Resting]
  /\ line' = [s \in Session |-> <<>>]
  /\ entry' = [s \in Session |-> "none"] /\ warm' = <<>> /\ keep' = [s \in Session |-> FALSE]
  /\ lockOf' = [s \in Session |-> NoLock] /\ held' = [l \in Lock |-> <<>>]
  /\ UNCHANGED started

RunStep(r) ==
  \/ Take(r) \/ Start(r) \/ Skip(r) \/ Provision(r) \/ AcquireEntry(r) \/ CreateSandbox(r)
  \/ EndUse(r) \/ Destroy(r) \/ Contaminated(r) \/ Leave(r)

SandboxStep(a) ==
  \/ Wake(a) \/ EvictExcess(a) \/ NextVictim(a)
  \/ Calm /\ (Retire(a) \/ (a \in Run /\ RunStep(a)))

SandboxNext ==
  /\ UNCHANGED mode
  /\ \/ \E a \in Actor : SandboxStep(a)
     \/ Calm /\ \E r \in Run : ProvisionFails(r) \/ PrepareFails(r) \/ CleanFails(r)
     \/ Calm /\ (ReapIdle \/ ProcessCrash \/ \E s \in Session : AutoStop(s) \/ RecoveryEnds(s))

SandboxSpec == SandboxInit /\ [][SandboxNext]_sandboxVars

-----------------------------------------------------------------------------
(* docs/deployment.md: the Runs of one session hold its sandbox one after   *)
(* the other and only an idle sandbox is stopped, although locks are        *)
(* forgotten while others wait for them, and evictions and the maintenance  *)
(* round decide from a list they read earlier.                              *)
SandboxInUse ==
  \A r \in Run : Is(r, "use") =>
    /\ started[SessionOf[r]]
    /\ \A q \in Run \ {r} : SessionOf[q] = SessionOf[r] => ~Is(q, "use")

(* Until every Run has left the process somebody can go on: no session      *)
(* lock, provider lock or slot is lost or waited for in a circle, although  *)
(* locks are forgotten and provisioning, cleaning and retiring fail.        *)
SandboxesGoOn ==
  (\A r \in Run : Is(r, "done")) \/ ENABLED (\E a \in Actor : SandboxStep(a) /\ UNCHANGED mode)

-----------------------------------------------------------------------------
(***************************************************************************)
(* Sandboxes of one execution each: pods of Kubernetes (sandbox/             *)
(* kubernetes.py) or sandboxes of E2B (sandbox/e2b.py).  A worker claims a   *)
(* task, which bumps the fencing token of a Run, and provisions, uses and    *)
(* destroys a sandbox; a worker that lost its lease may still be at it.  A   *)
(* pod is named after the task and the token and has an egress policy; the   *)
(* reaper of any worker deletes pods by their expires-at.                    *)
(***************************************************************************)

CONSTANTS Laborer,       \* worker processes
          Fenced,        \* Runs: every claim bumps the token. Preflights: no.
          Providers,     \* "kubernetes", "e2b"
          MaxClaims      \* bound: claims of the task

VARIABLES provider,
          claims,        \* how often the task was claimed
          labor,         \* what every worker does, for which sandbox
          pods,          \* sandboxes that exist, named
          policies,      \* egress policies
          overdue,       \* sandboxes whose time to live has passed
          owned,         \* _owned (_sandboxes of E2B) of every process
          listed         \* expired pods the reaper of a process has still to delete

podVars == <<provider, claims, labor, pods, policies, overdue, owned, listed>>

NoLabor == [pc |-> "idle", name |-> 0]

PodInit ==
  /\ provider \in Providers /\ claims = 0
  /\ labor = [w \in Laborer |-> NoLabor]
  /\ pods = {} /\ policies = {} /\ overdue = {}
  /\ owned = [w \in Laborer |-> {}] /\ listed = [w \in Laborer |-> {}]

Name(w) == labor[w].name
Doing(w, pc) == labor[w].pc = pc
Turns(w, pc) == labor' = [labor EXCEPT ![w] = IF pc = "idle" THEN NoLabor ELSE [@ EXCEPT !.pc = pc]]
SetOwned(w, names) == owned' = [owned EXCEPT ![w] = names]

(* Mutant of PodName: the fencing token is not part of the name.            *)
PodNameOfRun(n) == 1

(* _safe_dns_name of run and fencing token; E2B gives out the name          *)
PodName(n) == IF Fenced \/ provider = "e2b" THEN n ELSE 1

-----------------------------------------------------------------------------
(* The task is delivered, also while a worker that lost its lease goes on.  *)
ClaimTask(w) ==
  LET name == PodName(claims + 1)
  IN  /\ Doing(w, "idle") /\ claims < MaxClaims /\ claims' = claims + 1
      /\ labor' = [labor EXCEPT ![w] = [pc |-> "create", name |-> name]]
      /\ SetOwned(w, IF provider = "e2b" THEN owned[w] ELSE owned[w] \cup {name})
      /\ UNCHANGED <<provider, pods, policies, overdue, listed>>

(* kubectl create of the policy, then the pod; a pod of that name is an     *)
(* error.  E2B: one call.                                                   *)
CreatePod(w) ==
  /\ Doing(w, "create")
  /\ \/ /\ Name(w) \notin pods /\ Turns(w, IF provider = "e2b" THEN "use" ELSE "wait")
        /\ pods' = pods \cup {Name(w)}
        /\ policies' = IF provider = "e2b" THEN policies ELSE policies \cup {Name(w)}
        /\ SetOwned(w, owned[w] \cup {Name(w)})
     \/ /\ Name(w) \in pods /\ Turns(w, "undo") /\ UNCHANGED <<pods, policies, owned>>
  /\ UNCHANGED <<provider, claims, overdue, listed>>

(* The call fails or times out, and may have had its effect.                *)
CreateFails(w) ==
  /\ Doing(w, "create") /\ provider = "kubernetes"
  /\ Turns(w, "undo")
  /\ \/ UNCHANGED <<pods, policies>>
     \/ policies' = policies \cup {Name(w)} /\ UNCHANGED pods
     \/ policies' = policies \cup {Name(w)} /\ pods' = pods \cup {Name(w)}
  /\ UNCHANGED <<provider, claims, overdue, owned, listed>>

PodReady(w) ==
  /\ Doing(w, "wait")
  /\ \/ Name(w) \in pods /\ Turns(w, "use")
     \/ Turns(w, "undo")
  /\ UNCHANGED <<provider, claims, pods, policies, overdue, owned, listed>>

Deletes(names) == pods' = pods \ names /\ policies' = policies \ names

(* provision fails: what it owns is deleted, a failure of that suppressed   *)
UndoProvision(w) ==
  /\ Doing(w, "undo") /\ Turns(w, "idle")
  /\ IF Name(w) \in owned[w] THEN Deletes({Name(w)}) \/ UNCHANGED <<pods, policies>>
                             ELSE UNCHANGED <<pods, policies>>
  /\ SetOwned(w, owned[w] \ {Name(w)})
  /\ UNCHANGED <<provider, claims, overdue, listed>>

(* CancelledError passes provision by: a create may land, nothing is undone *)
ProvisionCancelled(w) ==
  /\ labor[w].pc \in {"create", "wait"} /\ Turns(w, "idle")
  /\ \/ UNCHANGED <<pods, policies>>
     \/ /\ Doing(w, "create") /\ pods' = pods \cup {Name(w)}
        /\ policies' = IF provider = "e2b" THEN policies ELSE policies \cup {Name(w)}
  /\ UNCHANGED <<provider, claims, overdue, owned, listed>>

(* destroy, at the end of every execution that has a handle                 *)
DestroyPod(w) ==
  /\ Doing(w, "use") /\ Turns(w, "idle")
  /\ IF Name(w) \in owned[w] THEN Deletes({Name(w)}) \/ UNCHANGED <<pods, policies>>
                             ELSE UNCHANGED <<pods, policies>>
  /\ SetOwned(w, owned[w] \ {Name(w)})
  /\ UNCHANGED <<provider, claims, overdue, listed>>

WorkerDies(w) ==
  /\ labor[w] # NoLabor \/ listed[w] # {}
  /\ Turns(w, "idle") /\ SetOwned(w, {}) /\ listed' = [listed EXCEPT ![w] = {}]
  /\ UNCHANGED <<provider, claims, pods, policies, overdue>>

-----------------------------------------------------------------------------
(* Time passes; E2B ends its sandboxes itself.                              *)
TimeToLive(name) ==
  /\ name \in pods \ overdue /\ overdue' = overdue \cup {name}
  /\ pods' = IF provider = "e2b" THEN pods \ {name} ELSE pods
  /\ UNCHANGED <<provider, claims, labor, policies, owned, listed>>

ExpiredPods == pods \cap overdue

(* reap_expired lists, then deletes one after the other; a failure ends it, *)
(* possibly between the pod and its policy.                                 *)
ListPods(w) ==
  /\ provider = "kubernetes" /\ listed[w] = {} /\ ExpiredPods # {}
  /\ listed' = [listed EXCEPT ![w] = ExpiredPods]
  /\ UNCHANGED <<provider, claims, labor, pods, policies, overdue, owned>>

ReapPod(w, name) ==
  /\ name \in listed[w]
  /\ \/ /\ Deletes({name}) /\ SetOwned(w, owned[w] \ {name})
        /\ listed' = [listed EXCEPT ![w] = @ \ {name}]
     \/ /\ pods' \in {pods, pods \ {name}} /\ UNCHANGED <<policies, owned>>
        /\ listed' = [listed EXCEPT ![w] = {}]
  /\ UNCHANGED <<provider, claims, labor, overdue>>

PodNext ==
  \/ \E w \in Laborer :
       \/ ClaimTask(w) \/ CreatePod(w) \/ CreateFails(w) \/ PodReady(w) \/ UndoProvision(w)
       \/ ProvisionCancelled(w) \/ DestroyPod(w) \/ WorkerDies(w) \/ ListPods(w)
       \/ \E name \in listed[w] : ReapPod(w, name)
  \/ \E name \in pods : TimeToLive(name)

PodSpec == PodInit /\ [][PodNext]_podVars

-----------------------------------------------------------------------------
(* The sandbox of an execution exists until the execution destroys it or    *)
(* its time to live is over, although a worker without a lease, a retry     *)
(* after a crash, a failing provision and the reapers of other processes    *)
(* delete sandboxes of the same Run; and a pod is never without its policy. *)
PodInUse ==
  /\ \A w \in Laborer : Doing(w, "use") => Name(w) \in pods \cup overdue
  /\ provider = "kubernetes" => pods \subseteq policies
===============================================================================
