----------------------------- MODULE Deployments -----------------------------
(***************************************************************************)
(* Promotions and rollbacks of one Agent in one Environment.                *)
(* deployments/service.py checks a request against the Environment it read  *)
(* and stores a Deployment that expects that revision;                      *)
(* deployments/controller.py compares the revision again when it changes    *)
(* the routes.  The Environment's policy is replaced by another request.    *)
(***************************************************************************)
EXTENDS DurableJob

CONSTANTS Version,     \* published Agent versions, named by their snapshots
          NoVersion

ASSUME VersionAssumption == Version # {}

VARIABLES env,         \* the Environment: revision, routes, healthy snapshot, policy
          snapshots,   \* the stored deployment snapshots
          applied      \* history: the Deployments whose routes went live

deployVars == <<jobVars, env, snapshots, applied>>

FreshEnv == [revision |-> 0, routes |-> {}, healthy |-> NoVersion, policy |-> Version]
LiveEnv(v) == [revision |-> 1, routes |-> {v}, healthy |-> v, policy |-> Version]

(* A new Environment, or one with an earlier Deployment (of any version:    *)
(* they are interchangeable).                                               *)
DeployInit ==
  /\ JobInit
  /\ \/ env = FreshEnv /\ snapshots = {}
     \/ LET v == CHOOSE w \in Version : TRUE IN env = LiveEnv(v) /\ snapshots = {v}
  /\ applied = {}

(* _validate_agent_policy: profile, model routes, MCP resources, knowledge. *)
Fits(v, policy) == v \in policy

(* resolve fails closed: a route outside the policy serves nobody.          *)
Resolves(v) == v \in env.routes /\ Fits(v, env.policy)

DeployUnchanged == UNCHANGED <<env, snapshots, applied>>

Order(target, canary, rollback) ==
  [status |-> "queued", token |-> 0,
   at |-> [expected |-> env.revision, target |-> target, canary |-> canary,
           rollback |-> rollback]]

-----------------------------------------------------------------------------
(* promote, up to its reservation: the version must fit the policy of the   *)
(* Environment as it is read here.                                          *)
Promote(u, j, v, canary) ==
  /\ row[j].status = "none"
  /\ Fits(v, env.policy)
  /\ Begin(u, "reserve", j, Order(v, canary, FALSE))
  /\ UNCHANGED <<row, quota>> /\ OnlyClient /\ DeployUnchanged

AddSnapshot(u) ==
  /\ Asking(u, "snapshot")
  /\ snapshots' = snapshots \cup {client[u].snap.at.target}
  /\ Ask(u, "add")
  /\ UNCHANGED <<row, quota, env, applied>> /\ OnlyClient

(* A concurrent request with the same key has won: its Deployment counts    *)
(* and the shared reservation is committed.                                 *)
Commit(j) == quota' = [quota EXCEPT ![j] = IF @ = "reserved" THEN "committed" ELSE @]

AddDeployment(u) ==
  LET j == client[u].job
  IN  /\ Asking(u, "add")
      /\ \/ /\ row[j].status = "none"
            /\ Store(j, client[u].snap)
            /\ Ask(u, "enqueue") /\ UNCHANGED quota
         \/ /\ row[j].status # "none"
            /\ Answer(u)
            /\ IF client[u].snap.at.rollback THEN UNCHANGED quota ELSE Commit(j)
            /\ UNCHANGED row
      /\ OnlyClient /\ DeployUnchanged

CommitQuota(u) ==
  /\ Asking(u, "commit")
  /\ Commit(client[u].job)
  /\ Answer(u)
  /\ UNCHANGED row /\ OnlyClient /\ DeployUnchanged

(* add_snapshot or add fails: the reservation is given back.                *)
PromoteFails(u) ==
  /\ client[u].pc \in {"snapshot", "add"} /\ ~client[u].snap.at.rollback
  /\ faults < MaxFaults /\ faults' = faults + 1
  /\ Release(client[u].job)
  /\ Answer(u)
  /\ UNCHANGED <<kind, row, queueVars, ctl>> /\ DeployUnchanged

(* rollback to a stored snapshot; the policy is not consulted.              *)
Rollback(u, j, v) ==
  /\ row[j].status = "none"
  /\ v \in snapshots
  /\ Begin(u, "add", j, Order(v, FALSE, TRUE))
  /\ UNCHANGED <<row, quota>> /\ OnlyClient /\ DeployUnchanged

(* replace_environment_policy: every live route must fit the new policy.    *)
PolicyBegin(u, policy) ==
  /\ \A v \in env.routes : Fits(v, policy)
  /\ Begin(u, "policy", NoJob, [NoRow EXCEPT !.at = [env EXCEPT !.policy = policy]])
  /\ UNCHANGED <<row, quota>> /\ OnlyClient /\ DeployUnchanged

(* Mutant of PolicyWrite: the revision is not compared.                     *)
PolicyWriteBlind(u) ==
  LET read == client[u].snap.at
  IN  /\ Asking(u, "policy")
      /\ env' = [env EXCEPT !.revision = @ + 1, !.policy = read.policy]
      /\ Answer(u)
      /\ UNCHANGED <<row, quota, snapshots, applied>> /\ OnlyClient

PolicyWrite(u) ==
  LET read == client[u].snap.at
  IN  /\ Asking(u, "policy")
      /\ env' = IF env.revision = read.revision
                  THEN [read EXCEPT !.revision = @ + 1] ELSE env
      /\ Answer(u)
      /\ UNCHANGED <<row, quota, snapshots, applied>> /\ OnlyClient

-----------------------------------------------------------------------------
(* DeploymentController.reconcile.  An exception while it works on the      *)
(* Environment fails the Deployment.                                        *)
MoveTo(c, snap, status, err) == Plan(c, "move", snap, With(snap, status, snap.at), err)

ReadDeployment(c) ==
  LET now == row[ctl[c].job]
  IN  /\ At(c, "read")
      /\ \/ Ended(now.status) /\ Go(c, "ack")
         \/ now.status = "queued" /\ MoveTo(c, now, "reconciling", "retry")
         \/ now.status = "reconciling" /\ Plan(c, "environment", now, NoRow, "fail")
      /\ OnlyCtl /\ DeployUnchanged

ReadEnvironment(c) ==
  LET snap == ctl[c].snap
  IN  /\ At(c, "environment")
      /\ IF \/ env.revision # snap.at.expected
            \/ snap.at.canary /\ env.healthy = NoVersion
           THEN MoveTo(c, snap, "failed", "fail")
           ELSE Go(c, "apply") \/ MoveTo(c, snap, "failed", "retry")   \* the deploy hook
      /\ OnlyCtl /\ DeployUnchanged

Routes(at) ==
  IF at.canary THEN {env.healthy, at.target} ELSE {at.target}

(* Mutant of ApplyRoutes: a lost compare-and-set goes unnoticed.            *)
ApplyRoutesUnchecked(c) ==
  LET snap == ctl[c].snap
      at == snap.at
  IN  /\ At(c, "apply")
      /\ IF env.revision = at.expected
           THEN /\ env' = [env EXCEPT !.revision = @ + 1, !.routes = Routes(at),
                                      !.healthy = IF at.canary THEN @ ELSE at.target]
                /\ applied' = applied \cup {ctl[c].job}
           ELSE UNCHANGED <<env, applied>>
      /\ MoveTo(c, snap, "succeeded", "fail")
      /\ OnlyCtl /\ UNCHANGED snapshots

ApplyRoutes(c) ==
  LET snap == ctl[c].snap
      at == snap.at
  IN  /\ At(c, "apply")
      /\ \/ /\ env.revision = at.expected
            /\ env' = [env EXCEPT !.revision = @ + 1, !.routes = Routes(at),
                                  !.healthy = IF at.canary THEN @ ELSE at.target]
            /\ applied' = applied \cup {ctl[c].job}
            /\ MoveTo(c, snap, "succeeded", "fail")
         \/ /\ env.revision # at.expected
            /\ MoveTo(c, snap, "failed", "fail")
            /\ UNCHANGED <<env, applied>>
      /\ OnlyCtl /\ UNCHANGED snapshots

(* _move returns the row that won when its compare-and-set loses.           *)
MoveDeployment(c) ==
  LET j == ctl[c].job
      won == Same(j, ctl[c].snap)
      new == IF won THEN ctl[c].want ELSE row[j]
  IN  /\ At(c, "move")
      /\ Store(j, new)
      /\ Go(c, IF Ended(new.status) THEN "ack" ELSE "retry")
      /\ UNCHANGED <<kind, queueVars, client, quota, faults>> /\ DeployUnchanged

DeployCallFails(c) ==
  /\ ctl[c].pc \in {"read", "environment", "apply", "move"}
  /\ faults < MaxFaults /\ faults' = faults + 1
  /\ IF ctl[c].err = "fail" THEN MoveTo(c, ctl[c].snap, "failed", "retry") ELSE Go(c, "retry")
  /\ UNCHANGED <<kind, row, queueVars, client, quota>> /\ DeployUnchanged

DeployControls(c) ==
  ReadDeployment(c) \/ ReadEnvironment(c) \/ ApplyRoutes(c) \/ MoveDeployment(c)

DeployAsks(u) ==
  \/ \E j \in Job, v \in Version, canary \in BOOLEAN : Promote(u, j, v, canary)
  \/ \E j \in Job, v \in Version : Rollback(u, j, v)
  \/ \E policy \in SUBSET Version \ {{}} : PolicyBegin(u, policy)
DeployAnswers(u) ==
  \/ AddSnapshot(u) \/ AddDeployment(u) \/ CommitQuota(u) \/ PolicyWrite(u)
  \/ ReserveQuota(u, "snapshot") /\ DeployUnchanged
  \/ EnqueueTask(u, IF client[u].snap.at.rollback THEN "idle" ELSE "commit") /\ DeployUnchanged

DeployFaults ==
  (\E u \in Client : PromoteFails(u)) \/ (\E c \in Controller : DeployCallFails(c))

-----------------------------------------------------------------------------
(* Whatever requests and controllers race, a revision of the Environment is *)
(* consumed by one Deployment at most, and a Deployment reported SUCCEEDED  *)
(* has put its routes live; without faults one reported FAILED has not.     *)
DeploymentsApplyOnce ==
  kind = "deployment" =>
    /\ \A i, j \in applied : i # j => row[i].at.expected # row[j].at.expected
    /\ \A j \in Job : row[j].status = "succeeded" => j \in applied
    /\ faults = 0 => \A j \in Job : row[j].status = "failed" => j \notin applied

(* Every route of the Environment can be resolved, that is fits the policy  *)
(* in force, however promotions and policy changes interleave, unless a     *)
(* rollback (which does not ask the policy) put the version there.          *)
RoutesResolve ==
  kind = "deployment" =>
    \A v \in env.routes :
      Resolves(v) \/ \E j \in applied : row[j].at.rollback /\ row[j].at.target = v
=============================================================================
