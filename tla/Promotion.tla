------------------------------ MODULE Promotion -------------------------------
(*****************************************************************************)
(* The way of an Agent version into an environment: the gates a promotion    *)
(* passes, and the workflow that promotes the Agents of a release.           *)
(*****************************************************************************)
EXTENDS Naturals, FiniteSets
-----------------------------------------------------------------------------
(*****************************************************************************)
(* What stands between an Agent version and its promotion: the versions of   *)
(* an Eval Dataset that are made from the draft (evals/service.py), the      *)
(* Eval Runs that passed on them, the alert rules and the incidents of the   *)
(* quality service (quality/service.py).  A promotion                        *)
(* (deployments/service.py) reads them one after the other and only then     *)
(* stores its Deployment.                                                    *)
(*****************************************************************************)

CONSTANTS Maker,        \* requests that create a version of the dataset
          Promoter,     \* promotions of the Agent version
          MaxRevisions, \* edits of the draft
          MaxDatasets   \* versions of the dataset

ASSUME DatasetsAssumption == MaxDatasets \in Nat \ {0}

VARIABLES revision,     \* of the draft
          datasets,     \* stored versions: [version, required, cases, package]
          passes,       \* versions of the dataset an Eval Run has passed
          blocking,     \* rules that block promotion, incidents open: subsets of Alarm
          maker, promoter

promotionVars == <<revision, datasets, passes, blocking, maker, promoter>>

Alarm == {"rule", "incident"}
NotMaking == [pc |-> "idle", cases |-> 0, package |-> 0, version |-> 0]
NotPromoting == [pc |-> "idle", listed |-> {}, rules |-> FALSE, before |-> {}, stuck |-> FALSE]

(* No dataset yet, or one version of it that is required                      *)
PromotionInit ==
  /\ revision = 1
  /\ datasets \in {{}, {[version |-> 1, required |-> TRUE, cases |-> 1, package |-> 1]}}
  /\ passes = {} /\ blocking = {}
  /\ maker = [m \in Maker |-> NotMaking]
  /\ promoter = [p \in Promoter |-> NotPromoting]

Numbers(rows) == {d.version : d \in rows}
MakerAt(m, pc) == maker[m].pc = pc
PromoterAt(p, pc) == promoter[p].pc = pc
OnlyMaker == UNCHANGED <<passes, blocking, promoter>>
OnlyPromoter == UNCHANGED <<revision, datasets, passes, blocking, maker>>

(* Whether incidents and rules blocked a promotion all along its request       *)
Watched == [p \in Promoter |-> [promoter[p] EXCEPT !.stuck = @ /\ blocking' = Alarm]]

SaveDraft ==
  /\ revision < MaxRevisions /\ revision' = revision + 1
  /\ UNCHANGED <<datasets, passes, blocking, maker, promoter>>

-----------------------------------------------------------------------------
(* create_dataset_version: the draft must be at the revision that was asked   *)
(* for; the bundle is compiled from the draft read again.                     *)
ReadDraft(m) ==
  /\ MakerAt(m, "idle")
  /\ maker' = [maker EXCEPT ![m].pc = "bundle", ![m].cases = revision]
  /\ UNCHANGED <<revision, datasets>> /\ OnlyMaker

CompileBundle(m) ==
  /\ MakerAt(m, "bundle")
  /\ maker' = [maker EXCEPT ![m].pc = "version", ![m].package = revision]
  /\ UNCHANGED <<revision, datasets>> /\ OnlyMaker

NextVersion(m) ==
  /\ MakerAt(m, "version")
  /\ maker' = [maker EXCEPT ![m].pc = "add", ![m].version = Cardinality(datasets) + 1]
  /\ UNCHANGED <<revision, datasets>> /\ OnlyMaker

(* A version another request has added meanwhile is a conflict.               *)
AddDataset(m, required) ==
  LET made == maker[m]
  IN /\ MakerAt(m, "add") /\ made.version <= MaxDatasets
     /\ datasets' = IF made.version \in Numbers(datasets) THEN datasets
                    ELSE datasets \cup {[version |-> made.version, required |-> required,
                                         cases |-> made.cases, package |-> made.package]}
     /\ maker' = [maker EXCEPT ![m] = NotMaking]
     /\ UNCHANGED revision /\ OnlyMaker

-----------------------------------------------------------------------------
(* An Eval Run of the Agent version on a stored version of the dataset passes. *)
EvalPasses(version) ==
  /\ version \in Numbers(datasets) \ passes /\ passes' = passes \cup {version}
  /\ UNCHANGED <<revision, datasets, blocking, maker, promoter>>

(* add_rule; an incident opens or is resolved.                                *)
QualityMoves(alarm) ==
  /\ alarm = "rule" => alarm \notin blocking
  /\ blocking' = IF alarm \in blocking THEN blocking \ {alarm} ELSE blocking \cup {alarm}
  /\ promoter' = Watched
  /\ UNCHANGED <<revision, datasets, passes, maker>>

-----------------------------------------------------------------------------
(* Mutant of LatestRequired: the version that was listed first stays.         *)
LatestRequiredFirst(rows) ==
  LET required == {d \in rows : d.required}
  IN {d \in required : \A e \in required : d.version <= e.version}

(* gate: of the required versions of a dataset the latest counts.             *)
LatestRequired(rows) ==
  LET required == {d \in rows : d.required}
  IN {d \in required : \A e \in required : e.version <= d.version}

(* promote up to the gates: the Environment and the published version         *)
BeginPromotion(p) ==
  /\ PromoterAt(p, "idle")
  /\ promoter' = [promoter EXCEPT ![p].pc = "datasets", ![p].before = datasets,
                                   ![p].stuck = (blocking = Alarm)]
  /\ OnlyPromoter

ListDatasets(p) ==
  /\ PromoterAt(p, "datasets")
  /\ promoter' = [promoter EXCEPT ![p].pc = "runs", ![p].listed = LatestRequired(datasets)]
  /\ OnlyPromoter

(* require_promotion_allowed of the evals                                     *)
ListPasses(p) ==
  /\ PromoterAt(p, "runs")
  /\ promoter' = [promoter EXCEPT ![p].listed = {},
       ![p].pc = IF Numbers(promoter[p].listed) \subseteq passes THEN "rules" ELSE "refused"]
  /\ OnlyPromoter

(* require_promotion_allowed of the quality service: rules, then incidents    *)
ListRules(p) ==
  /\ PromoterAt(p, "rules")
  /\ promoter' = [promoter EXCEPT ![p].pc = "incidents", ![p].rules = "rule" \in blocking]
  /\ OnlyPromoter

ReadIncidents(p) ==
  /\ PromoterAt(p, "incidents")
  /\ promoter' = [promoter EXCEPT
       ![p].pc = IF promoter[p].rules /\ "incident" \in blocking THEN "refused" ELSE "store"]
  /\ OnlyPromoter

(* Snapshot and Deployment; what the gates read is not read again.            *)
StorePromotion(p) ==
  /\ PromoterAt(p, "store")
  /\ promoter' = [promoter EXCEPT ![p].pc = "promoted"]
  /\ OnlyPromoter

PromotionNext ==
  \/ SaveDraft
  \/ \E m \in Maker :
       \/ ReadDraft(m) \/ CompileBundle(m) \/ NextVersion(m)
       \/ \E required \in BOOLEAN : AddDataset(m, required)
  \/ \E version \in 1 .. MaxDatasets : EvalPasses(version)
  \/ \E alarm \in Alarm : QualityMoves(alarm)
  \/ \E p \in Promoter :
       \/ BeginPromotion(p) \/ ListDatasets(p) \/ ListPasses(p) \/ ListRules(p)
       \/ ReadIncidents(p) \/ StorePromotion(p)

-----------------------------------------------------------------------------
(* A promotion that went through had a passing Eval Run on the latest         *)
(* required version of the dataset there was when it was asked for, or on a   *)
(* later one, and no blocking incident was open all along its request; only   *)
(* what came while it was checked may be missed.                              *)
PromotionsGated ==
  \A p \in Promoter : PromoterAt(p, "promoted") =>
    /\ ~promoter[p].stuck
    /\ \A d \in promoter[p].before :
         d.required =>
           \E e \in datasets : e.required /\ e.version >= d.version /\ e.version \in passes
-----------------------------------------------------------------------------
(*****************************************************************************)
(* ReleasePromotionClient (promotion.py): a signed release, several Agents,  *)
(* is promoted to one environment over the HTTP API, Agent by Agent, and     *)
(* the Agents already deployed are rolled back when one fails.  The          *)
(* workflow may be repeated, one execution after the other (the concurrency  *)
(* group of .github/workflows/promote.yml); its requests carry idempotency   *)
(* keys. Deployments are applied by the controller of Deployments, here in   *)
(* one step.                                                                 *)
(*****************************************************************************)

CONSTANTS Attempts,     \* executions of the promotion workflow
          Bundles,      \* Agents of the release, 1 .. Bundles
          MaxHiccups    \* bound: failed calls and waits that time out

(* release.py:131, "release must contain at least one Agent bundle"          *)
ASSUME ReleaseAssumption == Bundles \in Nat \ {0}

VARIABLES place,        \* the environment of every Agent: revision, routes, healthy
          orders,       \* the Deployments, by their idempotency keys
          attempts,     \* the executions
          hiccups

releaseVars == <<place, orders, attempts, hiccups>>

Bundle == 1 .. Bundles
Attempt == 1 .. Attempts
OrderKind == {"release", "rollback", "manual"}
Vacant == "none"
NoOrder == [status |-> "none", to |-> Vacant, previous |-> Vacant, expected |-> 0, part |-> FALSE]
Unstarted == [pc |-> "idle", at |-> 1, entries |-> 0, answered |-> 0, lost |-> {}, read |-> 0,
              part |-> FALSE]

(* The Agents are new to the environment, or another release is there.      *)
ReleaseInit ==
  /\ place \in [Bundle -> {[revision |-> 0, routes |-> {}, healthy |-> Vacant],
                           [revision |-> 1, routes |-> {"old"}, healthy |-> "old"]}]
  /\ orders = [k \in OrderKind \X Bundle |-> NoOrder]
  /\ attempts = [a \in Attempt |-> Unstarted]
  /\ hiccups = 0

-----------------------------------------------------------------------------
(* The service: promote and rollback store a Deployment if the environment  *)
(* still has the revision of the request                                    *)
Orders(key, to, expected, part) ==
  /\ place[key[2]].revision = expected
  /\ orders' = [orders EXCEPT ![key] =
       [status |-> "queued", to |-> to, previous |-> place[key[2]].healthy,
        expected |-> expected, part |-> part]]

(* Mutant of Current: the controller does not compare the revision.         *)
CurrentAlways(key) == TRUE

Current(key) == place[key[2]].revision = orders[key].expected

RoutesAfter(order, env) ==
  IF order.part THEN {env.healthy, order.to} ELSE {order.to}

(* The controller: SUCCEEDED, or FAILED by the revision, a partial canary   *)
(* without a healthy version, the deploy hook, or after the routes are set. *)
Reconcile(key) ==
  LET order == orders[key]
      env == place[key[2]]
      applies == Current(key) /\ (order.part => env.healthy # Vacant)
  IN  /\ order.status = "queued"
      /\ \E routes \in IF applies THEN BOOLEAN ELSE {FALSE},
            status \in {"succeeded", "failed"} :
           /\ status = "succeeded" => routes
           /\ hiccups' = hiccups + IF routes /\ status = "failed" THEN 1 ELSE 0
           /\ hiccups' <= MaxHiccups
           /\ orders' = [orders EXCEPT ![key].status = status]
           /\ place' = IF routes
                THEN [place EXCEPT ![key[2]] =
                        [revision |-> env.revision + 1, routes |-> RoutesAfter(order, env),
                         healthy |-> IF order.part THEN env.healthy ELSE order.to]]
                ELSE place
      /\ UNCHANGED attempts

(* Somebody deploys another version of one Agent by hand.                   *)
DeployByHand(b) ==
  /\ \A c \in Bundle : orders[<<"manual", c>>] = NoOrder
  /\ Orders(<<"manual", b>>, "other", place[b].revision, FALSE)
  /\ UNCHANGED <<place, attempts, hiccups>>

-----------------------------------------------------------------------------
AttemptAt(a, pc) == attempts[a].pc = pc
ReleaseOf(a) == <<"release", attempts[a].at>>
RollbackOf(a) == <<"rollback", attempts[a].at>>
Becomes(a, record) == attempts' = [attempts EXCEPT ![a] = record]
AttemptGoes(a, pc) == Becomes(a, [attempts[a] EXCEPT !.pc = pc])

(* except Exception: the entries are rolled back, the last one first.       *)
Undoes(record) ==
  [record EXCEPT !.pc = IF record.entries = 0 THEN "raised" ELSE "undo", !.at = record.entries]
Raises(a) == Becomes(a, Undoes(attempts[a]))

(* The bundles are published.                                               *)
Ends == {"promoted", "restored", "stuck", "raised"}

StartPromotion(a) ==
  /\ AttemptAt(a, "idle") /\ \A c \in 1 .. a - 1 : attempts[c].pc \in Ends
  /\ \E part \in BOOLEAN : Becomes(a, [attempts[a] EXCEPT !.pc = "check", !.part = part])
  /\ UNCHANGED <<place, orders, hiccups>>

(* The prior environment and the gates let the Agent pass, or they do not;  *)
(* the revision of the environment is read.                                 *)
CheckBundle(a) ==
  /\ AttemptAt(a, "check")
  /\ \/ Becomes(a, [attempts[a] EXCEPT !.pc = "post", !.read = place[attempts[a].at].revision])
     \/ Raises(a)
  /\ UNCHANGED <<place, orders, hiccups>>

(* Mutant of Entered: the entry is appended when the Deployment has ended.  *)
EnteredLate(a) == [attempts[a] EXCEPT !.pc = "wait", !.answered = @ + 1,
                                         !.entries = attempts[a].at - 1]

Entered(a) == [attempts[a] EXCEPT !.pc = "wait", !.answered = @ + 1, !.entries = @ + 1]

(* A key that is known answers with its Deployment, if the request is the   *)
(* same; a stale revision is a conflict.                                    *)
PostPromotion(a) ==
  LET key == ReleaseOf(a)
      new == orders[key] = NoOrder
  IN  /\ AttemptAt(a, "post")
      /\ \/ /\ new /\ Orders(key, "release", attempts[a].read, attempts[a].part)
            /\ Becomes(a, Entered(a))
         \/ /\ ~new /\ orders[key].part = attempts[a].part
            /\ Becomes(a, Entered(a)) /\ UNCHANGED orders
         \/ /\ IF new THEN place[key[2]].revision # attempts[a].read
                      ELSE orders[key].part # attempts[a].part
            /\ Raises(a) /\ UNCHANGED orders
      /\ UNCHANGED <<place, hiccups>>

(* _wait                                                                    *)
WaitForPromotion(a) ==
  /\ AttemptAt(a, "wait")
  /\ \/ /\ orders[ReleaseOf(a)].status = "succeeded"
        /\ IF attempts[a].at = Bundles THEN AttemptGoes(a, "promoted")
           ELSE Becomes(a, [attempts[a] EXCEPT !.pc = "check", !.at = @ + 1])
     \/ orders[ReleaseOf(a)].status = "failed" /\ Raises(a)
  /\ UNCHANGED <<place, orders, hiccups>>

(* rollback: an Agent that had no version before is left as it is.          *)
UndoNext(a) ==
  IF attempts[a].at = 1 THEN AttemptGoes(a, "restored")
  ELSE Becomes(a, [attempts[a] EXCEPT !.pc = "undo", !.at = @ - 1])

UndoBundle(a) ==
  /\ AttemptAt(a, "undo")
  /\ IF orders[ReleaseOf(a)].previous = Vacant THEN UndoNext(a)
     ELSE Becomes(a, [attempts[a] EXCEPT !.pc = "restore",
                                         !.read = place[attempts[a].at].revision])
  /\ UNCHANGED <<place, orders, hiccups>>

PostRollback(a) ==
  LET key == RollbackOf(a)
      new == orders[key] = NoOrder
  IN  /\ AttemptAt(a, "restore")
      /\ \/ /\ new /\ Orders(key, orders[ReleaseOf(a)].previous, attempts[a].read, FALSE)
            /\ AttemptGoes(a, "rewait")
         \/ ~new /\ AttemptGoes(a, "rewait") /\ UNCHANGED orders
         \/ /\ new /\ place[key[2]].revision # attempts[a].read
            /\ AttemptGoes(a, "stuck") /\ UNCHANGED orders
      /\ UNCHANGED <<place, hiccups>>

WaitForRollback(a) ==
  /\ AttemptAt(a, "rewait")
  /\ \/ orders[RollbackOf(a)].status = "succeeded" /\ UndoNext(a)
     \/ orders[RollbackOf(a)].status = "failed" /\ AttemptGoes(a, "stuck")
  /\ UNCHANGED <<place, orders, hiccups>>

(* A call fails, or a wait reaches its deadline; a POST may have arrived.   *)
CallFails(a) ==
  LET pc == attempts[a].pc
  IN  /\ hiccups < MaxHiccups /\ hiccups' = hiccups + 1
      /\ \/ pc \in {"check", "post", "wait"} /\ Raises(a) /\ UNCHANGED orders
         \/ pc \in {"undo", "restore", "rewait"} /\ AttemptGoes(a, "stuck") /\ UNCHANGED orders
         \/ /\ pc = "post" /\ orders[ReleaseOf(a)] = NoOrder
            /\ Orders(ReleaseOf(a), "release", attempts[a].read, attempts[a].part)
            /\ Becomes(a, Undoes([attempts[a] EXCEPT !.lost = @ \cup {attempts[a].at}]))
         \/ /\ pc = "restore" /\ orders[RollbackOf(a)] = NoOrder
            /\ Orders(RollbackOf(a), orders[ReleaseOf(a)].previous, attempts[a].read, FALSE)
            /\ AttemptGoes(a, "stuck")
      /\ UNCHANGED place

ReleaseNext ==
  \/ \E a \in Attempt :
       \/ StartPromotion(a) \/ CheckBundle(a) \/ PostPromotion(a) \/ WaitForPromotion(a)
       \/ UndoBundle(a) \/ PostRollback(a) \/ WaitForRollback(a) \/ CallFails(a)
  \/ \E key \in OrderKind \X Bundle : Reconcile(key)
  \/ \E b \in Bundle : DeployByHand(b)

ReleaseSpec == ReleaseInit /\ [][ReleaseNext]_releaseVars

-----------------------------------------------------------------------------
(* promotion.py:279, promote returns the plan of a whole release or rolls   *)
(* back what it knows it has deployed: with repeated executions, lost       *)
(* answers, waits that time out while the Deployment is still queued, and   *)
(* versions deployed by hand, an execution that failed without "automatic   *)
(* rollback did not complete" leaves no Agent with an earlier version whose *)
(* POST was answered on the release, now or when a late Deployment is       *)
(* applied.  It does not know of an Agent whose POST arrived and whose      *)
(* answer was lost: that one may stay on the release, and no other may      *)
(* which no execution was answered about.  An execution that succeeded has  *)
(* every Agent on the release, unless the Agent was rolled back or deployed *)
(* by hand.                                                                 *)
ReleaseWhole ==
  /\ \A a \in Attempt :
       /\ AttemptAt(a, "restored") =>
            \A b \in 1 .. attempts[a].answered :
              orders[<<"release", b>>].previous # Vacant => "release" \notin place[b].routes
       /\ AttemptAt(a, "promoted") =>
            \A b \in Bundle :
              \/ "release" \in place[b].routes
              \/ \E kind \in {"rollback", "manual"} : orders[<<kind, b>>] # NoOrder
  /\ \A b \in Bundle :
       "release" \in place[b].routes =>
         \E a \in Attempt : b <= attempts[a].answered \/ b \in attempts[a].lost
===============================================================================
