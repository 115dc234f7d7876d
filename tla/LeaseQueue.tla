----------------------------- MODULE LeaseQueue -----------------------------
(***************************************************************************)
(* What the run queue promises, whatever Redis keys carry it: a task is     *)
(* absent, visible or leased to one process; putting a task that is already *)
(* there does nothing; only the process that holds the lease finishes it or *)
(* gives it back; a lapsed lease makes the task visible again.  RunQueue    *)
(* implements it; the modules about Runs use it.                            *)
(***************************************************************************)
CONSTANTS Task, Proc

VARIABLES place,   \* where each task is
          holder   \* the process of the task's latest lease

leaseVars == <<place, holder>>

Places == {"absent", "visible", "leased"}

LeaseInit ==
  /\ place = [t \in Task |-> "absent"]
  /\ holder \in [Task -> Proc]

Put(t) ==
  /\ place' = [place EXCEPT ![t] = IF @ = "absent" THEN "visible" ELSE @]
  /\ UNCHANGED holder

(* Taking a task first makes every lapsed lease visible.                    *)
Take(p, t, lapsed) ==
  /\ \A u \in lapsed : place[u] = "leased"
  /\ place[t] = "visible" \/ t \in lapsed
  /\ place' = [u \in Task |-> IF u = t THEN "leased"
                              ELSE IF u \in lapsed THEN "visible"
                              ELSE place[u]]
  /\ holder' = [holder EXCEPT ![t] = p]

Holds(p, t) == place[t] = "leased" /\ holder[t] = p

Finish(p, t) ==
  /\ Holds(p, t)
  /\ place' = [place EXCEPT ![t] = "absent"]
  /\ UNCHANGED holder

GiveBack(p, t) ==
  /\ Holds(p, t)
  /\ place' = [place EXCEPT ![t] = "visible"]
  /\ UNCHANGED holder

LeaseNext ==
  \/ \E t \in Task : Put(t)
  \/ \E p \in Proc, t \in Task, lapsed \in SUBSET Task : Take(p, t, lapsed)
  \/ \E p \in Proc, t \in Task : Finish(p, t) \/ GiveBack(p, t)

LeaseSpec == LeaseInit /\ [][LeaseNext]_leaseVars
=============================================================================
