--------------------------- MODULE MC_ControlPlane ---------------------------
(* ControlPlane for TLC.                                                    *)
EXTENDS ControlPlane, TLC

CONSTANTS First, Second   \* the two clients, and Single is the first job

Used(j) == row[j].status # "none" \/ \E u \in Client : client[u].job = j

(* Clients are interchangeable, and so are jobs: the first one comes first. *)
(* A job meets a fault or another job of its kind, not both.  The export of *)
(* a score and the alert incident share nothing: exports wait for the       *)
(* requests.  Only Deployments that follow another one are canaries.         *)
Bound ==
  /\ client[First].made >= client[Second].made
  /\ \A j \in Job \ {Single} : Used(j) => Used(Single)
  /\ faults > 0 => \A j \in Job \ {Single} : ~Used(j)
  /\ kind = "deployment" /\ env = FreshEnv =>
       \A u \in Client : client[u].job = Single => ~client[u].snap.at.canary
  /\ kind = "quality" /\ (\E u \in Client : ~Asking(u, "idle")) =>
       \A c \in Controller : At(c, "idle")
=============================================================================
