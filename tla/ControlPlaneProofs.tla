--------------------------- MODULE ControlPlaneProofs ---------------------------
(***************************************************************************)
(* What holds of the durable jobs of the control plane, evaluations,        *)
(* deployments and previews, for every number of jobs, controllers, clients *)
(* and faults: a passed evaluation has every case, a version is applied     *)
(* once and its routes resolve, a preview's reservation is accounted, and   *)
(* every row follows the table of its kind.                                 *)
(***************************************************************************)
EXTENDS ControlPlane, TLAPS

-----------------------------------------------------------------------------
(* What the kinds of durable jobs share: rows, controllers and clients keep *)
(* their types, for whatever a kind stores as its progress.                 *)

Statuses == {"none", "queued", "running", "provisioning", "ready", "reconciling", "cancelling",
             "cancelled", "failed", "expired", "passed", "succeeded"}
CtlPlaces == {"idle", "read", "ack", "retry", "replace", "spawn", "poll", "addPassed", "addFailed",
              "handle", "stop", "list", "addCancelled", "finalize", "report", "environment",
              "apply", "move", "fail", "provision", "provisioned", "unprovisioned", "release"}
ClientPlaces == {"idle", "add", "enqueue", "cancel", "reserve", "snapshot", "commit", "policy"}

JobRows(A) == [status : Statuses, token : Nat, at : A]
CtlRows(A) == [pc : CtlPlaces, job : Job \cup {NoJob}, snap : JobRows(A), want : JobRows(A),
               err : {"retry", "handle", "fail", "idle"}]
ClientRows(A) == [pc : ClientPlaces, job : Job \cup {NoJob}, snap : JobRows(A), made : Nat]

JobTypes(A) ==
  /\ NoProgress \in A /\ row \in [Job -> JobRows(A)]
  /\ ctl \in [Actor -> CtlRows(A)] /\ client \in [Client -> ClientRows(A)]

LEMMA NoRowFacts ==
  ASSUME NEW A, NoProgress \in A
  PROVE  /\ NoRow \in JobRows(A) /\ NoRow.status = "none"
         /\ IdleCtl \in CtlRows(A) /\ IdleCtl.pc = "idle" /\ IdleCtl.err = "retry"
         /\ IdleClient.pc = "idle"
         /\ IdleClient \in ClientRows(A)
BY DEF NoRow, IdleCtl, IdleClient, JobRows, CtlRows, ClientRows, Statuses, CtlPlaces, ClientPlaces

LEMMA WithFacts ==
  ASSUME NEW A, NEW r \in JobRows(A), NEW status \in Statuses, NEW at \in A
  PROVE  /\ With(r, status, at) \in JobRows(A)
         /\ With(r, status, at).status = status /\ With(r, status, at).at = at
         /\ With(r, status, at).token = r.token + 1
BY DEF With, JobRows

LEMMA InitTypes ==
  ASSUME NEW A, NoProgress \in A, JobInit
  PROVE  JobTypes(A)
BY NoRowFacts DEF JobInit, JobTypes

(* What one controller does to its own state                                *)
OnlyMoves(c) == \A d \in Actor : d # c => ctl'[d] = ctl[d]
OnlyAsks(u) == \A v \in Client : v # u => client'[v] = client[v]

LEMMA Goes ==
  ASSUME NEW A, ctl \in [Actor -> CtlRows(A)], NEW c \in Actor, NEW pc \in CtlPlaces, Go(c, pc)
  PROVE  /\ ctl' \in [Actor -> CtlRows(A)] /\ OnlyMoves(c)
         /\ ctl'[c].pc = pc /\ ctl'[c].job = ctl[c].job /\ ctl'[c].snap = ctl[c].snap
         /\ ctl'[c].want = ctl[c].want /\ ctl'[c].err = ctl[c].err
<1> DEFINE new == [ctl[c] EXCEPT !.pc = pc]
<1>1. ctl[c] \in CtlRows(A)
  OBVIOUS
<1>2. /\ new \in CtlRows(A) /\ new.pc = pc /\ new.job = ctl[c].job /\ new.snap = ctl[c].snap
      /\ new.want = ctl[c].want /\ new.err = ctl[c].err
  BY <1>1 DEF CtlRows
<1>3. ctl' = [ctl EXCEPT ![c] = new]
  BY DEF Go
<1> HIDE DEF new
<1> QED BY <1>2, <1>3 DEF OnlyMoves

LEMMA PlansOn ==
  ASSUME NEW A, ctl \in [Actor -> CtlRows(A)], NEW c \in Actor, NEW pc \in CtlPlaces,
         NEW snap \in JobRows(A), NEW want \in JobRows(A),
         NEW err \in {"retry", "handle", "fail", "idle"}, Plan(c, pc, snap, want, err)
  PROVE  /\ ctl' \in [Actor -> CtlRows(A)] /\ OnlyMoves(c)
         /\ ctl'[c].pc = pc /\ ctl'[c].job = ctl[c].job /\ ctl'[c].snap = snap
         /\ ctl'[c].want = want /\ ctl'[c].err = err
<1> DEFINE new == [pc |-> pc, job |-> ctl[c].job, snap |-> snap, want |-> want, err |-> err]
<1>1. ctl[c].job \in Job \cup {NoJob}
  BY DEF CtlRows
<1>2. /\ new \in CtlRows(A) /\ new.pc = pc /\ new.job = ctl[c].job /\ new.snap = snap
      /\ new.want = want /\ new.err = err
  BY <1>1 DEF CtlRows
<1>3. ctl' = [ctl EXCEPT ![c] = new]
  BY DEF Plan
<1> HIDE DEF new
<1> QED BY <1>2, <1>3 DEF OnlyMoves

LEMMA RestsNow ==
  ASSUME NEW A, NoProgress \in A, ctl \in [Actor -> CtlRows(A)], NEW c \in Actor, Rest(c)
  PROVE  ctl' \in [Actor -> CtlRows(A)] /\ OnlyMoves(c) /\ ctl'[c] = IdleCtl
BY NoRowFacts DEF Rest, OnlyMoves

LEMMA AsksNext ==
  ASSUME NEW A, client \in [Client -> ClientRows(A)], NEW u \in Client,
         NEW pc \in ClientPlaces, Ask(u, pc)
  PROVE  /\ client' \in [Client -> ClientRows(A)] /\ OnlyAsks(u)
         /\ client'[u].pc = pc /\ client'[u].job = client[u].job
         /\ client'[u].snap = client[u].snap
<1> DEFINE new == [client[u] EXCEPT !.pc = pc]
<1>1. client[u] \in ClientRows(A)
  OBVIOUS
<1>2. /\ new \in ClientRows(A) /\ new.pc = pc /\ new.job = client[u].job
      /\ new.snap = client[u].snap
  BY <1>1 DEF ClientRows
<1>3. client' = [client EXCEPT ![u] = new]
  BY DEF Ask
<1> HIDE DEF new
<1> QED BY <1>2, <1>3 DEF OnlyAsks

LEMMA AnswersNow ==
  ASSUME NEW A, NoProgress \in A, client \in [Client -> ClientRows(A)], NEW u \in Client, Answer(u)
  PROVE  client' \in [Client -> ClientRows(A)] /\ OnlyAsks(u) /\ client'[u].pc = "idle"
<1> DEFINE new == [IdleClient EXCEPT !.made = client[u].made]
<1>1. client[u].made \in Nat
  BY DEF ClientRows
<1>2. new \in ClientRows(A) /\ new.pc = "idle"
  BY <1>1, NoRowFacts DEF ClientRows
<1>3. client' = [client EXCEPT ![u] = new]
  BY DEF Answer
<1> HIDE DEF new
<1> QED BY <1>2, <1>3 DEF OnlyAsks

LEMMA Begins ==
  ASSUME NEW A, client \in [Client -> ClientRows(A)], NEW u \in Client, NEW pc \in ClientPlaces,
         NEW j \in Job \cup {NoJob}, NEW snap \in JobRows(A), Begin(u, pc, j, snap)
  PROVE  /\ client' \in [Client -> ClientRows(A)] /\ OnlyAsks(u)
         /\ client'[u].pc = pc /\ client'[u].job = j /\ client'[u].snap = snap
         /\ client[u].pc = "idle"
<1> DEFINE new == [pc |-> pc, job |-> j, snap |-> snap, made |-> client[u].made + 1]
<1>1. client[u].made \in Nat
  BY DEF ClientRows
<1>2. new \in ClientRows(A) /\ new.pc = pc /\ new.job = j /\ new.snap = snap
  BY <1>1 DEF ClientRows
<1>3. client' = [client EXCEPT ![u] = new] /\ client[u].pc = "idle"
  BY DEF Begin, Asking
<1> HIDE DEF new
<1> QED BY <1>2, <1>3 DEF OnlyAsks

(* A controller that has just taken its task                                *)
Taken(j) == [IdleCtl EXCEPT !.pc = "read", !.job = j]

LEMMA TakenFacts ==
  ASSUME NEW A, NoProgress \in A, NEW j \in Job
  PROVE  /\ Taken(j) \in CtlRows(A) /\ Taken(j).pc = "read" /\ Taken(j).job = j
         /\ Taken(j).err = "retry"
BY NoRowFacts DEF Taken, CtlRows, IdleCtl, CtlPlaces

(* Leasing, acknowledging and giving back a task, and the end of a process, *)
(* whatever the kind: nobody's copies change.                               *)
Shared(c) == Acknowledge(c) \/ Retry(c) \/ (\E j \in Job : Dequeue(c, j))

Forgets ==
  /\ \A c \in Actor : \/ ctl'[c] = ctl[c] \/ ctl'[c] = IdleCtl
                      \/ \E j \in Job : ctl'[c] = Taken(j)
  /\ \A u \in Client : client'[u] = client[u] \/ client'[u].pc = "idle"

LEMMA SharedForgets ==
  ASSUME NEW A, JobTypes(A), NEW c \in Controller, Shared(c)
  PROVE  /\ Forgets /\ JobTypes(A)' /\ UNCHANGED <<kind, row, client, quota>>
<1>0. c \in Actor
  BY DEF Actor
<1>1. CASE Acknowledge(c) \/ Retry(c)
  <2>1. Rest(c) /\ UNCHANGED <<kind, row, client, quota>>
    BY <1>1 DEF Acknowledge, Retry
  <2>2. ctl' \in [Actor -> CtlRows(A)] /\ OnlyMoves(c) /\ ctl'[c] = IdleCtl
    BY <1>0, <2>1, RestsNow DEF JobTypes
  <2> QED BY <2>1, <2>2 DEF Forgets, OnlyMoves, JobTypes
<1>2. ASSUME NEW j \in Job, Dequeue(c, j)
      PROVE  Forgets /\ JobTypes(A)' /\ UNCHANGED <<kind, row, client, quota>>
  <2>1. ctl' = [ctl EXCEPT ![c] = Taken(j)] /\ UNCHANGED <<kind, row, client, quota>>
    BY <1>2 DEF Dequeue, Taken
  <2>2. Taken(j) \in CtlRows(A)
    BY TakenFacts DEF JobTypes
  <2> QED BY <1>0, <2>1, <2>2 DEF Forgets, JobTypes
<1> QED BY <1>1, <1>2 DEF Shared

LEMMA CrashForgets ==
  ASSUME NEW A, JobTypes(A), Crash
  PROVE  /\ Forgets /\ JobTypes(A)' /\ UNCHANGED <<kind, row, quota, queueVars>>
         /\ faults' = faults + 1
<1>1. UNCHANGED <<kind, row, quota, queueVars>> /\ faults' = faults + 1
  BY DEF Crash
<1>2. ASSUME NEW c \in Actor, Rest(c), UNCHANGED client PROVE Forgets /\ JobTypes(A)'
  BY <1>1, <1>2, RestsNow DEF Forgets, OnlyMoves, JobTypes
<1>3. ASSUME NEW u \in Client, Answer(u), UNCHANGED ctl PROVE Forgets /\ JobTypes(A)'
  BY <1>1, <1>3, AnswersNow DEF Forgets, OnlyAsks, JobTypes
<1> QED BY <1>1, <1>2, <1>3 DEF Crash

-----------------------------------------------------------------------------
(* Eval Runs.                                                                *)

Progress == [index : Nat, phase : {"none", "started", "uploaded", "child"}, reports : BOOLEAN]
EvalAt == {NoProgress} \cup Progress

Recorded(i) == \A k \in Case : k <= i => results[k] # "none"
AllPassed == \A k \in Case : results[k] = "passed"

(* What a row, or a copy of it, says of the stored results                  *)
Grounded(r) ==
  /\ r.at \in Progress /\ Recorded(r.at.index)
  /\ r.status = "passed" => AllPassed

EvalPlace(pc, snap, want, err) ==
  /\ err \in {"retry", "handle"}
  /\ pc \in {"idle", "read"} => err = "retry"
  /\ pc \notin {"idle", "read", "ack", "retry"} => Grounded(snap)
  /\ pc \in {"replace", "spawn", "report"} => Grounded(want)
  /\ pc \in {"poll", "addPassed", "addFailed"} => want = NextCase(snap)
  /\ pc = "finalize" => snap.at.index >= Cases

EvalCtlHolds(me) ==
  /\ me.pc # "idle" => me.job \in Job
  /\ EvalPlace(me.pc, me.snap, me.want, me.err)

EvalClientHolds(me) == me.pc = "cancel" => Grounded(me.snap)

EvalInv ==
  /\ JobTypes(EvalAt)
  /\ results \in [Case -> {"none", "passed", "failed"}]
  /\ \A j \in Job : row[j].status # "none" => Grounded(row[j])
  /\ \A c \in Actor : EvalCtlHolds(ctl[c])
  /\ \A u \in Client : EvalClientHolds(client[u])

ResultsStay == \A k \in Case : results[k] # "none" => results'[k] = results[k]

LEMMA GroundedStays ==
  ASSUME ResultsStay, NEW r, Grounded(r)
  PROVE  Grounded(r)'
BY DEF ResultsStay, Grounded, Recorded, AllPassed

(* Results are never taken back, and everything else is as good as it was   *)
(* or good again.                                                           *)
LEMMA EvalMoves ==
  ASSUME EvalInv, JobTypes(EvalAt)', results' \in [Case -> {"none", "passed", "failed"}], ResultsStay,
         \A j \in Job : row'[j] = row[j] \/ Grounded(row[j])',
         \A c \in Actor : ctl'[c] = ctl[c] \/ EvalCtlHolds(ctl[c])',
         \A u \in Client : client'[u] = client[u] \/ EvalClientHolds(client[u])'
  PROVE  EvalInv'
<1>1. ASSUME NEW j \in Job, row'[j].status # "none" PROVE Grounded(row[j])'
  <2>1. CASE row'[j] = row[j]
    <3>1. Grounded(row[j])
      BY <1>1, <2>1 DEF EvalInv
    <3> QED BY <2>1, <3>1 DEF Grounded, ResultsStay, Recorded, AllPassed
  <2> QED BY <2>1
<1>2. ASSUME NEW c \in Actor PROVE EvalCtlHolds(ctl[c])'
  <2>1. CASE ctl'[c] = ctl[c]
    <3>1. EvalCtlHolds(ctl[c])
      BY DEF EvalInv
    <3> QED BY <2>1, <3>1 DEF EvalCtlHolds, EvalPlace, Grounded, ResultsStay, Recorded, AllPassed
  <2> QED BY <2>1
<1>3. ASSUME NEW u \in Client PROVE EvalClientHolds(client[u])'
  <2>1. CASE client'[u] = client[u]
    <3>1. EvalClientHolds(client[u])
      BY DEF EvalInv
    <3> QED BY <2>1, <3>1 DEF EvalClientHolds, Grounded, ResultsStay, Recorded, AllPassed
  <2> QED BY <2>1
<1> QED BY <1>1, <1>2, <1>3 DEF EvalInv

LEMMA EvalForgets ==
  ASSUME EvalInv, JobTypes(EvalAt)', Forgets, UNCHANGED <<row, results>>
  PROVE  EvalInv'
<1>1. results' \in [Case -> {"none", "passed", "failed"}] /\ ResultsStay
  BY DEF EvalInv, ResultsStay
<1>2. ASSUME NEW c \in Actor PROVE ctl'[c] = ctl[c] \/ EvalCtlHolds(ctl[c])'
  <2>1. CASE ctl'[c] = IdleCtl
    BY <2>1, NoRowFacts DEF EvalCtlHolds, EvalPlace, EvalInv, JobTypes
  <2>2. ASSUME NEW j \in Job, ctl'[c] = Taken(j) PROVE EvalCtlHolds(ctl[c])'
    BY <2>2, TakenFacts DEF EvalCtlHolds, EvalPlace, EvalInv, JobTypes
  <2> QED BY <2>1, <2>2 DEF Forgets
<1>3. \A u \in Client : client'[u] = client[u] \/ EvalClientHolds(client[u])'
  BY DEF Forgets, EvalClientHolds
<1>4. \A j \in Job : row'[j] = row[j]
  OBVIOUS
<1> QED BY <1>1, <1>2, <1>3, <1>4, EvalMoves

LEMMA ProgressFacts ==
  ASSUME NEW r \in JobRows(EvalAt), r.at \in Progress,
         NEW phase \in {"none", "started", "uploaded", "child"}
  PROVE  /\ InPhase(r, phase) \in JobRows(EvalAt) /\ InPhase(r, phase).at \in Progress
         /\ InPhase(r, phase).at.index = r.at.index /\ InPhase(r, phase).status = "running"
         /\ NextCase(r) \in JobRows(EvalAt) /\ NextCase(r).at \in Progress
         /\ NextCase(r).at.index = r.at.index + 1 /\ NextCase(r).status = "running"
         /\ Start \in Progress /\ Start.index = 0
<1> DEFINE at1 == [r.at EXCEPT !.phase = phase]
           on == [r.at EXCEPT !.index = @ + 1]
           at2 == [on EXCEPT !.phase = "none"]
<1>1. at1 \in Progress /\ at1.index = r.at.index
  BY DEF Progress
<1>2. on \in Progress /\ on.index = r.at.index + 1
  BY DEF Progress
<1>3. InPhase(r, phase) = With(r, "running", at1)
  BY DEF InPhase
<1>4. NextCase(r) = With(r, "running", at2)
  BY DEF NextCase
<1> HIDE DEF at1, on
<1>5. at2 \in Progress /\ at2.index = r.at.index + 1
  BY <1>2 DEF Progress
<1> HIDE DEF at2
<1>6. at1 \in EvalAt /\ at2 \in EvalAt /\ "running" \in Statuses
  BY <1>1, <1>5 DEF EvalAt, Statuses
<1>7. Start \in Progress /\ Start.index = 0
  BY DEF Start, Progress
<1> QED BY <1>1, <1>3, <1>4, <1>5, <1>6, <1>7, WithFacts

LEMMA PhaseIsGrounded ==
  ASSUME NEW r \in JobRows(EvalAt), Grounded(r), NEW phase \in {"none", "started", "uploaded", "child"}
  PROVE  Grounded(InPhase(r, phase))
BY ProgressFacts DEF Grounded, Recorded

(* The requests: nothing but rows and their own copies.                     *)
LEMMA EvalAsksInv ==
  ASSUME EvalInv, NEW u \in Client, EvalAsks(u)
  PROVE  EvalInv'
<1>1. JobTypes(EvalAt) /\ NoProgress \in EvalAt
  BY DEF EvalInv, EvalAt
<1>2. PICK j \in Job : CreateEval(u, j) \/ (CancelBegin(u, j) /\ EvalUnchanged)
  <2>1. Target \subseteq Job
    BY SingleAssumption DEF Target
  <2> QED BY <2>1 DEF EvalAsks
<1>3. PICK pc \in {"add", "cancel", "enqueue"}, snap \in JobRows(EvalAt) :
        /\ Begin(u, pc, j, snap)
        /\ pc = "cancel" => Grounded(snap)
  <2>1. CASE CreateEval(u, j)
    BY <1>1, <2>1, NoRowFacts DEF CreateEval
  <2>2. CASE CancelBegin(u, j)
    <3>1. Grounded(row[j]) /\ row[j] \in JobRows(EvalAt)
      BY <2>2 DEF CancelBegin, EvalInv, JobTypes
    <3> QED BY <2>2, <3>1 DEF CancelBegin
  <2> QED BY <1>2, <2>1, <2>2
<1>4. UNCHANGED <<row, ctl, results>>
  BY <1>2 DEF CreateEval, CancelBegin, OnlyClient, EvalUnchanged
<1>5. /\ client' \in [Client -> ClientRows(EvalAt)] /\ OnlyAsks(u)
      /\ client'[u].pc = pc /\ client'[u].snap = snap
  BY <1>1, <1>3, Begins DEF JobTypes, ClientPlaces
<1>6. EvalClientHolds(client[u])'
  BY <1>3, <1>4, <1>5 DEF EvalClientHolds, Grounded, Recorded, AllPassed
<1>7. JobTypes(EvalAt)' /\ ResultsStay /\ results' \in [Case -> {"none", "passed", "failed"}]
  BY <1>1, <1>4, <1>5 DEF JobTypes, ResultsStay, EvalInv
<1>8. \A v \in Client : client'[v] = client[v] \/ EvalClientHolds(client[v])'
  BY <1>5, <1>6 DEF OnlyAsks
<1>9. (\A i \in Job : row'[i] = row[i]) /\ (\A c \in Actor : ctl'[c] = ctl[c])
  BY <1>4
<1> QED BY <1>7, <1>8, <1>9, EvalMoves

LEMMA EvalAnswersInv ==
  ASSUME EvalInv, NEW u \in Client, EvalAnswers(u)
  PROVE  EvalInv'
<1> DEFINE j == client[u].job
           snap == client[u].snap
<1>1. JobTypes(EvalAt) /\ NoProgress \in EvalAt /\ client[u] \in ClientRows(EvalAt)
  BY DEF EvalInv, EvalAt, JobTypes
<1>2. UNCHANGED <<ctl, results>>
  BY DEF EvalAnswers, AddEval, EnqueueTask, CancelMove, OnlyClient, EvalUnchanged
<1>3. Answer(u) \/ Ask(u, "enqueue")
  BY DEF EvalAnswers, AddEval, EnqueueTask, CancelMove
<1>4. /\ client' \in [Client -> ClientRows(EvalAt)] /\ OnlyAsks(u)
      /\ client'[u].pc \in {"idle", "enqueue"}
  BY <1>1, <1>3, AnswersNow, AsksNext DEF JobTypes, ClientPlaces
<1>5. \/ UNCHANGED row
      \/ \E new \in JobRows(EvalAt) : Grounded(new) /\ Store(j, new)
  <2>1. CASE AddEval(u)
    <3> DEFINE new == [status |-> "queued", token |-> 0, at |-> Start]
    <3>1. UNCHANGED row \/ Store(j, new)
      BY <2>1 DEF AddEval
    <3>2. Start \in Progress /\ Start.index = 0
      BY DEF Start, Progress
    <3>3. new \in JobRows(EvalAt) /\ Grounded(new)
      BY <3>2 DEF JobRows, EvalAt, Statuses, Grounded, Recorded, Case
    <3> QED BY <3>1, <3>3
  <2>2. CASE EnqueueTask(u, "idle")
    BY <2>2 DEF EnqueueTask
  <2>3. CASE CancelMove(u)
    <3> DEFINE new == With(snap, "cancelling", snap.at)
    <3>1. UNCHANGED row \/ Store(j, new)
      BY <2>3 DEF CancelMove
    <3>2. Grounded(snap) /\ snap \in JobRows(EvalAt) /\ snap.at \in EvalAt
      BY <1>1, <2>3 DEF CancelMove, Asking, EvalInv, EvalClientHolds, ClientRows, JobRows
    <3>3. "cancelling" \in Statuses
      BY DEF Statuses
    <3>4. new \in JobRows(EvalAt) /\ new.status = "cancelling" /\ new.at = snap.at
      BY <3>2, <3>3, WithFacts
    <3>5. Grounded(new)
      BY <3>2, <3>4 DEF Grounded
    <3> QED BY <3>1, <3>4, <3>5
  <2> QED BY <2>1, <2>2, <2>3 DEF EvalAnswers
<1>6. /\ row' \in [Job -> JobRows(EvalAt)]
      /\ \A i \in Job : row'[i] = row[i] \/ Grounded(row[i])'
  <2>1. CASE UNCHANGED row
    BY <1>1, <2>1 DEF JobTypes
  <2>2. ASSUME NEW new \in JobRows(EvalAt), Grounded(new), Store(j, new)
        PROVE  /\ row' \in [Job -> JobRows(EvalAt)]
               /\ \A i \in Job : row'[i] = row[i] \/ Grounded(row[i])'
    <3>1. row' \in [Job -> JobRows(EvalAt)] /\ \A i \in Job : row'[i] \in {row[i], new}
      BY <1>1, <2>2 DEF Store, JobTypes
    <3>2. Grounded(new)'
      BY <1>2, <2>2 DEF Grounded, Recorded, AllPassed
    <3> QED BY <3>1, <3>2, <1>2, <2>2 DEF Grounded, Recorded, AllPassed
  <2> QED BY <1>5, <2>1, <2>2
<1>7. JobTypes(EvalAt)' /\ ResultsStay /\ results' \in [Case -> {"none", "passed", "failed"}]
  BY <1>1, <1>2, <1>4, <1>6 DEF JobTypes, ResultsStay, EvalInv
<1>8. \A v \in Client : client'[v] = client[v] \/ EvalClientHolds(client[v])'
  BY <1>4 DEF OnlyAsks, EvalClientHolds
<1>9. \A c \in Actor : ctl'[c] = ctl[c]
  BY <1>2
<1> QED BY <1>6, <1>7, <1>8, <1>9, EvalMoves

(* A step of a controller                                                   *)
LEMMA EvalCtlStep ==
  ASSUME EvalInv, NEW c \in Actor, ctl[c].pc # "idle",
         NEW pc \in CtlPlaces, NEW snap, NEW want, NEW err,
         ctl' \in [Actor -> CtlRows(EvalAt)], OnlyMoves(c),
         /\ ctl'[c].pc = pc /\ ctl'[c].job = ctl[c].job /\ ctl'[c].snap = snap
         /\ ctl'[c].want = want /\ ctl'[c].err = err,
         EvalPlace(pc, snap, want, err)', ResultsStay,
         results' \in [Case -> {"none", "passed", "failed"}],
         row' \in [Job -> JobRows(EvalAt)],
         \A j \in Job : row'[j] = row[j] \/ Grounded(row[j])',
         UNCHANGED client
  PROVE  EvalInv'
<1>1. JobTypes(EvalAt)'
  BY DEF EvalInv, JobTypes
<1>2. EvalCtlHolds(ctl[c])'
  BY DEF EvalInv, EvalCtlHolds, EvalPlace, Grounded, Recorded, AllPassed
<1>3. \A d \in Actor : ctl'[d] = ctl[d] \/ EvalCtlHolds(ctl[d])'
  BY <1>2 DEF OnlyMoves
<1>4. \A u \in Client : client'[u] = client[u]
  OBVIOUS
<1> QED BY <1>1, <1>3, <1>4, EvalMoves

LEMMA SameResults ==
  ASSUME EvalInv, UNCHANGED <<row, results>>
  PROVE  /\ results' \in [Case -> {"none", "passed", "failed"}] /\ ResultsStay
         /\ row' \in [Job -> JobRows(EvalAt)]
         /\ \A j \in Job : row'[j] = row[j] \/ Grounded(row[j])'
BY DEF EvalInv, JobTypes, ResultsStay

LEMMA EvalGoes ==
  ASSUME EvalInv, NEW c \in Actor, ctl[c].pc # "idle", NEW pc \in CtlPlaces, Go(c, pc),
         EvalPlace(pc, ctl[c].snap, ctl[c].want, ctl[c].err),
         UNCHANGED <<row, client, results>>
  PROVE  EvalInv'
<1>1. PICK snap, want, err : snap = ctl[c].snap /\ want = ctl[c].want /\ err = ctl[c].err
  OBVIOUS
<1>2. /\ ctl' \in [Actor -> CtlRows(EvalAt)] /\ OnlyMoves(c)
      /\ ctl'[c].pc = pc /\ ctl'[c].job = ctl[c].job /\ ctl'[c].snap = snap
      /\ ctl'[c].want = want /\ ctl'[c].err = err
  BY <1>1, Goes DEF EvalInv, JobTypes
<1>3. EvalPlace(pc, snap, want, err)'
  BY <1>1 DEF EvalPlace, Grounded, Recorded, AllPassed
<1> QED BY <1>2, <1>3, SameResults, EvalCtlStep

LEMMA EvalPlans ==
  ASSUME EvalInv, NEW c \in Actor, ctl[c].pc # "idle", NEW pc \in CtlPlaces,
         NEW snap \in JobRows(EvalAt), NEW want \in JobRows(EvalAt),
         NEW err \in {"retry", "handle"}, Plan(c, pc, snap, want, err),
         EvalPlace(pc, snap, want, err), UNCHANGED <<row, client, results>>
  PROVE  EvalInv'
<1>1. /\ ctl' \in [Actor -> CtlRows(EvalAt)] /\ OnlyMoves(c)
      /\ ctl'[c].pc = pc /\ ctl'[c].job = ctl[c].job /\ ctl'[c].snap = snap
      /\ ctl'[c].want = want /\ ctl'[c].err = err
  BY PlansOn DEF EvalInv, JobTypes
<1>2. EvalPlace(pc, snap, want, err)'
  BY DEF EvalPlace, Grounded, Recorded, AllPassed
<1> QED BY <1>1, <1>2, SameResults, EvalCtlStep

(* What a controller knows                                                  *)
LEMMA EvalCtlFacts ==
  ASSUME EvalInv, NEW c \in Actor, ctl[c].pc # "idle"
  PROVE  /\ ctl[c].job \in Job /\ ctl[c].snap \in JobRows(EvalAt) /\ ctl[c].want \in JobRows(EvalAt)
         /\ EvalPlace(ctl[c].pc, ctl[c].snap, ctl[c].want, ctl[c].err)
         /\ row[ctl[c].job] \in JobRows(EvalAt)
         /\ row[ctl[c].job].status # "none" => Grounded(row[ctl[c].job])
         /\ NoRow \in JobRows(EvalAt)
<1>1. EvalCtlHolds(ctl[c]) /\ ctl[c] \in CtlRows(EvalAt) /\ NoProgress \in EvalAt
  BY DEF EvalInv, JobTypes
<1>2. ctl[c].job \in Job
  BY <1>1 DEF EvalCtlHolds
<1> QED BY <1>1, <1>2, NoRowFacts DEF EvalInv, JobTypes, EvalCtlHolds, CtlRows

LEMMA ReadEvalInv ==
  ASSUME EvalInv, NEW c \in Actor, ReadEval(c)
  PROVE  EvalInv'
<1> DEFINE now == row[ctl[c].job]
<1>1. ctl[c].pc = "read" /\ UNCHANGED <<row, client, results>>
  BY DEF ReadEval, At, OnlyCtl, EvalUnchanged
<1>2. /\ now \in JobRows(EvalAt) /\ ctl[c].err = "retry" /\ NoRow \in JobRows(EvalAt)
      /\ now.status # "none" => Grounded(now)
  BY <1>1, EvalCtlFacts DEF EvalPlace
<1>3. CASE Ended(now.status) /\ Go(c, "ack")
  BY <1>1, <1>2, <1>3, EvalGoes DEF EvalPlace, CtlPlaces
<1> SUFFICES ASSUME now.status \in {"queued", "running", "cancelling"} PROVE EvalInv'
  BY <1>3 DEF ReadEval
<1>4. Grounded(now)
  BY <1>2
<1>5. CASE Plan(c, "stop", now, NoRow, "retry")
  BY <1>1, <1>2, <1>4, <1>5, EvalPlans DEF EvalPlace, CtlPlaces
<1>6. CASE now.at.index >= Cases /\ Plan(c, "finalize", now, NoRow, "retry")
  BY <1>1, <1>2, <1>4, <1>6, EvalPlans DEF EvalPlace, CtlPlaces
<1>7. CASE Plan(c, "replace", now, With(now, "running", now.at), "retry")
  <2> DEFINE want == With(now, "running", now.at)
  <2>1. "running" \in Statuses /\ now.at \in EvalAt
    BY <1>2 DEF JobRows, Statuses
  <2>2. want \in JobRows(EvalAt) /\ want.status = "running" /\ want.at = now.at
    BY <1>2, <2>1, WithFacts
  <2> HIDE DEF want
  <2>3. Grounded(want)
    BY <1>4, <2>2 DEF Grounded
  <2> QED BY <1>1, <1>2, <1>4, <1>7, <2>2, <2>3, EvalPlans DEF EvalPlace, CtlPlaces, want
<1>8. ASSUME NEW phase \in {"none", "started", "uploaded", "child"}, NEW pc \in {"replace", "spawn"},
             Plan(c, pc, now, InPhase(now, phase), "handle")
      PROVE  EvalInv'
  <2> DEFINE want == InPhase(now, phase)
  <2>1. want \in JobRows(EvalAt) /\ Grounded(want)
    BY <1>2, <1>4, ProgressFacts, PhaseIsGrounded DEF Grounded
  <2>2. Plan(c, pc, now, want, "handle")
    BY <1>8
  <2> HIDE DEF want
  <2> QED BY <1>1, <1>2, <1>4, <2>1, <2>2, EvalPlans DEF EvalPlace, CtlPlaces
<1>9. CASE Plan(c, "poll", now, NextCase(now), "handle")
  <2> DEFINE want == NextCase(now)
  <2>1. want \in JobRows(EvalAt)
    BY <1>2, <1>4, ProgressFacts DEF Grounded
  <2>2. Plan(c, "poll", now, want, "handle") /\ want = NextCase(now)
    BY <1>9
  <2> HIDE DEF want
  <2> QED BY <1>1, <1>2, <1>4, <2>1, <2>2, EvalPlans DEF EvalPlace, CtlPlaces
<1>10. \/ Plan(c, "stop", now, NoRow, "retry")
       \/ Plan(c, "replace", now, With(now, "running", now.at), "retry")
       \/ now.at.index >= Cases /\ Plan(c, "finalize", now, NoRow, "retry")
       \/ Plan(c, "replace", now, InPhase(now, "started"), "handle")
       \/ Plan(c, "replace", now, InPhase(now, "uploaded"), "handle")
       \/ Plan(c, "spawn", now, InPhase(now, "child"), "handle")
       \/ Plan(c, "poll", now, NextCase(now), "handle")
  BY DEF ReadEval, Ended
<1> QED BY <1>5, <1>6, <1>7, <1>8, <1>9, <1>10

(* Going on with the same copies: the place alone is new.                   *)
LEMMA EvalGoesOn ==
  ASSUME EvalInv, NEW c \in Actor, ctl[c].pc # "idle", NEW pc \in CtlPlaces, Go(c, pc),
         EvalPlace(pc, ctl[c].snap, ctl[c].want, ctl[c].err)', ResultsStay,
         results' \in [Case -> {"none", "passed", "failed"}],
         row' \in [Job -> JobRows(EvalAt)],
         \A j \in Job : row'[j] = row[j] \/ Grounded(row[j])',
         UNCHANGED client
  PROVE  EvalInv'
<1>1. PICK snap, want, err : snap = ctl[c].snap /\ want = ctl[c].want /\ err = ctl[c].err
  OBVIOUS
<1>2. /\ ctl' \in [Actor -> CtlRows(EvalAt)] /\ OnlyMoves(c)
      /\ ctl'[c].pc = pc /\ ctl'[c].job = ctl[c].job /\ ctl'[c].snap = snap
      /\ ctl'[c].want = want /\ ctl'[c].err = err
  BY <1>1, Goes DEF EvalInv, JobTypes
<1>3. EvalPlace(pc, snap, want, err)'
  BY <1>1, <1>2 DEF EvalPlace, Grounded, Recorded, AllPassed
<1> QED BY <1>2, <1>3, EvalCtlStep

(* A row that is stored was grounded when it was planned.                   *)
LEMMA StoresGrounded ==
  ASSUME EvalInv, NEW j \in Job, NEW new \in JobRows(EvalAt), Grounded(new), Store(j, new),
         UNCHANGED results
  PROVE  /\ row' \in [Job -> JobRows(EvalAt)]
         /\ \A i \in Job : row'[i] = row[i] \/ Grounded(row[i])'
<1>1. row' \in [Job -> JobRows(EvalAt)] /\ \A i \in Job : row'[i] = row[i] \/ row'[i] = new
  BY DEF Store, EvalInv, JobTypes
<1>2. Grounded(new)'
  BY DEF Grounded, Recorded, AllPassed
<1> QED BY <1>1, <1>2 DEF Grounded, Recorded, AllPassed

LEMMA ReplaceInv ==
  ASSUME EvalInv, NEW c \in Actor, Replace(c)
  PROVE  EvalInv'
<1>1. ctl[c].pc = "replace" /\ UNCHANGED <<client, results>>
  BY DEF Replace, At, EvalUnchanged
<1>2. /\ ctl[c].job \in Job /\ ctl[c].want \in JobRows(EvalAt)
      /\ EvalPlace("replace", ctl[c].snap, ctl[c].want, ctl[c].err)
  BY <1>1, EvalCtlFacts
<1>3. /\ row' \in [Job -> JobRows(EvalAt)]
      /\ \A i \in Job : row'[i] = row[i] \/ Grounded(row[i])'
  <2>1. CASE UNCHANGED row
    BY <2>1 DEF EvalInv, JobTypes
  <2>2. CASE Store(ctl[c].job, ctl[c].want)
    <3>1. PICK j \in Job, want \in JobRows(EvalAt) : j = ctl[c].job /\ want = ctl[c].want
      BY <1>2
    <3>2. Grounded(want)
      BY <1>2, <3>1 DEF EvalPlace
    <3> QED BY <1>1, <2>2, <3>1, <3>2, StoresGrounded
  <2> QED BY <2>1, <2>2 DEF Replace
<1>4. results' \in [Case -> {"none", "passed", "failed"}] /\ ResultsStay
  BY <1>1 DEF EvalInv, ResultsStay
<1>5. PICK pc \in {"ack", "retry", "handle"} : Go(c, pc)
  BY <1>2 DEF Replace, EvalPlace
<1>6. PICK snap, want, err : snap = ctl[c].snap /\ want = ctl[c].want /\ err = ctl[c].err
  OBVIOUS
<1>7. /\ ctl' \in [Actor -> CtlRows(EvalAt)] /\ OnlyMoves(c)
      /\ ctl'[c].pc = pc /\ ctl'[c].job = ctl[c].job /\ ctl'[c].snap = snap
      /\ ctl'[c].want = want /\ ctl'[c].err = err
  BY <1>5, <1>6, Goes DEF EvalInv, JobTypes, CtlPlaces
<1>8. EvalPlace(pc, snap, want, err)'
  BY <1>1, <1>2, <1>6 DEF EvalPlace, Grounded, Recorded, AllPassed
<1> QED BY <1>1, <1>3, <1>4, <1>5, <1>7, <1>8, EvalCtlStep DEF CtlPlaces

(* The steps that change neither a row nor a result and only move on        *)
LEMMA SpawnInv ==
  ASSUME EvalInv, NEW c \in Actor, Spawn(c) \/ Poll(c)
  PROVE  EvalInv'
<1>1. ctl[c].pc \in {"spawn", "poll"} /\ UNCHANGED <<row, client, results>>
  BY DEF Spawn, Poll, At, OnlyCtl
<1>2. EvalPlace(ctl[c].pc, ctl[c].snap, ctl[c].want, ctl[c].err)
  BY <1>1, EvalCtlFacts
<1>3. CASE Go(c, "replace") /\ ctl[c].pc = "spawn"
  BY <1>1, <1>2, <1>3, EvalGoes DEF EvalPlace, CtlPlaces
<1>4. ASSUME NEW pc \in {"addPassed", "addFailed", "retry"}, Go(c, pc), ctl[c].pc = "poll"
      PROVE  EvalInv'
  BY <1>1, <1>2, <1>4, EvalGoes DEF EvalPlace, CtlPlaces
<1> QED BY <1>3, <1>4 DEF Spawn, Poll, At

LEMMA AddResultInv ==
  ASSUME EvalInv, NEW c \in Actor, AddResult(c)
  PROVE  EvalInv'
<1> DEFINE k == CaseOf(ctl[c].snap)
<1>1. ctl[c].pc \in {"addPassed", "addFailed"} /\ UNCHANGED <<row, client>>
  BY DEF AddResult, OnlyCtl
<1>2. /\ EvalPlace(ctl[c].pc, ctl[c].snap, ctl[c].want, ctl[c].err)
      /\ ctl[c].snap \in JobRows(EvalAt)
  BY <1>1, EvalCtlFacts
<1>3. CASE UNCHANGED results /\ Go(c, ctl[c].err)
  <2>1. PICK pc \in {"retry", "handle"} : pc = ctl[c].err
    BY <1>2 DEF EvalPlace
  <2>2. EvalPlace(pc, ctl[c].snap, ctl[c].want, ctl[c].err)
    BY <1>1, <1>2, <2>1 DEF EvalPlace
  <2> QED BY <1>1, <1>3, <2>1, <2>2, EvalGoes DEF CtlPlaces
<1>4. ASSUME NEW result \in {"passed", "failed"}, results[k] = "none",
             results' = [results EXCEPT ![k] = result], Go(c, "replace")
      PROVE  EvalInv'
  <2>1. /\ results' \in [Case -> {"none", "passed", "failed"}] /\ ResultsStay
        /\ \A i \in Case : i = k => results'[i] # "none"
    BY <1>4 DEF EvalInv, ResultsStay
  <2>2. PICK snap, want, err : snap = ctl[c].snap /\ want = ctl[c].want /\ err = ctl[c].err
    OBVIOUS
  <2>3. /\ snap \in JobRows(EvalAt) /\ Grounded(snap) /\ want = NextCase(snap)
        /\ k = snap.at.index + 1 /\ err \in {"retry", "handle"}
    BY <1>1, <1>2, <2>2 DEF EvalPlace, CaseOf
  <2>4. want.at \in Progress /\ want.at.index = snap.at.index + 1 /\ want.status = "running"
    BY <2>3, ProgressFacts DEF Grounded
  <2>5. Grounded(snap)'
    BY <2>1, <2>3 DEF Grounded, Recorded, AllPassed, ResultsStay
  <2>6. Recorded(snap.at.index + 1)'
    <3>1. snap.at.index \in Nat
      BY <2>3 DEF Grounded, Progress
    <3>2. ASSUME NEW i \in Case, i <= snap.at.index + 1 PROVE results'[i] # "none"
      <4>1. CASE i = k
        BY <2>1, <4>1
      <4>2. CASE i <= snap.at.index
        BY <2>1, <2>3, <4>2 DEF Grounded, Recorded, ResultsStay
      <4>3. i \in Nat
        BY CasesAssumption DEF Case
      <4> QED BY <2>3, <3>1, <3>2, <4>1, <4>2, <4>3
    <3> QED BY <2>3, <3>2 DEF Recorded
  <2>7. Grounded(want)'
    BY <2>4, <2>6 DEF Grounded, Recorded
  <2>8. /\ ctl' \in [Actor -> CtlRows(EvalAt)] /\ OnlyMoves(c)
        /\ ctl'[c].pc = "replace" /\ ctl'[c].job = ctl[c].job /\ ctl'[c].snap = snap
        /\ ctl'[c].want = want /\ ctl'[c].err = err
    BY <1>4, <2>2, Goes DEF EvalInv, JobTypes, CtlPlaces
  <2>9. EvalPlace("replace", snap, want, err)'
    BY <2>3, <2>5, <2>7 DEF EvalPlace
  <2>10. row' \in [Job -> JobRows(EvalAt)] /\ \A j \in Job : row'[j] = row[j]
    BY <1>1 DEF EvalInv, JobTypes
  <2>11. ctl[c].pc # "idle" /\ "replace" \in CtlPlaces
    BY <1>1 DEF CtlPlaces
  <2> QED BY <1>1, <2>1, <2>8, <2>9, <2>10, <2>11, EvalCtlStep
<1> QED BY <1>1, <1>3, <1>4 DEF AddResult, At

LEMMA HandleInv ==
  ASSUME EvalInv, NEW c \in Actor, Handle(c)
  PROVE  EvalInv'
<1>1. ctl[c].pc = "handle" /\ UNCHANGED <<row, client, results>>
  BY DEF Handle, At, OnlyCtl
<1>2. ctl[c].snap \in JobRows(EvalAt) /\ Grounded(ctl[c].snap)
  BY <1>1, EvalCtlFacts DEF EvalPlace
<1>3. PICK snap \in JobRows(EvalAt) : snap = ctl[c].snap
  BY <1>2
<1>4. Grounded(snap) /\ NextCase(snap) \in JobRows(EvalAt)
  BY <1>2, <1>3, ProgressFacts DEF Grounded
<1>5. PICK want \in JobRows(EvalAt) : want = NextCase(snap)
  BY <1>4
<1>6. Plan(c, "addFailed", snap, want, "retry")
  BY <1>3, <1>5 DEF Handle
<1>7. EvalPlace("addFailed", snap, want, "retry")
  BY <1>4, <1>5 DEF EvalPlace
<1>8. ctl[c].pc # "idle" /\ "addFailed" \in CtlPlaces
  BY <1>1 DEF CtlPlaces
<1> QED BY <1>1, <1>6, <1>7, <1>8, EvalPlans

LEMMA CancelChildInv ==
  ASSUME EvalInv, NEW c \in Actor, CancelChild(c)
  PROVE  EvalInv'
<1>1. ctl[c].pc = "stop" /\ Go(c, "list") /\ UNCHANGED <<row, client, results>>
  BY DEF CancelChild, At, OnlyCtl
<1>2. EvalPlace(ctl[c].pc, ctl[c].snap, ctl[c].want, ctl[c].err)
  BY <1>1, EvalCtlFacts
<1> QED BY <1>1, <1>2, EvalGoes DEF EvalPlace, CtlPlaces

(* The outcome of a grounded row: it is grounded too, with its reports and  *)
(* in the status it ends in.                                                *)
LEMMA ReportedFacts ==
  ASSUME NEW r \in JobRows(EvalAt), r.at \in Progress, NEW status \in Statuses
  PROVE  LET reported == With(r, status, [r.at EXCEPT !.reports = TRUE])
         IN  /\ reported \in JobRows(EvalAt) /\ reported.at \in Progress
             /\ reported.at.index = r.at.index /\ reported.status = status
<1> DEFINE at == [r.at EXCEPT !.reports = TRUE]
<1>1. at \in Progress /\ at.index = r.at.index
  BY DEF Progress
<1>2. at \in EvalAt
  BY <1>1 DEF EvalAt
<1> HIDE DEF at
<1>3. /\ With(r, status, at) \in JobRows(EvalAt)
      /\ With(r, status, at).at = at /\ With(r, status, at).status = status
  BY <1>2, WithFacts
<1>4. /\ With(r, status, at) \in JobRows(EvalAt) /\ With(r, status, at).at \in Progress
      /\ With(r, status, at).at.index = r.at.index /\ With(r, status, at).status = status
  BY <1>1, <1>3
<1> QED BY <1>4 DEF at

LEMMA OutcomeInv ==
  ASSUME EvalInv, NEW c \in Actor, ctl[c].pc # "idle",
         NEW now \in JobRows(EvalAt), now = ctl[c].snap, Grounded(now), Grounded(now)',
         NEW status \in {"cancelled", "failed", "passed"}, Outcome(c, status),
         status = "passed" => AllPassed, ResultsStay,
         results' \in [Case -> {"none", "passed", "failed"}], UNCHANGED <<row, client>>
  PROVE  EvalInv'
<1>0. Recorded(now.at.index)' /\ (status = "passed" => AllPassed') /\ (now.status = "passed" => AllPassed')
  BY DEF Grounded, ResultsStay, AllPassed
<1>1. ASSUME NEW pc \in {"replace", "report"}, NEW want \in JobRows(EvalAt), Grounded(want)',
             Plan(c, pc, now, want, "retry")
      PROVE  EvalInv'
  <2>1. /\ ctl' \in [Actor -> CtlRows(EvalAt)] /\ OnlyMoves(c)
        /\ ctl'[c].pc = pc /\ ctl'[c].job = ctl[c].job /\ ctl'[c].snap = now
        /\ ctl'[c].want = want /\ ctl'[c].err = "retry"
    BY <1>1, PlansOn DEF EvalInv, JobTypes, CtlPlaces
  <2>2. EvalPlace(pc, now, want, "retry")'
    BY <1>1 DEF EvalPlace
  <2>3. row' \in [Job -> JobRows(EvalAt)] /\ \A j \in Job : row'[j] = row[j]
    BY DEF EvalInv, JobTypes
  <2> QED BY <2>1, <2>2, <2>3, EvalCtlStep DEF CtlPlaces
<1>2. status \in Statuses /\ now.status \in Statuses /\ now.at \in EvalAt /\ now.at \in Progress
  BY DEF Statuses, Grounded, EvalAt, JobRows
<1>3. CASE Plan(c, "replace", now, With(now, status, now.at), "retry")
  <2>1. With(now, status, now.at) \in JobRows(EvalAt)
        /\ With(now, status, now.at).at = now.at /\ With(now, status, now.at).status = status
    BY <1>2, WithFacts
  <2>2. PICK want \in JobRows(EvalAt) : want = With(now, status, now.at)
    BY <2>1
  <2>3. Grounded(want)'
    BY <1>0, <1>2, <2>1, <2>2 DEF Grounded, Recorded, AllPassed
  <2> QED BY <1>1, <1>3, <2>2, <2>3
<1>4. ASSUME ~ now.at.reports PROVE EvalInv'
  <2>1. PICK reported \in JobRows(EvalAt) :
          /\ reported = With(now, now.status, [now.at EXCEPT !.reports = TRUE])
          /\ reported.at \in Progress /\ reported.at.index = now.at.index
    BY <1>2, ReportedFacts
  <2>2. PICK want \in JobRows(EvalAt) : want = With(reported, status, reported.at)
    BY <1>2, <2>1, WithFacts DEF JobRows
  <2>3. want.at = reported.at /\ want.status = status
    BY <1>2, <2>1, <2>2, WithFacts DEF JobRows
  <2>4. Grounded(want)'
    BY <1>0, <2>1, <2>3 DEF Grounded, Recorded, AllPassed
  <2>5. Plan(c, "report", now, want, "retry")
    BY <1>4, <2>1, <2>2 DEF Outcome
  <2> QED BY <1>1, <2>4, <2>5
<1> QED BY <1>3, <1>4 DEF Outcome

LEMMA ListResultsInv ==
  ASSUME EvalInv, NEW c \in Actor, ListResults(c)
  PROVE  EvalInv'
<1>1. ctl[c].pc = "list" /\ UNCHANGED <<row, client, results>>
  BY DEF ListResults, At, OnlyCtl, EvalUnchanged
<1>2. /\ EvalPlace("list", ctl[c].snap, ctl[c].want, ctl[c].err)
      /\ ctl[c].snap \in JobRows(EvalAt) /\ Grounded(ctl[c].snap)
  BY <1>1, EvalCtlFacts DEF EvalPlace
<1>3. CASE Go(c, "addCancelled")
  <2>1. EvalPlace("addCancelled", ctl[c].snap, ctl[c].want, ctl[c].err)
    BY <1>2 DEF EvalPlace
  <2> QED BY <1>1, <1>3, <2>1, EvalGoes DEF CtlPlaces
<1>4. CASE Outcome(c, "cancelled")
  <2>1. PICK now \in JobRows(EvalAt) : now = ctl[c].snap
    BY <1>2
  <2>2. Grounded(now) /\ Grounded(now)'
    BY <1>1, <1>2, <2>1 DEF Grounded, Recorded, AllPassed
  <2>3. results' \in [Case -> {"none", "passed", "failed"}] /\ ResultsStay
    BY <1>1 DEF EvalInv, ResultsStay
  <2> QED BY <1>1, <1>4, <2>1, <2>2, <2>3, OutcomeInv
<1> QED BY <1>3, <1>4 DEF ListResults

LEMMA AddCancelledInv ==
  ASSUME EvalInv, NEW c \in Actor, AddCancelled(c)
  PROVE  EvalInv'
<1>1. ctl[c].pc = "addCancelled" /\ UNCHANGED <<row, client>>
  BY DEF AddCancelled, At, OnlyCtl
<1>2. /\ EvalPlace("addCancelled", ctl[c].snap, ctl[c].want, ctl[c].err)
      /\ ctl[c].snap \in JobRows(EvalAt) /\ Grounded(ctl[c].snap)
  BY <1>1, EvalCtlFacts DEF EvalPlace
<1>3. CASE UNCHANGED results /\ Go(c, "retry")
  <2>1. EvalPlace("retry", ctl[c].snap, ctl[c].want, ctl[c].err)
    BY <1>2 DEF EvalPlace
  <2> QED BY <1>1, <1>3, <2>1, EvalGoes DEF CtlPlaces
<1>4. ASSUME NEW k, results[k] = "none", results' = [results EXCEPT ![k] = "failed"],
             Outcome(c, "cancelled")
      PROVE  EvalInv'
  <2>1. PICK now \in JobRows(EvalAt) : now = ctl[c].snap
    BY <1>2
  <2>2. results' \in [Case -> {"none", "passed", "failed"}] /\ ResultsStay
    BY <1>4 DEF EvalInv, ResultsStay
  <2>3. Grounded(now)
    BY <1>2, <2>1
  <2>4. Grounded(now)'
    BY <2>2, <2>3 DEF Grounded, Recorded, AllPassed, ResultsStay
  <2> QED BY <1>1, <1>4, <2>1, <2>2, <2>3, <2>4, OutcomeInv
<1> QED BY <1>3, <1>4 DEF AddCancelled

LEMMA FinalizeInv ==
  ASSUME EvalInv, NEW c \in Actor, Finalize(c)
  PROVE  EvalInv'
<1>1. ctl[c].pc = "finalize" /\ UNCHANGED <<row, client, results>>
  BY DEF Finalize, At, OnlyCtl, EvalUnchanged
<1>2. /\ EvalPlace("finalize", ctl[c].snap, ctl[c].want, ctl[c].err)
      /\ ctl[c].snap \in JobRows(EvalAt) /\ Grounded(ctl[c].snap)
      /\ ctl[c].snap.at.index >= Cases
  BY <1>1, EvalCtlFacts DEF EvalPlace
<1>3. PICK status \in {"failed", "passed"} :
        /\ Outcome(c, status)
        /\ status = "passed" => {results[k] : k \in Case} \ {"none"} = {"passed"}
  BY DEF Finalize
<1>4. PICK now \in JobRows(EvalAt) : now = ctl[c].snap
  BY <1>2
<1>5. Grounded(now) /\ Grounded(now)'
  BY <1>1, <1>2, <1>4 DEF Grounded, Recorded, AllPassed
<1>6. ASSUME status = "passed" PROVE AllPassed
  <2>1. ASSUME NEW k \in Case PROVE results[k] # "none"
    <3>1. now.at.index \in Nat /\ now.at.index >= Cases /\ Recorded(now.at.index)
      BY <1>2, <1>4, <1>5 DEF Grounded, Progress
    <3> QED BY <2>1, <3>1, CasesAssumption DEF Recorded, Case
  <2>2. ASSUME NEW k \in Case PROVE results[k] = "passed"
    BY <1>3, <1>6, <2>1
  <2> QED BY <2>2 DEF AllPassed
<1>7. results' \in [Case -> {"none", "passed", "failed"}] /\ ResultsStay
  BY <1>1 DEF EvalInv, ResultsStay
<1>8. ctl[c].pc # "idle"
  BY <1>1
<1> QED BY <1>1, <1>3, <1>4, <1>5, <1>6, <1>7, <1>8, OutcomeInv

LEMMA WriteReportsInv ==
  ASSUME EvalInv, NEW c \in Actor, WriteReports(c)
  PROVE  EvalInv'
<1>1. ctl[c].pc = "report" /\ UNCHANGED <<client, results>>
  BY DEF WriteReports, At, EvalUnchanged
<1>2. /\ ctl[c].job \in Job /\ ctl[c].snap \in JobRows(EvalAt) /\ ctl[c].want \in JobRows(EvalAt)
      /\ EvalPlace("report", ctl[c].snap, ctl[c].want, ctl[c].err)
      /\ Grounded(ctl[c].snap) /\ Grounded(ctl[c].want)
  BY <1>1, EvalCtlFacts DEF EvalPlace
<1>3. results' \in [Case -> {"none", "passed", "failed"}] /\ ResultsStay
  BY <1>1 DEF EvalInv, ResultsStay
<1>4. CASE UNCHANGED row /\ Go(c, "retry")
  <2>1. EvalPlace("retry", ctl[c].snap, ctl[c].want, ctl[c].err)
    BY <1>2 DEF EvalPlace
  <2> QED BY <1>1, <1>4, <2>1, EvalGoes DEF CtlPlaces
<1>5. ASSUME ~ (UNCHANGED row /\ Go(c, "retry")) PROVE EvalInv'
  <2>1. PICK j \in Job, snap \in JobRows(EvalAt), want \in JobRows(EvalAt) :
          j = ctl[c].job /\ snap = ctl[c].snap /\ want = ctl[c].want
    BY <1>2
  <2>2. Grounded(snap) /\ Grounded(want)
    BY <1>2, <2>1
  <2>3. PICK reported \in JobRows(EvalAt) :
          /\ reported = With(snap, snap.status, [snap.at EXCEPT !.reports = TRUE])
          /\ reported.at \in Progress /\ reported.at.index = snap.at.index
          /\ reported.status = snap.status
    BY <2>2, ReportedFacts DEF Grounded, JobRows
  <2>4. Grounded(reported)
    BY <2>2, <2>3 DEF Grounded
  <2>5. Store(j, reported) /\ Plan(c, "replace", reported, want, "retry")
    BY <1>5, <2>1, <2>3 DEF WriteReports
  <2>6. /\ row' \in [Job -> JobRows(EvalAt)]
        /\ \A i \in Job : row'[i] = row[i] \/ Grounded(row[i])'
    BY <1>1, <2>4, <2>5, StoresGrounded
  <2>7. /\ ctl' \in [Actor -> CtlRows(EvalAt)] /\ OnlyMoves(c)
        /\ ctl'[c].pc = "replace" /\ ctl'[c].job = ctl[c].job /\ ctl'[c].snap = reported
        /\ ctl'[c].want = want /\ ctl'[c].err = "retry"
    BY <2>5, PlansOn DEF EvalInv, JobTypes, CtlPlaces
  <2>8. EvalPlace("replace", reported, want, "retry")'
    BY <1>1, <2>2, <2>4 DEF EvalPlace, Grounded, Recorded, AllPassed
  <2> QED BY <1>1, <1>3, <2>6, <2>7, <2>8, EvalCtlStep DEF CtlPlaces
<1> QED BY <1>4, <1>5

LEMMA EvalCallFailsInv ==
  ASSUME EvalInv, NEW c \in Actor, EvalCallFails(c)
  PROVE  EvalInv'
<1>1. /\ ctl[c].pc \notin {"idle", "ack", "retry", "handle"} /\ Go(c, ctl[c].err)
      /\ UNCHANGED <<row, client, results>>
  BY DEF EvalCallFails, EvalUnchanged
<1>2. EvalPlace(ctl[c].pc, ctl[c].snap, ctl[c].want, ctl[c].err)
  BY <1>1, EvalCtlFacts
<1>3. PICK pc \in {"retry", "handle"} : pc = ctl[c].err
  BY <1>2 DEF EvalPlace
<1>4. EvalPlace(pc, ctl[c].snap, ctl[c].want, ctl[c].err)
  BY <1>1, <1>2, <1>3 DEF EvalPlace
<1> QED BY <1>1, <1>3, <1>4, EvalGoes DEF CtlPlaces

-----------------------------------------------------------------------------
LEMMA EvalInitInv ==
  ASSUME ControlInit
  PROVE  EvalInv
<1>1. JobTypes(EvalAt)
  BY InitTypes DEF ControlInit, EvalInit, EvalAt
<1>2. \A j \in Job : row[j].status = "none"
  BY NoRowFacts DEF ControlInit, EvalInit, JobInit, EvalAt
<1>3. \A c \in Actor : EvalCtlHolds(ctl[c])
  BY NoRowFacts DEF ControlInit, EvalInit, JobInit, EvalAt, EvalCtlHolds, EvalPlace
<1>4. \A u \in Client : EvalClientHolds(client[u])
  BY NoRowFacts DEF ControlInit, EvalInit, JobInit, EvalAt, EvalClientHolds
<1> QED BY <1>1, <1>2, <1>3, <1>4 DEF ControlInit, EvalInit, EvalInv

LEMMA EvalStepInv ==
  ASSUME EvalInv, kind = "eval", [ControlNext]_controlVars
  PROVE  EvalInv'
<1>1. CASE UNCHANGED controlVars
  <2>1. JobTypes(EvalAt)'
    BY <1>1 DEF controlVars, jobVars, EvalInv, JobTypes
  <2>2. results' \in [Case -> {"none", "passed", "failed"}] /\ ResultsStay
    BY <1>1 DEF controlVars, EvalInv, ResultsStay
  <2>3. /\ \A j \in Job : row'[j] = row[j]
        /\ \A c \in Actor : ctl'[c] = ctl[c]
        /\ \A u \in Client : client'[u] = client[u]
    BY <1>1 DEF controlVars, jobVars
  <2> QED BY <2>1, <2>2, <2>3, EvalMoves
<1>2. ASSUME NEW c \in Controller, Controls(c) PROVE EvalInv'
  <2>1. c \in Actor
    BY DEF Actor
  <2>2. CASE EvalControls(c)
    BY <2>1, <2>2, ReadEvalInv, ReplaceInv, SpawnInv, AddResultInv, HandleInv, CancelChildInv,
       ListResultsInv, AddCancelledInv, FinalizeInv, WriteReportsInv DEF EvalControls
  <2>3. CASE Shared(c) /\ Others("none")
    <3>1. Forgets /\ JobTypes(EvalAt)' /\ UNCHANGED row
      BY <2>3, SharedForgets DEF EvalInv
    <3>2. UNCHANGED results
      BY <2>3 DEF Others, EvalUnchanged
    <3> QED BY <3>1, <3>2, EvalForgets
  <2> QED BY <1>2, <2>2, <2>3 DEF Controls, Shared
<1>3. ASSUME NEW u \in Client, Requests(u) \/ Answers(u) PROVE EvalInv'
  BY <1>3, EvalAsksInv, EvalAnswersInv DEF Requests, Answers
<1>4. CASE Background
  <2>1. PICK k \in Case : ChildEnds(k)
    BY <1>4 DEF Background
  <2>2. UNCHANGED <<row, ctl, client, results>>
    BY <2>1 DEF ChildEnds, jobVars
  <2>3. JobTypes(EvalAt)' /\ results' \in [Case -> {"none", "passed", "failed"}] /\ ResultsStay
    BY <2>2 DEF EvalInv, JobTypes, ResultsStay
  <2>4. /\ \A j \in Job : row'[j] = row[j]
        /\ \A c \in Actor : ctl'[c] = ctl[c]
        /\ \A u \in Client : client'[u] = client[u]
    BY <2>2
  <2> QED BY <2>3, <2>4, EvalMoves
<1>5. CASE Faults
  <2>1. CASE Crash /\ Others("none")
    <3>1. Forgets /\ JobTypes(EvalAt)' /\ UNCHANGED row
      BY <2>1, CrashForgets DEF EvalInv
    <3>2. UNCHANGED results
      BY <2>1 DEF Others, EvalUnchanged
    <3> QED BY <3>1, <3>2, EvalForgets
  <2>2. ASSUME NEW c \in Controller, EvalCallFails(c) PROVE EvalInv'
    BY <2>2, EvalCallFailsInv DEF Actor
  <2> QED BY <1>5, <2>1, <2>2 DEF Faults
<1> QED BY <1>1, <1>2, <1>3, <1>4, <1>5 DEF ControlNext

(* The jobs of one behaviour are of one kind.                               *)
LEMMA KindStays ==
  ASSUME [ControlNext]_controlVars
  PROVE  UNCHANGED kind
<1>1. CASE UNCHANGED controlVars
  BY <1>1 DEF controlVars, jobVars
<1>2. ASSUME NEW c \in Controller, Controls(c) PROVE UNCHANGED kind
  <2>1. CASE PreviewControls(c)
    BY <2>1 DEF PreviewControls, MoveWrites, MoveLoses, ReleaseSubject, ReadPreview, Provision,
       Provisioned, Unprovisioned, FailPreview, OnlyCtl
  <2>2. CASE EvalControls(c)
    BY <2>2 DEF EvalControls, ReadEval, Replace, Spawn, Poll, AddResult, Handle, CancelChild,
       ListResults, AddCancelled, Finalize, WriteReports, OnlyCtl
  <2>3. CASE DeployControls(c)
    BY <2>3 DEF DeployControls, ReadDeployment, ReadEnvironment, ApplyRoutes, MoveDeployment, OnlyCtl
  <2>4. CASE QualityControls(c)
    BY <2>4 DEF QualityControls, ReadSync, Syncing, Export, Refused, Exported, Settled, OnlyCtl
  <2>5. CASE Acknowledge(c) \/ Retry(c) \/ \E j \in Job : Dequeue(c, j)
    BY <2>5 DEF Acknowledge, Retry, Dequeue
  <2> QED BY <1>2, <2>1, <2>2, <2>3, <2>4, <2>5 DEF Controls
<1>3. ASSUME NEW u \in Client, Requests(u) \/ Answers(u) PROVE UNCHANGED kind
  <2>1. ASSUME NEW j \in Job, CancelBegin(u, j) PROVE UNCHANGED kind
    BY <2>1 DEF CancelBegin, OnlyClient
  <2>2. CASE CancelMove(u)
    BY <2>2 DEF CancelMove, OnlyClient
  <2>3. ASSUME NEW next, EnqueueTask(u, next) \/ ReserveQuota(u, next) PROVE UNCHANGED kind
    BY <2>3 DEF EnqueueTask, ReserveQuota, OnlyClient
  <2>4. Target \subseteq Job
    BY SingleAssumption DEF Target
  <2>5. CASE PreviewAsks(u) \/ PreviewAnswers(u)
    BY <2>1, <2>2, <2>3, <2>4, <2>5 DEF PreviewAsks, PreviewAnswers, CreatePreview, AddPreview, OnlyClient
  <2>6. CASE EvalAsks(u) \/ EvalAnswers(u)
    BY <2>1, <2>2, <2>3, <2>4, <2>6 DEF EvalAsks, EvalAnswers, CreateEval, AddEval, OnlyClient
  <2>7. CASE DeployAsks(u) \/ DeployAnswers(u)
    BY <2>3, <2>7 DEF DeployAsks, DeployAnswers, Promote, Rollback, PolicyBegin, AddSnapshot,
       AddDeployment, CommitQuota, PolicyWrite, OnlyClient
  <2>8. CASE QualityAsks(u) \/ QualityAnswers(u)
    BY <2>3, <2>8 DEF QualityAsks, QualityAnswers, StoreScore, AddSync, ReadScores, UpsertIncident, OnlyClient
  <2> QED BY <1>3, <2>5, <2>6, <2>7, <2>8 DEF Requests, Answers
<1>4. CASE Background
  <2>1. CASE PreviewControls(Reaper)
    BY <2>1 DEF PreviewControls, MoveWrites, MoveLoses, ReleaseSubject, ReadPreview, Provision,
       Provisioned, Unprovisioned, FailPreview, OnlyCtl
  <2>2. ASSUME NEW j, ReapPreview(j) PROVE UNCHANGED kind
    BY <2>2 DEF ReapPreview, OnlyCtl
  <2>3. ASSUME NEW k, ChildEnds(k) PROVE UNCHANGED kind
    BY <2>3 DEF ChildEnds, jobVars
  <2>4. CASE TimeToLivePasses
    BY <2>4 DEF TimeToLivePasses, jobVars
  <2> QED BY <1>4, <2>1, <2>2, <2>3, <2>4 DEF Background
<1>5. CASE Faults
  BY <1>5 DEF Faults, PreviewFaults, AddPreviewFails, PreviewCallFails, EvalCallFails, DeployFaults,
     PromoteFails, DeployCallFails, SyncCallFails, Crash
<1> QED BY <1>1, <1>2, <1>3, <1>4, <1>5 DEF ControlNext

LEMMA SafetyPart == ControlSpec => ControlSafety
BY PTL DEF ControlSpec

(* A passing Eval Run opens the promotion gate: it has a passing stored     *)
(* result for every case of its dataset, for any number of cases,           *)
(* controllers, requests, crashes and leases that run out beside a          *)
(* controller still at work (evals/controller.py).                          *)
THEOREM PassedIsComplete == ControlSpec => []PassedMeansEveryCase
<1> DEFINE Inv == kind = "eval" => EvalInv
<1>1. ControlInit => Inv
  BY EvalInitInv
<1>2. Inv /\ [ControlNext]_controlVars => Inv'
  BY EvalStepInv, KindStays
<1>3. Inv => PassedMeansEveryCase
  <2> SUFFICES ASSUME kind = "eval", EvalInv, NEW j \in Job, row[j].status = "passed"
               PROVE  AllPassed
    BY DEF PassedMeansEveryCase, AllPassed
  <2>1. Grounded(row[j])
    BY DEF EvalInv
  <2> QED BY <2>1 DEF Grounded
<1> QED BY <1>1, <1>2, <1>3, SafetyPart, PTL DEF ControlSafety

-----------------------------------------------------------------------------
(* Deployments.                                                              *)

Orders == [expected : Nat, target : Version, canary : BOOLEAN, rollback : BOOLEAN]
EnvRows == [revision : Nat, routes : SUBSET Version, healthy : Version \cup {NoVersion},
            policy : SUBSET Version]
DeployAt == {NoProgress} \cup Orders \cup EnvRows

(* An order was checked against a revision that is over, or its version     *)
(* fits the policy still.                                                   *)
Sound(at) ==
  /\ at \in Orders /\ at.expected <= env.revision
  /\ at.expected = env.revision /\ ~at.rollback => at.target \in env.policy

OrderHolds(j) ==
  row[j].status # "none" =>
    /\ Sound(row[j].at)
    /\ row[j].status \in {"queued", "reconciling", "succeeded", "failed"}
    /\ row[j].status = "succeeded" => j \in applied

AppliedHolds(j) == row[j].status # "none" /\ row[j].at.expected < env.revision

RouteHolds(v) ==
  v \in env.policy \/ \E j \in applied : row[j].at.rollback /\ row[j].at.target = v

(* A controller's copy carries the order of its row.  What it is about to   *)
(* put live exists, and what it is about to report has happened.            *)
DeployCtl(me) ==
  /\ me.pc # "idle" => me.job \in Job
  /\ me.err \in {"retry", "fail"}
  /\ me.pc = "read" => me.err = "retry"
  /\ me.pc \in {"environment", "apply", "move"} =>
       /\ row[me.job].status # "none" /\ me.snap.at = row[me.job].at
       /\ me.snap.status \in {"queued", "reconciling"}
  /\ me.pc \in {"environment", "apply"} => me.snap.status = "reconciling"
  /\ me.pc = "apply" /\ env.revision = me.snap.at.expected /\ me.snap.at.canary =>
       env.healthy # NoVersion
  /\ me.pc = "move" =>
       /\ me.want.status \in {"reconciling", "succeeded", "failed"} /\ me.want.at = me.snap.at
       /\ me.want.status = "succeeded" => me.job \in applied
       /\ me.want.status = "reconciling" => me.snap.status = "queued"

(* A request carries a sound order; a policy request whose copy is current  *)
(* has the routes of the Environment, all of which fit the policy it brings.*)
DeployClient(me) ==
  /\ me.pc \in {"reserve", "snapshot", "add", "enqueue", "commit"} => me.job \in Job
  /\ me.pc \in {"reserve", "snapshot", "add"} => Sound(me.snap.at) /\ me.snap.status = "queued"
  /\ me.pc = "policy" =>
       /\ me.snap.at \in EnvRows /\ me.snap.at.revision <= env.revision
       /\ me.snap.at.revision = env.revision =>
            /\ me.snap.at.routes = env.routes /\ me.snap.at.healthy = env.healthy
            /\ env.routes \subseteq me.snap.at.policy

DeployTypes ==
  JobTypes(DeployAt) /\ env \in EnvRows /\ snapshots \subseteq Version /\ applied \subseteq Job

DeployInv ==
  /\ DeployTypes
  /\ env.healthy # NoVersion => env.healthy \in env.routes
  /\ \A j \in Job : OrderHolds(j)
  /\ \A j \in applied : AppliedHolds(j)
  /\ \A v \in env.routes : RouteHolds(v)
  /\ \A c \in Controller : DeployCtl(ctl[c])
  /\ \A u \in Client : DeployClient(client[u])

(* An order that is stored stays what it is.                                *)
OrdersStay ==
  \A j \in Job : row[j].status # "none" => row'[j].status # "none" /\ row'[j].at = row[j].at

(* The Environment stays, and so do the rows but for their status.          *)
LEMMA DeployMoves ==
  ASSUME DeployInv, DeployTypes', UNCHANGED <<env, applied>>, OrdersStay,
         \A j \in Job : row'[j] = row[j] \/ OrderHolds(j)',
         \A c \in Controller : ctl'[c] = ctl[c] \/ DeployCtl(ctl[c])',
         \A u \in Client : client'[u] = client[u] \/ DeployClient(client[u])'
  PROVE  DeployInv'
<1>1. \A j \in Job : OrderHolds(j)'
  BY DEF DeployInv, OrderHolds, Sound
<1>2. \A j \in applied' : AppliedHolds(j)'
  BY DEF DeployInv, DeployTypes, AppliedHolds, OrdersStay
<1>3. ASSUME NEW v \in env'.routes PROVE RouteHolds(v)'
  <2>1. RouteHolds(v) /\ \A j \in applied : j \in Job /\ AppliedHolds(j)
    BY <1>3 DEF DeployInv, DeployTypes
  <2> QED BY <2>1 DEF RouteHolds, AppliedHolds, OrdersStay
<1>4. ASSUME NEW c \in Controller PROVE DeployCtl(ctl[c])'
  <2>1. CASE ctl'[c] = ctl[c]
    <3>1. DeployCtl(ctl[c])
      BY DEF DeployInv
    <3>2. ctl[c].pc # "idle" => ctl[c].job \in Job
      BY <3>1 DEF DeployCtl
    <3> QED BY <2>1, <3>1, <3>2 DEF DeployCtl, OrdersStay
  <2> QED BY <2>1
<1>5. ASSUME NEW u \in Client PROVE DeployClient(client[u])'
  <2>1. CASE client'[u] = client[u]
    <3>1. DeployClient(client[u])
      BY DEF DeployInv
    <3> QED BY <2>1, <3>1 DEF DeployClient, Sound
  <2> QED BY <2>1
<1>6. env'.healthy # NoVersion => env'.healthy \in env'.routes
  BY DEF DeployInv
<1> QED BY <1>1, <1>2, <1>3, <1>4, <1>5, <1>6 DEF DeployInv

(* The Environment moves on to its next revision: nothing that expected the *)
(* one before is current any more.                                          *)
LEMMA EnvMovesOn ==
  ASSUME DeployInv, DeployTypes', env'.revision = env.revision + 1, UNCHANGED row,
         env'.healthy # NoVersion => env'.healthy \in env'.routes,
         applied \subseteq applied', \A j \in applied' : AppliedHolds(j)',
         \A v \in env'.routes : RouteHolds(v)',
         \A c \in Controller : ctl'[c] = ctl[c] \/ DeployCtl(ctl[c])',
         \A u \in Client : client'[u] = client[u] \/ client'[u].pc = "idle"
  PROVE  DeployInv'
<1>0. env.revision \in Nat /\ env.revision < env'.revision
  BY DEF DeployInv, DeployTypes, EnvRows
<1>1. ASSUME NEW at, Sound(at) PROVE Sound(at)' /\ at.expected < env'.revision
  BY <1>0, <1>1 DEF Sound, Orders
<1>2. ASSUME NEW j \in Job PROVE OrderHolds(j)'
  <2>1. OrderHolds(j)
    BY DEF DeployInv
  <2>2. PICK at : at = row[j].at
    OBVIOUS
  <2> QED BY <1>1, <2>1, <2>2 DEF OrderHolds
<1>3. ASSUME NEW c \in Controller PROVE DeployCtl(ctl[c])'
  <2>1. CASE ctl'[c] = ctl[c]
    <3>1. DeployCtl(ctl[c])
      BY DEF DeployInv
    <3>2. PICK me : me = ctl[c]
      OBVIOUS
    <3>3. CASE me.pc \in {"environment", "apply", "move"}
      <4>1. me.job \in Job /\ me.snap.at = row[me.job].at /\ row[me.job].status # "none"
        BY <3>1, <3>2, <3>3 DEF DeployCtl
      <4>2. OrderHolds(me.job)
        BY <4>1 DEF DeployInv
      <4>3. PICK at : at = row[me.job].at
        OBVIOUS
      <4>4. Sound(at)
        BY <4>1, <4>2, <4>3 DEF OrderHolds
      <4>5. me.snap.at.expected < env'.revision /\ me.snap.at.expected \in Nat /\ env'.revision \in Nat
        BY <1>0, <1>1, <4>1, <4>3, <4>4 DEF Sound, Orders
      <4> QED BY <2>1, <3>1, <3>2, <4>1, <4>5 DEF DeployCtl
    <3> QED BY <2>1, <3>1, <3>2, <3>3 DEF DeployCtl
  <2> QED BY <2>1
<1>4. ASSUME NEW u \in Client PROVE DeployClient(client[u])'
  <2>1. CASE client'[u] = client[u]
    <3>1. DeployClient(client[u])
      BY DEF DeployInv
    <3>2. PICK me, at : me = client[u] /\ at = me.snap.at
      OBVIOUS
    <3>3. Sound(at) => Sound(at)'
      BY <1>1
    <3>4. at \in EnvRows /\ at.revision <= env.revision => at.revision < env'.revision /\ at.revision # env'.revision /\ at.revision <= env'.revision
      BY <1>0 DEF EnvRows
    <3>5. me.pc \in {"reserve", "snapshot", "add"} => Sound(at)'
      BY <3>1, <3>2, <3>3 DEF DeployClient
    <3> QED BY <2>1, <3>1, <3>2, <3>4, <3>5 DEF DeployClient, Sound
  <2> QED BY <2>1 DEF DeployClient
<1> QED BY <1>2, <1>3, <1>4 DEF DeployInv

(* Only a client moves: rows, controllers and the Environment stay.         *)
LEMMA DeployClientMoves ==
  ASSUME DeployInv, NEW u \in Client, client' \in [Client -> ClientRows(DeployAt)], OnlyAsks(u),
         DeployClient(client[u])', snapshots' \subseteq Version,
         UNCHANGED <<row, ctl, env, applied>>
  PROVE  DeployInv'
<1>1. DeployTypes'
  BY DEF DeployInv, DeployTypes, JobTypes
<1>2. OrdersStay /\ \A j \in Job : row'[j] = row[j]
  BY DEF OrdersStay
<1>3. \A v \in Client : client'[v] = client[v] \/ DeployClient(client[v])'
  BY DEF OnlyAsks
<1>4. \A c \in Controller : ctl'[c] = ctl[c]
  OBVIOUS
<1> QED BY <1>1, <1>2, <1>3, <1>4, DeployMoves

LEMMA DeployAsksInv ==
  ASSUME DeployInv, NEW u \in Client, DeployAsks(u)
  PROVE  DeployInv'
<1>1. /\ NoProgress \in DeployAt /\ client \in [Client -> ClientRows(DeployAt)]
      /\ env \in EnvRows /\ snapshots \subseteq Version
  BY DEF DeployInv, DeployTypes, JobTypes, DeployAt
<1>2. UNCHANGED <<row, ctl, env, snapshots, applied>>
  BY DEF DeployAsks, Promote, Rollback, PolicyBegin, OnlyClient, DeployUnchanged
<1>3. ASSUME NEW pc \in {"reserve", "add"}, NEW j \in Job, NEW v \in Version, NEW canary \in BOOLEAN,
             NEW rollback \in BOOLEAN, v \in env.policy \/ rollback,
             Begin(u, pc, j, Order(v, canary, rollback))
      PROVE  DeployInv'
  <2>1. PICK at : at = [expected |-> env.revision, target |-> v, canary |-> canary, rollback |-> rollback]
    OBVIOUS
  <2>2. at \in Orders /\ Sound(at)
    BY <1>1, <1>3, <2>1 DEF Orders, EnvRows, Sound
  <2>3. PICK snap : snap = [status |-> "queued", token |-> 0, at |-> at]
    OBVIOUS
  <2>4. snap \in JobRows(DeployAt) /\ snap.at = at /\ snap.status = "queued"
    BY <2>2, <2>3 DEF JobRows, Statuses, DeployAt
  <2>5. Begin(u, pc, j, snap)
    BY <1>3, <2>1, <2>3 DEF Order
  <2>6. /\ client' \in [Client -> ClientRows(DeployAt)] /\ OnlyAsks(u)
        /\ client'[u].pc = pc /\ client'[u].job = j /\ client'[u].snap = snap
    BY <1>1, <2>4, <2>5, Begins DEF ClientPlaces
  <2>7. Sound(at)'
    BY <1>2, <2>2 DEF Sound
  <2>8. DeployClient(client[u])'
    BY <2>4, <2>6, <2>7 DEF DeployClient, Sound
  <2> QED BY <1>1, <1>2, <2>6, <2>8, DeployClientMoves
<1>4. ASSUME NEW policy \in SUBSET Version, PolicyBegin(u, policy) PROVE DeployInv'
  <2>1. PICK at : at = [env EXCEPT !.policy = policy]
    OBVIOUS
  <2>2. /\ at \in EnvRows /\ at.revision = env.revision /\ at.routes = env.routes
        /\ at.healthy = env.healthy /\ at.policy = policy
    BY <1>1, <2>1 DEF EnvRows
  <2>3. PICK snap : snap = [NoRow EXCEPT !.at = at]
    OBVIOUS
  <2>4. snap \in JobRows(DeployAt) /\ snap.at = at
    BY <2>2, <2>3, NoRowFacts DEF JobRows, NoRow, DeployAt
  <2>5. Begin(u, "policy", NoJob, snap) /\ \A v \in env.routes : v \in policy
    BY <1>4, <2>1, <2>3 DEF PolicyBegin, Fits
  <2>6. /\ client' \in [Client -> ClientRows(DeployAt)] /\ OnlyAsks(u)
        /\ client'[u].pc = "policy" /\ client'[u].snap = snap
    <3>1. NoJob \in Job \cup {NoJob} /\ "policy" \in ClientPlaces
      BY DEF ClientPlaces
    <3> QED BY <1>1, <2>4, <2>5, <3>1, Begins
  <2>7. env.revision \in Nat
    BY <1>1 DEF EnvRows
  <2>8. DeployClient(client[u])'
    BY <1>2, <2>2, <2>4, <2>5, <2>6, <2>7 DEF DeployClient
  <2> QED BY <1>1, <1>2, <2>6, <2>8, DeployClientMoves
<1>5. ASSUME NEW j \in Job, NEW v \in Version, NEW canary \in BOOLEAN, Promote(u, j, v, canary)
      PROVE  DeployInv'
  BY <1>3, <1>5 DEF Promote, Fits
<1>6. ASSUME NEW j \in Job, NEW v \in Version, Rollback(u, j, v) PROVE DeployInv'
  BY <1>3, <1>6 DEF Rollback
<1> QED BY <1>4, <1>5, <1>6 DEF DeployAsks

(* What a client knows                                                      *)
LEMMA DeployClientGoesOn ==
  ASSUME DeployInv, NEW u \in Client, NEW pc \in ClientPlaces, UNCHANGED env,
         \/ Answer(u)
         \/ /\ Ask(u, pc)
            /\ \/ client[u].pc \in {"reserve", "snapshot"} /\ pc \in {"snapshot", "add"}
               \/ client[u].pc \in {"add", "enqueue"} /\ pc \in {"enqueue", "commit"}
  PROVE  /\ client' \in [Client -> ClientRows(DeployAt)] /\ OnlyAsks(u)
         /\ DeployClient(client[u])'
<1>1. client \in [Client -> ClientRows(DeployAt)] /\ NoProgress \in DeployAt
  BY DEF DeployInv, DeployTypes, JobTypes
<1>2. CASE Answer(u)
  BY <1>1, <1>2, AnswersNow DEF DeployClient
<1>3. ASSUME ~Answer(u)
      PROVE  /\ client' \in [Client -> ClientRows(DeployAt)] /\ OnlyAsks(u)
             /\ DeployClient(client[u])'
  <2>1. /\ client' \in [Client -> ClientRows(DeployAt)] /\ OnlyAsks(u)
        /\ client'[u].pc = pc /\ client'[u].job = client[u].job
        /\ client'[u].snap = client[u].snap
    BY <1>1, <1>3, AsksNext
  <2>2. DeployClient(client[u])
    BY DEF DeployInv
  <2>3. DeployClient(client[u])'
    BY <1>3, <2>1, <2>2 DEF DeployClient, Sound
  <2> QED BY <2>1, <2>3
<1> QED BY <1>2, <1>3

LEMMA PolicyWriteInv ==
  ASSUME DeployInv, NEW u \in Client, PolicyWrite(u)
  PROVE  DeployInv'
<1>1. /\ client[u].pc = "policy" /\ Answer(u)
      /\ UNCHANGED <<row, ctl, snapshots, applied>>
  BY DEF PolicyWrite, Asking, OnlyClient
<1>2. /\ client' \in [Client -> ClientRows(DeployAt)] /\ OnlyAsks(u) /\ client'[u].pc = "idle"
  BY <1>1, AnswersNow DEF DeployInv, DeployTypes, JobTypes
<1>3. CASE env' = env
  <2>1. DeployClient(client[u])'
    BY <1>2 DEF DeployClient
  <2> QED BY <1>1, <1>2, <1>3, <2>1, DeployClientMoves DEF DeployInv, DeployTypes
<1>4. CASE env.revision = client[u].snap.at.revision
  <2>1. PICK read : read = client[u].snap.at
    OBVIOUS
  <2>2. /\ read \in EnvRows /\ read.revision = env.revision /\ read.routes = env.routes
        /\ read.healthy = env.healthy /\ env.routes \subseteq read.policy
    BY <1>1, <1>4, <2>1 DEF DeployInv, DeployClient
  <2>3. env' = [read EXCEPT !.revision = @ + 1]
    BY <1>4, <2>1, <2>2 DEF PolicyWrite
  <2>4. /\ env' \in EnvRows /\ env'.revision = env.revision + 1 /\ env'.routes = env.routes
        /\ env'.healthy = env.healthy /\ env'.policy = read.policy
    BY <2>2, <2>3 DEF EnvRows
  <2>5. DeployTypes'
    BY <1>1, <1>2, <2>4 DEF DeployInv, DeployTypes, JobTypes
  <2>6. ASSUME NEW j \in applied' PROVE AppliedHolds(j)'
    <3>1. AppliedHolds(j) /\ OrderHolds(j)
      BY <1>1, <2>6 DEF DeployInv, DeployTypes
    <3>2. row[j].at.expected \in Nat /\ env.revision \in Nat
      BY <3>1, <2>2 DEF AppliedHolds, OrderHolds, Sound, Orders, EnvRows
    <3> QED BY <1>1, <2>4, <3>1, <3>2 DEF AppliedHolds
  <2>7. \A v \in env'.routes : RouteHolds(v)'
    BY <2>2, <2>4 DEF RouteHolds
  <2>8. /\ \A c \in Controller : ctl'[c] = ctl[c]
        /\ \A v \in Client : client'[v] = client[v] \/ client'[v].pc = "idle"
    BY <1>1, <1>2 DEF OnlyAsks
  <2>9. (env'.healthy # NoVersion => env'.healthy \in env'.routes) /\ applied \subseteq applied'
    BY <1>1, <2>4 DEF DeployInv
  <2> QED BY <1>1, <2>4, <2>5, <2>6, <2>7, <2>8, <2>9, EnvMovesOn
<1> QED BY <1>3, <1>4 DEF PolicyWrite

LEMMA DeployAnswersInv ==
  ASSUME DeployInv, NEW u \in Client, DeployAnswers(u) \/ PromoteFails(u)
  PROVE  DeployInv'
<1>1. snapshots \subseteq Version
  BY DEF DeployInv, DeployTypes
<1>2. CASE AddSnapshot(u)
  <2>1. /\ client[u].pc = "snapshot" /\ Ask(u, "add") /\ UNCHANGED <<row, ctl, env, applied>>
        /\ snapshots' = snapshots \cup {client[u].snap.at.target}
    BY <1>2 DEF AddSnapshot, Asking, OnlyClient
  <2>2. client[u].snap.at.target \in Version
    BY <2>1 DEF DeployInv, DeployClient, Sound, Orders
  <2>3. snapshots' \subseteq Version
    BY <1>1, <2>1, <2>2
  <2> QED BY <2>1, <2>3, DeployClientGoesOn, DeployClientMoves DEF ClientPlaces
<1>3. ASSUME \/ CommitQuota(u) \/ PromoteFails(u)
             \/ /\ \/ ReserveQuota(u, "snapshot")
                   \/ \E next \in {"idle", "commit"} : EnqueueTask(u, next)
                /\ DeployUnchanged
      PROVE  DeployInv'
  <2>1. /\ \E pc \in ClientPlaces :
             \/ Answer(u)
             \/ /\ Ask(u, pc)
                /\ \/ client[u].pc \in {"reserve", "snapshot"} /\ pc \in {"snapshot", "add"}
                   \/ client[u].pc \in {"add", "enqueue"} /\ pc \in {"enqueue", "commit"}
        /\ UNCHANGED <<row, ctl, env, snapshots, applied>>
    BY <1>3 DEF CommitQuota, ReserveQuota, PromoteFails, EnqueueTask, Asking, OnlyClient, DeployUnchanged,
       ClientPlaces
  <2> QED BY <1>1, <2>1, DeployClientGoesOn, DeployClientMoves
<1>4. CASE AddDeployment(u)
  <2>1. PICK j, new : j = client[u].job /\ new = client[u].snap
    OBVIOUS
  <2>2. /\ client[u].pc = "add" /\ UNCHANGED <<ctl, env, snapshots, applied>>
        /\ \/ row[j].status = "none" /\ Store(j, new) /\ Ask(u, "enqueue")
           \/ UNCHANGED row /\ Answer(u)
    BY <1>4, <2>1 DEF AddDeployment, Asking, OnlyClient, DeployUnchanged
  <2>3. j \in Job /\ Sound(new.at) /\ new.status = "queued" /\ new \in JobRows(DeployAt)
    <3>1. DeployClient(client[u]) /\ client[u] \in ClientRows(DeployAt)
      BY DEF DeployInv, DeployTypes, JobTypes
    <3> QED BY <2>1, <2>2, <3>1 DEF DeployClient, ClientRows
  <2>4. /\ client' \in [Client -> ClientRows(DeployAt)] /\ OnlyAsks(u)
        /\ DeployClient(client[u])'
    BY <2>2, DeployClientGoesOn DEF ClientPlaces
  <2>5. /\ row' \in [Job -> JobRows(DeployAt)]
        /\ \A i \in Job : row'[i] = row[i] \/ (row[i].status = "none" /\ row'[i] = new)
    BY <2>2, <2>3 DEF Store, DeployInv, DeployTypes, JobTypes
  <2>6. OrdersStay /\ \A i \in Job : row'[i] = row[i] \/ OrderHolds(i)'
    <3>1. PICK at : at = new.at
      OBVIOUS
    <3>2. Sound(at)'
      BY <2>2, <2>3, <3>1 DEF Sound
    <3>3. \A i \in Job : row'[i] = new => OrderHolds(i)'
      BY <2>3, <3>1, <3>2 DEF OrderHolds, Sound
    <3>4. OrdersStay
      BY <2>5 DEF OrdersStay
    <3> QED BY <2>5, <3>3, <3>4
  <2>7. DeployTypes'
    BY <2>2, <2>4, <2>5 DEF DeployInv, DeployTypes, JobTypes
  <2>8. /\ \A c \in Controller : ctl'[c] = ctl[c]
        /\ \A v \in Client : client'[v] = client[v] \/ DeployClient(client[v])'
    BY <2>2, <2>4 DEF OnlyAsks
  <2> QED BY <2>2, <2>6, <2>7, <2>8, DeployMoves
<1>5. CASE PolicyWrite(u)
  BY <1>5, PolicyWriteInv
<1> QED BY <1>2, <1>3, <1>4, <1>5 DEF DeployAnswers

(* Only a controller moves, and perhaps a row.                              *)
LEMMA DeployCtlMoves ==
  ASSUME DeployInv, NEW c \in Controller, ctl' \in [Actor -> CtlRows(DeployAt)], OnlyMoves(c),
         DeployCtl(ctl[c])', UNCHANGED <<row, client, env, snapshots, applied>>
  PROVE  DeployInv'
<1>1. DeployTypes'
  BY DEF DeployInv, DeployTypes, JobTypes
<1>2. OrdersStay /\ \A j \in Job : row'[j] = row[j]
  BY DEF OrdersStay
<1>3. \A d \in Controller : ctl'[d] = ctl[d] \/ DeployCtl(ctl[d])'
  BY DEF OnlyMoves, Actor
<1>4. \A v \in Client : client'[v] = client[v]
  OBVIOUS
<1> QED BY <1>1, <1>2, <1>3, <1>4, DeployMoves

LEMMA DeployCtlFacts ==
  ASSUME DeployInv, NEW c \in Controller, ctl[c].pc # "idle"
  PROVE  /\ c \in Actor /\ DeployCtl(ctl[c]) /\ ctl[c].job \in Job
         /\ ctl[c].snap \in JobRows(DeployAt) /\ ctl[c].want \in JobRows(DeployAt)
         /\ row[ctl[c].job] \in JobRows(DeployAt) /\ OrderHolds(ctl[c].job)
         /\ NoRow \in JobRows(DeployAt) /\ ctl \in [Actor -> CtlRows(DeployAt)]
<1>1. c \in Actor
  BY DEF Actor
<1>2. DeployCtl(ctl[c]) /\ ctl[c] \in CtlRows(DeployAt) /\ NoProgress \in DeployAt
  BY <1>1 DEF DeployInv, DeployTypes, JobTypes
<1>3. ctl[c].job \in Job
  BY <1>2 DEF DeployCtl
<1> QED BY <1>1, <1>2, <1>3, NoRowFacts DEF DeployInv, DeployTypes, JobTypes, CtlRows

(* Going to a place where copies do not matter, or on with the same ones    *)
LEMMA DeployGoes ==
  ASSUME DeployInv, NEW c \in Controller, ctl[c].pc # "idle", NEW pc \in {"ack", "retry", "apply"}, Go(c, pc),
         pc = "apply" => /\ ctl[c].pc = "environment"
                         /\ ctl[c].snap.at.canary => env.healthy # NoVersion,
         UNCHANGED <<row, client, env, snapshots, applied>>
  PROVE  DeployInv'
<1>1. /\ ctl' \in [Actor -> CtlRows(DeployAt)] /\ OnlyMoves(c)
      /\ ctl'[c].pc = pc /\ ctl'[c].job = ctl[c].job /\ ctl'[c].snap = ctl[c].snap
      /\ ctl'[c].want = ctl[c].want /\ ctl'[c].err = ctl[c].err
  BY DeployCtlFacts, Goes DEF CtlPlaces
<1>2. DeployCtl(ctl[c]) /\ ctl[c].job \in Job
  BY DeployCtlFacts
<1>3. DeployCtl(ctl[c])'
  BY <1>1, <1>2 DEF DeployCtl
<1> QED BY <1>1, <1>3, DeployCtlMoves

(* The copies a plan of the controller may hold                             *)
LEMMA MoveToFacts ==
  ASSUME DeployInv, NEW c \in Controller, ctl[c].pc # "idle",
         NEW snap \in JobRows(DeployAt), NEW status \in {"reconciling", "succeeded", "failed"},
         NEW err \in {"retry", "fail"}, MoveTo(c, snap, status, err)
  PROVE  \E want \in JobRows(DeployAt) :
           /\ want.status = status /\ want.at = snap.at
           /\ ctl' \in [Actor -> CtlRows(DeployAt)] /\ OnlyMoves(c)
           /\ ctl'[c].pc = "move" /\ ctl'[c].job = ctl[c].job /\ ctl'[c].snap = snap
           /\ ctl'[c].want = want /\ ctl'[c].err = err
<1>1. status \in Statuses /\ snap.at \in DeployAt
  BY DEF Statuses, JobRows
<1>2. PICK want \in JobRows(DeployAt) : want = With(snap, status, snap.at)
  BY <1>1, WithFacts
<1>3. want.status = status /\ want.at = snap.at
  BY <1>1, <1>2, WithFacts
<1>4. Plan(c, "move", snap, want, err)
  BY <1>2 DEF MoveTo
<1> QED BY <1>3, <1>4, DeployCtlFacts, PlansOn DEF CtlPlaces

LEMMA DeployMovesTo ==
  ASSUME DeployInv, NEW c \in Controller, ctl[c].pc # "idle",
         NEW snap \in JobRows(DeployAt), NEW status \in {"reconciling", "failed"},
         NEW err \in {"retry", "fail"}, MoveTo(c, snap, status, err),
         row[ctl[c].job].status # "none", snap.at = row[ctl[c].job].at,
         snap.status \in {"queued", "reconciling"}, status = "reconciling" => snap.status = "queued",
         UNCHANGED <<row, client, env, snapshots, applied>>
  PROVE  DeployInv'
<1>1. PICK want \in JobRows(DeployAt) :
           /\ want.status = status /\ want.at = snap.at
           /\ ctl' \in [Actor -> CtlRows(DeployAt)] /\ OnlyMoves(c)
           /\ ctl'[c].pc = "move" /\ ctl'[c].job = ctl[c].job /\ ctl'[c].snap = snap
           /\ ctl'[c].want = want /\ ctl'[c].err = err
  BY MoveToFacts
<1>2. ctl[c].job \in Job
  BY DeployCtlFacts
<1>3. DeployCtl(ctl[c])'
  BY <1>1, <1>2 DEF DeployCtl
<1> QED BY <1>1, <1>3, DeployCtlMoves

LEMMA ReadDeploymentInv ==
  ASSUME DeployInv, NEW c \in Controller, ReadDeployment(c)
  PROVE  DeployInv'
<1> DEFINE now == row[ctl[c].job]
<1>1. ctl[c].pc = "read" /\ UNCHANGED <<row, client, env, snapshots, applied>>
  BY DEF ReadDeployment, At, OnlyCtl, DeployUnchanged
<1>2. ctl[c].job \in Job /\ now \in JobRows(DeployAt) /\ NoRow \in JobRows(DeployAt) /\ c \in Actor
  BY <1>1, DeployCtlFacts
<1>3. CASE Go(c, "ack")
  BY <1>1, <1>3, DeployGoes
<1>4. CASE now.status = "queued" /\ MoveTo(c, now, "reconciling", "retry")
  BY <1>1, <1>2, <1>4, DeployMovesTo
<1>5. CASE now.status = "reconciling" /\ Plan(c, "environment", now, NoRow, "fail")
  <2>1. /\ ctl' \in [Actor -> CtlRows(DeployAt)] /\ OnlyMoves(c)
        /\ ctl'[c].pc = "environment" /\ ctl'[c].job = ctl[c].job /\ ctl'[c].snap = now
        /\ ctl'[c].err = "fail"
    BY <1>1, <1>2, <1>5, DeployCtlFacts, PlansOn DEF CtlPlaces
  <2>2. DeployCtl(ctl[c])'
    BY <1>1, <1>2, <1>5, <2>1 DEF DeployCtl
  <2> QED BY <1>1, <2>1, <2>2, DeployCtlMoves
<1> QED BY <1>3, <1>4, <1>5 DEF ReadDeployment

LEMMA ReadEnvironmentInv ==
  ASSUME DeployInv, NEW c \in Controller, ReadEnvironment(c)
  PROVE  DeployInv'
<1>1. ctl[c].pc = "environment" /\ UNCHANGED <<row, client, env, snapshots, applied>>
  BY DEF ReadEnvironment, At, OnlyCtl, DeployUnchanged
<1>2. /\ ctl[c].snap \in JobRows(DeployAt) /\ ctl[c].snap.status = "reconciling"
      /\ row[ctl[c].job].status # "none" /\ ctl[c].snap.at = row[ctl[c].job].at
  BY <1>1, DeployCtlFacts DEF DeployCtl
<1>3. CASE \E err \in {"retry", "fail"} : MoveTo(c, ctl[c].snap, "failed", err)
  BY <1>1, <1>2, <1>3, DeployMovesTo
<1>4. CASE Go(c, "apply") /\ ~(ctl[c].snap.at.canary /\ env.healthy = NoVersion)
  BY <1>1, <1>4, DeployGoes
<1> QED BY <1>3, <1>4 DEF ReadEnvironment

LEMMA ApplyRoutesInv ==
  ASSUME DeployInv, NEW c \in Controller, ApplyRoutes(c)
  PROVE  DeployInv'
<1>1. PICK j, snap, at : j = ctl[c].job /\ snap = ctl[c].snap /\ at = snap.at
  OBVIOUS
<1>2. ctl[c].pc = "apply" /\ UNCHANGED <<row, client, snapshots>>
  BY DEF ApplyRoutes, At, OnlyCtl
<1>3. /\ j \in Job /\ snap \in JobRows(DeployAt) /\ snap.status = "reconciling"
      /\ row[j].status # "none" /\ at = row[j].at /\ c \in Actor
      /\ env.revision = at.expected /\ at.canary => env.healthy # NoVersion
      /\ OrderHolds(j)
  BY <1>1, <1>2, DeployCtlFacts DEF DeployCtl
<1>4. Sound(at) /\ at \in Orders
  BY <1>3 DEF OrderHolds, Sound
<1>5. CASE UNCHANGED <<env, applied>> /\ MoveTo(c, snap, "failed", "fail")
  BY <1>1, <1>2, <1>3, <1>5, DeployMovesTo
<1>6. ASSUME env.revision = at.expected, applied' = applied \cup {j},
             MoveTo(c, snap, "succeeded", "fail"),
             env' = [env EXCEPT !.revision = @ + 1, !.routes = Routes(at),
                                !.healthy = IF at.canary THEN @ ELSE at.target]
      PROVE  DeployInv'
  <2>1. env \in EnvRows /\ (env.healthy # NoVersion => env.healthy \in env.routes)
    BY DEF DeployInv, DeployTypes
  <2>2. PICK routes, healthy : /\ routes = Routes(at)
                               /\ healthy = IF at.canary THEN env.healthy ELSE at.target
    OBVIOUS
  <2>3. /\ routes \subseteq Version /\ healthy \in Version /\ healthy \in routes
        /\ \A v \in routes : v = at.target \/ v \in env.routes
    BY <1>3, <1>4, <1>6, <2>1, <2>2 DEF Routes, Orders, EnvRows
  <2>4. env' = [env EXCEPT !.revision = @ + 1, !.routes = routes, !.healthy = healthy]
    BY <1>6, <2>2
  <2>5. /\ env' \in EnvRows /\ env'.revision = env.revision + 1 /\ env'.routes = routes
        /\ env'.healthy = healthy /\ env'.policy = env.policy
    <3> DEFINE e1 == [env EXCEPT !.revision = @ + 1]
               e2 == [e1 EXCEPT !.routes = routes]
               e3 == [e2 EXCEPT !.healthy = healthy]
    <3>1. /\ e1 \in EnvRows /\ e1.revision = env.revision + 1 /\ e1.routes = env.routes
          /\ e1.policy = env.policy
      BY <2>1 DEF EnvRows
    <3>2. env' = e3
      BY <2>4
    <3> HIDE DEF e1
    <3>3. /\ e2 \in EnvRows /\ e2.revision = env.revision + 1 /\ e2.routes = routes
          /\ e2.policy = env.policy
      BY <2>3, <3>1 DEF EnvRows
    <3> HIDE DEF e2
    <3>4. /\ e3 \in EnvRows /\ e3.revision = env.revision + 1 /\ e3.routes = routes
          /\ e3.healthy = healthy /\ e3.policy = env.policy
      BY <2>3, <3>3 DEF EnvRows
    <3> QED BY <3>2, <3>4
  <2>6. PICK want \in JobRows(DeployAt) :
           /\ want.status = "succeeded" /\ want.at = snap.at
           /\ ctl' \in [Actor -> CtlRows(DeployAt)] /\ OnlyMoves(c)
           /\ ctl'[c].pc = "move" /\ ctl'[c].job = ctl[c].job /\ ctl'[c].snap = snap
           /\ ctl'[c].want = want /\ ctl'[c].err = "fail"
    BY <1>2, <1>3, <1>6, MoveToFacts
  <2>7. DeployCtl(ctl[c])'
    BY <1>1, <1>2, <1>3, <1>6, <2>6 DEF DeployCtl
  <2>8. DeployTypes'
    BY <1>2, <1>3, <1>6, <2>5, <2>6 DEF DeployInv, DeployTypes, JobTypes
  <2>9. ASSUME NEW i \in applied' PROVE AppliedHolds(i)'
    <3>1. i \in Job /\ row[i].status # "none" /\ row[i].at.expected <= env.revision
          /\ row[i].at.expected \in Nat /\ env.revision \in Nat
      <4>1. i \in Job
        BY <1>3, <1>6, <2>9 DEF DeployInv, DeployTypes
      <4>2. row[i].status # "none"
        BY <1>3, <1>6, <2>9 DEF DeployInv, AppliedHolds
      <4> QED BY <2>1, <4>1, <4>2 DEF DeployInv, OrderHolds, Sound, Orders, EnvRows
    <3> QED BY <1>2, <2>5, <3>1 DEF AppliedHolds
  <2>10. ASSUME NEW v \in env'.routes PROVE RouteHolds(v)'
    <3>1. CASE v \in env.routes
      BY <1>2, <1>6, <2>5, <3>1 DEF DeployInv, RouteHolds
    <3>2. CASE v = at.target /\ at.rollback
      BY <1>2, <1>3, <1>6, <3>2 DEF RouteHolds
    <3>3. CASE v = at.target /\ ~at.rollback
      BY <1>4, <1>6, <2>5, <3>3 DEF RouteHolds, Sound
    <3> QED BY <1>4, <2>3, <2>5, <2>10, <3>1, <3>2, <3>3 DEF Orders
  <2>11. /\ \A d \in Controller : ctl'[d] = ctl[d] \/ DeployCtl(ctl[d])'
         /\ \A u \in Client : client'[u] = client[u]
         /\ env'.healthy # NoVersion => env'.healthy \in env'.routes
         /\ applied \subseteq applied'
    BY <1>2, <1>6, <2>3, <2>5, <2>6, <2>7 DEF OnlyMoves, Actor
  <2> QED BY <1>2, <2>5, <2>8, <2>9, <2>10, <2>11, EnvMovesOn
<1> QED BY <1>1, <1>5, <1>6 DEF ApplyRoutes

LEMMA MoveDeploymentInv ==
  ASSUME DeployInv, NEW c \in Controller, MoveDeployment(c)
  PROVE  DeployInv'
<1>1. PICK j, want : j = ctl[c].job /\ want = ctl[c].want
  OBVIOUS
<1>2. ctl[c].pc = "move" /\ UNCHANGED <<client, env, snapshots, applied>>
  BY DEF MoveDeployment, At, DeployUnchanged
<1>3. /\ j \in Job /\ want \in JobRows(DeployAt) /\ c \in Actor
      /\ row[j].status # "none" /\ want.at = row[j].at
      /\ want.status \in {"reconciling", "succeeded", "failed"}
      /\ want.status = "succeeded" => j \in applied
      /\ OrderHolds(j) /\ ctl \in [Actor -> CtlRows(DeployAt)]
  BY <1>1, <1>2, DeployCtlFacts DEF DeployCtl
<1>4. /\ row' \in [Job -> JobRows(DeployAt)]
      /\ \A i \in Job : row'[i] = row[i] \/ (i = j /\ row'[i] = want)
  BY <1>1, <1>3 DEF MoveDeployment, Store, DeployInv, DeployTypes, JobTypes
<1>5. OrdersStay
  BY <1>3, <1>4 DEF OrdersStay
<1>6. ASSUME NEW i \in Job, row'[i] # row[i] PROVE OrderHolds(i)'
  <2>1. i = j /\ row'[i] = want
    BY <1>4, <1>6
  <2>2. PICK at : at = row[j].at
    OBVIOUS
  <2>3. Sound(at)'
    BY <1>2, <1>3, <2>2 DEF OrderHolds, Sound
  <2> QED BY <1>2, <1>3, <2>1, <2>2, <2>3 DEF OrderHolds, Sound
<1>7. PICK pc \in {"ack", "retry"} : Go(c, pc)
  BY DEF MoveDeployment
<1>8. /\ ctl' \in [Actor -> CtlRows(DeployAt)] /\ OnlyMoves(c)
      /\ ctl'[c].pc = pc /\ ctl'[c].job = ctl[c].job /\ ctl'[c].err = ctl[c].err
  BY <1>3, <1>7, Goes DEF CtlPlaces
<1>9. DeployCtl(ctl[c])'
  BY <1>1, <1>2, <1>3, <1>8, DeployCtlFacts DEF DeployCtl
<1>10. DeployTypes'
  BY <1>2, <1>4, <1>8 DEF DeployInv, DeployTypes, JobTypes
<1>11. /\ \A d \in Controller : ctl'[d] = ctl[d] \/ DeployCtl(ctl[d])'
       /\ \A u \in Client : client'[u] = client[u]
  BY <1>2, <1>8, <1>9 DEF OnlyMoves, Actor
<1> QED BY <1>2, <1>5, <1>6, <1>10, <1>11, DeployMoves

LEMMA DeployCallFailsInv ==
  ASSUME DeployInv, NEW c \in Controller, DeployCallFails(c)
  PROVE  DeployInv'
<1>1. /\ ctl[c].pc \in {"read", "environment", "apply", "move"}
      /\ UNCHANGED <<row, client, env, snapshots, applied>>
  BY DEF DeployCallFails, DeployUnchanged
<1>2. DeployCtl(ctl[c]) /\ ctl[c].snap \in JobRows(DeployAt)
  BY <1>1, DeployCtlFacts
<1>3. CASE ctl[c].err = "fail" /\ MoveTo(c, ctl[c].snap, "failed", "retry")
  BY <1>1, <1>2, <1>3, DeployMovesTo DEF DeployCtl
<1>4. CASE Go(c, "retry")
  BY <1>1, <1>4, DeployGoes
<1> QED BY <1>3, <1>4 DEF DeployCallFails

LEMMA DeployForgets ==
  ASSUME DeployInv, JobTypes(DeployAt)', Forgets, UNCHANGED <<row, env, snapshots, applied>>
  PROVE  DeployInv'
<1>1. DeployTypes' /\ OrdersStay /\ \A j \in Job : row'[j] = row[j]
  BY DEF DeployInv, DeployTypes, OrdersStay
<1>2. ASSUME NEW c \in Controller PROVE ctl'[c] = ctl[c] \/ DeployCtl(ctl[c])'
  <2>1. CASE ctl'[c] = IdleCtl
    BY <2>1, NoRowFacts DEF DeployCtl, DeployInv, DeployTypes, JobTypes
  <2>2. ASSUME NEW j \in Job, ctl'[c] = Taken(j) PROVE DeployCtl(ctl[c])'
    BY <2>2, TakenFacts DEF DeployCtl, DeployInv, DeployTypes, JobTypes
  <2>3. c \in Actor
    BY DEF Actor
  <2> QED BY <2>1, <2>2, <2>3 DEF Forgets
<1>3. \A u \in Client : client'[u] = client[u] \/ DeployClient(client[u])'
  BY DEF Forgets, DeployClient
<1> QED BY <1>1, <1>2, <1>3, DeployMoves

LEMMA DeployInitInv ==
  ASSUME ControlInit
  PROVE  DeployInv
<1>1. DeployInit /\ JobTypes(DeployAt)
  BY InitTypes DEF ControlInit, DeployInit, DeployAt
<1>2. /\ env \in EnvRows /\ snapshots \subseteq Version /\ applied = {}
      /\ env.healthy # NoVersion => env.healthy \in env.routes
      /\ env.routes \subseteq env.policy
  <2>1. CASE env = FreshEnv /\ snapshots = {}
    BY <1>1, <2>1 DEF DeployInit, FreshEnv, EnvRows
  <2>2. ASSUME NEW v \in Version, env = LiveEnv(v), snapshots = {v}
        PROVE  /\ env \in EnvRows /\ snapshots \subseteq Version /\ applied = {}
               /\ env.healthy # NoVersion => env.healthy \in env.routes
               /\ env.routes \subseteq env.policy
    BY <1>1, <2>2 DEF DeployInit, LiveEnv, EnvRows
  <2> QED BY <1>1, <2>1, <2>2, VersionAssumption DEF DeployInit
<1>3. \A j \in Job : row[j].status = "none"
  BY <1>1, NoRowFacts DEF DeployInit, JobInit, DeployAt
<1>4. \A c \in Controller : ctl[c] = IdleCtl
  BY <1>1 DEF DeployInit, JobInit, Actor
<1>5. \A u \in Client : client[u].pc = "idle"
  BY <1>1, NoRowFacts DEF DeployInit, JobInit, DeployAt
<1>6. \A c \in Controller : DeployCtl(ctl[c])
  BY <1>4, NoRowFacts DEF DeployCtl, DeployAt
<1> QED BY <1>1, <1>2, <1>3, <1>5, <1>6
       DEF DeployInv, DeployTypes, OrderHolds, RouteHolds, DeployClient

LEMMA DeployStepInv ==
  ASSUME DeployInv, kind = "deployment", [ControlNext]_controlVars
  PROVE  DeployInv'
<1>1. CASE UNCHANGED controlVars
  <2>1. DeployTypes' /\ OrdersStay
    BY <1>1 DEF controlVars, jobVars, DeployInv, DeployTypes, JobTypes, OrdersStay
  <2>2. /\ \A j \in Job : row'[j] = row[j]
        /\ \A c \in Controller : ctl'[c] = ctl[c]
        /\ \A u \in Client : client'[u] = client[u]
        /\ UNCHANGED <<env, applied>>
    BY <1>1 DEF controlVars, jobVars
  <2> QED BY <2>1, <2>2, DeployMoves
<1>2. ASSUME NEW c \in Controller, Controls(c) PROVE DeployInv'
  <2>1. CASE DeployControls(c)
    BY <2>1, ReadDeploymentInv, ReadEnvironmentInv, ApplyRoutesInv, MoveDeploymentInv
       DEF DeployControls
  <2>2. CASE Shared(c) /\ Others("none")
    <3>1. Forgets /\ JobTypes(DeployAt)' /\ UNCHANGED row
      BY <2>2, SharedForgets DEF DeployInv, DeployTypes
    <3>2. UNCHANGED <<env, snapshots, applied>>
      BY <2>2 DEF Others, DeployUnchanged
    <3> QED BY <3>1, <3>2, DeployForgets
  <2> QED BY <1>2, <2>1, <2>2 DEF Controls, Shared
<1>3. ASSUME NEW u \in Client, Requests(u) \/ Answers(u) PROVE DeployInv'
  BY <1>3, DeployAsksInv, DeployAnswersInv DEF Requests, Answers
<1>4. CASE Faults
  <2>1. CASE Crash /\ Others("none")
    <3>1. Forgets /\ JobTypes(DeployAt)' /\ UNCHANGED row
      BY <2>1, CrashForgets DEF DeployInv, DeployTypes
    <3>2. UNCHANGED <<env, snapshots, applied>>
      BY <2>1 DEF Others, DeployUnchanged
    <3> QED BY <3>1, <3>2, DeployForgets
  <2>2. CASE DeployFaults
    BY <2>2, DeployAnswersInv, DeployCallFailsInv DEF DeployFaults
  <2> QED BY <1>4, <2>1, <2>2 DEF Faults
<1>5. ~Background
  BY DEF Background
<1> QED BY <1>1, <1>2, <1>3, <1>4, <1>5 DEF ControlNext

-----------------------------------------------------------------------------
(* A lease keeps others away for as long as nothing crashes, fails or       *)
(* overruns: whoever works on a task holds it.                              *)
Alone ==
  /\ place \in [Job -> Queue!Places] /\ holder \in [Job -> Controller] /\ faults \in Nat
  /\ faults = 0 => \A c \in Controller, j \in Job : Works(c, j) => Queue!Holds(c, j)

KeepTasks ==
  \A c \in Controller :
    ctl'[c].pc # "idle" => ctl[c].pc # "idle" /\ ctl'[c].job = ctl[c].job

LEMMA AloneStays ==
  ASSUME Alone, KeepTasks, UNCHANGED queueVars, faults' \in Nat, faults' = 0 => faults = 0
  PROVE  Alone'
BY DEF Alone, KeepTasks, queueVars, Works, Queue!Holds

LEMMA EnqueueAlone ==
  ASSUME Alone, NEW u \in Client, NEW next, EnqueueTask(u, next)
  PROVE  Alone'
<1>1. PICK t : t = client[u].job
  OBVIOUS
<1>2. UNCHANGED <<ctl, faults, holder>>
      /\ place' = [place EXCEPT ![t] = IF @ = "absent" THEN "visible" ELSE @]
  BY <1>1 DEF EnqueueTask, Queue!Put
<1>3. place' \in [Job -> Queue!Places] /\ \A j \in Job : place[j] = "leased" => place'[j] = "leased"
  BY <1>2 DEF Alone, Queue!Places
<1> QED BY <1>2, <1>3 DEF Alone, Works, Queue!Holds

LEMMA SharedAlone ==
  ASSUME NEW A, JobTypes(A), Alone, NEW c \in Controller, Shared(c), ctl[c].pc # "idle" => ctl[c].job \in Job
  PROVE  Alone' /\ (faults' = 0 => faults = 0)
<1>1. CASE Acknowledge(c) \/ Retry(c)
  <2>1. /\ ctl[c].pc # "idle" /\ Rest(c) /\ UNCHANGED faults
        /\ \/ UNCHANGED queueVars
           \/ /\ UNCHANGED holder /\ Queue!Holds(c, ctl[c].job)
              /\ \E where \in {"absent", "visible"} : place' = [place EXCEPT ![ctl[c].job] = where]
    BY <1>1 DEF Acknowledge, Retry, At, Queue!Finish, Queue!GiveBack, queueVars
  <2>2. PICK j \in Job : j = ctl[c].job
    BY <2>1
  <2>3. OnlyMoves(c) /\ ctl'[c].pc = "idle"
    BY <2>1, RestsNow, NoRowFacts DEF JobTypes, Actor
  <2>4. /\ place' \in [Job -> Queue!Places] /\ holder' = holder
        /\ \A i \in Job : i # j => place'[i] = place[i]
        /\ place'[j] = place[j] \/ Queue!Holds(c, j)
    BY <2>1, <2>2 DEF Alone, Queue!Places, queueVars
  <2>5. ASSUME faults = 0, NEW d \in Controller, NEW i \in Job, Works(d, i)' PROVE Queue!Holds(d, i)'
    <3>1. d # c /\ Works(d, i)
      BY <2>3, <2>5 DEF Works, OnlyMoves, Actor
    <3>2. Queue!Holds(d, i)
      BY <2>5, <3>1 DEF Alone
    <3> QED BY <2>4, <3>1, <3>2 DEF Queue!Holds
  <2> QED BY <2>1, <2>4, <2>5 DEF Alone
<1>2. ASSUME NEW j \in Job, Dequeue(c, j) PROVE Alone' /\ (faults' = 0 => faults = 0)
  <2>1. PICK lapsed \in SUBSET {j} :
          /\ At(c, "idle") /\ Queue!Take(c, j, lapsed)
          /\ ctl' = [ctl EXCEPT ![c] = Taken(j)]
          /\ faults' = IF lapsed # {} /\ Works(holder[j], j) THEN faults + 1 ELSE faults
    BY <1>2 DEF Dequeue, Taken
  <2>2. /\ place' \in [Job -> Queue!Places] /\ holder' \in [Job -> Controller]
        /\ place'[j] = "leased" /\ holder'[j] = c
        /\ \A i \in Job : i # j => place'[i] = place[i] /\ holder'[i] = holder[i]
        /\ place[j] = "visible" \/ lapsed # {}
    BY <2>1 DEF Queue!Take, Alone, Queue!Places
  <2>3. faults' \in Nat /\ (faults' = 0 => faults = 0)
    BY <2>1 DEF Alone
  <2>4. c \in Actor /\ ctl \in [Actor -> CtlRows(A)]
    BY DEF Actor, JobTypes
  <2>5. ctl'[c].job = j /\ \A d \in Actor : d # c => ctl'[d] = ctl[d]
    BY <2>1, <2>4, TakenFacts DEF JobTypes
  <2>6. ASSUME faults' = 0, NEW d \in Controller, NEW i \in Job, Works(d, i)' PROVE Queue!Holds(d, i)'
    <3>1. CASE d = c
      BY <2>2, <2>5, <2>6, <3>1 DEF Works, Queue!Holds
    <3>2. CASE d # c
      <4>1. Works(d, i)
        BY <2>5, <2>6, <3>2 DEF Works, Actor
      <4>2. faults = 0 /\ Queue!Holds(d, i)
        BY <2>3, <2>6, <4>1 DEF Alone
      <4>3. i # j
        <5>1. SUFFICES ASSUME i = j PROVE FALSE
          OBVIOUS
        <5>2. place[j] = "leased" /\ holder[j] = d
          BY <4>2, <5>1 DEF Queue!Holds
        <5>3. faults' = faults + 1
          BY <2>1, <2>2, <4>1, <5>1, <5>2
        <5> QED BY <2>6, <4>2, <5>3
      <4> QED BY <2>2, <4>2, <4>3 DEF Queue!Holds
    <3> QED BY <3>1, <3>2
  <2> QED BY <2>2, <2>3, <2>6 DEF Alone
<1> QED BY <1>1, <1>2 DEF Shared, Acknowledge, Retry

(* What the lease gives a Deployment: the copy of the controller that works *)
(* on it is fresh, so routes that went live are reported.                   *)
Fresh(me) == me.pc \in {"environment", "apply", "move"} => Same(me.job, me.snap)

Lands(c, j) == ctl[c].pc = "move" /\ ctl[c].job = j /\ ctl[c].want.status = "succeeded"

Consumed == \A i, j \in applied : i # j => row[i].at.expected # row[j].at.expected

LandInv ==
  /\ Alone /\ Consumed
  /\ faults = 0 => /\ \A c \in Controller : Fresh(ctl[c])
                   /\ \A j \in applied :
                        row[j].status = "succeeded" \/ \E c \in Controller : Lands(c, j)

(* Rows are only added, and no controller leaves the place of its move.     *)
RowsStay == \A j \in Job : row[j].status # "none" => row'[j] = row[j]

QuietCtl(c) == ctl'[c] = ctl[c] \/ (ctl[c].pc # "move" /\ Fresh(ctl[c])')

LEMMA LandQuiet ==
  ASSUME DeployInv, LandInv, Alone', UNCHANGED applied, RowsStay,
         \/ faults' # 0
         \/ faults = 0 /\ \A c \in Controller : QuietCtl(c)
  PROVE  LandInv'
<1>1. \A j \in applied : j \in Job /\ row'[j] = row[j]
  BY DEF DeployInv, DeployTypes, AppliedHolds, RowsStay
<1>2. Consumed'
  BY <1>1 DEF LandInv, Consumed
<1>3. ASSUME faults = 0, \A c \in Controller : QuietCtl(c), NEW c \in Controller PROVE Fresh(ctl[c])'
  <2>1. Fresh(ctl[c]) /\ DeployCtl(ctl[c])
    BY <1>3 DEF LandInv, DeployInv
  <2>2. CASE ctl'[c] = ctl[c]
    <3>1. PICK me : me = ctl[c]
      OBVIOUS
    <3>2. me.pc \in {"environment", "apply", "move"} => row'[me.job] = row[me.job]
      BY <2>1, <3>1 DEF DeployCtl, RowsStay
    <3> QED BY <2>1, <2>2, <3>1, <3>2 DEF Fresh, Same
  <2> QED BY <1>3, <2>2 DEF QuietCtl
<1>4. ASSUME faults = 0, \A c \in Controller : QuietCtl(c), NEW j \in applied
      PROVE  row'[j].status = "succeeded" \/ \E c \in Controller : Lands(c, j)'
  BY <1>1, <1>4 DEF LandInv, QuietCtl, Lands
<1> QED BY <1>2, <1>3, <1>4 DEF LandInv

LEMMA LandAsks ==
  ASSUME DeployInv, LandInv, NEW u \in Client, DeployAsks(u) \/ DeployAnswers(u) \/ PromoteFails(u)
  PROVE  LandInv'
<1>1. UNCHANGED <<ctl, applied>>
  BY DEF DeployAsks, Promote, Rollback, PolicyBegin, DeployAnswers, AddSnapshot, AddDeployment,
     CommitQuota, PolicyWrite, ReserveQuota, EnqueueTask, PromoteFails, OnlyClient, DeployUnchanged
<1>2. RowsStay
  <2>1. CASE UNCHANGED row
    BY <2>1 DEF RowsStay
  <2>2. CASE AddDeployment(u)
    BY <2>2 DEF AddDeployment, Store, RowsStay, DeployInv, DeployTypes, JobTypes
  <2> QED BY <2>1, <2>2
       DEF DeployAsks, Promote, Rollback, PolicyBegin, DeployAnswers, AddSnapshot,
         CommitQuota, PolicyWrite, ReserveQuota, EnqueueTask, PromoteFails
<1>3. ASSUME NEW next, EnqueueTask(u, next) PROVE Alone' /\ UNCHANGED faults
  BY <1>3, EnqueueAlone DEF LandInv, EnqueueTask
<1>4. \/ \E next : EnqueueTask(u, next)
      \/ UNCHANGED queueVars /\ (UNCHANGED faults \/ faults' = faults + 1)
  BY DEF DeployAsks, Promote, Rollback, PolicyBegin, DeployAnswers, AddSnapshot, AddDeployment,
     CommitQuota, PolicyWrite, ReserveQuota, PromoteFails, OnlyClient
<1>5. /\ Alone' /\ faults \in Nat
      /\ UNCHANGED faults \/ faults' = faults + 1
  <2>1. faults \in Nat /\ Alone
    BY DEF LandInv, Alone
  <2>2. KeepTasks
    BY <1>1 DEF KeepTasks
  <2>3. CASE UNCHANGED queueVars /\ (UNCHANGED faults \/ faults' = faults + 1)
    BY <2>1, <2>2, <2>3, AloneStays
  <2> QED BY <1>3, <1>4, <2>1, <2>3
<1> QED BY <1>1, <1>2, <1>5, LandQuiet DEF QuietCtl

(* A controller moves on, without a fault before its move or with one.      *)
LEMMA LandCtlMoves ==
  ASSUME DeployInv, LandInv, NEW c \in Controller, ctl[c].pc # "idle", OnlyMoves(c),
         ctl'[c].job = ctl[c].job, UNCHANGED <<row, queueVars, applied>>,
         \/ faults' = faults + 1
         \/ faults' = faults /\ ctl[c].pc # "move" /\ (faults = 0 => Fresh(ctl[c])')
  PROVE  LandInv'
<1>1. faults \in Nat /\ Alone /\ RowsStay
  BY DEF LandInv, Alone, RowsStay
<1>2. KeepTasks
  BY DEF KeepTasks, OnlyMoves, Actor
<1>3. Alone'
  BY <1>1, <1>2, AloneStays
<1>4. faults = 0 /\ faults' = faults => \A d \in Controller : QuietCtl(d)
  BY <1>1 DEF QuietCtl, OnlyMoves, Actor
<1> QED BY <1>1, <1>3, <1>4, LandQuiet

LEMMA LandReads ==
  ASSUME DeployInv, LandInv, NEW c \in Controller,
         ReadDeployment(c) \/ ReadEnvironment(c) \/ DeployCallFails(c)
  PROVE  LandInv'
<1>1. /\ ctl[c].pc # "idle" /\ UNCHANGED <<row, queueVars, applied>>
      /\ \/ faults' = faults + 1
         \/ faults' = faults /\ ctl[c].pc # "move"
  BY DEF ReadDeployment, ReadEnvironment, DeployCallFails, At, OnlyCtl, DeployUnchanged
<1>2. /\ ctl[c].snap \in JobRows(DeployAt) /\ row[ctl[c].job] \in JobRows(DeployAt)
      /\ NoRow \in JobRows(DeployAt) /\ ctl \in [Actor -> CtlRows(DeployAt)] /\ c \in Actor
  BY <1>1, DeployCtlFacts
<1>3. ASSUME NEW pc \in {"ack", "retry", "apply"}, Go(c, pc),
             pc = "apply" => ctl[c].pc = "environment"
      PROVE  LandInv'
  <2>1. /\ OnlyMoves(c) /\ ctl'[c].pc = pc /\ ctl'[c].job = ctl[c].job
        /\ ctl'[c].snap = ctl[c].snap
    BY <1>2, <1>3, Goes DEF CtlPlaces
  <2>2. faults = 0 => Fresh(ctl[c])
    BY DEF LandInv
  <2>3. faults = 0 => Fresh(ctl[c])'
    BY <1>1, <1>3, <2>1, <2>2 DEF Fresh, Same
  <2> QED BY <1>1, <2>1, <2>3, LandCtlMoves
<1>4. ASSUME NEW snap \in JobRows(DeployAt), NEW status \in {"reconciling", "failed"},
             NEW err \in {"retry", "fail"}, MoveTo(c, snap, status, err),
             faults' = faults =>
               \/ snap = row[ctl[c].job]
               \/ ReadEnvironment(c) /\ snap = ctl[c].snap
      PROVE  LandInv'
  <2>1. /\ OnlyMoves(c) /\ ctl'[c].pc = "move" /\ ctl'[c].job = ctl[c].job /\ ctl'[c].snap = snap
    BY <1>1, <1>4, MoveToFacts
  <2>2. ReadEnvironment(c) /\ faults = 0 => Same(ctl[c].job, ctl[c].snap)
    BY DEF ReadEnvironment, At, LandInv, Fresh
  <2>3. faults = 0 /\ faults' = faults => Fresh(ctl[c])'
    BY <1>1, <1>4, <2>1, <2>2 DEF Fresh, Same
  <2> QED BY <1>1, <2>1, <2>3, LandCtlMoves
<1>5. CASE ReadDeployment(c)
  <2>1. CASE Plan(c, "environment", row[ctl[c].job], NoRow, "fail")
    <3>1. /\ OnlyMoves(c) /\ ctl'[c].job = ctl[c].job /\ ctl'[c].snap = row[ctl[c].job]
      BY <1>2, <2>1, PlansOn DEF CtlPlaces
    <3>2. Fresh(ctl[c])'
      BY <1>1, <3>1 DEF Fresh, Same
    <3> QED BY <1>1, <3>1, <3>2, LandCtlMoves
  <2>2. CASE Go(c, "ack")
    BY <1>3, <2>2
  <2>3. CASE MoveTo(c, row[ctl[c].job], "reconciling", "retry")
    BY <1>2, <1>4, <2>3
  <2> QED BY <1>5, <2>1, <2>2, <2>3 DEF ReadDeployment
<1>6. CASE ReadEnvironment(c)
  <2>1. CASE Go(c, "apply")
    BY <1>3, <1>6, <2>1 DEF ReadEnvironment, At
  <2>2. CASE \E err \in {"retry", "fail"} : MoveTo(c, ctl[c].snap, "failed", err)
    BY <1>2, <1>4, <1>6, <2>2
  <2> QED BY <1>6, <2>1, <2>2 DEF ReadEnvironment
<1>7. CASE DeployCallFails(c)
  <2>1. faults' # faults
    BY <1>7 DEF DeployCallFails, LandInv, Alone
  <2>2. CASE Go(c, "retry")
    BY <1>3, <2>2
  <2>3. CASE MoveTo(c, ctl[c].snap, "failed", "retry")
    BY <1>2, <1>4, <2>1, <2>3
  <2> QED BY <1>7, <2>2, <2>3 DEF DeployCallFails
<1> QED BY <1>5, <1>6, <1>7

LEMMA LandApplies ==
  ASSUME DeployInv, LandInv, NEW c \in Controller, ApplyRoutes(c)
  PROVE  LandInv'
<1>1. PICK j, snap, at : j = ctl[c].job /\ snap = ctl[c].snap /\ at = snap.at
  OBVIOUS
<1>2. ctl[c].pc = "apply" /\ UNCHANGED <<row, queueVars, faults>>
  BY DEF ApplyRoutes, At, OnlyCtl
<1>3. /\ j \in Job /\ snap \in JobRows(DeployAt) /\ at = row[j].at /\ c \in Actor
      /\ faults = 0 => Same(j, snap)
  BY <1>1, <1>2, DeployCtlFacts DEF DeployCtl, LandInv, Fresh
<1>4. CASE UNCHANGED applied /\ MoveTo(c, snap, "failed", "fail")
  <2>1. OnlyMoves(c) /\ ctl'[c].pc = "move" /\ ctl'[c].job = j /\ ctl'[c].snap = snap
    BY <1>1, <1>2, <1>3, <1>4, MoveToFacts
  <2>2. faults = 0 => Fresh(ctl[c])'
    BY <1>2, <1>3, <2>1 DEF Fresh, Same
  <2> QED BY <1>1, <1>2, <1>4, <2>1, <2>2, LandCtlMoves
<1>5. ASSUME env.revision = at.expected, applied' = applied \cup {j},
             MoveTo(c, snap, "succeeded", "fail")
      PROVE  LandInv'
  <2>1. PICK want : /\ want.status = "succeeded" /\ OnlyMoves(c)
                    /\ ctl'[c].pc = "move" /\ ctl'[c].job = ctl[c].job /\ ctl'[c].snap = snap
                    /\ ctl'[c].want = want
    BY <1>2, <1>3, <1>5, MoveToFacts
  <2>2. KeepTasks
    BY <1>2, <2>1 DEF KeepTasks, OnlyMoves, Actor
  <2>3. Alone'
    BY <1>2, <2>2, AloneStays DEF LandInv, Alone
  <2>4. Consumed'
    <3>1. ASSUME NEW i \in applied PROVE row[i].at.expected < row[j].at.expected /\ row[i].at.expected \in Nat
      <4>1. i \in Job /\ AppliedHolds(i) /\ OrderHolds(i) /\ env \in EnvRows
        BY DEF DeployInv, DeployTypes
      <4> QED BY <1>3, <1>5, <4>1 DEF AppliedHolds, OrderHolds, Sound, Orders
    <3>2. \A i \in applied : row[i].at.expected # row[j].at.expected
      <4>1. env.revision \in Nat
        BY DEF DeployInv, DeployTypes, EnvRows
      <4> QED BY <1>3, <1>5, <3>1, <4>1
    <3> QED BY <1>2, <1>5, <3>2 DEF LandInv, Consumed
  <2>5. ASSUME faults = 0, NEW d \in Controller PROVE Fresh(ctl[d])'
    <3>1. CASE d = c
      BY <1>1, <1>2, <1>3, <2>1, <2>5, <3>1 DEF Fresh, Same
    <3>2. CASE d # c
      <4>1. ctl'[d] = ctl[d] /\ Fresh(ctl[d])
        BY <2>1, <2>5, <3>2 DEF LandInv, OnlyMoves, Actor
      <4> QED BY <1>2, <4>1 DEF Fresh, Same
    <3> QED BY <3>1, <3>2
  <2>6. ASSUME faults = 0, NEW i \in applied'
        PROVE  row'[i].status = "succeeded" \/ \E d \in Controller : Lands(d, i)'
    <3>1. CASE i = j
      BY <1>1, <2>1, <3>1 DEF Lands
    <3>2. CASE i \in applied
      <4>1. row[i].status = "succeeded" \/ \E d \in Controller : Lands(d, i)
        BY <2>6, <3>2 DEF LandInv
      <4>2. ASSUME NEW d \in Controller, Lands(d, i) PROVE Lands(d, i)'
        BY <1>2, <2>1, <4>2 DEF Lands, OnlyMoves, Actor
      <4> QED BY <1>2, <4>1, <4>2
    <3> QED BY <1>5, <2>6, <3>1, <3>2
  <2> QED BY <1>2, <2>3, <2>4, <2>5, <2>6 DEF LandInv
<1> QED BY <1>1, <1>4, <1>5 DEF ApplyRoutes

LEMMA LandMoves ==
  ASSUME DeployInv, LandInv, NEW c \in Controller, MoveDeployment(c)
  PROVE  LandInv'
<1>1. PICK j, snap, want : j = ctl[c].job /\ snap = ctl[c].snap /\ want = ctl[c].want
  OBVIOUS
<1>2. ctl[c].pc = "move" /\ UNCHANGED <<queueVars, faults, applied>>
  BY DEF MoveDeployment, At, DeployUnchanged
<1>3. /\ j \in Job /\ want \in JobRows(DeployAt) /\ c \in Actor
      /\ row[j].status # "none" /\ want.at = row[j].at /\ row[j].at = snap.at
      /\ snap.status \in {"queued", "reconciling"}
      /\ ctl \in [Actor -> CtlRows(DeployAt)]
  BY <1>1, <1>2, DeployCtlFacts DEF DeployCtl
<1>4. /\ row' \in [Job -> JobRows(DeployAt)]
      /\ \A i \in Job : i # j => row'[i] = row[i]
      /\ IF Same(j, snap) THEN row'[j] = want ELSE row'[j] = row[j]
  BY <1>1, <1>3 DEF MoveDeployment, Store, DeployInv, DeployTypes, JobTypes
<1>5. PICK pc \in {"ack", "retry"} : Go(c, pc)
  BY DEF MoveDeployment
<1>6. /\ OnlyMoves(c) /\ ctl'[c].pc = pc /\ ctl'[c].job = ctl[c].job
  BY <1>3, <1>5, Goes DEF CtlPlaces
<1>7. KeepTasks
  BY <1>2, <1>6 DEF KeepTasks, OnlyMoves, Actor
<1>8. Alone'
  BY <1>2, <1>7, AloneStays DEF LandInv, Alone
<1>9. \A i \in applied : i \in Job /\ row'[i].at = row[i].at
  BY <1>3, <1>4 DEF DeployInv, DeployTypes
<1>10. Consumed'
  BY <1>2, <1>9 DEF LandInv, Consumed
<1>11. ASSUME faults = 0, NEW d \in Controller, d # c, ctl[d].pc # "idle"
       PROVE  ctl[d].job # j /\ ctl[d].job \in Job
  <2>1. ctl[d].job \in Job
    BY <1>11, DeployCtlFacts
  <2>2. ctl[d].job = j => Queue!Holds(d, j) /\ Queue!Holds(c, j)
    BY <1>1, <1>2, <1>3, <1>11, <2>1 DEF LandInv, Alone, Works
  <2> QED BY <1>11, <2>1, <2>2 DEF Queue!Holds
<1>12. ASSUME faults = 0, NEW d \in Controller PROVE Fresh(ctl[d])'
  <2>1. CASE d = c
    BY <1>6, <2>1 DEF Fresh
  <2>2. CASE d # c /\ ctl[d].pc = "idle"
    BY <1>6, <2>2 DEF Fresh, OnlyMoves, Actor
  <2>3. CASE d # c /\ ctl[d].pc # "idle"
    <3>1. ctl'[d] = ctl[d] /\ Fresh(ctl[d]) /\ row'[ctl[d].job] = row[ctl[d].job]
      BY <1>4, <1>6, <1>11, <1>12, <2>3 DEF LandInv, OnlyMoves, Actor
    <3> QED BY <3>1 DEF Fresh, Same
  <2> QED BY <2>1, <2>2, <2>3
<1>13. ASSUME faults = 0, NEW i \in applied
       PROVE  row'[i].status = "succeeded" \/ \E d \in Controller : Lands(d, i)'
  <2>1. row[i].status = "succeeded" \/ \E d \in Controller : Lands(d, i)
    BY <1>13 DEF LandInv
  <2>2. CASE row[i].status = "succeeded"
    <3>1. i = j => ~Same(j, snap)
      BY <1>3, <2>2 DEF Same
    <3> QED BY <1>4, <1>9, <1>13, <2>2, <3>1
  <2>3. CASE Lands(c, i)
    <3>1. i = j /\ want.status = "succeeded" /\ Same(j, snap)
      BY <1>1, <1>2, <1>13, <2>3 DEF Lands, LandInv, Fresh
    <3> QED BY <1>4, <3>1
  <2>4. ASSUME NEW d \in Controller, d # c, Lands(d, i) PROVE Lands(d, i)'
    BY <1>6, <2>4 DEF Lands, OnlyMoves, Actor
  <2> QED BY <2>1, <2>2, <2>3, <2>4
<1> QED BY <1>2, <1>8, <1>10, <1>12, <1>13 DEF LandInv

LEMMA LandShared ==
  ASSUME DeployInv, LandInv, NEW c \in Controller, Shared(c), UNCHANGED applied
  PROVE  LandInv'
<1>1. JobTypes(DeployAt) /\ Alone
  BY DEF DeployInv, DeployTypes, LandInv
<1>2. ctl[c].pc # "idle" => ctl[c].job \in Job
  BY DeployCtlFacts
<1>3. Alone' /\ (faults' = 0 => faults = 0)
  BY <1>1, <1>2, SharedAlone
<1>4. UNCHANGED row /\ RowsStay
  BY <1>1, SharedForgets DEF RowsStay
<1>5. c \in Actor /\ ctl \in [Actor -> CtlRows(DeployAt)] /\ NoProgress \in DeployAt
  BY <1>1 DEF Actor, JobTypes
<1>6. OnlyMoves(c) /\ ctl[c].pc # "move" /\ ctl'[c].pc \in {"idle", "read"}
  <2>1. CASE Acknowledge(c) \/ Retry(c)
    BY <1>5, <2>1, RestsNow, NoRowFacts DEF Acknowledge, Retry, At
  <2>2. ASSUME NEW j \in Job, Dequeue(c, j)
        PROVE  OnlyMoves(c) /\ ctl[c].pc # "move" /\ ctl'[c].pc \in {"idle", "read"}
    <3>1. ctl' = [ctl EXCEPT ![c] = Taken(j)] /\ ctl[c].pc = "idle"
      BY <2>2 DEF Dequeue, Taken, At
    <3> QED BY <1>5, <3>1, TakenFacts DEF OnlyMoves
  <2> QED BY <2>1, <2>2 DEF Shared
<1>7. \A d \in Controller : QuietCtl(d)
  BY <1>6 DEF QuietCtl, Fresh, OnlyMoves, Actor
<1> QED BY <1>3, <1>4, <1>7, LandQuiet

LEMMA LandInitInv ==
  ASSUME ControlInit
  PROVE  LandInv
<1>1. DeployInit /\ JobInit
  BY DEF ControlInit, DeployInit
<1>2. \A c \in Controller : ctl[c].pc = "idle"
  BY <1>1, NoRowFacts DEF JobInit, Actor, DeployAt
<1>3. Alone
  BY <1>1, <1>2 DEF JobInit, Queue!LeaseInit, Queue!Places, Alone, Works
<1> QED BY <1>1, <1>2, <1>3 DEF DeployInit, LandInv, Consumed, Fresh

LEMMA LandStepInv ==
  ASSUME DeployInv, LandInv, kind = "deployment", [ControlNext]_controlVars
  PROVE  LandInv'
<1>1. CASE UNCHANGED controlVars
  <2>1. UNCHANGED <<row, ctl, applied, queueVars, faults>>
    BY <1>1 DEF controlVars, jobVars, queueVars
  <2>2. Alone' /\ RowsStay
    BY <2>1, AloneStays DEF LandInv, Alone, KeepTasks, RowsStay
  <2>3. faults' # 0 \/ (faults = 0 /\ \A c \in Controller : QuietCtl(c))
    BY <2>1 DEF QuietCtl
  <2> QED BY <2>1, <2>2, <2>3, LandQuiet
<1>2. ASSUME NEW c \in Controller, Controls(c) PROVE LandInv'
  <2>1. CASE DeployControls(c)
    BY <2>1, LandReads, LandApplies, LandMoves DEF DeployControls
  <2>2. CASE Shared(c) /\ Others("none")
    BY <2>2, LandShared DEF Others, DeployUnchanged
  <2> QED BY <1>2, <2>1, <2>2 DEF Controls, Shared
<1>3. ASSUME NEW u \in Client, Requests(u) \/ Answers(u) PROVE LandInv'
  BY <1>3, LandAsks DEF Requests, Answers
<1>4. CASE Faults
  <2>1. CASE Crash /\ Others("none")
    <3>1. /\ UNCHANGED <<row, queueVars, applied>> /\ faults' = faults + 1
          /\ faults \in Nat /\ Alone
      BY <2>1 DEF Crash, Others, DeployUnchanged, LandInv, Alone
    <3>2. Alone' /\ RowsStay /\ faults' # 0
      BY <3>1 DEF Alone, RowsStay, queueVars
    <3> QED BY <3>1, <3>2, LandQuiet
  <2>2. CASE DeployFaults
    BY <2>2, LandAsks, LandReads DEF DeployFaults
  <2> QED BY <1>4, <2>1, <2>2 DEF Faults
<1>5. ~Background
  BY DEF Background
<1> QED BY <1>1, <1>2, <1>3, <1>4, <1>5 DEF ControlNext

LEMMA DeploymentsHold ==
  ControlSpec => [](kind = "deployment" => DeployInv /\ LandInv)
<1> DEFINE Inv == kind = "deployment" => DeployInv /\ LandInv
<1>1. ControlInit => Inv
  BY DeployInitInv, LandInitInv
<1>2. Inv /\ [ControlNext]_controlVars => Inv'
  BY DeployStepInv, LandStepInv, KindStays
<1> QED BY <1>1, <1>2, SafetyPart, PTL DEF ControlSafety

(* A revision of the Environment is consumed by one Deployment at most, one *)
(* reported SUCCEEDED has put its routes live, and without faults one       *)
(* reported FAILED has not (deployments/controller.py).                     *)
THEOREM AppliedOnce == ControlSpec => []DeploymentsApplyOnce
<1> DEFINE Inv == kind = "deployment" => DeployInv /\ LandInv
<1>1. Inv => DeploymentsApplyOnce
  <2> SUFFICES ASSUME kind = "deployment", DeployInv, LandInv PROVE DeploymentsApplyOnce
    BY DEF DeploymentsApplyOnce
  <2>1. \A j \in Job : row[j].status = "succeeded" => j \in applied
    BY DEF DeployInv, OrderHolds
  <2>2. ASSUME faults = 0, NEW j \in Job, row[j].status = "failed" PROVE j \notin applied
    <3> SUFFICES ASSUME j \in applied PROVE FALSE
      OBVIOUS
    <3>1. PICK c \in Controller : Lands(c, j)
      BY <2>2 DEF LandInv
    <3>2. Same(j, ctl[c].snap) /\ ctl[c].snap.status \in {"queued", "reconciling"}
      BY <2>2, <3>1 DEF LandInv, DeployInv, Fresh, DeployCtl, Lands
    <3> QED BY <2>2, <3>2 DEF Same
  <2> QED BY <2>1, <2>2 DEF LandInv, Consumed, DeploymentsApplyOnce
<1> QED BY <1>1, DeploymentsHold, PTL

(* Every route of the Environment fits the policy in force, or a rollback   *)
(* put it there, however promotions and policy changes interleave           *)
(* (deployments/service.py, deployments/controller.py).                     *)
THEOREM RoutesServe == ControlSpec => []RoutesResolve
<1> DEFINE Inv == kind = "deployment" => DeployInv /\ LandInv
<1>1. Inv => RoutesResolve
  BY DEF RoutesResolve, Resolves, Fits, DeployInv, RouteHolds
<1> QED BY <1>1, DeploymentsHold, PTL

-----------------------------------------------------------------------------
(* Previews.                                                                 *)

PreviewAt == {NoProgress}

PreviewTypes ==
  /\ JobTypes(PreviewAt) /\ faults \in Nat
  /\ quota \in [Job -> {"none", "reserved", "committed", "released"}]

(* The moves that are planned start from rows that have not ended; the      *)
(* reservation is released after the row has.                               *)
PreviewCtl(me) ==
  /\ me.pc # "idle" => me.job \in Job
  /\ me.pc = "move" =>
       /\ me.snap.status # "none" /\ ~Ended(me.snap.status)
       /\ me.want.status \in {"provisioning", "ready", "cancelled", "failed", "expired"}
  /\ me.pc = "release" => Ended(row[me.job].status)

PreviewClient(me) ==
  /\ me.pc # "idle" => me.job \in Job
  /\ me.pc = "cancel" => me.snap.status # "none" /\ ~Ended(me.snap.status)

Releases(c, j) == ctl[c].pc = "release" /\ ctl[c].job = j

Accounted(j) ==
  /\ row[j].status = "none" => quota[j] \in {"none", "reserved"}
  /\ row[j].status # "none" /\ ~Ended(row[j].status) => quota[j] = "reserved"
  /\ Ended(row[j].status) =>
       quota[j] = "released" \/ (quota[j] = "reserved" /\ \E c \in Actor : Releases(c, j))

(* A request that is about to store the row has reserved.                   *)
Reserved(me) == me.pc = "add" /\ row[me.job].status = "none" => quota[me.job] = "reserved"

PreviewInv ==
  /\ PreviewTypes
  /\ \A c \in Actor : PreviewCtl(ctl[c])
  /\ \A u \in Client : PreviewClient(client[u])
  /\ faults = 0 => /\ \A j \in Job : Accounted(j)
                   /\ \A u \in Client : Reserved(client[u])

(* What has ended stays as it ended.                                        *)
EndsStay == \A j \in Job : Ended(row[j].status) => row'[j] = row[j]

LEMMA PreviewGoesOn ==
  ASSUME PreviewInv, PreviewTypes', EndsStay,
         \A c \in Actor : ctl'[c] = ctl[c] \/ PreviewCtl(ctl[c])',
         \A u \in Client : client'[u] = client[u] \/ PreviewClient(client[u])',
         faults' = 0 => /\ \A j \in Job : Accounted(j)'
                        /\ \A u \in Client : Reserved(client[u])'
  PROVE  PreviewInv'
<1>1. ASSUME NEW c \in Actor PROVE PreviewCtl(ctl[c])'
  <2>1. CASE ctl'[c] = ctl[c]
    <3>1. PreviewCtl(ctl[c])
      BY DEF PreviewInv
    <3>2. PICK me : me = ctl[c]
      OBVIOUS
    <3>3. me.pc = "release" => row'[me.job] = row[me.job]
      BY <3>1, <3>2 DEF PreviewCtl, EndsStay
    <3> QED BY <2>1, <3>1, <3>2, <3>3 DEF PreviewCtl
  <2> QED BY <2>1
<1>2. ASSUME NEW u \in Client PROVE PreviewClient(client[u])'
  BY DEF PreviewInv, PreviewClient
<1> QED BY <1>1, <1>2 DEF PreviewInv

(* Neither a row nor a reservation changes.                                 *)
LEMMA PreviewQuiet ==
  ASSUME PreviewInv, PreviewTypes', UNCHANGED <<row, quota>>,
         \A c \in Actor : ctl'[c] = ctl[c] \/ PreviewCtl(ctl[c])',
         \A u \in Client : client'[u] = client[u] \/ PreviewClient(client[u])',
         \/ faults' # 0
         \/ /\ faults' = faults
            /\ \A c \in Actor : ctl'[c] = ctl[c] \/ ctl[c].pc # "release"
            /\ \A u \in Client : client'[u] = client[u] \/ client'[u].pc # "add"
  PROVE  PreviewInv'
<1>1. EndsStay
  BY DEF EndsStay
<1>2. ASSUME faults' = 0, NEW j \in Job PROVE Accounted(j)'
  <2>1. Accounted(j)
    BY <1>2 DEF PreviewInv
  <2>2. ASSUME NEW c \in Actor, Releases(c, j) PROVE Releases(c, j)'
    BY <1>2, <2>2 DEF Releases
  <2> QED BY <2>1, <2>2 DEF Accounted
<1>3. ASSUME faults' = 0, NEW u \in Client PROVE Reserved(client[u])'
  BY <1>3 DEF PreviewInv, Reserved
<1> QED BY <1>1, <1>2, <1>3, PreviewGoesOn

(* Only a controller, or the reaper, goes on.                               *)
LEMMA PreviewCtlQuiet ==
  ASSUME PreviewInv, NEW c \in Actor, ctl' \in [Actor -> CtlRows(PreviewAt)], OnlyMoves(c),
         PreviewCtl(ctl[c])', UNCHANGED <<row, quota, client>>,
         faults' = faults + 1 \/ (faults' = faults /\ ctl[c].pc # "release")
  PROVE  PreviewInv'
<1>1. PreviewTypes /\ faults \in Nat
  BY DEF PreviewInv, PreviewTypes
<1>2. PreviewTypes'
  BY <1>1 DEF PreviewTypes, JobTypes
<1>3. faults' # 0 \/ (faults' = faults /\ ctl[c].pc # "release")
  BY <1>1
<1>4. /\ \A d \in Actor : ctl'[d] = ctl[d] \/ PreviewCtl(ctl[d])'
      /\ \A d \in Actor : d # c => ctl'[d] = ctl[d]
      /\ \A u \in Client : client'[u] = client[u]
  BY DEF OnlyMoves
<1> QED BY <1>2, <1>3, <1>4, PreviewQuiet

LEMMA PreviewCtlFacts ==
  ASSUME PreviewInv, NEW c \in Actor, ctl[c].pc # "idle"
  PROVE  /\ PreviewCtl(ctl[c]) /\ ctl[c].job \in Job
         /\ ctl \in [Actor -> CtlRows(PreviewAt)] /\ ctl[c] \in CtlRows(PreviewAt)
         /\ ctl[c].snap \in JobRows(PreviewAt) /\ ctl[c].want \in JobRows(PreviewAt)
         /\ row[ctl[c].job] \in JobRows(PreviewAt) /\ NoProgress \in PreviewAt
<1>1. PreviewCtl(ctl[c]) /\ ctl[c] \in CtlRows(PreviewAt) /\ ctl \in [Actor -> CtlRows(PreviewAt)]
  BY DEF PreviewInv, PreviewTypes, JobTypes
<1>2. ctl[c].job \in Job
  BY <1>1 DEF PreviewCtl
<1> QED BY <1>1, <1>2 DEF PreviewInv, PreviewTypes, JobTypes, CtlRows

LEMMA PreviewGoes ==
  ASSUME PreviewInv, NEW c \in Actor, ctl[c].pc # "idle",
         NEW pc \in {"ack", "retry", "fail", "handle", "idle", "provision", "provisioned", "unprovisioned"},
         Go(c, pc), UNCHANGED <<row, quota, client>>,
         faults' = faults + 1 \/ (faults' = faults /\ ctl[c].pc # "release")
  PROVE  PreviewInv'
<1>1. /\ ctl' \in [Actor -> CtlRows(PreviewAt)] /\ OnlyMoves(c)
      /\ ctl'[c].pc = pc /\ ctl'[c].job = ctl[c].job
  BY PreviewCtlFacts, Goes DEF CtlPlaces
<1>2. PreviewCtl(ctl[c])'
  BY <1>1, PreviewCtlFacts DEF PreviewCtl
<1> QED BY <1>1, <1>2, PreviewCtlQuiet

LEMMA MovePreviewInv ==
  ASSUME PreviewInv, NEW c \in Actor, ctl[c].pc \notin {"idle", "release"},
         NEW target \in {"provisioning", "ready", "cancelled", "failed", "expired"},
         NEW err \in {"retry", "fail"}, MovePreview(c, row[ctl[c].job], target, err),
         UNCHANGED <<row, quota, client, faults>>
  PROVE  PreviewInv'
<1>1. PICK snap \in JobRows(PreviewAt) : snap = row[ctl[c].job]
  BY PreviewCtlFacts
<1>2. CASE Go(c, err)
  BY <1>2, PreviewGoes
<1>3. CASE target \in PreviewMoves(snap.status) /\ Plan(c, "move", snap, With(snap, target, snap.at), err)
  <2>1. target \in Statuses /\ snap.at \in PreviewAt
    BY DEF Statuses, JobRows
  <2>2. PICK want \in JobRows(PreviewAt) : want = With(snap, target, snap.at)
    BY <2>1, WithFacts
  <2>3. want.status = target
    BY <2>1, <2>2, WithFacts
  <2>4. Plan(c, "move", snap, want, err)
    BY <1>3, <2>2
  <2>5. /\ ctl' \in [Actor -> CtlRows(PreviewAt)] /\ OnlyMoves(c)
        /\ ctl'[c].pc = "move" /\ ctl'[c].job = ctl[c].job /\ ctl'[c].snap = snap
        /\ ctl'[c].want = want
    BY <2>4, PreviewCtlFacts, PlansOn DEF CtlPlaces
  <2>6. snap.status \in {"queued", "provisioning", "ready", "cancelling"}
    BY <1>3 DEF PreviewMoves
  <2>7. PreviewCtl(ctl[c])'
    BY <2>3, <2>5, <2>6, PreviewCtlFacts DEF PreviewCtl, Ended
  <2> QED BY <2>5, <2>7, PreviewCtlQuiet
<1> QED BY <1>1, <1>2, <1>3 DEF MovePreview

(* Reads, provisioning and moves that lose                                  *)
LEMMA PreviewReadsInv ==
  ASSUME PreviewInv, NEW c \in Actor,
         \/ ReadPreview(c) \/ Provision(c) \/ Provisioned(c) \/ Unprovisioned(c)
         \/ FailPreview(c) \/ MoveLoses(c)
  PROVE  PreviewInv'
<1>1. /\ ctl[c].pc \notin {"idle", "release"}
      /\ UNCHANGED <<row, quota, client, faults>>
  BY DEF ReadPreview, Provision, Provisioned, Unprovisioned, FailPreview, MoveLoses, At, OnlyCtl
<1>2. ASSUME NEW pc \in {"ack", "retry", "fail", "handle", "idle", "provision", "provisioned",
                         "unprovisioned"}, Go(c, pc)
      PROVE  PreviewInv'
  BY <1>1, <1>2, PreviewGoes
<1>3. ASSUME NEW target \in {"provisioning", "ready", "cancelled", "failed", "expired"},
             NEW err \in {"retry", "fail"}, MovePreview(c, row[ctl[c].job], target, err)
      PROVE  PreviewInv'
  BY <1>1, <1>3, MovePreviewInv
<1>4. CASE ReadPreview(c)
  BY <1>2, <1>3, <1>4 DEF ReadPreview
<1>5. CASE Provision(c)
  BY <1>2, <1>5 DEF Provision
<1>6. CASE Provisioned(c)
  BY <1>2, <1>3, <1>6 DEF Provisioned
<1>7. CASE Unprovisioned(c)
  BY <1>2, <1>3, <1>7 DEF Unprovisioned
<1>8. CASE FailPreview(c)
  BY <1>2, <1>3, <1>8 DEF FailPreview
<1>9. CASE MoveLoses(c)
  <2>1. ctl[c].err \in {"retry", "handle", "fail", "idle"}
    BY <1>1, PreviewCtlFacts DEF CtlRows
  <2>2. CASE Rest(c)
    <3>1. ctl' \in [Actor -> CtlRows(PreviewAt)] /\ OnlyMoves(c) /\ ctl'[c].pc = "idle"
      BY <1>1, <2>2, PreviewCtlFacts, RestsNow, NoRowFacts DEF PreviewAt
    <3> QED BY <1>1, <3>1, PreviewCtlQuiet DEF PreviewCtl
  <2> QED BY <1>2, <1>9, <2>1, <2>2 DEF MoveLoses
<1> QED BY <1>4, <1>5, <1>6, <1>7, <1>8, <1>9

LEMMA MoveWritesInv ==
  ASSUME PreviewInv, NEW c \in Actor, MoveWrites(c)
  PROVE  PreviewInv'
<1>1. PICK j, snap, want : j = ctl[c].job /\ snap = ctl[c].snap /\ want = ctl[c].want
  OBVIOUS
<1>2. /\ ctl[c].pc = "move" /\ Same(j, snap) /\ row' = [row EXCEPT ![j] = want]
      /\ UNCHANGED <<quota, client, faults>>
  BY <1>1 DEF MoveWrites, At, Store
<1>3. /\ j \in Job /\ snap.status # "none" /\ ~Ended(snap.status) /\ want \in JobRows(PreviewAt)
      /\ want.status \in {"provisioning", "ready", "cancelled", "failed", "expired"}
      /\ ctl \in [Actor -> CtlRows(PreviewAt)]
  BY <1>1, <1>2, PreviewCtlFacts DEF PreviewCtl
<1>4. row[j].status # "none" /\ ~Ended(row[j].status)
  BY <1>2, <1>3 DEF Same
<1>5. /\ row' \in [Job -> JobRows(PreviewAt)] /\ row'[j] = want
      /\ \A i \in Job : i # j => row'[i] = row[i]
  BY <1>2, <1>3 DEF PreviewInv, PreviewTypes, JobTypes
<1>6. PICK pc \in {"provision", "ack", "release"} :
        /\ Go(c, pc) /\ (pc = "release" <=> Ended(want.status))
  BY <1>1, <1>3 DEF MoveWrites, Ended
<1>7. /\ ctl' \in [Actor -> CtlRows(PreviewAt)] /\ OnlyMoves(c)
      /\ ctl'[c].pc = pc /\ ctl'[c].job = j
  BY <1>1, <1>3, <1>6, Goes DEF CtlPlaces
<1>8. PreviewTypes' /\ EndsStay
  BY <1>2, <1>4, <1>5, <1>7 DEF PreviewInv, PreviewTypes, JobTypes, EndsStay
<1>9. PreviewCtl(ctl[c])'
  BY <1>3, <1>5, <1>6, <1>7 DEF PreviewCtl
<1>10. /\ \A d \in Actor : ctl'[d] = ctl[d] \/ PreviewCtl(ctl[d])'
       /\ \A u \in Client : client'[u] = client[u]
  BY <1>2, <1>7, <1>9 DEF OnlyMoves
<1>11. ASSUME faults = 0, NEW i \in Job PROVE Accounted(i)'
  <2>1. Accounted(i) /\ (i = j => quota[i] = "reserved")
    BY <1>4, <1>11 DEF PreviewInv, Accounted
  <2>2. CASE i = j
    <3>1. Ended(want.status) => Releases(c, i)'
      BY <1>6, <1>7, <2>2 DEF Releases
    <3> QED BY <1>2, <1>3, <1>5, <2>1, <2>2, <3>1 DEF Accounted
  <2>3. CASE i # j
    <3>1. ASSUME NEW d \in Actor, Releases(d, i) PROVE Releases(d, i)'
      BY <1>2, <1>7, <3>1 DEF Releases, OnlyMoves
    <3> QED BY <1>2, <1>5, <2>1, <2>3, <3>1 DEF Accounted
  <2> QED BY <2>2, <2>3
<1>12. ASSUME faults = 0, NEW u \in Client PROVE Reserved(client[u])'
  <2>1. Reserved(client[u]) /\ PreviewClient(client[u])
    BY <1>12 DEF PreviewInv
  <2>2. PICK me : me = client[u]
    OBVIOUS
  <2>3. me.pc = "add" /\ row'[me.job].status = "none" => row[me.job].status = "none"
    BY <1>3, <1>5, <2>1, <2>2 DEF PreviewClient
  <2> QED BY <1>2, <2>1, <2>2, <2>3 DEF Reserved
<1> QED BY <1>2, <1>8, <1>10, <1>11, <1>12, PreviewGoesOn

LEMMA ReleaseSubjectInv ==
  ASSUME PreviewInv, NEW c \in Actor, ReleaseSubject(c)
  PROVE  PreviewInv'
<1>1. PICK j : j = ctl[c].job
  OBVIOUS
<1>2. /\ ctl[c].pc = "release" /\ UNCHANGED <<row, client, faults>>
      /\ quota' = [quota EXCEPT ![j] = IF @ = "reserved" THEN "released" ELSE @]
  BY <1>1 DEF ReleaseSubject, At, Release
<1>3. /\ j \in Job /\ Ended(row[j].status) /\ ctl \in [Actor -> CtlRows(PreviewAt)]
      /\ NoProgress \in PreviewAt
  BY <1>1, <1>2, PreviewCtlFacts DEF PreviewCtl
<1>4. ctl' \in [Actor -> CtlRows(PreviewAt)] /\ OnlyMoves(c) /\ ctl'[c].pc \in {"idle", "ack"}
      /\ (ctl'[c].pc = "ack" => ctl'[c].job = j)
  BY <1>1, <1>3, RestsNow, Goes, NoRowFacts DEF ReleaseSubject, CtlPlaces
<1>5. /\ quota' \in [Job -> {"none", "reserved", "committed", "released"}]
      /\ quota'[j] = IF quota[j] = "reserved" THEN "released" ELSE quota[j]
      /\ \A i \in Job : i # j => quota'[i] = quota[i]
  BY <1>2, <1>3 DEF PreviewInv, PreviewTypes
<1>6. PreviewTypes' /\ EndsStay
  BY <1>2, <1>4, <1>5 DEF PreviewInv, PreviewTypes, JobTypes, EndsStay
<1>7. /\ \A d \in Actor : ctl'[d] = ctl[d] \/ PreviewCtl(ctl[d])'
      /\ \A u \in Client : client'[u] = client[u]
  BY <1>2, <1>3, <1>4 DEF OnlyMoves, PreviewCtl
<1>8. ASSUME faults = 0, NEW i \in Job PROVE Accounted(i)'
  <2>1. Accounted(i)
    BY <1>8 DEF PreviewInv
  <2>2. CASE i = j
    <3>1. quota'[i] = "released"
      BY <1>3, <1>5, <2>1, <2>2 DEF Accounted
    <3> QED BY <1>2, <1>3, <2>2, <3>1 DEF Accounted, Ended
  <2>3. CASE i # j
    <3>1. ASSUME NEW d \in Actor, Releases(d, i) PROVE Releases(d, i)'
      BY <1>1, <1>4, <2>3, <3>1 DEF Releases, OnlyMoves
    <3> QED BY <1>2, <1>5, <2>1, <2>3, <3>1 DEF Accounted
  <2> QED BY <2>2, <2>3
<1>9. ASSUME faults = 0, NEW u \in Client PROVE Reserved(client[u])'
  <2>1. Reserved(client[u]) /\ PreviewClient(client[u])
    BY <1>9 DEF PreviewInv
  <2>2. PICK me : me = client[u]
    OBVIOUS
  <2>3. me.pc = "add" /\ row[me.job].status = "none" => me.job # j /\ me.job \in Job
    BY <1>3, <2>1, <2>2 DEF PreviewClient, Ended
  <2> QED BY <1>2, <1>5, <2>1, <2>2, <2>3 DEF Reserved
<1> QED BY <1>2, <1>6, <1>7, <1>8, <1>9, PreviewGoesOn

LEMMA ReapPreviewInv ==
  ASSUME PreviewInv, NEW j \in Job, ReapPreview(j)
  PROVE  PreviewInv'
<1>1. /\ ctl[Reaper].pc = "idle" /\ row[j].status # "none" /\ ~Ended(row[j].status)
      /\ UNCHANGED <<row, quota, client, faults>>
  BY DEF ReapPreview, At, OnlyCtl
<1>2. PICK snap \in JobRows(PreviewAt) : snap = row[j]
  BY DEF PreviewInv, PreviewTypes, JobTypes
<1>3. "expired" \in Statuses /\ snap.at \in PreviewAt
  BY DEF Statuses, JobRows
<1>4. PICK want \in JobRows(PreviewAt) : want = With(snap, "expired", snap.at)
  BY <1>3, WithFacts
<1>5. want.status = "expired"
  BY <1>3, <1>4, WithFacts
<1>6. PICK me : me = [pc |-> "move", job |-> j, snap |-> snap, want |-> want, err |-> "idle"]
  OBVIOUS
<1>7. me \in CtlRows(PreviewAt) /\ me.pc = "move" /\ me.job = j /\ me.snap = snap /\ me.want = want
  BY <1>6 DEF CtlRows, CtlPlaces
<1>8. ctl' = [ctl EXCEPT ![Reaper] = me]
  BY <1>2, <1>4, <1>6 DEF ReapPreview
<1>9. Reaper \in Actor /\ ctl \in [Actor -> CtlRows(PreviewAt)]
  BY DEF Actor, PreviewInv, PreviewTypes, JobTypes
<1>10. ctl' \in [Actor -> CtlRows(PreviewAt)] /\ OnlyMoves(Reaper) /\ ctl'[Reaper] = me
  BY <1>7, <1>8, <1>9 DEF OnlyMoves
<1>11. PreviewCtl(ctl[Reaper])'
  BY <1>1, <1>2, <1>5, <1>7, <1>10 DEF PreviewCtl
<1> QED BY <1>1, <1>9, <1>10, <1>11, PreviewCtlQuiet

LEMMA PreviewCallFailsInv ==
  ASSUME PreviewInv, NEW c \in Controller, PreviewCallFails(c)
  PROVE  PreviewInv'
<1>1. c \in Actor /\ ctl[c].pc # "idle" /\ faults' = faults + 1 /\ UNCHANGED <<row, quota, client>>
  BY DEF PreviewCallFails, Actor
<1>2. PICK pc \in {"retry", "fail"} : Go(c, pc)
  BY DEF PreviewCallFails
<1> QED BY <1>1, <1>2, PreviewGoes

(* The requests                                                             *)
LEMMA PreviewClientQuiet ==
  ASSUME PreviewInv, NEW u \in Client, client' \in [Client -> ClientRows(PreviewAt)], OnlyAsks(u),
         PreviewClient(client[u])', client'[u].pc # "add", UNCHANGED <<row, ctl, quota>>,
         UNCHANGED faults \/ faults' = faults + 1
  PROVE  PreviewInv'
<1>1. PreviewTypes /\ faults \in Nat
  BY DEF PreviewInv, PreviewTypes
<1>2. PreviewTypes'
  BY <1>1 DEF PreviewTypes, JobTypes
<1>3. faults' # 0 \/ faults' = faults
  BY <1>1
<1>4. /\ \A c \in Actor : ctl'[c] = ctl[c]
      /\ \A v \in Client : client'[v] = client[v] \/ PreviewClient(client[v])'
      /\ \A v \in Client : client'[v] = client[v] \/ client'[v].pc # "add"
  BY DEF OnlyAsks
<1> QED BY <1>2, <1>3, <1>4, PreviewQuiet

LEMMA PreviewClientFacts ==
  ASSUME PreviewInv, NEW u \in Client
  PROVE  /\ PreviewClient(client[u]) /\ client[u] \in ClientRows(PreviewAt)
         /\ client \in [Client -> ClientRows(PreviewAt)] /\ NoProgress \in PreviewAt
         /\ row \in [Job -> JobRows(PreviewAt)]
BY DEF PreviewInv, PreviewTypes, JobTypes

LEMMA PreviewAsksInv ==
  ASSUME PreviewInv, NEW u \in Client, PreviewAsks(u)
  PROVE  PreviewInv'
<1>1. PICK j \in Job : CreatePreview(u, j) \/ CancelBegin(u, j)
  <2>1. Target \subseteq Job
    BY SingleAssumption DEF Target
  <2> QED BY <2>1 DEF PreviewAsks
<1>2. UNCHANGED <<row, ctl, quota, faults>>
  BY <1>1 DEF CreatePreview, CancelBegin, OnlyClient
<1>3. PICK pc \in {"reserve", "cancel", "enqueue"}, snap \in JobRows(PreviewAt) :
        /\ Begin(u, pc, j, snap)
        /\ pc = "cancel" => snap.status # "none" /\ ~Ended(snap.status)
  <2>1. CASE CreatePreview(u, j)
    BY <2>1, NoRowFacts, PreviewClientFacts DEF CreatePreview
  <2>2. CASE CancelBegin(u, j)
    BY <2>2, PreviewClientFacts DEF CancelBegin
  <2> QED BY <1>1, <2>1, <2>2
<1>4. /\ client' \in [Client -> ClientRows(PreviewAt)] /\ OnlyAsks(u)
      /\ client'[u].pc = pc /\ client'[u].job = j /\ client'[u].snap = snap
  BY <1>3, PreviewClientFacts, Begins DEF ClientPlaces
<1>5. PreviewClient(client[u])'
  BY <1>3, <1>4 DEF PreviewClient
<1> QED BY <1>2, <1>4, <1>5, PreviewClientQuiet

LEMMA PreviewReservesInv ==
  ASSUME PreviewInv, NEW u \in Client, ReserveQuota(u, "add")
  PROVE  PreviewInv'
<1>1. PICK j : j = client[u].job
  OBVIOUS
<1>2. /\ client[u].pc = "reserve" /\ Ask(u, "add") /\ UNCHANGED <<row, ctl, faults>>
      /\ quota' = [quota EXCEPT ![j] = IF @ = "none" THEN "reserved" ELSE @]
  BY <1>1 DEF ReserveQuota, Asking, Reserve, OnlyClient
<1>3. j \in Job
  BY <1>1, <1>2, PreviewClientFacts DEF PreviewClient
<1>4. /\ client' \in [Client -> ClientRows(PreviewAt)] /\ OnlyAsks(u)
      /\ client'[u].pc = "add" /\ client'[u].job = j
  BY <1>1, <1>2, PreviewClientFacts, AsksNext DEF ClientPlaces
<1>5. /\ quota' \in [Job -> {"none", "reserved", "committed", "released"}]
      /\ quota'[j] = IF quota[j] = "none" THEN "reserved" ELSE quota[j]
      /\ \A i \in Job : quota'[i] = quota[i] \/ (i = j /\ quota[i] = "none")
  BY <1>2, <1>3 DEF PreviewInv, PreviewTypes
<1>6. PreviewTypes' /\ EndsStay /\ \A c \in Actor : ctl'[c] = ctl[c]
  BY <1>2, <1>4, <1>5 DEF PreviewInv, PreviewTypes, JobTypes, EndsStay
<1>7. \A v \in Client : client'[v] = client[v] \/ PreviewClient(client[v])'
  BY <1>3, <1>4 DEF PreviewClient, OnlyAsks
<1>8. ASSUME faults = 0, NEW i \in Job PROVE Accounted(i)'
  <2>1. Accounted(i)
    BY <1>8 DEF PreviewInv
  <2>2. \A c \in Actor : Releases(c, i) => Releases(c, i)'
    BY <1>2 DEF Releases
  <2>3. quota[i] = "none" => row[i].status = "none"
    BY <2>1 DEF Accounted
  <2>4. ~Ended("none")
    BY DEF Ended
  <2> QED BY <1>2, <1>3, <1>5, <2>1, <2>2, <2>3, <2>4 DEF Accounted
<1>9. ASSUME faults = 0, NEW v \in Client PROVE Reserved(client[v])'
  <2>1. CASE v = u
    <3>1. Accounted(j)
      BY <1>3, <1>9 DEF PreviewInv
    <3> QED BY <1>2, <1>4, <1>5, <2>1, <3>1 DEF Reserved, Accounted
  <2>2. CASE v # u
    <3>1. client'[v] = client[v] /\ Reserved(client[v]) /\ PreviewClient(client[v])
      BY <1>4, <1>9, <2>2 DEF PreviewInv, OnlyAsks
    <3>2. PICK me : me = client[v]
      OBVIOUS
    <3>3. me.pc = "add" => me.job \in Job
      BY <3>1, <3>2 DEF PreviewClient
    <3> QED BY <1>2, <1>5, <3>1, <3>2, <3>3 DEF Reserved
  <2> QED BY <2>1, <2>2
<1> QED BY <1>2, <1>6, <1>7, <1>8, <1>9, PreviewGoesOn

(* A row is added, or asked to be cancelled.                                *)
LEMMA PreviewStoresInv ==
  ASSUME PreviewInv, NEW u \in Client, NEW j \in Job, NEW new \in JobRows(PreviewAt),
         Store(j, new), new.status # "none", ~Ended(new.status), ~Ended(row[j].status),
         client[u].job = j, Ask(u, "enqueue"),
         faults = 0 => quota[j] = "reserved", UNCHANGED <<ctl, quota, faults>>
  PROVE  PreviewInv'
<1>1. /\ row' \in [Job -> JobRows(PreviewAt)] /\ row'[j] = new
      /\ \A i \in Job : i # j => row'[i] = row[i]
  BY PreviewClientFacts DEF Store
<1>2. /\ client' \in [Client -> ClientRows(PreviewAt)] /\ OnlyAsks(u)
      /\ client'[u].pc = "enqueue" /\ client'[u].job = j
  BY PreviewClientFacts, AsksNext DEF ClientPlaces
<1>3. PreviewTypes' /\ EndsStay /\ \A c \in Actor : ctl'[c] = ctl[c]
  BY <1>1, <1>2 DEF PreviewInv, PreviewTypes, JobTypes, EndsStay
<1>4. \A v \in Client : client'[v] = client[v] \/ PreviewClient(client[v])'
  BY <1>2 DEF PreviewClient, OnlyAsks
<1>5. ASSUME faults = 0, NEW i \in Job PROVE Accounted(i)'
  <2>1. Accounted(i)
    BY <1>5 DEF PreviewInv
  <2>2. \A c \in Actor : Releases(c, i) => Releases(c, i)'
    BY DEF Releases
  <2> QED BY <1>1, <1>5, <2>1, <2>2 DEF Accounted
<1>6. ASSUME faults = 0, NEW v \in Client PROVE Reserved(client[v])'
  <2>1. CASE v = u
    BY <1>2, <2>1 DEF Reserved
  <2>2. CASE v # u
    <3>1. client'[v] = client[v] /\ Reserved(client[v]) /\ PreviewClient(client[v])
      BY <1>2, <1>6, <2>2 DEF PreviewInv, OnlyAsks
    <3>2. PICK me : me = client[v]
      OBVIOUS
    <3>3. me.pc = "add" /\ row'[me.job].status = "none" => row[me.job].status = "none"
      BY <1>1, <3>1, <3>2 DEF PreviewClient
    <3> QED BY <3>1, <3>2, <3>3 DEF Reserved
  <2> QED BY <2>1, <2>2
<1> QED BY <1>3, <1>4, <1>5, <1>6, PreviewGoesOn

LEMMA PreviewAnswersInv ==
  ASSUME PreviewInv, NEW u \in Client,
         \/ AddPreview(u) \/ EnqueueTask(u, "idle") \/ CancelMove(u)
  PROVE  PreviewInv'
<1>1. PICK j, snap : j = client[u].job /\ snap = client[u].snap
  OBVIOUS
<1>2. /\ client[u].pc \in {"add", "enqueue", "cancel"} /\ UNCHANGED <<ctl, quota, faults>>
  BY DEF AddPreview, EnqueueTask, CancelMove, Asking, OnlyClient
<1>3. j \in Job /\ snap \in JobRows(PreviewAt) /\ PreviewClient(client[u])
  BY <1>1, <1>2, PreviewClientFacts DEF PreviewClient, ClientRows
<1>4. CASE Answer(u) /\ UNCHANGED row
  <2>1. client' \in [Client -> ClientRows(PreviewAt)] /\ OnlyAsks(u) /\ client'[u].pc = "idle"
    BY <1>4, PreviewClientFacts, AnswersNow
  <2> QED BY <1>2, <1>4, <2>1, PreviewClientQuiet DEF PreviewClient
<1>5. CASE AddPreview(u) /\ row[j].status = "none"
  <2>1. client[u].pc = "add"
    BY <1>5 DEF AddPreview, Asking
  <2>2. faults = 0 => quota[j] = "reserved"
    BY <1>1, <1>5, <2>1 DEF PreviewInv, Reserved
  <2>3. PICK new \in JobRows(PreviewAt) : new = [status |-> "queued", token |-> 0, at |-> NoProgress]
    BY PreviewClientFacts DEF JobRows, Statuses
  <2>4. new.status = "queued"
    BY <2>3
  <2>5. Store(j, new) /\ Ask(u, "enqueue")
    BY <1>1, <1>5, <2>3 DEF AddPreview
  <2> QED BY <1>1, <1>2, <1>3, <1>5, <2>2, <2>4, <2>5, PreviewStoresInv DEF Ended
<1>6. CASE CancelMove(u) /\ Same(j, snap)
  <2>1. snap.status # "none" /\ ~Ended(snap.status) /\ row[j].status = snap.status
    BY <1>1, <1>3, <1>6 DEF CancelMove, Asking, PreviewClient, Same
  <2>2. "cancelling" \in Statuses /\ snap.at \in PreviewAt
    BY <1>3 DEF Statuses, JobRows
  <2>3. PICK new \in JobRows(PreviewAt) : new = With(snap, "cancelling", snap.at)
    BY <1>3, <2>2, WithFacts
  <2>4. new.status = "cancelling"
    BY <1>3, <2>2, <2>3, WithFacts
  <2>5. Store(j, new) /\ Ask(u, "enqueue")
    BY <1>1, <1>6, <2>3 DEF CancelMove
  <2>6. faults = 0 => quota[j] = "reserved"
    BY <1>3, <2>1 DEF PreviewInv, Accounted
  <2> QED BY <1>1, <1>2, <1>3, <2>1, <2>4, <2>5, <2>6, PreviewStoresInv DEF Ended
<1> QED BY <1>1, <1>4, <1>5, <1>6 DEF AddPreview, EnqueueTask, CancelMove

LEMMA AddPreviewFailsInv ==
  ASSUME PreviewInv, NEW u \in Client, AddPreviewFails(u)
  PROVE  PreviewInv'
<1>1. PICK j : j = client[u].job
  OBVIOUS
<1>2. /\ client[u].pc = "add" /\ Answer(u) /\ UNCHANGED <<row, ctl>> /\ faults' = faults + 1
      /\ quota' = [quota EXCEPT ![j] = IF @ = "reserved" THEN "released" ELSE @]
  BY <1>1 DEF AddPreviewFails, Asking, Release
<1>3. j \in Job
  BY <1>1, <1>2, PreviewClientFacts DEF PreviewClient
<1>4. client' \in [Client -> ClientRows(PreviewAt)] /\ OnlyAsks(u) /\ client'[u].pc = "idle"
  BY <1>2, PreviewClientFacts, AnswersNow
<1>5. quota' \in [Job -> {"none", "reserved", "committed", "released"}]
  BY <1>2, <1>3 DEF PreviewInv, PreviewTypes
<1>6. faults' \in Nat /\ faults' # 0
  BY <1>2 DEF PreviewInv, PreviewTypes
<1>7. PreviewTypes' /\ EndsStay /\ \A c \in Actor : ctl'[c] = ctl[c]
  BY <1>2, <1>4, <1>5, <1>6 DEF PreviewInv, PreviewTypes, JobTypes, EndsStay
<1>8. \A v \in Client : client'[v] = client[v] \/ PreviewClient(client[v])'
  BY <1>4 DEF PreviewClient, OnlyAsks
<1> QED BY <1>6, <1>7, <1>8, PreviewGoesOn

(* A controller that takes, acknowledges or gives back a task was not about *)
(* to release, and whoever crashed has made a fault.                        *)
LEMMA PreviewForgets ==
  ASSUME PreviewInv, JobTypes(PreviewAt)', Forgets, UNCHANGED <<row, quota>>,
         \/ faults' = faults + 1
         \/ faults' = faults /\ \A c \in Actor : ctl'[c] = ctl[c] \/ ctl[c].pc # "release"
  PROVE  PreviewInv'
<1>1. PreviewTypes' /\ (faults' # 0 \/ faults' = faults)
  BY DEF PreviewInv, PreviewTypes
<1>2. ASSUME NEW c \in Actor PROVE ctl'[c] = ctl[c] \/ PreviewCtl(ctl[c])'
  <2>1. CASE ctl'[c] = IdleCtl
    BY <2>1, NoRowFacts DEF PreviewCtl, PreviewAt
  <2>2. ASSUME NEW j \in Job, ctl'[c] = Taken(j) PROVE PreviewCtl(ctl[c])'
    BY <2>2, TakenFacts DEF PreviewCtl, PreviewAt
  <2> QED BY <2>1, <2>2 DEF Forgets
<1>3. \A u \in Client : client'[u] = client[u] \/ (PreviewClient(client[u])' /\ client'[u].pc # "add")
  BY DEF Forgets, PreviewClient
<1>4. \/ faults' # 0
      \/ faults' = faults /\ \A c \in Actor : ctl'[c] = ctl[c] \/ ctl[c].pc # "release"
  BY DEF PreviewInv, PreviewTypes
<1> QED BY <1>1, <1>2, <1>3, <1>4, PreviewQuiet

LEMMA PreviewInitInv ==
  ASSUME ControlInit
  PROVE  PreviewInv
<1>1. JobInit /\ JobTypes(PreviewAt)
  BY InitTypes DEF ControlInit, PreviewInit, PreviewAt
<1>2. /\ \A c \in Actor : ctl[c].pc = "idle"
      /\ \A u \in Client : client[u].pc = "idle"
      /\ \A j \in Job : row[j].status = "none" /\ quota[j] = "none"
  BY <1>1, NoRowFacts DEF JobInit, PreviewAt
<1>3. PreviewTypes
  BY <1>1 DEF PreviewTypes, JobInit
<1> QED BY <1>2, <1>3 DEF PreviewInv, PreviewCtl, PreviewClient, Accounted, Reserved, Ended

LEMMA PreviewStepInv ==
  ASSUME PreviewInv, kind = "preview", [ControlNext]_controlVars
  PROVE  PreviewInv'
<1>0. PreviewTypes /\ faults \in Nat /\ JobTypes(PreviewAt)
  BY DEF PreviewInv, PreviewTypes
<1>1. CASE UNCHANGED controlVars \/ TimeToLivePasses
  <2>1. UNCHANGED <<row, ctl, client, quota, faults>>
    BY <1>1 DEF controlVars, jobVars, TimeToLivePasses
  <2>2. PreviewTypes'
    BY <1>0, <2>1 DEF PreviewTypes, JobTypes
  <2>3. /\ \A c \in Actor : ctl'[c] = ctl[c]
        /\ \A u \in Client : client'[u] = client[u]
    BY <2>1
  <2> QED BY <2>1, <2>2, <2>3, PreviewQuiet
<1>2. ASSUME NEW c \in Actor, PreviewControls(c) PROVE PreviewInv'
  BY <1>2, PreviewReadsInv, MoveWritesInv, ReleaseSubjectInv DEF PreviewControls
<1>3. ASSUME NEW c \in Controller, Shared(c) PROVE PreviewInv'
  <2>1. c \in Actor /\ NoProgress \in PreviewAt /\ ctl \in [Actor -> CtlRows(PreviewAt)]
    BY <1>0 DEF Actor, JobTypes
  <2>2. Forgets /\ JobTypes(PreviewAt)' /\ UNCHANGED <<row, quota>>
    BY <1>0, <1>3, SharedForgets
  <2>3. ctl[c].pc \in {"idle", "ack", "retry"} /\ OnlyMoves(c)
        /\ (faults' = faults \/ faults' = faults + 1)
    <3>1. CASE Acknowledge(c) \/ Retry(c)
      BY <2>1, <3>1, RestsNow DEF Acknowledge, Retry, At
    <3>2. ASSUME NEW j \in Job, Dequeue(c, j)
          PROVE  ctl[c].pc = "idle" /\ OnlyMoves(c) /\ (faults' = faults \/ faults' = faults + 1)
      <4>1. ctl' = [ctl EXCEPT ![c] = Taken(j)] /\ ctl[c].pc = "idle"
            /\ (faults' = faults \/ faults' = faults + 1)
        BY <3>2 DEF Dequeue, Taken, At
      <4> QED BY <2>1, <4>1 DEF OnlyMoves
    <3> QED BY <1>3, <3>1, <3>2 DEF Shared
  <2> QED BY <2>2, <2>3, PreviewForgets DEF OnlyMoves
<1>4. CASE Crash
  BY <1>0, <1>4, CrashForgets, PreviewForgets
<1>5. ASSUME NEW c \in Controller, Controls(c) PROVE PreviewInv'
  BY <1>2, <1>3, <1>5 DEF Controls, Shared, Actor
<1>6. ASSUME NEW u \in Client, Requests(u) \/ Answers(u) PROVE PreviewInv'
  BY <1>6, PreviewAsksInv, PreviewAnswersInv, PreviewReservesInv DEF Requests, Answers, PreviewAnswers
<1>7. CASE Background
  <2>1. Target \subseteq Job /\ Reaper \in Actor
    BY SingleAssumption DEF Target, Actor
  <2> QED BY <1>1, <1>2, <1>7, <2>1, ReapPreviewInv DEF Background
<1>8. CASE Faults
  BY <1>4, <1>8, AddPreviewFailsInv, PreviewCallFailsInv DEF Faults, PreviewFaults
<1> QED BY <1>1, <1>5, <1>6, <1>7, <1>8 DEF ControlNext

(* A Preview that has ended has given its ACTIVE_PREVIEWS reservation back  *)
(* or is about to, and one that has not ended holds it, for any number of   *)
(* requests, controllers and the reaper, while no call fails                *)
(* (studio/preview_service.py, studio/preview_controller.py).               *)
THEOREM PreviewsKeepAccount == ControlSpec => []PreviewsAccounted
<1> DEFINE Inv == kind = "preview" => PreviewInv
<1>1. ControlInit => Inv
  BY PreviewInitInv
<1>2. Inv /\ [ControlNext]_controlVars => Inv'
  BY PreviewStepInv, KindStays
<1>3. Inv => PreviewsAccounted
  BY DEF PreviewsAccounted, PreviewInv, Accounted, Releases, At
<1> QED BY <1>1, <1>2, <1>3, SafetyPart, PTL DEF ControlSafety

-----------------------------------------------------------------------------
(* State machines and fencing tokens, of the kinds that have them.          *)

Writes(r, new) == new.status \in Moves(r.status) /\ new.token = r.token + 1

(* What a controller is about to write is a move from the row it read.  The *)
(* reports of an Eval Run are a write before the last one.                  *)
CtlMoves(me) ==
  /\ me.pc \in {"move", "replace", "spawn", "poll", "addPassed"} => Writes(me.snap, me.want)
  /\ me.pc = "addFailed" => Writes(me.snap, me.want)
  /\ me.pc = "report" =>
       /\ me.snap.status \in {"running", "cancelling"} /\ me.want.status \in Moves(me.snap.status)
       /\ me.want.token = me.snap.token + 1 + 1
  /\ me.pc \in {"handle", "finalize"} \/ me.err = "handle" => me.snap.status = "running"
  /\ me.pc \in {"stop", "list", "addCancelled"} => me.snap.status = "cancelling"
  /\ me.pc \in {"environment", "apply"} => me.snap.status = "reconciling"
  /\ kind = "deployment" /\ me.err = "fail" => me.snap.status = "reconciling"

Cancels(status) == "cancelling" \in Moves(status)

ClientMoves(me) == me.pc = "cancel" => Cancels(me.snap.status)

RowKnown(r) == r.status \in {"none", "cancelling"} \/ Ended(r.status) \/ Cancels(r.status)

MoveInv ==
  /\ kind # "deployment" => \A j \in Job : RowKnown(row[j])
  /\ \A c \in Actor : CtlMoves(ctl[c])
  /\ \A u \in Client : ClientMoves(client[u])

RowsMove ==
  \A j \in Job : \/ row'[j] = row[j]
                 \/ row[j].status = "none" /\ row'[j].status = "queued"
                 \/ Writes(row[j], row'[j])

LEMMA TableFacts ==
  /\ kind = "preview" => \A s : Moves(s) = PreviewMoves(s)
  /\ kind = "eval" => \A s : Moves(s) = EvalTransitions(s) \cup ({s} \cap {"running", "cancelling"})
  /\ kind = "deployment" => \A s : Moves(s) = DeployTransitions(s)
BY DEF Moves

LEMMA RowsStayKnown ==
  ASSUME kind \in {"preview", "eval"}, UNCHANGED kind, RowsMove, NEW j \in Job, RowKnown(row[j])
  PROVE  RowKnown(row[j])'
<1>1. CASE row'[j] = row[j]
  BY <1>1 DEF RowKnown, Cancels, Moves
<1>2. CASE row'[j].status = "queued"
  BY <1>2 DEF RowKnown, Cancels, Moves, PreviewMoves, EvalTransitions
<1>3. CASE Writes(row[j], row'[j])
  BY <1>3 DEF RowKnown, Cancels, Writes, Moves, PreviewMoves, EvalTransitions, Ended
<1> QED BY <1>1, <1>2, <1>3 DEF RowsMove

(* A controller goes on, or a request does.                                 *)
LEMMA OneMoves ==
  ASSUME MoveInv, kind \in {"preview", "eval", "deployment"}, UNCHANGED kind, RowsMove,
         \A c \in Actor : ctl'[c] = ctl[c] \/ CtlMoves(ctl[c])',
         \A u \in Client : client'[u] = client[u] \/ ClientMoves(client[u])'
  PROVE  MoveInv'
<1>1. \A c \in Actor : CtlMoves(ctl[c])'
  <2> TAKE c \in Actor
  <2>1. CtlMoves(ctl[c])
    BY DEF MoveInv
  <2>2. CASE ctl'[c] = ctl[c]
    BY <2>1, <2>2 DEF CtlMoves, Writes, Moves
  <2> QED BY <2>2
<1>2. \A u \in Client : ClientMoves(client[u])'
  BY DEF MoveInv, ClientMoves, Cancels, Moves
<1>3. kind' # "deployment" => \A j \in Job : RowKnown(row[j])'
  BY RowsStayKnown DEF MoveInv
<1> QED BY <1>1, <1>2, <1>3 DEF MoveInv

(* The steps of a controller: it rests, goes on with its copies or plans.   *)
LEMMA MoveRests ==
  ASSUME NEW A, JobTypes(A), NEW c \in Actor, Rest(c)
  PROVE  OnlyMoves(c) /\ CtlMoves(ctl[c])'
<1>1. OnlyMoves(c) /\ ctl'[c] = IdleCtl
  BY RestsNow DEF JobTypes
<1>2. IdleCtl.pc = "idle" /\ IdleCtl.err = "retry"
  BY DEF IdleCtl
<1> QED BY <1>1, <1>2 DEF CtlMoves

LEMMA MoveGoes ==
  ASSUME NEW A, JobTypes(A), NEW c \in Actor, NEW pc, pc \in CtlPlaces, Go(c, pc),
         CtlMoves(ctl[c]), UNCHANGED kind,
         \/ pc \in {"idle", "read", "ack", "retry", "fail", "provision", "provisioned", "unprovisioned", "release"}
         \/ pc = "handle" /\ ctl[c].err = "handle"
         \/ pc \in {"replace", "poll", "addPassed", "addFailed"} /\ Writes(ctl[c].snap, ctl[c].want)
         \/ pc = "apply" /\ ctl[c].snap.status = "reconciling"
         \/ pc \in {"list", "addCancelled"} /\ ctl[c].snap.status = "cancelling"
  PROVE  OnlyMoves(c) /\ CtlMoves(ctl[c])'
<1>1. PICK me : me = ctl[c]
  OBVIOUS
<1>2. /\ OnlyMoves(c) /\ ctl'[c].pc = pc /\ ctl'[c].snap = me.snap
      /\ ctl'[c].want = me.want /\ ctl'[c].err = me.err
  BY <1>1, Goes DEF JobTypes
<1> QED BY <1>1, <1>2 DEF CtlMoves, Writes, Moves

LEMMA MovePlans ==
  ASSUME NEW A, JobTypes(A), NEW c \in Actor, NEW pc, NEW snap, NEW want, NEW err,
         Plan(c, pc, snap, want, err), UNCHANGED kind,
         \/ pc \in {"move", "replace", "spawn", "poll", "addFailed"} /\ Writes(snap, want)
         \/ /\ pc = "report" /\ snap.status \in {"running", "cancelling"}
            /\ want.status \in Moves(snap.status) /\ want.token = snap.token + 1 + 1
         \/ pc = "finalize" /\ snap.status = "running"
         \/ pc = "stop" /\ snap.status = "cancelling"
         \/ pc = "environment" /\ snap.status = "reconciling",
         err = "handle" => snap.status = "running",
         kind = "deployment" /\ err = "fail" => snap.status = "reconciling"
  PROVE  OnlyMoves(c) /\ CtlMoves(ctl[c])'
<1>1. /\ OnlyMoves(c) /\ ctl'[c].pc = pc /\ ctl'[c].snap = snap
      /\ ctl'[c].want = want /\ ctl'[c].err = err
  BY DEF Plan, OnlyMoves, JobTypes
<1> QED BY <1>1 DEF CtlMoves, Writes, Moves

(* A task is leased, acknowledged or given back, or somebody dies.          *)
LEMMA MoveForgets ==
  ASSUME NEW A, NoProgress \in A, MoveInv, kind \in {"preview", "eval", "deployment"}, Forgets, UNCHANGED <<kind, row>>
  PROVE  MoveInv'
<1>1. ASSUME NEW c \in Actor PROVE ctl'[c] = ctl[c] \/ CtlMoves(ctl[c])'
  <2>1. CASE ctl'[c] = IdleCtl
    BY <2>1 DEF IdleCtl, CtlMoves
  <2>2. ASSUME NEW j \in Job, ctl'[c] = Taken(j) PROVE CtlMoves(ctl[c])'
    BY <2>2, TakenFacts DEF CtlMoves
  <2> QED BY <2>1, <2>2 DEF Forgets
<1>2. \A u \in Client : client'[u] = client[u] \/ ClientMoves(client[u])'
  BY DEF Forgets, ClientMoves
<1>3. RowsMove
  BY DEF RowsMove
<1> QED BY <1>1, <1>2, <1>3, OneMoves

(* The rest of what the step of one controller leaves alone                 *)
LEMMA MoveCtlStep ==
  ASSUME MoveInv, kind \in {"preview", "eval", "deployment"}, NEW c \in Actor,
         OnlyMoves(c), CtlMoves(ctl[c])', RowsMove, UNCHANGED <<kind, client>>
  PROVE  MoveInv' /\ RowsMove
<1>1. \A d \in Actor : ctl'[d] = ctl[d] \/ CtlMoves(ctl[d])'
  BY DEF OnlyMoves
<1>2. \A u \in Client : client'[u] = client[u]
  OBVIOUS
<1> QED BY <1>1, <1>2, OneMoves

LEMMA MoveStores ==
  ASSUME NEW A, JobTypes(A), NEW j, NEW snap, NEW new, Same(j, snap), Store(j, new), Writes(snap, new)
  PROVE  RowsMove
<1>1. Writes(row[j], new)
  BY DEF Same, Writes
<1>2. \A i \in Job : row'[i] = IF i = j THEN new ELSE row[i]
  BY DEF Store, JobTypes
<1> QED BY <1>1, <1>2 DEF RowsMove

LEMMA WithWrites ==
  ASSUME NEW snap, NEW status, NEW at, status \in Moves(snap.status)
  PROVE  Writes(snap, With(snap, status, at))
BY DEF Writes, With

LEMMA PreviewWrites ==
  ASSUME PreviewInv, MoveInv, kind = "preview", NEW c \in Actor, PreviewControls(c)
  PROVE  MoveInv' /\ RowsMove
<1>1. /\ JobTypes(PreviewAt) /\ CtlMoves(ctl[c]) /\ UNCHANGED <<kind, client>>
      /\ ctl[c].err \in {"retry", "handle", "fail", "idle"}
  BY DEF PreviewInv, PreviewTypes, JobTypes, MoveInv, CtlMoves, CtlRows, PreviewControls, MoveWrites, MoveLoses,
         ReleaseSubject, ReadPreview, Provision, Provisioned, Unprovisioned, FailPreview, OnlyCtl
<1>2. ASSUME OnlyMoves(c) /\ CtlMoves(ctl[c])', RowsMove PROVE MoveInv' /\ RowsMove
  BY <1>1, <1>2, MoveCtlStep
<1>3. ASSUME NEW pc \in {"ack", "retry", "fail", "idle", "provision", "provisioned",
                         "unprovisioned", "release"}, Go(c, pc)
      PROVE  OnlyMoves(c) /\ CtlMoves(ctl[c])'
  BY <1>1, <1>3, MoveGoes DEF CtlPlaces
<1>4. ASSUME Rest(c) PROVE OnlyMoves(c) /\ CtlMoves(ctl[c])'
  BY <1>1, <1>4, MoveRests
<1>5. ASSUME NEW snap, NEW target, NEW err \in {"retry", "fail"}, MovePreview(c, snap, target, err)
      PROVE  OnlyMoves(c) /\ CtlMoves(ctl[c])'
  <2>1. CASE Go(c, err)
    BY <1>3, <2>1
  <2>2. CASE target \in PreviewMoves(snap.status) /\ Plan(c, "move", snap, With(snap, target, snap.at), err)
    <3>1. Writes(snap, With(snap, target, snap.at))
      BY <2>2, TableFacts, WithWrites
    <3> QED BY <1>1, <2>2, <3>1, MovePlans
  <2> QED BY <1>5, <2>1, <2>2 DEF MovePreview
<1>6. CASE ReadPreview(c) \/ Provision(c) \/ Provisioned(c) \/ Unprovisioned(c) \/ FailPreview(c)
  <2>1. UNCHANGED row
    BY <1>6 DEF ReadPreview, Provision, Provisioned, Unprovisioned, FailPreview, OnlyCtl
  <2>2. OnlyMoves(c) /\ CtlMoves(ctl[c])'
    BY <1>3, <1>5, <1>6 DEF ReadPreview, Provision, Provisioned, Unprovisioned, FailPreview
  <2> QED BY <1>2, <2>1, <2>2 DEF RowsMove
<1>7. CASE MoveLoses(c) \/ ReleaseSubject(c)
  <2>1. UNCHANGED row
    BY <1>7 DEF MoveLoses, ReleaseSubject, OnlyCtl
  <2>2. ASSUME Go(c, ctl[c].err) PROVE OnlyMoves(c) /\ CtlMoves(ctl[c])'
    <3>1. CASE ctl[c].err = "handle"
      BY <1>1, <2>2, <3>1, MoveGoes DEF CtlPlaces
    <3> QED BY <1>1, <1>3, <2>2, <3>1
  <2>3. OnlyMoves(c) /\ CtlMoves(ctl[c])'
    BY <1>3, <1>4, <1>7, <2>2 DEF MoveLoses, ReleaseSubject
  <2> QED BY <1>2, <2>1, <2>3 DEF RowsMove
<1>8. CASE MoveWrites(c)
  <2>1. Same(ctl[c].job, ctl[c].snap) /\ Store(ctl[c].job, ctl[c].want) /\ ctl[c].pc = "move"
    BY <1>8 DEF MoveWrites, At
  <2>2. Writes(ctl[c].snap, ctl[c].want)
    BY <1>1, <2>1 DEF CtlMoves
  <2>3. RowsMove
    BY <1>1, <2>1, <2>2, MoveStores
  <2>4. OnlyMoves(c) /\ CtlMoves(ctl[c])'
    BY <1>3, <1>8 DEF MoveWrites
  <2> QED BY <1>2, <2>3, <2>4
<1> QED BY <1>6, <1>7, <1>8 DEF PreviewControls

LEMMA ReapWrites ==
  ASSUME PreviewInv, MoveInv, kind = "preview", NEW j \in Job, ReapPreview(j)
  PROVE  MoveInv' /\ RowsMove
<1>1. JobTypes(PreviewAt) /\ RowKnown(row[j]) /\ Reaper \in Actor
  BY DEF PreviewInv, PreviewTypes, MoveInv, Actor
<1>2. /\ row[j].status # "none" /\ ~Ended(row[j].status) /\ UNCHANGED <<kind, row, client>>
      /\ ctl' = [ctl EXCEPT ![Reaper] =
               [pc |-> "move", job |-> j, snap |-> row[j],
                want |-> With(row[j], "expired", row[j].at), err |-> "idle"]]
  BY DEF ReapPreview, OnlyCtl
<1>3. "expired" \in Moves(row[j].status)
  BY <1>1, <1>2 DEF RowKnown, Cancels, Moves, PreviewMoves
<1>4. Writes(row[j], With(row[j], "expired", row[j].at))
  BY <1>3, WithWrites
<1>5. /\ OnlyMoves(Reaper) /\ ctl'[Reaper].pc = "move" /\ ctl'[Reaper].snap = row[j]
      /\ ctl'[Reaper].want = With(row[j], "expired", row[j].at) /\ ctl'[Reaper].err = "idle"
  BY <1>1, <1>2 DEF OnlyMoves, JobTypes
<1>6. CtlMoves(ctl[Reaper])' /\ RowsMove
  BY <1>2, <1>4, <1>5 DEF CtlMoves, Writes, Moves, RowsMove
<1> QED BY <1>1, <1>2, <1>5, <1>6, MoveCtlStep

LEMMA DeployWrites ==
  ASSUME DeployInv, MoveInv, kind = "deployment", NEW c \in Controller,
         DeployControls(c) \/ DeployCallFails(c)
  PROVE  MoveInv' /\ RowsMove
<1>1. /\ JobTypes(DeployAt) /\ CtlMoves(ctl[c]) /\ UNCHANGED <<kind, client>> /\ c \in Actor
  BY DEF DeployInv, DeployTypes, MoveInv, Actor, DeployControls, ReadDeployment, ReadEnvironment, ApplyRoutes,
         MoveDeployment, DeployCallFails, OnlyCtl
<1>2. ASSUME OnlyMoves(c) /\ CtlMoves(ctl[c])', RowsMove PROVE MoveInv' /\ RowsMove
  BY <1>1, <1>2, MoveCtlStep
<1>3. ASSUME NEW pc \in {"ack", "retry"}, Go(c, pc)
      PROVE  OnlyMoves(c) /\ CtlMoves(ctl[c])'
  BY <1>1, <1>3, MoveGoes DEF CtlPlaces
<1>4. ASSUME NEW snap, NEW status, NEW err \in {"retry", "fail"}, MoveTo(c, snap, status, err),
             status \in DeployTransitions(snap.status),
             err = "fail" => snap.status = "reconciling"
      PROVE  OnlyMoves(c) /\ CtlMoves(ctl[c])'
  <2>1. Writes(snap, With(snap, status, snap.at))
    BY <1>4, TableFacts, WithWrites
  <2> QED BY <1>1, <1>4, <2>1, MovePlans DEF MoveTo
<1>5. CASE ReadDeployment(c)
  <2>1. UNCHANGED row
    BY <1>5 DEF ReadDeployment, OnlyCtl
  <2>2. ASSUME row[ctl[c].job].status = "reconciling", Plan(c, "environment", row[ctl[c].job], NoRow, "fail")
        PROVE  OnlyMoves(c) /\ CtlMoves(ctl[c])'
    BY <1>1, <2>2, MovePlans
  <2>3. ASSUME row[ctl[c].job].status = "queued", MoveTo(c, row[ctl[c].job], "reconciling", "retry")
        PROVE  OnlyMoves(c) /\ CtlMoves(ctl[c])'
    BY <1>4, <2>3 DEF DeployTransitions
  <2>4. OnlyMoves(c) /\ CtlMoves(ctl[c])'
    BY <1>3, <1>5, <2>2, <2>3 DEF ReadDeployment
  <2> QED BY <1>2, <2>1, <2>4 DEF RowsMove
<1>6. CASE ReadEnvironment(c) \/ ApplyRoutes(c)
  <2>1. UNCHANGED row /\ ctl[c].snap.status = "reconciling"
    BY <1>1, <1>6 DEF ReadEnvironment, ApplyRoutes, OnlyCtl, At, CtlMoves
  <2>2. ASSUME NEW status \in {"succeeded", "failed"}, NEW err \in {"retry", "fail"},
               MoveTo(c, ctl[c].snap, status, err)
        PROVE  OnlyMoves(c) /\ CtlMoves(ctl[c])'
    BY <1>4, <2>1, <2>2 DEF DeployTransitions
  <2>3. ASSUME Go(c, "apply") PROVE OnlyMoves(c) /\ CtlMoves(ctl[c])'
    <3>1. "apply" \in CtlPlaces
      BY DEF CtlPlaces
    <3> QED BY <1>1, <2>1, <2>3, <3>1, MoveGoes
  <2>4. OnlyMoves(c) /\ CtlMoves(ctl[c])'
    BY <1>6, <2>2, <2>3 DEF ReadEnvironment, ApplyRoutes
  <2> QED BY <1>2, <2>1, <2>4 DEF RowsMove
<1>7. CASE MoveDeployment(c)
  <2>1. PICK j, snap, want : j = ctl[c].job /\ snap = ctl[c].snap /\ want = ctl[c].want
    OBVIOUS
  <2>2. Writes(snap, want)
    BY <1>1, <1>7, <2>1 DEF MoveDeployment, At, CtlMoves
  <2>3. CASE Same(j, snap)
    <3>1. Store(j, want)
      BY <1>7, <2>1, <2>3 DEF MoveDeployment
    <3> QED BY <1>1, <1>2, <1>3, <1>7, <2>2, <2>3, <3>1, MoveStores DEF MoveDeployment
  <2>4. CASE ~Same(j, snap)
    <3>1. row' = row
      BY <1>1, <1>7, <2>1, <2>4 DEF MoveDeployment, Store, JobTypes
    <3> QED BY <1>2, <1>3, <1>7, <3>1 DEF MoveDeployment, RowsMove
  <2> QED BY <2>3, <2>4
<1>8. CASE DeployCallFails(c)
  <2>1. UNCHANGED row
    BY <1>8 DEF DeployCallFails
  <2>2. ASSUME ctl[c].err = "fail", MoveTo(c, ctl[c].snap, "failed", "retry")
        PROVE  OnlyMoves(c) /\ CtlMoves(ctl[c])'
    <3>1. ctl[c].snap.status = "reconciling"
      BY <1>1, <2>2 DEF CtlMoves
    <3> QED BY <1>4, <2>2, <3>1 DEF DeployTransitions
  <2>3. OnlyMoves(c) /\ CtlMoves(ctl[c])'
    BY <1>3, <1>8, <2>2 DEF DeployCallFails
  <2> QED BY <1>2, <2>1, <2>3 DEF RowsMove
<1> QED BY <1>5, <1>6, <1>7, <1>8 DEF DeployControls

LEMMA EvalWrites ==
  ASSUME EvalInv, MoveInv, kind = "eval", NEW c \in Actor, EvalControls(c) \/ EvalCallFails(c)
  PROVE  MoveInv' /\ RowsMove
<1>1. /\ JobTypes(EvalAt) /\ CtlMoves(ctl[c]) /\ UNCHANGED <<kind, client>>
      /\ ctl[c].err \in {"retry", "handle", "fail", "idle"}
  BY DEF EvalInv, JobTypes, MoveInv, CtlRows, EvalControls, ReadEval, Replace, Spawn, Poll, AddResult, Handle,
         CancelChild, ListResults, AddCancelled, Finalize, WriteReports, EvalCallFails, OnlyCtl
<1>2. ASSUME OnlyMoves(c) /\ CtlMoves(ctl[c])', RowsMove PROVE MoveInv' /\ RowsMove
  BY <1>1, <1>2, MoveCtlStep
<1>3. ASSUME NEW pc \in {"ack", "retry", "fail", "idle"}, Go(c, pc)
      PROVE  OnlyMoves(c) /\ CtlMoves(ctl[c])'
  BY <1>1, <1>3, MoveGoes DEF CtlPlaces
<1>4. ASSUME Go(c, ctl[c].err) PROVE OnlyMoves(c) /\ CtlMoves(ctl[c])'
  <2>1. CASE ctl[c].err = "handle"
    <3>1. "handle" \in CtlPlaces
      BY DEF CtlPlaces
    <3> QED BY <1>1, <1>4, <2>1, <3>1, MoveGoes
  <2> QED BY <1>1, <1>3, <1>4, <2>1
<1>5. ASSUME NEW pc \in {"replace", "addPassed", "addFailed"}, Go(c, pc), Writes(ctl[c].snap, ctl[c].want)
      PROVE  OnlyMoves(c) /\ CtlMoves(ctl[c])'
  <2>1. pc \in CtlPlaces
    BY DEF CtlPlaces
  <2> QED BY <1>1, <1>5, <2>1, MoveGoes
<1>6. ASSUME NEW pc \in {"list", "addCancelled"}, Go(c, pc), ctl[c].snap.status = "cancelling"
      PROVE  OnlyMoves(c) /\ CtlMoves(ctl[c])'
  <2>1. pc \in CtlPlaces
    BY DEF CtlPlaces
  <2> QED BY <1>1, <1>6, <2>1, MoveGoes
<1>7. ASSUME NEW pc \in {"replace", "spawn", "poll", "addFailed"}, NEW snap, NEW want, NEW err \in {"retry", "handle"},
             Plan(c, pc, snap, want, err), Writes(snap, want), err = "handle" => snap.status = "running"
      PROVE  OnlyMoves(c) /\ CtlMoves(ctl[c])'
  BY <1>1, <1>7, MovePlans
<1>8. ASSUME NEW snap, snap.status = "running", NEW phase
      PROVE  Writes(snap, InPhase(snap, phase)) /\ Writes(snap, NextCase(snap))
  <2>1. "running" \in Moves(snap.status)
    BY <1>8, TableFacts
  <2> QED BY <2>1 DEF Writes, With, InPhase, NextCase
<1>9. ASSUME NEW status, Outcome(c, status), status \in EvalTransitions(ctl[c].snap.status),
             ctl[c].snap.status \in {"running", "cancelling"}
      PROVE  OnlyMoves(c) /\ CtlMoves(ctl[c])'
  <2>1. PICK snap : snap = ctl[c].snap
    OBVIOUS
  <2>2. status \in Moves(snap.status)
    BY <1>9, <2>1, TableFacts
  <2>3. CASE Plan(c, "replace", snap, With(snap, status, snap.at), "retry")
    <3>1. Writes(snap, With(snap, status, snap.at))
      BY <2>2, WithWrites
    <3> QED BY <1>7, <2>3, <3>1
  <2>4. CASE \E at : LET reported == With(snap, snap.status, at)
                    IN  Plan(c, "report", snap, With(reported, status, reported.at), "retry")
    <3>1. PICK at, want : /\ want = With(With(snap, snap.status, at), status, With(snap, snap.status, at).at)
                          /\ Plan(c, "report", snap, want, "retry")
      BY <2>4
    <3>2. want.status = status /\ want.token = snap.token + 1 + 1
      BY <3>1 DEF With
    <3> QED BY <1>1, <1>9, <2>1, <2>2, <3>1, <3>2, MovePlans
  <2> QED BY <1>9, <2>1, <2>3, <2>4 DEF Outcome
<1>10. CASE ~Replace(c) /\ ~WriteReports(c)
  <2>1. RowsMove
    BY <1>10 DEF RowsMove, EvalControls, ReadEval, Spawn, Poll, AddResult, Handle, CancelChild, ListResults,
         AddCancelled, Finalize, EvalCallFails, OnlyCtl
  <2>2. CASE ReadEval(c)
    <3>1. PICK now : now = row[ctl[c].job]
      OBVIOUS
    <3>2. CASE Ended(now.status) /\ Go(c, "ack")
      BY <1>2, <1>3, <2>1, <3>2
    <3>3. CASE now.status = "cancelling" /\ Plan(c, "stop", now, NoRow, "retry")
      BY <1>1, <1>2, <2>1, <3>3, MovePlans
    <3>4. CASE now.status = "queued" /\ Plan(c, "replace", now, With(now, "running", now.at), "retry")
      <4>1. Writes(now, With(now, "running", now.at))
        BY <3>4, TableFacts, WithWrites DEF EvalTransitions
      <4> QED BY <1>2, <1>7, <2>1, <3>4, <4>1
    <3>5. CASE now.status = "running" /\ Plan(c, "finalize", now, NoRow, "retry")
      BY <1>1, <1>2, <2>1, <3>5, MovePlans
    <3>6. ASSUME now.status = "running", NEW phase \in {"started", "uploaded", "child"},
                 NEW pc \in {"replace", "spawn"}, Plan(c, pc, now, InPhase(now, phase), "handle")
          PROVE  MoveInv' /\ RowsMove
      BY <1>2, <1>7, <1>8, <2>1, <3>6
    <3>7. CASE now.status = "running" /\ Plan(c, "poll", now, NextCase(now), "handle")
      BY <1>2, <1>7, <1>8, <2>1, <3>7
    <3> QED BY <2>2, <3>1, <3>2, <3>3, <3>4, <3>5, <3>6, <3>7 DEF ReadEval
  <2>4. CASE Spawn(c) \/ Poll(c) \/ AddResult(c)
    <3>1. Writes(ctl[c].snap, ctl[c].want)
      BY <1>1, <2>4 DEF Spawn, Poll, AddResult, At, CtlMoves
    <3>2. \/ Go(c, "replace") \/ Go(c, "addPassed") \/ Go(c, "addFailed") \/ Go(c, "retry")
          \/ Go(c, ctl[c].err)
      BY <2>4 DEF Spawn, Poll, AddResult
    <3> QED BY <1>2, <1>3, <1>4, <1>5, <2>1, <3>1, <3>2
  <2>5. CASE Handle(c)
    <3>1. ctl[c].snap.status = "running" /\ Plan(c, "addFailed", ctl[c].snap, NextCase(ctl[c].snap), "retry")
      BY <1>1, <2>5 DEF Handle, At, CtlMoves
    <3> QED BY <1>2, <1>7, <1>8, <2>1, <3>1
  <2>6. CASE CancelChild(c) \/ ListResults(c) \/ AddCancelled(c)
    <3>1. ctl[c].snap.status = "cancelling"
      BY <1>1, <2>6 DEF CancelChild, ListResults, AddCancelled, At, CtlMoves
    <3>2. Go(c, "list") \/ Go(c, "addCancelled") \/ Go(c, "retry") \/ Outcome(c, "cancelled")
      BY <2>6 DEF CancelChild, ListResults, AddCancelled
    <3>3. Outcome(c, "cancelled") => OnlyMoves(c) /\ CtlMoves(ctl[c])'
      BY <1>9, <3>1 DEF EvalTransitions
    <3> QED BY <1>2, <1>3, <1>6, <2>1, <3>1, <3>2, <3>3
  <2>7. CASE Finalize(c)
    <3>1. ctl[c].snap.status = "running" /\ (Outcome(c, "passed") \/ Outcome(c, "failed"))
      BY <1>1, <2>7 DEF Finalize, At, CtlMoves
    <3> QED BY <1>2, <1>9, <2>1, <3>1 DEF EvalTransitions
  <2>8. CASE EvalCallFails(c)
    BY <1>2, <1>4, <2>1, <2>8 DEF EvalCallFails
  <2> QED BY <1>10, <2>2, <2>4, <2>5, <2>6, <2>7, <2>8 DEF EvalControls
<1>11. CASE Replace(c)
  <2>1. PICK j, snap, want : j = ctl[c].job /\ snap = ctl[c].snap /\ want = ctl[c].want
    OBVIOUS
  <2>2. CASE Same(j, snap) /\ Store(j, want)
    <3>1. Writes(snap, want)
      BY <1>1, <1>11, <2>1 DEF Replace, At, CtlMoves
    <3>2. RowsMove
      BY <1>1, <2>2, <3>1, MoveStores
    <3>3. Go(c, "ack") \/ Go(c, "retry") \/ Go(c, ctl[c].err)
      BY <1>11 DEF Replace
    <3> QED BY <1>2, <1>3, <1>4, <3>2, <3>3
  <2>3. CASE UNCHANGED row /\ Go(c, ctl[c].err)
    BY <1>2, <1>4, <2>3 DEF RowsMove
  <2> QED BY <1>11, <2>1, <2>2, <2>3 DEF Replace
<1>12. CASE WriteReports(c)
  <2>1. PICK j, snap, want : j = ctl[c].job /\ snap = ctl[c].snap /\ want = ctl[c].want
    OBVIOUS
  <2>2. /\ snap.status \in {"running", "cancelling"} /\ want.status \in Moves(snap.status)
        /\ want.token = snap.token + 1 + 1
    BY <1>1, <1>12, <2>1 DEF WriteReports, At, CtlMoves
  <2>3. ASSUME NEW reported, reported = With(snap, snap.status, [snap.at EXCEPT !.reports = TRUE]),
               Same(j, snap), Store(j, reported), Plan(c, "replace", reported, want, "retry")
        PROVE  MoveInv' /\ RowsMove
    <3>1. reported.status = snap.status /\ reported.token = snap.token + 1
      BY <2>3 DEF With
    <3>2. Writes(snap, reported)
      BY <2>2, <3>1, TableFacts DEF Writes
    <3>3. Writes(reported, want)
      BY <2>2, <3>1 DEF Writes
    <3>4. RowsMove
      BY <1>1, <2>3, <3>2, MoveStores
    <3> QED BY <1>2, <1>7, <2>3, <3>3, <3>4
  <2>4. CASE UNCHANGED row /\ Go(c, "retry")
    BY <1>2, <1>3, <2>4 DEF RowsMove
  <2> QED BY <1>12, <2>1, <2>3, <2>4 DEF WriteReports
<1> QED BY <1>10, <1>11, <1>12

(* The requests of every kind                                               *)
LEMMA RequestMoves ==
  ASSUME NEW A, JobTypes(A), NoProgress \in A, MoveInv, kind \in {"preview", "eval", "deployment"},
         NEW u \in Client,
         \/ /\ \E pc \in {"add", "enqueue", "reserve", "policy"} : \E j, snap : Begin(u, pc, j, snap)
            /\ UNCHANGED row
         \/ \E j \in Job : CancelBegin(u, j) /\ kind # "deployment"
         \/ CancelMove(u)
         \/ (Answer(u) \/ \E pc \in {"add", "enqueue", "snapshot", "commit"} : Ask(u, pc)) /\ UNCHANGED row
         \/ /\ Ask(u, "enqueue")
            /\ \E j, new : row[j].status = "none" /\ new.status = "queued" /\ Store(j, new),
         UNCHANGED <<kind, ctl>>
  PROVE  MoveInv' /\ RowsMove
<1>1. ASSUME OnlyAsks(u), ClientMoves(client[u])', RowsMove PROVE MoveInv' /\ RowsMove
  <2>1. /\ \A c \in Actor : ctl'[c] = ctl[c]
        /\ \A v \in Client : client'[v] = client[v] \/ ClientMoves(client[v])'
    BY <1>1 DEF OnlyAsks
  <2> QED BY <1>1, <2>1, OneMoves
<1>2. client \in [Client -> ClientRows(A)] /\ row \in [Job -> JobRows(A)]
  BY DEF JobTypes
<1>3. ASSUME NEW pc, NEW j, NEW snap, Begin(u, pc, j, snap)
      PROVE  OnlyAsks(u) /\ client'[u].pc = pc /\ client'[u].snap = snap
  BY <1>2, <1>3 DEF Begin, OnlyAsks
<1>4. ASSUME NEW pc \in {"add", "enqueue", "snapshot", "commit"}, Ask(u, pc)
      PROVE  OnlyAsks(u) /\ ClientMoves(client[u])'
  BY <1>2, <1>4, AsksNext DEF ClientPlaces, ClientMoves
<1>5. ASSUME Answer(u) PROVE OnlyAsks(u) /\ ClientMoves(client[u])'
  BY <1>2, <1>5, AnswersNow DEF ClientMoves
<1>6. ASSUME NEW pc \in {"add", "enqueue", "reserve", "policy"}, NEW j, NEW snap,
             Begin(u, pc, j, snap), UNCHANGED row
      PROVE  MoveInv' /\ RowsMove
  BY <1>1, <1>3, <1>6 DEF ClientMoves, RowsMove
<1>7. ASSUME NEW j \in Job, CancelBegin(u, j), kind # "deployment" PROVE MoveInv' /\ RowsMove
  <2>1. PICK pc, snap : /\ snap = row[j] /\ Begin(u, pc, j, snap) /\ UNCHANGED row
                        /\ pc = "cancel" => Cancellable(snap.status)
    BY <1>7 DEF CancelBegin
  <2>2. OnlyAsks(u) /\ client'[u].pc = pc /\ client'[u].snap = snap
    BY <1>3, <2>1
  <2>3. pc = "cancel" => Cancels(snap.status)
    BY <1>7, <2>1 DEF MoveInv, RowKnown, Cancellable
  <2>4. ClientMoves(client[u])' /\ RowsMove
    BY <2>1, <2>2, <2>3 DEF ClientMoves, Cancels, Moves, RowsMove
  <2> QED BY <1>1, <2>2, <2>4
<1>8. CASE CancelMove(u)
  <2>1. PICK j, snap, new : /\ j = client[u].job /\ snap = client[u].snap
                            /\ new = With(snap, "cancelling", snap.at)
    OBVIOUS
  <2>2. Cancels(snap.status)
    BY <1>8, <2>1 DEF CancelMove, Asking, MoveInv, ClientMoves
  <2>3. Writes(snap, new)
    BY <2>1, <2>2, WithWrites DEF Cancels
  <2>4. CASE Same(j, snap) /\ Store(j, new) /\ Ask(u, "enqueue")
    <3>1. RowsMove
      BY <2>3, <2>4, MoveStores
    <3> QED BY <1>1, <1>4, <2>4, <3>1
  <2>5. CASE UNCHANGED row /\ Answer(u)
    BY <1>1, <1>5, <2>5 DEF RowsMove
  <2> QED BY <1>8, <2>1, <2>4, <2>5 DEF CancelMove
<1>9. CASE (Answer(u) \/ \E pc \in {"add", "enqueue", "snapshot", "commit"} : Ask(u, pc)) /\ UNCHANGED row
  BY <1>1, <1>4, <1>5, <1>9 DEF RowsMove
<1>10. ASSUME Ask(u, "enqueue"), NEW j, NEW new, row[j].status = "none", new.status = "queued", Store(j, new)
       PROVE  MoveInv' /\ RowsMove
  <2>1. RowsMove
    BY <1>2, <1>10 DEF Store, RowsMove
  <2> QED BY <1>1, <1>4, <1>10, <2>1
<1> QED BY <1>6, <1>7, <1>8, <1>9, <1>10

(* A call of a Preview's controller fails.                                  *)
LEMMA PreviewFailsMoves ==
  ASSUME PreviewInv, MoveInv, kind = "preview", NEW c \in Controller, PreviewCallFails(c)
  PROVE  MoveInv' /\ RowsMove
<1>1. JobTypes(PreviewAt) /\ CtlMoves(ctl[c]) /\ c \in Actor /\ UNCHANGED <<kind, row, client>>
  BY DEF PreviewInv, PreviewTypes, MoveInv, Actor, PreviewCallFails
<1>2. PICK pc \in {"retry", "fail"} : Go(c, pc)
  BY DEF PreviewCallFails
<1>3. OnlyMoves(c) /\ CtlMoves(ctl[c])'
  BY <1>1, <1>2, MoveGoes DEF CtlPlaces
<1>4. RowsMove
  BY <1>1 DEF RowsMove
<1> QED BY <1>1, <1>3, <1>4, MoveCtlStep

LEMMA PreviewAsksMoves ==
  ASSUME PreviewInv, MoveInv, kind = "preview", NEW u \in Client,
         PreviewAsks(u) \/ PreviewAnswers(u) \/ AddPreviewFails(u)
  PROVE  MoveInv' /\ RowsMove
<1>1. JobTypes(PreviewAt) /\ NoProgress \in PreviewAt /\ Target \subseteq Job
  BY SingleAssumption DEF PreviewInv, PreviewTypes, PreviewAt, Target
<1>2. UNCHANGED <<kind, ctl>>
  BY DEF PreviewAsks, PreviewAnswers, CreatePreview, CancelBegin, AddPreview, ReserveQuota, EnqueueTask,
         CancelMove, AddPreviewFails, OnlyClient
<1>3. CASE PreviewAsks(u)
  <2>1. CASE \E j \in Target : CreatePreview(u, j)
    <3>1. PICK j : Begin(u, "reserve", j, NoRow) /\ UNCHANGED row
      BY <2>1 DEF CreatePreview
    <3> QED BY <1>1, <1>2, <3>1, RequestMoves
  <2>2. CASE \E j \in Job : CancelBegin(u, j)
    BY <1>1, <1>2, <2>2, RequestMoves
  <2> QED BY <1>1, <1>3, <2>1, <2>2 DEF PreviewAsks
<1>4. CASE AddPreview(u)
  <2>1. PICK j, new : /\ j = client[u].job
                      /\ new = [status |-> "queued", token |-> 0, at |-> NoProgress]
    OBVIOUS
  <2>2. CASE row[j].status = "none" /\ Store(j, new) /\ Ask(u, "enqueue")
    <3>1. new.status = "queued"
      BY <2>1
    <3> QED BY <1>1, <1>2, <2>2, <3>1, RequestMoves
  <2>3. CASE Answer(u) /\ UNCHANGED row
    BY <1>1, <1>2, <2>3, RequestMoves
  <2> QED BY <1>4, <2>1, <2>2, <2>3 DEF AddPreview
<1>5. CASE CancelMove(u)
  BY <1>1, <1>2, <1>5, RequestMoves
<1>6. CASE ReserveQuota(u, "add") \/ EnqueueTask(u, "idle") \/ AddPreviewFails(u)
  <2>1. UNCHANGED row /\ (Ask(u, "add") \/ Answer(u))
    BY <1>6 DEF ReserveQuota, EnqueueTask, AddPreviewFails
  <2> QED BY <1>1, <1>2, <2>1, RequestMoves
<1> QED BY <1>3, <1>4, <1>5, <1>6 DEF PreviewAnswers

LEMMA EvalAsksMoves ==
  ASSUME EvalInv, MoveInv, kind = "eval", NEW u \in Client, EvalAsks(u) \/ EvalAnswers(u)
  PROVE  MoveInv' /\ RowsMove
<1>1. JobTypes(EvalAt) /\ NoProgress \in EvalAt /\ Target \subseteq Job
  BY SingleAssumption DEF EvalInv, EvalAt, Target
<1>2. UNCHANGED <<kind, ctl>>
  BY DEF EvalAsks, EvalAnswers, CreateEval, CancelBegin, AddEval, EnqueueTask, CancelMove, OnlyClient
<1>3. CASE EvalAsks(u)
  <2>1. CASE \E j \in Target : CreateEval(u, j)
    <3>1. PICK j : Begin(u, "add", j, NoRow) /\ UNCHANGED row
      BY <2>1 DEF CreateEval
    <3> QED BY <1>1, <1>2, <3>1, RequestMoves
  <2>2. CASE \E j \in Job : CancelBegin(u, j)
    BY <1>1, <1>2, <2>2, RequestMoves
  <2> QED BY <1>1, <1>3, <2>1, <2>2 DEF EvalAsks
<1>4. CASE AddEval(u)
  <2>1. PICK j, new : /\ j = client[u].job
                      /\ new = [status |-> "queued", token |-> 0, at |-> Start]
    OBVIOUS
  <2>2. CASE row[j].status = "none" /\ Store(j, new) /\ Ask(u, "enqueue")
    <3>1. new.status = "queued"
      BY <2>1
    <3> QED BY <1>1, <1>2, <2>2, <3>1, RequestMoves
  <2>3. CASE Answer(u) /\ UNCHANGED row
    BY <1>1, <1>2, <2>3, RequestMoves
  <2> QED BY <1>4, <2>1, <2>2, <2>3 DEF AddEval
<1>5. CASE CancelMove(u)
  BY <1>1, <1>2, <1>5, RequestMoves
<1>6. CASE EnqueueTask(u, "idle")
  <2>1. UNCHANGED row /\ Answer(u)
    BY <1>6 DEF EnqueueTask
  <2> QED BY <1>1, <1>2, <2>1, RequestMoves
<1> QED BY <1>3, <1>4, <1>5, <1>6 DEF EvalAnswers

LEMMA DeployAsksMoves ==
  ASSUME DeployInv, MoveInv, kind = "deployment", NEW u \in Client,
         DeployAsks(u) \/ DeployAnswers(u) \/ PromoteFails(u)
  PROVE  MoveInv' /\ RowsMove
<1>1. JobTypes(DeployAt) /\ NoProgress \in DeployAt
  BY DEF DeployInv, DeployTypes, DeployAt
<1>2. UNCHANGED <<kind, ctl>>
  BY DEF DeployAsks, DeployAnswers, Promote, Rollback, PolicyBegin, AddSnapshot, AddDeployment, CommitQuota,
         PolicyWrite, ReserveQuota, EnqueueTask, PromoteFails, OnlyClient
<1>3. CASE DeployAsks(u)
  <2>1. /\ \E pc \in {"reserve", "add", "policy"} : \E j, snap : Begin(u, pc, j, snap)
        /\ UNCHANGED row
    BY <1>3 DEF DeployAsks, Promote, Rollback, PolicyBegin
  <2> QED BY <1>1, <1>2, <2>1, RequestMoves
<1>4. CASE AddDeployment(u)
  <2>1. PICK j, new : j = client[u].job /\ new = client[u].snap
    OBVIOUS
  <2>2. CASE row[j].status = "none" /\ Store(j, new) /\ Ask(u, "enqueue")
    <3>1. new.status = "queued"
      BY <1>4, <2>1 DEF AddDeployment, Asking, DeployInv, DeployClient
    <3> QED BY <1>1, <1>2, <2>2, <3>1, RequestMoves
  <2>3. CASE Answer(u) /\ UNCHANGED row
    BY <1>1, <1>2, <2>3, RequestMoves
  <2> QED BY <1>4, <2>1, <2>2, <2>3 DEF AddDeployment
<1>5. CASE ~DeployAsks(u) /\ ~AddDeployment(u)
  <2>1. UNCHANGED row /\ (Answer(u) \/ \E pc \in {"add", "commit", "snapshot"} : Ask(u, pc))
    BY <1>5 DEF DeployAnswers, AddSnapshot, CommitQuota, PolicyWrite, ReserveQuota, EnqueueTask, PromoteFails
  <2> QED BY <1>1, <1>2, <2>1, RequestMoves
<1> QED BY <1>3, <1>4, <1>5

LEMMA MoveInitInv ==
  ASSUME ControlInit
  PROVE  MoveInv
<1>1. JobInit /\ JobTypes(PreviewAt) /\ NoProgress \in PreviewAt
  BY InitTypes DEF ControlInit, PreviewInit, PreviewAt
<1>2. /\ \A c \in Actor : ctl[c].pc = "idle" /\ ctl[c].err = "retry"
      /\ \A u \in Client : client[u].pc = "idle"
      /\ \A j \in Job : row[j].status = "none"
  BY <1>1, NoRowFacts DEF JobInit
<1> QED BY <1>2 DEF MoveInv, CtlMoves, ClientMoves, RowKnown

LEMMA MoveStepInv ==
  ASSUME MoveInv, [ControlNext]_controlVars,
         \/ kind = "preview" /\ PreviewInv
         \/ kind = "eval" /\ EvalInv
         \/ kind = "deployment" /\ DeployInv
  PROVE  MoveInv' /\ RowsMove
<1>0. /\ kind \in {"preview", "eval", "deployment"}
      /\ kind = "preview" => PreviewInv
      /\ kind = "eval" => EvalInv
      /\ kind = "deployment" => DeployInv
  OBVIOUS
<1>1. ASSUME UNCHANGED <<kind, row, ctl, client>> PROVE MoveInv' /\ RowsMove
  <2>1. RowsMove
    BY <1>1 DEF RowsMove
  <2>2. /\ \A c \in Actor : ctl'[c] = ctl[c]
        /\ \A u \in Client : client'[u] = client[u]
    BY <1>1
  <2> QED BY <1>0, <1>1, <2>1, <2>2, OneMoves
<1>2. ASSUME Forgets, UNCHANGED <<kind, row>> PROVE MoveInv' /\ RowsMove
  BY <1>0, <1>2, MoveForgets DEF PreviewAt, RowsMove
<1>3. ASSUME NEW A, JobTypes(A), NEW c \in Controller, Shared(c) PROVE MoveInv' /\ RowsMove
  BY <1>2, <1>3, SharedForgets
<1>4. ASSUME NEW A, JobTypes(A), Crash PROVE MoveInv' /\ RowsMove
  BY <1>2, <1>4, CrashForgets
<1>5. \E A : JobTypes(A)
  BY <1>0 DEF PreviewInv, PreviewTypes, EvalInv, DeployInv, DeployTypes
<1>6. ASSUME NEW c \in Controller, Controls(c) PROVE MoveInv' /\ RowsMove
  <2>1. c \in Actor
    BY DEF Actor
  <2> QED BY <1>0, <1>3, <1>5, <1>6, <2>1, PreviewWrites, EvalWrites, DeployWrites DEF Controls, Shared
<1>7. ASSUME NEW u \in Client, Requests(u) \/ Answers(u) PROVE MoveInv' /\ RowsMove
  BY <1>0, <1>7, PreviewAsksMoves, EvalAsksMoves, DeployAsksMoves DEF Requests, Answers
<1>8. CASE Background
  <2>1. Target \subseteq Job /\ Reaper \in Actor
    BY SingleAssumption DEF Target, Actor
  <2>2. CASE TimeToLivePasses \/ \E k \in Case : ChildEnds(k)
    BY <1>1, <2>2 DEF TimeToLivePasses, ChildEnds, jobVars
  <2> QED BY <1>0, <1>8, <2>1, <2>2, ReapWrites, PreviewWrites DEF Background
<1>9. CASE Faults
  <2>1. CASE Crash
    BY <1>4, <1>5, <2>1
  <2>2. CASE kind = "preview" /\ PreviewFaults
    BY <1>0, <2>2, PreviewAsksMoves, PreviewFailsMoves DEF PreviewFaults
  <2>3. CASE kind = "eval" /\ \E c \in Controller : EvalCallFails(c)
    BY <1>0, <2>3, EvalWrites DEF Actor
  <2>4. CASE kind = "deployment" /\ DeployFaults
    BY <1>0, <2>4, DeployAsksMoves, DeployWrites DEF DeployFaults
  <2> QED BY <1>0, <1>9, <2>1, <2>2, <2>3, <2>4 DEF Faults
<1>10. CASE UNCHANGED controlVars
  BY <1>1, <1>10 DEF controlVars, jobVars
<1> QED BY <1>6, <1>7, <1>8, <1>9, <1>10 DEF ControlNext

(* A kind that is none of the four has no requests and no rows.             *)
LEMMA OtherKindsRest ==
  ASSUME kind \notin {"preview", "eval", "deployment", "quality"}, [ControlNext]_controlVars
  PROVE  UNCHANGED row
<1>1. ASSUME NEW c \in Controller, Controls(c) PROVE UNCHANGED row
  BY <1>1 DEF Controls, Acknowledge, Retry, Dequeue
<1> QED BY <1>1 DEF ControlNext, Requests, Answers, Background, Faults, Crash, controlVars, jobVars

(* Every row follows the table of its kind (the ALLOWED_TRANSITIONS of      *)
(* studio/preview_models.py and evals/models.py, the moves of               *)
(* deployments/controller.py) and every write takes its fencing token one   *)
(* on, for any number of requests, controllers, crashes and overrun leases. *)
THEOREM JobsFollowTables == ControlSpec => JobsMoveOnce
<1> DEFINE Known == \/ kind = "preview" /\ PreviewInv
                    \/ kind = "eval" /\ EvalInv
                    \/ kind = "deployment" /\ DeployInv
           Inv == kind \in {"preview", "eval", "deployment"} => Known /\ MoveInv
           Moved == \A j \in Job : kind # "quality" /\ row[j].status # "none" /\ row'[j] # row[j] =>
                      /\ row'[j].status \in Moves(row[j].status)
                      /\ row'[j].token = row[j].token + 1
<1>1. ControlInit => Inv
  BY PreviewInitInv, EvalInitInv, DeployInitInv, MoveInitInv
<1>2. Inv /\ [ControlNext]_controlVars => Inv'
  BY PreviewStepInv, EvalStepInv, DeployStepInv, MoveStepInv, KindStays
<1>3. Inv /\ [ControlNext]_controlVars => [Moved]_controlVars
  <2> SUFFICES ASSUME Inv, [ControlNext]_controlVars PROVE Moved
    OBVIOUS
  <2>1. CASE kind \in {"preview", "eval", "deployment"}
    BY <2>1, MoveStepInv DEF RowsMove, Writes
  <2>2. CASE kind \notin {"preview", "eval", "deployment", "quality"}
    BY <2>2, OtherKindsRest
  <2> QED BY <2>1, <2>2
<1> QED BY <1>1, <1>2, <1>3, SafetyPart, PTL DEF ControlSafety, JobsMoveOnce
===============================================================================
