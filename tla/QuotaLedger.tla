---------------------------- MODULE QuotaLedger ----------------------------
(***************************************************************************)
(* Quota admission (quota/service.py over storage/quota_repository.py) as   *)
(* Run creation, the workers, cancellation and the maintenance reaper use   *)
(* it.  A repository call is one transaction; the service makes several     *)
(* calls and other clients, crashes and the clock come between them.        *)
(*                                                                         *)
(* Of reserve two things are seen separately: the SELECT of the idempotency *)
(* key, which locks nothing when there is no row, and the rest, which is    *)
(* serialised by the row locks of the counters.                             *)
(***************************************************************************)
EXTENDS Integers, Sequences, FiniteSets, Folds

CONSTANTS Run,       \* the subjects
          Api,       \* request handlers that create and cancel Runs
          Worker,    \* worker processes
          Reaper,    \* the "quota-reservation" maintenance loop
          Scope,     \* keys of the quota scopes
          ScopesOf,  \* the scopes a Run falls under
          Plan,      \* per Run what is reserved for cost and tokens; 0: no such limit
          Limit,     \* the limits a policy may set
          NoLimit,   \* a policy that does not name the resource
          FirstPolicy, \* the limits every scope starts with
          NewLimits, \* limits a scope may get when its policy is replaced
          Usage,     \* tokens and micro-dollars a runtime may report
          NoRow,     \* no reservation under the key
          MaxBatch,  \* reservations the reaper takes at a time (200)
          MaxMonth,  \* bound: accounting months
          MaxPolicy, \* bound: policy replacements
          MaxCrash   \* bound: crashes

Client == Api \cup Worker \cup {Reaper}
Kind == {"concurrency", "cost", "tokens", "actual-tokens", "actual-cost"}
Key == Run \X Kind
Resource == {"runs", "cost", "tokens"}
Window == 0..MaxMonth     \* 0 is "active", the others are months
Counter == Scope \X Resource \X Window
Final == {"committed", "released", "expired"}

ASSUME PlanAssumption == Plan \in [Run -> [{"cost", "tokens"} -> Nat]]
ASSUME ScopesAssumption == ScopesOf \in [Run -> SUBSET Scope]
ASSUME LimitAssumption ==
  /\ Limit \subseteq Nat /\ NoLimit \notin Limit
  /\ FirstPolicy \in [Scope -> [Resource -> Limit \cup {NoLimit}]]
  /\ NewLimits \subseteq [Resource -> Limit \cup {NoLimit}]
ASSUME UsageAssumption == Usage \subseteq Nat
ASSUME BoundAssumption ==
  {MaxMonth, MaxBatch} \subseteq Nat \ {0} /\ {MaxPolicy, MaxCrash} \subseteq Nat

VARIABLES policy,    \* QuotaPolicy rows: scope -> resource -> limit
          revision,  \* how often a policy was replaced
          month,     \* the clock, in accounting months
          rows,      \* QuotaReservationRow by idempotency key
          reserved,  \* QuotaCounterRow.reserved
          committed, \* QuotaCounterRow.committed
          ledger,    \* UsageLedgerRow: the amounts written for each reservation
          unknown,   \* Runs with a UsageLedgerRow of cost_state UNKNOWN
          phase,     \* "absent", "creating", "queued", "running", "ended", "gone"
          client,    \* what every client is doing
          crashes,   \* history: how many clients died in the middle of a call
          overrun    \* history: usage committed beyond what was reserved

quotaVars == <<policy, revision, month, rows, reserved, committed, ledger,
               unknown, phase, client, crashes, overrun>>
rowVars == <<rows, reserved, committed, ledger, overrun>>
envVars == <<policy, revision, month>>

ResourceOf(kind) ==
  IF kind = "concurrency" THEN "runs"
  ELSE IF kind \in {"cost", "actual-cost"} THEN "cost" ELSE "tokens"

(* _window_key.                                                             *)
WindowAt(kind, m) == IF ResourceOf(kind) = "runs" THEN 0 ELSE m

(* The resources a Run asks for, in the order admit_run takes them.         *)
Requested(r) ==
  <<"concurrency">>
    \o (IF Plan[r]["cost"] > 0 THEN <<"cost">> ELSE <<>>)
    \o (IF Plan[r]["tokens"] > 0 THEN <<"tokens">> ELSE <<>>)

(* _constraints: every policy whose scope covers the Run and that names the *)
(* resource.                                                                *)
Constraints(r, kind) ==
  {[scope |-> s, limit |-> policy[s][ResourceOf(kind)]] :
     s \in {x \in ScopesOf[r] : policy[x][ResourceOf(kind)] # NoLimit}}

(* Mutant of CountersOf: the window of today, not of the reservation.       *)
CountersToday(k, row) ==
  {<<c.scope, ResourceOf(k[2]), WindowAt(k[2], month)>> : c \in row.constraints}

CountersOf(k, row) ==
  {<<c.scope, ResourceOf(k[2]), row.window>> : c \in row.constraints}

(* A client between two calls.  todo: idempotency keys still to reserve;    *)
(* amount: of the usage being recorded; seen: the reservation built from    *)
(* the policies read; list: reservations still to release; next: where the  *)
(* call returns to.                                                         *)
Idle == [at |-> "idle", run |-> NoRow, todo |-> <<>>, amount |-> 0,
         seen |-> NoRow, list |-> {}, next |-> "idle"]

QuotaInit ==
  /\ policy = FirstPolicy
  /\ revision = 0
  /\ month = 1
  /\ rows = [k \in Key |-> NoRow]
  /\ reserved = [c \in Counter |-> 0]
  /\ committed = [c \in Counter |-> 0]
  /\ ledger = [k \in Key |-> <<>>]
  /\ unknown = {}
  /\ phase = [r \in Run |-> "absent"]
  /\ client = [c \in Client |-> Idle]
  /\ crashes = 0
  /\ overrun = [c \in Counter |-> 0]

-----------------------------------------------------------------------------
(* The repository's transactions, on the reservation row k.                 *)

(* Mutant of Exceeds: what is already used up is not counted.               *)
ExceedsReserved(row, k) ==
  \E c \in row.constraints :
    reserved[<<c.scope, ResourceOf(k[2]), row.window>>] + row.amount > c.limit

(* The limits are compared before the row is inserted: a concurrent reserve *)
(* under the same key is refused when the first one took the last of it.    *)
Exceeds(row, k) ==
  \E c \in row.constraints :
    LET n == <<c.scope, ResourceOf(k[2]), row.window>>
    IN  reserved[n] + committed[n] + row.amount > c.limit

(* _same_reservation; resource and subject are part of the key.             *)
Same(row, k) == rows[k].amount = row.amount /\ rows[k].constraints = row.constraints

Insert(row, k) ==
  /\ rows' = [rows EXCEPT ![k] = row]
  /\ reserved' = [n \in Counter |->
                    IF n \in CountersOf(k, row) THEN reserved[n] + row.amount ELSE reserved[n]]
  /\ UNCHANGED <<committed, ledger, overrun>>

(* Mutant of Commit: a committed reservation is committed again.            *)
CommitAgain(k, amount) ==
  /\ rows' = [rows EXCEPT ![k].state = "committed"]
  /\ reserved' = [n \in Counter |->
                    IF n \in CountersOf(k, rows[k]) THEN reserved[n] - rows[k].amount
                                                    ELSE reserved[n]]
  /\ committed' = [n \in Counter |->
                     IF n \in CountersOf(k, rows[k]) THEN committed[n] + amount ELSE committed[n]]
  /\ ledger' = [ledger EXCEPT ![k] = Append(@, amount)]
  /\ UNCHANGED overrun

(* commit: what was reserved is exchanged for what was used, which may be   *)
(* more; no limit is compared.                                              *)
Commit(k, amount) ==
  IF rows[k].state # "active"
    THEN UNCHANGED rowVars
    ELSE /\ rows' = [rows EXCEPT ![k].state = "committed"]
         /\ reserved' = [n \in Counter |->
                           IF n \in CountersOf(k, rows[k]) THEN reserved[n] - rows[k].amount
                                                           ELSE reserved[n]]
         /\ committed' = [n \in Counter |->
                            IF n \in CountersOf(k, rows[k]) THEN committed[n] + amount
                                                            ELSE committed[n]]
         /\ ledger' = [ledger EXCEPT ![k] = Append(@, amount)]
         /\ overrun' = [n \in Counter |->
                          IF n \in CountersOf(k, rows[k]) /\ amount > rows[k].amount
                            THEN overrun[n] + (amount - rows[k].amount) ELSE overrun[n]]

(* commit raises ConflictError for a reservation that was given back.       *)
CommitRefused(k) == rows[k].state \in {"released", "expired"}

(* release: a no-op on a reservation that has ended.                        *)
Release(k, state) ==
  IF rows[k].state # "active"
    THEN UNCHANGED rowVars
    ELSE /\ rows' = [rows EXCEPT ![k].state = state]
         /\ reserved' = [n \in Counter |->
                           IF n \in CountersOf(k, rows[k]) THEN reserved[n] - rows[k].amount
                                                           ELSE reserved[n]]
         /\ UNCHANGED <<committed, ledger, overrun>>

Active == {k \in Key : rows[k] # NoRow /\ rows[k].state = "active"}

-----------------------------------------------------------------------------
(* QuotaService.reserve, for admit_run, ensure_run_admitted and consume.    *)

To(c, loc) == client' = [client EXCEPT ![c].at = loc]
KeyOf(c) == <<client[c].run, Head(client[c].todo)>>

(* What the client goes on with once a call has ended in success or in an   *)
(* exception.  admit and ensure give back what they took (list) when they   *)
(* fail; after an exception the worker ends the Run.                        *)
AfterSuccess == [admit |-> "add", ensure |-> "execute", tokens |-> "cost", cost |-> "end"]
AfterFailure == [admit |-> "refused", ensure |-> "end", tokens |-> "end", cost |-> "end"]
Admitting == {"admit", "ensure"}
FirstStep == [admit |-> "policy", ensure |-> "key"]

Fail(c) ==
  LET j == client[c] IN
  client' = [client EXCEPT ![c] =
    [j EXCEPT !.at = IF j.list = {} THEN AfterFailure[j.next] ELSE "release",
              !.next = AfterFailure[j.next], !.todo = <<>>, !.seen = NoRow]]

(* A key is settled: with one more reservation of its own, or with an       *)
(* existing one.  consume goes on to commit it.                             *)
Settled(c, own) ==
  LET j == client[c] IN
  client' = [client EXCEPT ![c] =
    IF j.next \in Admitting
      THEN [j EXCEPT !.at = IF Tail(j.todo) # <<>> THEN FirstStep[j.next] ELSE AfterSuccess[j.next],
                     !.todo = Tail(@), !.seen = NoRow,
                     !.list = IF Tail(j.todo) = <<>> THEN {} ELSE @ \cup own]
      ELSE [j EXCEPT !.at = "consume", !.seen = NoRow]]

(* ensure_run_admitted first looks whether there is a reservation, in       *)
(* whatever state.                                                          *)
CheckKey(c) ==
  /\ client[c].at = "key"
  /\ IF rows[KeyOf(c)] # NoRow
       THEN Settled(c, {})
       ELSE To(c, "policy")
  /\ UNCHANGED <<rowVars, envVars, unknown, phase, crashes>>

AmountOf(c) ==
  LET kind == Head(client[c].todo) IN
  IF kind = "concurrency" THEN 1
  ELSE IF kind \in {"cost", "tokens"} THEN Plan[client[c].run][kind]
  ELSE client[c].amount

ReadPolicies(c) ==
  /\ client[c].at = "policy"
  /\ client' = [client EXCEPT ![c].at = "lookup", ![c].seen =
       [state |-> "active", amount |-> AmountOf(c),
        constraints |-> Constraints(client[c].run, Head(client[c].todo)),
        window |-> WindowAt(Head(client[c].todo), month)]]
  /\ UNCHANGED <<rowVars, envVars, unknown, phase, crashes>>

Lookup(c) ==
  /\ client[c].at = "lookup"
  /\ IF rows[KeyOf(c)] = NoRow THEN To(c, "write")
     ELSE IF Same(client[c].seen, KeyOf(c)) THEN Settled(c, {KeyOf(c)})
     ELSE Fail(c)
  /\ UNCHANGED <<rowVars, envVars, unknown, phase, crashes>>

(* The rest of the transaction.  A row that appeared since the lookup       *)
(* violates the unique constraint, and the transaction is undone.           *)
Write(c) ==
  LET k == KeyOf(c)
      row == client[c].seen
  IN  /\ client[c].at = "write"
      /\ \/ /\ Exceeds(row, k)
            /\ Fail(c)
            /\ UNCHANGED rowVars
         \/ /\ ~Exceeds(row, k) /\ rows[k] = NoRow
            /\ Insert(row, k)
            /\ Settled(c, {k})
         \/ /\ ~Exceeds(row, k) /\ rows[k] # NoRow
            /\ IF Same(row, k) THEN Settled(c, {k}) ELSE Fail(c)
            /\ UNCHANGED rowVars
      /\ UNCHANGED <<policy, revision, month, unknown, phase, crashes>>

(* The end of consume.                                                      *)
ConsumeCommit(c) ==
  LET k == KeyOf(c)
      j == client[c]
  IN  /\ j.at = "consume"
      /\ Commit(k, rows[k].amount)
      /\ client' = [client EXCEPT ![c] =
           [j EXCEPT !.at = IF CommitRefused(k) THEN AfterFailure[j.next]
                                                ELSE AfterSuccess[j.next],
                     !.todo = <<>>, !.amount = 0]]
      /\ UNCHANGED <<envVars, unknown, phase, crashes>>

-----------------------------------------------------------------------------
(* RunService.create: admit, then add the row.                              *)

Starts(c, j) == client[c] = Idle /\ client' = [client EXCEPT ![c] = j]

CreateRun(c, r) ==
  /\ c \in Api
  /\ phase[r] = "absent"
  /\ phase' = [phase EXCEPT ![r] = "creating"]
  /\ Starts(c, [Idle EXCEPT !.at = "policy", !.run = r, !.todo = Requested(r), !.next = "admit"])
  /\ UNCHANGED <<rowVars, envVars, unknown, crashes>>

(* create in a RunService without an admission port: the worker is the      *)
(* first to ask for quota.                                                  *)
CreateUnadmitted(c, r) ==
  /\ c \in Api
  /\ client[c] = Idle
  /\ phase[r] = "absent"
  /\ phase' = [phase EXCEPT ![r] = "queued"]
  /\ UNCHANGED <<rowVars, envVars, unknown, client, crashes>>

Refused(c) ==
  /\ client[c].at = "refused"
  /\ phase' = [phase EXCEPT ![client[c].run] = "gone"]
  /\ client' = [client EXCEPT ![c] = Idle]
  /\ UNCHANGED <<rowVars, envVars, unknown, crashes>>

AddRun(c) ==
  /\ client[c].at = "add"
  /\ phase' = [phase EXCEPT ![client[c].run] = "queued"]
  /\ client' = [client EXCEPT ![c] = Idle]
  /\ UNCHANGED <<rowVars, envVars, unknown, crashes>>

AddRunFails(c) ==
  /\ client[c].at = "add"
  /\ phase' = [phase EXCEPT ![client[c].run] = "gone"]
  /\ To(c, "list")
  /\ UNCHANGED <<rowVars, envVars, unknown, crashes>>

(* cancel, and the reaper of stuck Runs: the Run is ended from outside, or  *)
(* has ended, and its quota is given back.                                  *)
CancelRun(c, r) ==
  /\ c \in Api
  /\ phase[r] \in {"queued", "running", "ended"}
  /\ phase' = [phase EXCEPT ![r] = "ended"]
  /\ Starts(c, [Idle EXCEPT !.at = "list", !.run = r])
  /\ UNCHANGED <<rowVars, envVars, unknown, crashes>>

-----------------------------------------------------------------------------
(* The worker: confirm the admission, execute, record the result, end.      *)

Deliver(w, r) ==
  /\ w \in Worker
  /\ \/ /\ phase[r] \in {"queued", "running"}
        /\ phase' = [phase EXCEPT ![r] = "running"]
        /\ Starts(w, [Idle EXCEPT !.at = "key", !.run = r, !.todo = Requested(r),
                                  !.next = "ensure"])
     \/ /\ phase[r] = "ended"
        /\ Starts(w, [Idle EXCEPT !.at = "list", !.run = r])
        /\ UNCHANGED phase
  /\ UNCHANGED <<rowVars, envVars, unknown, crashes>>

(* No result event: an error, a time-out or a cancellation came first.      *)
NoRuntimeResult(w) ==
  /\ client[w].at = "execute"
  /\ To(w, "end")
  /\ UNCHANGED <<rowVars, envVars, unknown, phase, crashes>>

(* record_run_result for one resource: settle the reservation of the plan,  *)
(* or consume the usage under a key of its own.                             *)
Record(w, kind, actual, amount) ==
  LET k == <<client[w].run, kind>>
      j == client[w]
  IN  IF rows[k] # NoRow
        THEN /\ Commit(k, amount)
             /\ To(w, IF CommitRefused(k) THEN AfterFailure[kind] ELSE AfterSuccess[kind])
        ELSE /\ UNCHANGED rowVars
             /\ client' = [client EXCEPT ![w] =
                  IF amount = 0 THEN [j EXCEPT !.at = AfterSuccess[kind]]
                  ELSE [j EXCEPT !.at = "policy", !.todo = <<actual>>, !.amount = amount,
                                  !.next = kind]]

(* The stream ended with a result event.                                    *)
RecordTokens(w) ==
  /\ client[w].at = "execute"
  /\ \E amount \in Usage : Record(w, "tokens", "actual-tokens", amount)
  /\ UNCHANGED <<envVars, unknown, phase, crashes>>

RecordCost(w) ==
  /\ client[w].at = "cost"
  /\ \E amount \in Usage : Record(w, "cost", "actual-cost", amount)
  /\ UNCHANGED <<envVars, unknown, phase, crashes>>

(* A result without a cost: the reservation is given back, and then an UNKNOWN entry  *)
(* is written.                                                              *)
ReleaseCost(w) ==
  LET k == <<client[w].run, "cost">> IN
  /\ client[w].at = "cost"
  /\ IF rows[k] # NoRow THEN Release(k, "released") ELSE UNCHANGED rowVars
  /\ To(w, "unknown")
  /\ UNCHANGED <<envVars, unknown, phase, crashes>>

RecordUnknown(w) ==
  /\ client[w].at = "unknown"
  /\ unknown' = unknown \cup {client[w].run}
  /\ To(w, "end")
  /\ UNCHANGED <<rowVars, envVars, phase, crashes>>

(* Mutant of EndRun: the quota of a terminal Run is not given back.         *)
EndRunKeepsQuota(w) ==
  /\ client[w].at = "end"
  /\ phase' = [phase EXCEPT ![client[w].run] = "ended"]
  /\ client' = [client EXCEPT ![w] = Idle]
  /\ UNCHANGED <<rowVars, envVars, unknown, crashes>>

(* The Run is terminal, whoever made it so: _release_terminal_quota.        *)
EndRun(w) ==
  /\ client[w].at = "end"
  /\ phase' = [phase EXCEPT ![client[w].run] = "ended"]
  /\ client' = [client EXCEPT ![w] = [Idle EXCEPT !.at = "list", !.run = client[w].run]]
  /\ UNCHANGED <<rowVars, envVars, unknown, crashes>>

-----------------------------------------------------------------------------
(* release_subject, the roll-back of an admission and reap_expired_all: the *)
(* reservations were listed before and are released one by one.             *)

ReleaseList(c, j) ==
  client' = [client EXCEPT ![c] =
    IF j.list # {} THEN [j EXCEPT !.at = "release"]
    ELSE IF j.next = "idle" THEN Idle
    ELSE [j EXCEPT !.at = j.next]]

ListSubject(c) ==
  /\ client[c].at = "list"
  /\ ReleaseList(c, [Idle EXCEPT !.run = client[c].run,
                                 !.list = {k \in Active : k[1] = client[c].run}])
  /\ UNCHANGED <<rowVars, envVars, unknown, phase, crashes>>

ReleaseNext(c) ==
  /\ client[c].at = "release"
  /\ \E k \in client[c].list :
       /\ Release(k, IF c = Reaper THEN "expired" ELSE "released")
       /\ ReleaseList(c, [client[c] EXCEPT !.list = @ \ {k}])
  /\ UNCHANGED <<envVars, unknown, phase, crashes>>

(* Mutant of ReapExpired: the reservations of living Runs are left alone,   *)
(* those of a creation that died among them.                                *)
ReapEnded(batch) ==
  /\ \A k \in batch : phase[k[1]] \in {"ended", "gone"}
  /\ Starts(Reaper, [Idle EXCEPT !.at = "release", !.list = batch])
  /\ UNCHANGED <<rowVars, envVars, unknown, phase, crashes>>

(* list_expired_active: active reservations whose expires_at has passed.    *)
(* Any deadline may have passed, so any of them can be in the batch.        *)
ReapExpired(batch) ==
  /\ Starts(Reaper, [Idle EXCEPT !.at = "release", !.list = batch])
  /\ UNCHANGED <<rowVars, envVars, unknown, phase, crashes>>

Batches == {batch \in SUBSET Active : Cardinality(batch) \in 1..MaxBatch}

-----------------------------------------------------------------------------
(* The environment: the clock, the administrator and failing processes.     *)

NextMonth ==
  /\ month < MaxMonth
  /\ month' = month + 1
  /\ UNCHANGED <<rowVars, policy, revision, unknown, phase, client, crashes>>

(* replace_policy, under its revision check.                                *)
ReplacePolicy(s, limits) ==
  /\ revision < MaxPolicy
  /\ revision' = revision + 1
  /\ policy' = [policy EXCEPT ![s] = limits]
  /\ UNCHANGED <<rowVars, month, unknown, phase, client, crashes>>

Crash(c) ==
  /\ client[c] # Idle
  /\ crashes < MaxCrash
  /\ client' = [client EXCEPT ![c] = Idle]
  /\ crashes' = crashes + 1
  /\ UNCHANGED <<rowVars, envVars, unknown, phase>>

ReserveStep(c) == CheckKey(c) \/ ReadPolicies(c) \/ Lookup(c) \/ Write(c) \/ ConsumeCommit(c)
RecordStep(w) == RecordTokens(w) \/ RecordCost(w) \/ ReleaseCost(w) \/ RecordUnknown(w)
ApiStep(c) == (\E r \in Run : CreateRun(c, r) \/ CreateUnadmitted(c, r) \/ CancelRun(c, r))
                \/ Refused(c) \/ AddRun(c) \/ AddRunFails(c)
WorkerStep(w) == (\E r \in Run : Deliver(w, r))
                   \/ NoRuntimeResult(w) \/ RecordStep(w) \/ EndRun(w)

QuotaNext ==
  \/ \E c \in Client : ReserveStep(c) \/ ListSubject(c) \/ ReleaseNext(c) \/ Crash(c)
  \/ \E c \in Api : ApiStep(c)
  \/ \E w \in Worker : WorkerStep(w)
  \/ \E batch \in Batches : ReapExpired(batch)
  \/ NextMonth
  \/ \E s \in Scope, limits \in NewLimits : ReplacePolicy(s, limits)

(* Deadlines pass, and the maintenance loop lists what is overdue again and *)
(* again: it does not die each time at the same point.                      *)
QuotaFairness ==
  /\ SF_quotaVars(\E batch \in Batches : ReapExpired(batch))
  /\ SF_quotaVars(ReleaseNext(Reaper))

QuotaSafety == QuotaInit /\ [][QuotaNext]_quotaVars
QuotaSpec == QuotaSafety /\ QuotaFairness

-----------------------------------------------------------------------------
Reservation == [state : {"active"} \cup Final, amount : Nat,
                constraints : SUBSET [scope : Scope, limit : Limit], window : Window]

Place == {"idle", "key", "policy", "lookup", "write", "consume", "add", "refused",
          "execute", "cost", "unknown", "end", "list", "release"}
Job == [at : Place, run : Run \cup {NoRow}, todo : Seq(Kind), amount : Nat,
        seen : Reservation \cup {NoRow}, list : SUBSET Key,
        next : {"idle", "admit", "ensure", "tokens", "cost", "refused", "end"}]

ASSUME NoRowAssumption == NoRow \notin Run \cup Reservation

(* Rows, counters and ledger hold values of the columns' types; a policy    *)
(* names limits.                                                            *)
QuotaTypeOK ==
  /\ policy \in [Scope -> [Resource -> Limit \cup {NoLimit}]]
  /\ revision \in Nat
  /\ month \in 1..MaxMonth
  /\ rows \in [Key -> Reservation \cup {NoRow}]
  /\ reserved \in [Counter -> Int]
  /\ committed \in [Counter -> Nat]
  /\ ledger \in [Key -> Seq(Nat)]
  /\ unknown \subseteq Run
  /\ phase \in [Run -> {"absent", "creating", "queued", "running", "ended", "gone"}]
  /\ client \in [Client -> Job]
  /\ crashes \in 0..MaxCrash
  /\ overrun \in [Counter -> Nat]

Total(amount, keys) ==
  MapThenFoldSet(+, 0, LAMBDA k : amount[k], LAMBDA s : CHOOSE k \in s : TRUE, keys)

(* Counter n counts the reservation under the key k.                        *)
CountedBy(n, k) ==
  /\ ResourceOf(k[2]) = n[2]
  /\ rows[k].window = n[3]
  /\ \E c \in rows[k].constraints : c.scope = n[1]

Counted(n, keys) == {k \in keys : CountedBy(n, k)}
Used == {k \in Key : ledger[k] # <<>>}

(* The counters are the reservations: `reserved` is what active             *)
(* reservations hold of a scope, a resource and a month, `committed` what   *)
(* the ledger recorded for it, although a reservation is settled in a later *)
(* month, after a policy change, or by several clients at once.             *)
CountersBalance ==
  LET held == [k \in Active |-> rows[k].amount]
      used == [k \in Used |-> ledger[k][1]]
  IN  \A n \in Counter : /\ reserved[n] = Total(held, Counted(n, Active))
                         /\ committed[n] = Total(used, Counted(n, Used))

LimitsOf(n) ==
  ({FirstPolicy[n[1]][n[2]]} \cup {p[n[2]] : p \in NewLimits}) \ {NoLimit}

(* Concurrent reserves never take more than a limit that was in force; only *)
(* a runtime that used more than was reserved for it exceeds the limit, by  *)
(* that excess.                                                             *)
NotOversold ==
  \A n \in Counter : \/ reserved[n] + committed[n] <= overrun[n]
                     \/ \E m \in LimitsOf(n) : reserved[n] + committed[n] <= m + overrun[n]

(* Usage is accounted once: a reservation has one ledger entry when it was  *)
(* committed and none otherwise, whatever retries and races repeat it.      *)
AccountedOnce ==
  \A k \in Key : Len(ledger[k]) = IF rows[k] # NoRow /\ rows[k].state = "committed"
                                    THEN 1 ELSE 0

(* Without a crash, a Run that has ended and that no client is working on   *)
(* holds no quota: the roll-backs and release_subject miss nothing, not     *)
(* even a reservation made after the Run was cancelled.                     *)
EndedRunsHoldNothing ==
  crashes = 0 =>
    \A r \in Run :
      phase[r] \in {"ended", "gone"} /\ (\A c \in Client : client[c].run # r)
        => \A k \in Active : k[1] # r

(* A reservation that was committed, released or expired stays so, and what *)
(* was reserved is never rewritten: the releases of a stale list, a late    *)
(* commit and the reaper do not undo each other.                            *)
ReservationsAreFinal ==
  [][\A k \in Key : rows[k] # NoRow =>
       /\ rows'[k] # NoRow
       /\ rows'[k] = [rows[k] EXCEPT !.state = rows'[k].state]
       /\ rows[k].state \in Final => rows'[k] = rows[k]]_quotaVars

(* Every reservation is settled or given back in the end, although its      *)
(* holder died: Worker crashes, cancellations and time-outs leak nothing.   *)
ReservationsEnd ==
  \A k \in Key : (k \in Active) ~> (k \notin Active)

(* A worker that goes on to provision a sandbox has confirmed that the Run  *)
(* holds its place among the concurrent Runs.                               *)
AdmissionConfirmed ==
  [][\A w \in Worker :
       client[w].at # "execute" /\ client'[w].at = "execute"
         => <<client[w].run, "concurrency">> \in Active']_quotaVars
=============================================================================
