----------------------------- MODULE DataLifecycle -----------------------------
(***************************************************************************)
(* Erasure, retention and export jobs (lifecycle/service.py,                *)
(* lifecycle/controller.py, storage/lifecycle_*.py).  A job works through   *)
(* its adapters in order, from the external stores to PostgreSQL, whose     *)
(* rows are the index by which every adapter finds what to delete.  The     *)
(* maintenance loop of every worker process claims queued jobs; the row of  *)
(* a job is written by compare-and-set on (status, fencing_token).          *)
(***************************************************************************)
EXTENDS Naturals, Sequences, FiniteSets

CONSTANTS Job,          \* jobs of one scope
          Keeper,       \* worker processes that run process_once
          Officer,      \* requests: create, retry
          Kinds,        \* kinds of jobs: "delete", "retention", "export"
          Adapters,     \* in order: "object-store", "sdk-session", "memory",
                        \* "langfuse", "postgresql"
          Item,         \* Sessions of the scope, with their Runs and objects
          MaxErrors,    \* bound: adapter failures and crashes
          MaxHolds      \* bound: legal holds created

(* Names are unique (DataLifecycleService.__init__), and the adapter of      *)
(* PostgreSQL is the last one (composition.py).                             *)
ASSUME LifecycleAssumption ==
  /\ Adapters \in Seq({"object-store", "sdk-session", "memory", "langfuse", "postgresql"})
  /\ \A n, m \in DOMAIN Adapters : Adapters[n] = Adapters[m] => n = m
  /\ Len(Adapters) > 0 /\ Adapters[Len(Adapters)] = "postgresql"
  /\ Kinds \subseteq {"delete", "retention", "export"}

VARIABLES jobs,         \* rows: kind, status, token, results of the adapters
          keeper,       \* what every controller is doing, and its copy of the row
          officer,
          stored,       \* item -> the stores that have data of it
          expired,      \* beyond the cutoffs of the retention job: [sessions, traces]
          late,         \* items created while a deletion was under way
          hold,         \* a legal hold on the scope is active
          holds, errors

lifecycleVars == <<jobs, keeper, officer, stored, expired, late, hold, holds, errors>>

AdapterOf(n) == Adapters[n]
External == {"object-store", "sdk-session", "langfuse"}
Store == {Adapters[n] : n \in DOMAIN Adapters}
Indexed == {i \in Item : "postgresql" \in stored[i]}

NoJob == [kind |-> "none", status |-> "none", token |-> 0,
          result |-> [a \in Store |-> "pending"]]
OffDuty == [pc |-> "idle", kind |-> "none"]
NoRound == [pc |-> "idle", job |-> CHOOSE j \in Job : TRUE, copy |-> NoJob, at |-> 1]

LifecycleInit ==
  /\ jobs = [j \in Job |-> NoJob]
  /\ keeper = [k \in Keeper |-> NoRound]
  /\ officer = [o \in Officer |-> OffDuty]
  /\ \E old \in Item : stored = [i \in Item |-> IF i = old THEN Store ELSE {}]
  /\ expired = [sessions |-> {}, traces |-> {}]
  /\ late = {} /\ hold = FALSE /\ holds = 0 /\ errors = 0

Erases(row) == row.kind # "export"
Err == errors < MaxErrors /\ errors' = errors + 1
WorldUnchanged == UNCHANGED <<stored, expired, late, hold, holds>>

(* compare_and_set of the row at the status and token of the copy           *)
Stored(row, copy) == row.status = copy.status /\ row.token = copy.token
Next1(copy) == [copy EXCEPT !.token = @ + 1]

-----------------------------------------------------------------------------
HoldBlocks(kind) == hold /\ kind # "export"

(* Of the rows that are not in use, any one is as good as another.          *)
FreeJobs == {j \in Job : jobs[j] = NoJob}

(* create_job: the hold is checked, then add_job inserts under a unique     *)
(* idempotency key (one kind, one job here; bound: the rows there are)      *)
CheckHold(o) ==
  /\ officer[o].pc = "idle" /\ FreeJobs # {}
  /\ \E kind \in Kinds :
       /\ ~HoldBlocks(kind)
       /\ \A l \in Job : jobs[l].kind # kind
       /\ officer' = [officer EXCEPT ![o] = [pc |-> "add", kind |-> kind]]
  /\ UNCHANGED <<jobs, keeper, errors>> /\ WorldUnchanged

(* A retention job is of the whole tenant and carries its cutoffs: Sessions  *)
(* and traces (by their quality scores) that are older by then.              *)
AddJob(o) ==
  LET kind == officer[o].kind
      new == FreeJobs # {} /\ \A l \in Job : jobs[l].kind # kind
  IN  /\ officer[o].pc = "add"
      /\ jobs' = IF new THEN [jobs EXCEPT ![CHOOSE j \in FreeJobs : TRUE] =
                                [@ EXCEPT !.kind = kind, !.status = "queued"]]
                 ELSE jobs
      /\ IF new /\ kind = "retention"
           THEN expired' \in [sessions : SUBSET Indexed, traces : SUBSET Indexed]
           ELSE UNCHANGED expired
      /\ officer' = [officer EXCEPT ![o] = OffDuty]
      /\ UNCHANGED <<keeper, errors, stored, late, hold, holds>>

(* retry_job: what failed is pending again, of an export everything         *)
RetryJob(j) ==
  LET row == jobs[j]
      Again(a) == ~Erases(row) \/ row.result[a] = "failed"
      results == [a \in Store |-> IF Again(a) THEN "pending" ELSE row.result[a]]
  IN  /\ row.status \in {"failed", "partial_failed"} /\ (Erases(row) => ~hold)
      /\ jobs' = [jobs EXCEPT ![j] = [Next1(row) EXCEPT !.status = "queued", !.result = results]]
      /\ UNCHANGED <<keeper, officer, errors>> /\ WorldUnchanged

CreateHold ==
  /\ ~hold /\ holds < MaxHolds /\ hold' = TRUE /\ holds' = holds + 1
  /\ UNCHANGED <<jobs, keeper, officer, stored, expired, late, errors>>

ReleaseHold ==
  /\ hold /\ hold' = FALSE
  /\ UNCHANGED <<jobs, keeper, officer, stored, expired, late, holds, errors>>

-----------------------------------------------------------------------------
(* process_once *)
ListRunnable(k) ==
  /\ keeper[k].pc = "idle"
  /\ \E j \in Job : /\ jobs[j].status = "queued"
                    /\ keeper' = [keeper EXCEPT ![k] =
                         [pc |-> "claim", job |-> j, copy |-> jobs[j], at |-> 1]]
  /\ UNCHANGED <<jobs, officer, errors>> /\ WorldUnchanged

(* Write the copy, one token on, and go on from what was written; a         *)
(* conflict ends the round.                                                 *)
WriteRow(k, new, pc, at) ==
  LET j == keeper[k].job
      ok == Stored(jobs[j], keeper[k].copy)
  IN  /\ jobs' = IF ok THEN [jobs EXCEPT ![j] = Next1(new)] ELSE jobs
      /\ keeper' = [keeper EXCEPT ![k] =
           IF ok /\ pc # "idle" THEN [@ EXCEPT !.pc = pc, !.copy = Next1(new), !.at = at]
           ELSE NoRound]

Claim(k) ==
  /\ keeper[k].pc = "claim"
  /\ WriteRow(k, [keeper[k].copy EXCEPT !.status = "running"], "check", 1)
  /\ UNCHANGED <<officer, errors>> /\ WorldUnchanged

Pending(copy) == {n \in DOMAIN Adapters : copy.result[AdapterOf(n)] # "succeeded"}
FirstOf(ns) == CHOOSE n \in ns : \A m \in ns : n <= m

BlockingHold(copy) == hold /\ Erases(copy)

(* _blocking_hold after the claim, and _mark_hold_failure                   *)
RecheckHold(k) ==
  LET copy == keeper[k].copy
      next == FirstOf(Pending(copy))
  IN  /\ keeper[k].pc = "check"
      /\ IF BlockingHold(copy)
           THEN WriteRow(k, [copy EXCEPT !.result[AdapterOf(next)] = "failed"], "finish", 1)
           ELSE keeper' = [keeper EXCEPT ![k].pc = "start", ![k].at = next] /\ UNCHANGED jobs
      /\ UNCHANGED <<officer, errors>> /\ WorldUnchanged

StartAdapter(k) ==
  /\ keeper[k].pc = "start"
  /\ WriteRow(k, [keeper[k].copy EXCEPT !.result[AdapterOf(keeper[k].at)] = "running"],
              "work", keeper[k].at)
  /\ UNCHANGED <<officer, errors>> /\ WorldUnchanged

(* What each adapter finds: Sessions, with their Runs, objects and rows, by  *)
(* the index as it is at this moment; traces by their scores in it, and      *)
(* memories without it.  A retention finds the Sessions beyond their cutoff, *)
(* the traces beyond another one, and all memories.                          *)
Beyond(kind, old) == IF kind = "retention" THEN old ELSE Item
FindsObjects(kind) == Indexed \cap Beyond(kind, expired.sessions)
FindsSdkSessions(kind) == Indexed \cap Beyond(kind, expired.sessions)
FindsMemories == Item
FindsTraces(kind) == Indexed \cap Beyond(kind, expired.traces)
FindsRows(kind) == Indexed \cap Beyond(kind, expired.sessions)
Reach(a, kind) ==
  {i \in Item : \/ a = "object-store" /\ i \in FindsObjects(kind)
                \/ a = "sdk-session" /\ i \in FindsSdkSessions(kind)
                \/ a = "memory" /\ i \in FindsMemories
                \/ a = "langfuse" /\ i \in FindsTraces(kind)
                \/ a = "postgresql" /\ i \in FindsRows(kind)}

Erased(a, kind) == [i \in Item |-> IF i \in Reach(a, kind) THEN stored[i] \ {a} ELSE stored[i]]

AdapterWorks(k) ==
  LET copy == keeper[k].copy
  IN  /\ keeper[k].pc = "work"
      /\ stored' = IF Erases(copy) THEN Erased(AdapterOf(keeper[k].at), copy.kind) ELSE stored
      /\ keeper' = [keeper EXCEPT ![k].pc = "succeeded"]
      /\ UNCHANGED <<jobs, officer, expired, late, hold, holds, errors>>

AdapterFails(k) ==
  /\ keeper[k].pc = "work" /\ Err
  /\ keeper' = [keeper EXCEPT ![k].pc = "failed"]
  /\ UNCHANGED <<jobs, officer>> /\ WorldUnchanged

(* Mutant of RecordResult: an erasure goes on after a failed adapter.       *)
RecordResultGoesOn(k) ==
  LET done == [keeper[k].copy EXCEPT !.result[AdapterOf(keeper[k].at)] = keeper[k].pc]
      rest == {n \in Pending(done) : n > keeper[k].at}
  IN  /\ keeper[k].pc \in {"succeeded", "failed"}
      /\ WriteRow(k, done, IF rest = {} THEN "finish" ELSE "start",
                  IF rest = {} THEN 1 ELSE FirstOf(rest))
      /\ UNCHANGED <<officer, errors>> /\ WorldUnchanged

(* The result is recorded; an erasure stops at the first failure.           *)
RecordResult(k) ==
  LET copy == keeper[k].copy
      done == [copy EXCEPT !.result[AdapterOf(keeper[k].at)] = keeper[k].pc]
      rest == {n \in Pending(done) : n > keeper[k].at}
      stop == rest = {} \/ (keeper[k].pc = "failed" /\ Erases(copy))
  IN  /\ keeper[k].pc \in {"succeeded", "failed"}
      /\ WriteRow(k, done, IF stop THEN "finish" ELSE "start",
                  IF stop THEN 1 ELSE FirstOf(rest))
      /\ UNCHANGED <<officer, errors>> /\ WorldUnchanged

(* An export is stored first; failing to do so counts as a failed adapter.  *)
Finish(k) ==
  LET copy == keeper[k].copy
      Ended(saved) ==
        IF saved /\ \A a \in Store : copy.result[a] # "failed" THEN "succeeded"
        ELSE IF \E a \in Store : copy.result[a] = "succeeded" THEN "partial_failed" ELSE "failed"
  IN  /\ keeper[k].pc = "finish"
      /\ \/ WriteRow(k, [copy EXCEPT !.status = Ended(TRUE)], "idle", 1) /\ UNCHANGED errors
         \/ ~Erases(copy) /\ Err /\ WriteRow(k, [copy EXCEPT !.status = Ended(FALSE)], "idle", 1)
      /\ UNCHANGED officer /\ WorldUnchanged

KeeperCrash(k) ==
  /\ keeper[k].pc # "idle" /\ Err /\ keeper' = [keeper EXCEPT ![k] = NoRound]
  /\ UNCHANGED <<jobs, officer>> /\ WorldUnchanged

(* A user of the scope goes on working; what is new is beyond no cutoff.     *)
UnderWay == \E j \in Job : jobs[j].kind = "delete" /\ \E a \in Store : jobs[j].result[a] # "pending"
NewItem(i) ==
  /\ stored[i] = {} /\ stored' = [stored EXCEPT ![i] = Store]
  /\ late' = IF UnderWay THEN late \cup {i} ELSE late \ {i}
  /\ expired' = [sessions |-> expired.sessions \ {i}, traces |-> expired.traces \ {i}]
  /\ UNCHANGED <<jobs, keeper, officer, hold, holds, errors>>

LifecycleNext ==
  \/ \E o \in Officer : CheckHold(o) \/ AddJob(o)
  \/ \E j \in Job : RetryJob(j)
  \/ CreateHold \/ ReleaseHold
  \/ \E k \in Keeper : \/ ListRunnable(k) \/ Claim(k) \/ RecheckHold(k) \/ StartAdapter(k)
                       \/ AdapterWorks(k) \/ AdapterFails(k) \/ RecordResult(k)
                       \/ Finish(k) \/ KeeperCrash(k)
  \/ \E i \in Item : NewItem(i)

LifecycleSpec == LifecycleInit /\ [][LifecycleNext]_lifecycleVars

-----------------------------------------------------------------------------
(* The plan of the data lifecycle, invariant 1: the index is not lost       *)
(* before what it refers to is gone, however many processes, retries and    *)
(* crashes a job takes; and a job that succeeded left nothing.  The one     *)
(* exception is what the code does of retention: with an old Session go the *)
(* scores of its young traces, which stay in Langfuse.  Items that appear   *)
(* while a deletion is under way are out of its reach.                      *)
ErasedInOrder ==
  /\ \A i \in Item \ late : i \notin Indexed =>
       \A a \in stored[i] \cap External :
         a = "langfuse" /\ i \in expired.sessions \ expired.traces
  /\ \A j \in Job : jobs[j].status = "succeeded" => \A a \in Store : jobs[j].result[a] = "succeeded"
===============================================================================
