------------------------------ MODULE RunQueue ------------------------------
(***************************************************************************)
(* The Redis run queue (storage/redis.py): the SET of pending payloads, the *)
(* ready and processing ZSETs, the HASH of delivery receipts, and the       *)
(* receipts every worker process remembers.  Each Lua script is one action. *)
(*                                                                         *)
(* Time is abstract.  A score that lies in the past puts a task in `ready`, *)
(* in score order; a retry delay still running puts it in `delayed`; a      *)
(* lease deadline that has passed puts it in `expired`.  The clock moves    *)
(* tasks from one to the other (DelayElapses, LeaseExpires) whenever it     *)
(* likes, so nothing below depends on the heartbeat being fast enough.      *)
(***************************************************************************)
EXTENDS Naturals, Sequences, FiniteSets, Functions

CONSTANTS Task,       \* the run tasks (JSON payloads)
          Proc,       \* the worker processes, each with its own RedisTaskQueue
          Receipt,    \* the delivery receipts (uuid4)
          NoReceipt,  \* no field in the HASH, no entry in a process's dict
          MaxCalls    \* bound: calls on their way to Redis at one time

ASSUME ReceiptAssumption == NoReceipt \notin Receipt
ASSUME MaxCallsAssumption == MaxCalls \in Nat
ASSUME TaskAssumption == IsFiniteSet(Task)

VARIABLES pending,    \* SET: payloads accepted and not yet acknowledged
          ready,      \* ZSET: visible tasks, lowest score first
          delayed,    \* ZSET ready: members whose score is in the future
          processing, \* ZSET: leased tasks
          expired,    \* leased tasks whose deadline has passed
          receipts,   \* HASH: task -> receipt of its current lease
          held,       \* RedisTaskQueue._receipts of every process
          calls,      \* acknowledge, retry and extend calls Redis has not run yet
          leasedTo    \* history: the process the current lease was given to

queueVars == <<pending, ready, delayed, processing, expired, receipts, held, calls,
               leasedTo>>

NoReceipts == [t \in Task |-> NoReceipt]

QueueInit ==
  /\ pending = {}
  /\ ready = <<>>
  /\ delayed = {}
  /\ processing = {}
  /\ expired = {}
  /\ receipts = NoReceipts
  /\ held = [p \in Proc |-> NoReceipts]
  /\ calls = {}
  /\ leasedTo \in [Task -> Proc]

-----------------------------------------------------------------------------
(* Mutant of Enqueue: SADD's answer is ignored.                             *)
EnqueueTwice(t) ==
  /\ pending' = pending \cup {t}
  /\ ready' = Append(ready, t)
  /\ UNCHANGED <<delayed, processing, expired, receipts, held, calls, leasedTo>>

(* _ENQUEUE: SADD filters a payload that is still pending, even one whose   *)
(* worker is about to acknowledge it.                                       *)
Enqueue(t) ==
  /\ IF t \in pending
       THEN UNCHANGED <<pending, ready>>
       ELSE /\ pending' = pending \cup {t}
            /\ ready' = Append(ready, t)
  /\ UNCHANGED <<delayed, processing, expired, receipts, held, calls, leasedTo>>

UsedReceipts ==
  {receipts[t] : t \in Task} \cup {held[p][t] : p \in Proc, t \in Task}
    \cup {c.receipt : c \in calls}

(* The reclaimed leases all get the score `now`: behind what is visible, in *)
(* any order among themselves.                                              *)
Reclaimed == Bijection(1..Cardinality(expired), expired)

(* _DEQUEUE: reclaim every expired lease, then lease the oldest visible     *)
(* task under a new receipt.                                                *)
Lease(p, t, r) ==
  /\ r \in Receipt \ UsedReceipts
  /\ \E order \in Reclaimed :
       LET visible == ready \o order
       IN  /\ visible # <<>>
           /\ t = Head(visible)
           /\ ready' = Tail(visible)
  /\ processing' = (processing \ expired) \cup {t}
  /\ expired' = {}
  /\ receipts' = [x \in Task |-> IF x = t THEN r
                                 ELSE IF x \in expired THEN NoReceipt
                                 ELSE receipts[x]]
  /\ leasedTo' = [leasedTo EXCEPT ![t] = p]
  /\ UNCHANGED <<pending, delayed, calls>>

Dequeue(p, t) ==
  \E r \in Receipt : /\ Lease(p, t, r)
                     /\ held' = [held EXCEPT ![p][t] = r]

(* The script ran but its reply was lost, or the process failed before the  *)
(* receipt was stored: a lease nobody knows.                                *)
DequeueReplyLost(p, t) ==
  \E r \in Receipt : Lease(p, t, r) /\ UNCHANGED held

-----------------------------------------------------------------------------
(* The client side of acknowledge and retry: the receipt the process        *)
(* remembers for the payload is popped and travels with the call.  An       *)
(* absent one is sent as "", which no field of the HASH equals.             *)
Send(op, p, t) ==
  /\ Cardinality(calls) < MaxCalls
  /\ calls' = calls \cup {[op |-> op, task |-> t, receipt |-> held[p][t]]}

SendFinal(op, p, t) ==
  /\ Send(op, p, t)
  /\ held' = [held EXCEPT ![p][t] = NoReceipt]
  /\ UNCHANGED <<pending, ready, delayed, processing, expired, receipts, leasedTo>>

(* The heartbeat keeps the receipt.                                         *)
SendExtend(p, t) ==
  /\ Send("extend", p, t)
  /\ UNCHANGED <<pending, ready, delayed, processing, expired, receipts, held, leasedTo>>

PresentsCurrent(c) == c.receipt # NoReceipt /\ c.receipt = receipts[c.task]

Arrives(c, op) ==
  /\ c.op = op
  /\ calls' = calls \ {c}
  /\ UNCHANGED <<held, leasedTo>>

(* Mutants of Acknowledge: the receipt is not compared at all, or only      *)
(* before the lease is removed and not before the payload is.               *)
AcknowledgeAnyReceipt(c) ==
  /\ Arrives(c, "ack")
  /\ pending' = pending \ {c.task}
  /\ processing' = processing \ {c.task}
  /\ expired' = expired \ {c.task}
  /\ receipts' = [receipts EXCEPT ![c.task] = NoReceipt]
  /\ UNCHANGED <<ready, delayed>>

AcknowledgeForgetsPayload(c) ==
  /\ Arrives(c, "ack")
  /\ pending' = pending \ {c.task}
  /\ IF PresentsCurrent(c)
       THEN /\ processing' = processing \ {c.task}
            /\ expired' = expired \ {c.task}
            /\ receipts' = [receipts EXCEPT ![c.task] = NoReceipt]
       ELSE UNCHANGED <<processing, expired, receipts>>
  /\ UNCHANGED <<ready, delayed>>

(* _ACKNOWLEDGE                                                             *)
Acknowledge(c) ==
  /\ Arrives(c, "ack")
  /\ IF PresentsCurrent(c)
       THEN /\ pending' = pending \ {c.task}
            /\ processing' = processing \ {c.task}
            /\ expired' = expired \ {c.task}
            /\ receipts' = [receipts EXCEPT ![c.task] = NoReceipt]
       ELSE UNCHANGED <<pending, processing, expired, receipts>>
  /\ UNCHANGED <<ready, delayed>>

(* _RETRY                                                                   *)
Retry(c) ==
  /\ Arrives(c, "retry")
  /\ IF PresentsCurrent(c) /\ c.task \in processing
       THEN /\ processing' = processing \ {c.task}
            /\ expired' = expired \ {c.task}
            /\ receipts' = [receipts EXCEPT ![c.task] = NoReceipt]
            /\ delayed' = delayed \cup {c.task}
       ELSE UNCHANGED <<processing, expired, receipts, delayed>>
  /\ UNCHANGED <<pending, ready>>

(* _EXTEND_LEASE: no check that the deadline has not passed already.        *)
ExtendLease(c) ==
  /\ Arrives(c, "extend")
  /\ expired' = IF PresentsCurrent(c) /\ c.task \in processing
                  THEN expired \ {c.task} ELSE expired
  /\ UNCHANGED <<pending, ready, delayed, processing, receipts>>

(* A call Redis never runs; the caller logs the error and keeps polling.    *)
CallLost(c) ==
  /\ calls' = calls \ {c}
  /\ UNCHANGED <<pending, ready, delayed, processing, expired, receipts, held, leasedTo>>

-----------------------------------------------------------------------------
(* Environment: the clock, and a worker process that dies with its dict.    *)
LeaseExpires(t) ==
  /\ t \in processing \ expired
  /\ expired' = expired \cup {t}
  /\ UNCHANGED <<pending, ready, delayed, processing, receipts, held, calls, leasedTo>>

DelayElapses(t) ==
  /\ t \in delayed
  /\ delayed' = delayed \ {t}
  /\ ready' = Append(ready, t)
  /\ UNCHANGED <<pending, processing, expired, receipts, held, calls, leasedTo>>

ProcessCrash(p) ==
  /\ held' = [held EXCEPT ![p] = NoReceipts]
  /\ UNCHANGED <<pending, ready, delayed, processing, expired, receipts, calls, leasedTo>>

QueueNext ==
  \/ \E t \in Task : Enqueue(t)
  \/ \E p \in Proc, t \in Task : Dequeue(p, t)
  \/ \E p \in Proc, t \in Task : DequeueReplyLost(p, t)
  \/ \E p \in Proc, t \in Task : SendFinal("ack", p, t)
  \/ \E p \in Proc, t \in Task : SendFinal("retry", p, t)
  \/ \E p \in Proc, t \in Task : SendExtend(p, t)
  \/ \E c \in calls : Acknowledge(c)
  \/ \E c \in calls : Retry(c)
  \/ \E c \in calls : ExtendLease(c)
  \/ \E c \in calls : CallLost(c)
  \/ \E t \in Task : LeaseExpires(t)
  \/ \E t \in Task : DelayElapses(t)
  \/ \E p \in Proc : ProcessCrash(p)

QueueSpec == QueueInit /\ [][QueueNext]_queueVars

-----------------------------------------------------------------------------
MaybeReceipt == Receipt \cup {NoReceipt}
Call == [op : {"ack", "retry", "extend"}, task : Task, receipt : MaybeReceipt]

(* The types of the Redis keys and of the processes' receipt dicts.         *)
QueueTypeOK ==
  /\ pending \subseteq Task
  /\ ready \in Seq(Task)
  /\ delayed \subseteq Task
  /\ processing \subseteq Task
  /\ expired \subseteq Task
  /\ receipts \in [Task -> MaybeReceipt]
  /\ held \in [Proc -> [Task -> MaybeReceipt]]
  /\ calls \subseteq Call
  /\ leasedTo \in [Task -> Proc]

(* A payload that SADD accepted is in exactly one of the two ZSETs until it *)
(* is acknowledged, and nothing else is: no task is lost between the        *)
(* scripts, none is visible twice, none is both visible and leased, however *)
(* late, lost or repeated the calls are.                                    *)
Conservation ==
  /\ pending = Range(ready) \cup delayed \cup processing
  /\ IsInjective(ready)
  /\ Range(ready) \cap delayed = {}
  /\ Range(ready) \cap processing = {}
  /\ delayed \cap processing = {}
  /\ expired \subseteq processing

(* A field of the receipt HASH exists exactly while the task is leased, so  *)
(* the receipt checks of the scripts and the membership of the processing   *)
(* ZSET never disagree.                                                     *)
ReceiptWhileLeased == \A t \in Task : receipts[t] # NoReceipt <=> t \in processing

(* A receipt that still opens a lease is known only to the process the      *)
(* lease was given to, and travels only in calls about its own task.        *)
ReceiptIsPrivate ==
  \A t \in Task : receipts[t] # NoReceipt =>
    /\ \A p \in Proc, u \in Task :
         held[p][u] = receipts[t] => p = leasedTo[t] /\ u = t
    /\ \A c \in calls : c.receipt = receipts[t] => c.task = t
    /\ \A u \in Task : receipts[u] = receipts[t] => u = t

(* An unexpired lease ends only with a call that carries its own receipt:   *)
(* a late acknowledge, retry or a dequeue of anybody else leaves it alone.  *)
LeaseEndsByItsReceipt ==
  [][\A t \in processing \ expired :
       \/ t \in processing' /\ receipts'[t] = receipts[t]
       \/ \E c \in calls : /\ c.task = t /\ c.receipt = receipts[t]
                           /\ c.op \in {"ack", "retry"} /\ c \notin calls']_queueVars

(* A task leaves the queue only through an acknowledge under the receipt of *)
(* its current lease: retries, expiries, crashes and lost calls all keep    *)
(* it.                                                                      *)
LeavesOnlyAcknowledged ==
  [][\A t \in pending \ pending' :
       /\ t \in processing
       /\ [op |-> "ack", task |-> t, receipt |-> receipts[t]] \in calls]_queueVars

-----------------------------------------------------------------------------
(* The Redis keys carry an abstract queue of leases: a leased payload is in *)
(* the processing ZSET, a visible one is pending and not leased.            *)
Lease_place ==
  [t \in Task |-> IF t \in processing THEN "leased"
                  ELSE IF t \in pending THEN "visible" ELSE "absent"]

L == INSTANCE LeaseQueue WITH place <- Lease_place, holder <- leasedTo

(* Every script, lost call and crash is a step of the abstract queue or     *)
(* leaves it unchanged: SADD filtering, receipts and visibility timeouts    *)
(* together give single-holder leases and at-least-once delivery.           *)
ImplementsLeaseQueue == L!LeaseSpec
=============================================================================
