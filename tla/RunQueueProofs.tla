--------------------------- MODULE RunQueueProofs ---------------------------
(***************************************************************************)
(* What holds of the run queue for every set of tasks, processes and        *)
(* receipts and every number of calls in flight.                            *)
(***************************************************************************)
EXTENDS RunQueue, TLAPS, FiniteSetTheorems

-----------------------------------------------------------------------------
(* Sequences without repetition, seen as the sets of their elements.        *)

(* Appending a new task to the ready list adds it once.                     *)
LEMMA AppendNew ==
  ASSUME NEW S, NEW s \in Seq(S), NEW t \in S, IsInjective(s), t \notin Range(s)
  PROVE  /\ Append(s, t) \in Seq(S)
         /\ IsInjective(Append(s, t))
         /\ Range(Append(s, t)) = Range(s) \cup {t}
<1> DEFINE a == Append(s, t)
<1>1. /\ a \in Seq(S) /\ Len(a) = Len(s) + 1 /\ DOMAIN a = 1..(Len(s) + 1)
      /\ DOMAIN s = 1..Len(s) /\ Len(s) \in Nat
      /\ \A i \in 1..Len(s) : a[i] = s[i]
      /\ a[Len(s) + 1] = t
  OBVIOUS
<1> HIDE DEF a
<1>2. IsInjective(a)
  BY <1>1 DEF IsInjective, Range
<1>3. Range(a) = Range(s) \cup {t}
  BY <1>1 DEF Range
<1> QED BY <1>1, <1>2, <1>3 DEF a

(* The visible tasks of a dequeue: the ready list followed by an            *)
(* enumeration of the reclaimed leases holds each of them once.             *)
LEMMA AppendEnumeration ==
  ASSUME NEW S, NEW s \in Seq(S), NEW E \in SUBSET S, NEW n \in Nat,
         NEW e \in Bijection(1..n, E), IsInjective(s), Range(s) \cap E = {}
  PROVE  /\ s \o e \in Seq(S)
         /\ IsInjective(s \o e)
         /\ Range(s \o e) = Range(s) \cup E
<1> DEFINE v == s \o e
<1>0. /\ e \in [1..n -> E] /\ IsInjective(e) /\ \A x \in E : \E i \in 1..n : e[i] = x
  BY DEF Bijection, Injection, Surjection
<1>a. e \in Seq(S) /\ Len(e) = n
  BY <1>0
<1>1. /\ v \in Seq(S) /\ Len(v) = Len(s) + n /\ DOMAIN v = 1..(Len(s) + n)
      /\ DOMAIN s = 1..Len(s) /\ Len(s) \in Nat
      /\ \A i \in 1..Len(s) : v[i] = s[i]
      /\ \A i \in (Len(s) + 1)..(Len(s) + n) : v[i] = e[i - Len(s)]
  BY <1>a
<1> HIDE DEF v
<1>2. \A i \in DOMAIN v : \/ i \in DOMAIN s /\ v[i] = s[i]
                          \/ i - Len(s) \in 1..n /\ v[i] = e[i - Len(s)]
  BY <1>1
<1>3. IsInjective(v)
  <2> SUFFICES ASSUME NEW i \in DOMAIN v, NEW j \in DOMAIN v, v[i] = v[j]
               PROVE  i = j
    BY DEF IsInjective
  <2>1. CASE i \in DOMAIN s /\ j \in DOMAIN s
    BY <2>1, <1>1 DEF IsInjective
  <2>2. CASE i \in DOMAIN s /\ j \notin DOMAIN s
    BY <2>2, <1>0, <1>1, <1>2 DEF Range
  <2>3. CASE i \notin DOMAIN s /\ j \in DOMAIN s
    BY <2>3, <1>0, <1>1, <1>2 DEF Range
  <2>4. CASE i \notin DOMAIN s /\ j \notin DOMAIN s
    <3>1. /\ i - Len(s) \in 1..n /\ j - Len(s) \in 1..n
          /\ e[i - Len(s)] = e[j - Len(s)]
      BY <2>4, <1>2
    <3>2. i - Len(s) = j - Len(s)
      BY <3>1, <1>0 DEF IsInjective
    <3> QED BY <3>2, <1>1
  <2> QED BY <2>1, <2>2, <2>3, <2>4
<1>4. Range(v) \subseteq Range(s) \cup E
  BY <1>0, <1>2 DEF Range
<1>5. Range(s) \subseteq Range(v)
  BY <1>1 DEF Range
<1>6. ASSUME NEW x \in E PROVE x \in Range(v)
  <2>1. PICK i \in 1..n : e[i] = x
    BY <1>0
  <2>2. PICK k \in (Len(s) + 1)..(Len(s) + n) : k - Len(s) = i
    <3>1. Len(s) + i \in (Len(s) + 1)..(Len(s) + n) /\ (Len(s) + i) - Len(s) = i
      BY <1>1
    <3> QED BY <3>1
  <2>3. k \in DOMAIN v /\ v[k] = x
    <3>1. k \in 1..(Len(s) + n)
      BY <1>1
    <3> QED BY <3>1, <2>1, <2>2, <1>1
  <2> QED BY <2>3 DEF Range
<1> QED BY <1>1, <1>3, <1>4, <1>5, <1>6 DEF v

(* Leasing the head of the list leaves all the others, in order.            *)
LEMMA TakeHead ==
  ASSUME NEW S, NEW v \in Seq(S), v # <<>>, IsInjective(v)
  PROVE  /\ Head(v) \in Range(v)
         /\ Tail(v) \in Seq(S)
         /\ IsInjective(Tail(v))
         /\ Range(Tail(v)) = Range(v) \ {Head(v)}
<1> DEFINE w == Tail(v)
<1>1. /\ w \in Seq(S) /\ Len(v) \in Nat \ {0} /\ DOMAIN v = 1..Len(v)
      /\ Len(w) = Len(v) - 1 /\ DOMAIN w = 1..(Len(v) - 1)
      /\ Head(v) = v[1]
      /\ \A i \in 1..(Len(v) - 1) : w[i] = v[i + 1]
  OBVIOUS
<1> HIDE DEF w
<1>2. Head(v) \in Range(v)
  BY <1>1 DEF Range
<1>3. IsInjective(w)
  <2> SUFFICES ASSUME NEW i \in DOMAIN w, NEW j \in DOMAIN w, w[i] = w[j]
               PROVE  i = j
    BY DEF IsInjective
  <2>1. i + 1 \in DOMAIN v /\ j + 1 \in DOMAIN v /\ v[i + 1] = v[j + 1]
    BY <1>1
  <2>2. i + 1 = j + 1
    BY <2>1 DEF IsInjective
  <2> QED BY <2>2, <1>1
<1>4. Range(w) \subseteq Range(v) \ {Head(v)}
  BY <1>1 DEF Range, IsInjective
<1>5. ASSUME NEW x \in Range(v) \ {Head(v)} PROVE x \in Range(w)
  <2>1. PICK i \in DOMAIN v : v[i] = x
    BY DEF Range
  <2>2. i - 1 \in DOMAIN w /\ w[i - 1] = x
    BY <2>1, <1>1
  <2> QED BY <2>2 DEF Range
<1> QED BY <1>1, <1>2, <1>3, <1>4, <1>5 DEF w

-----------------------------------------------------------------------------
(* The inductive invariant: each part needs the others.  Conservation needs *)
(* ReceiptWhileLeased to know that an acknowledge with the current receipt  *)
(* removes a leased task, and ReceiptIsPrivate needs the fresh receipt of   *)
(* Lease to be unknown to every dict and every call.                        *)
QueueInv ==
  /\ QueueTypeOK
  /\ Conservation
  /\ ReceiptWhileLeased
  /\ ReceiptIsPrivate

(* An empty queue satisfies the invariant.                                  *)
LEMMA QueueInitInv == QueueInit => QueueInv
<1> SUFFICES ASSUME QueueInit PROVE QueueInv
  OBVIOUS
<1>1. QueueTypeOK
  BY DEF QueueInit, QueueTypeOK, NoReceipts, MaybeReceipt
<1>2. Conservation
  BY DEF QueueInit, Conservation, Range, IsInjective
<1>3. ReceiptWhileLeased /\ ReceiptIsPrivate
  BY DEF QueueInit, ReceiptWhileLeased, ReceiptIsPrivate, NoReceipts
<1> QED BY <1>1, <1>2, <1>3 DEF QueueInv

(* What a dequeue does to the lists, seen as sets.                          *)
LEMMA LeaseEffect ==
  ASSUME QueueInv, NEW p \in Proc, NEW t \in Task, NEW r \in Receipt, Lease(p, t, r)
  PROVE  /\ t \in Range(ready) \cup expired
         /\ ready' \in Seq(Task)
         /\ IsInjective(ready')
         /\ Range(ready') = (Range(ready) \cup expired) \ {t}
<1> DEFINE n == Cardinality(expired)
<1>1. PICK order \in Bijection(1..n, expired) :
        /\ ready \o order # <<>>
        /\ t = Head(ready \o order)
        /\ ready' = Tail(ready \o order)
  BY DEF Lease, Reclaimed
<1>2. n \in Nat
  <2>1. IsFiniteSet(expired)
    BY TaskAssumption, FS_Subset DEF QueueInv, QueueTypeOK
  <2> QED BY <2>1, FS_CardinalityType
<1>3. /\ ready \in Seq(Task) /\ expired \in SUBSET Task /\ IsInjective(ready)
      /\ Range(ready) \cap expired = {}
  BY DEF QueueInv, QueueTypeOK, Conservation
<1> HIDE DEF n
<1>4. /\ ready \o order \in Seq(Task)
      /\ IsInjective(ready \o order)
      /\ Range(ready \o order) = Range(ready) \cup expired
  BY <1>1, <1>2, <1>3, AppendEnumeration
<1> QED BY <1>1, <1>4, TakeHead

(* Writing one entry of a receipt dict keeps the type of all of them.       *)
LEMMA HeldUpdate ==
  ASSUME NEW P, NEW T, NEW V, NEW h \in [P -> [T -> V]],
         NEW p \in P, NEW t \in T, NEW v \in V
  PROVE  [h EXCEPT ![p][t] = v] \in [P -> [T -> V]]
<1>1. [h[p] EXCEPT ![t] = v] \in [T -> V]
  OBVIOUS
<1> QED BY <1>1

(* One lemma per kind of step: the queue scripts, the clients, the clock.   *)
(* _ENQUEUE adds a payload that is not pending, and filters one that is.    *)
LEMMA EnqueueInv ==
  ASSUME QueueInv, NEW t \in Task, Enqueue(t)
  PROVE  QueueInv'
<1> USE DEF QueueInv
<1>1. CASE t \in pending
  BY <1>1 DEF Enqueue, QueueTypeOK, Conservation, ReceiptWhileLeased, ReceiptIsPrivate
<1>2. CASE t \notin pending
  <2>1. /\ pending' = pending \cup {t} /\ ready' = Append(ready, t)
        /\ UNCHANGED <<delayed, processing, expired, receipts, held, calls, leasedTo>>
    BY <1>2 DEF Enqueue
  <2>2. /\ ready' \in Seq(Task) /\ IsInjective(ready')
        /\ Range(ready') = Range(ready) \cup {t}
    BY <1>2, <2>1, AppendNew DEF QueueTypeOK, Conservation
  <2>3. QueueTypeOK'
    BY <2>1, <2>2 DEF QueueTypeOK
  <2>4. Conservation'
    BY <1>2, <2>1, <2>2 DEF Conservation
  <2>5. ReceiptWhileLeased' /\ ReceiptIsPrivate'
    BY <2>1 DEF ReceiptWhileLeased, ReceiptIsPrivate
  <2> QED BY <2>3, <2>4, <2>5
<1> QED BY <1>1, <1>2

(* A delayed task becomes visible: it moves from one place to another.      *)
LEMMA DelayElapsesInv ==
  ASSUME QueueInv, NEW t \in Task, DelayElapses(t)
  PROVE  QueueInv'
<1> USE DEF QueueInv
<1>1. /\ t \in delayed /\ delayed' = delayed \ {t} /\ ready' = Append(ready, t)
      /\ UNCHANGED <<pending, processing, expired, receipts, held, calls, leasedTo>>
  BY DEF DelayElapses
<1>2. /\ ready' \in Seq(Task) /\ IsInjective(ready')
      /\ Range(ready') = Range(ready) \cup {t}
  BY <1>1, AppendNew DEF QueueTypeOK, Conservation
<1>3. QueueTypeOK'
  BY <1>1, <1>2 DEF QueueTypeOK
<1>4. Conservation'
  BY <1>1, <1>2 DEF Conservation
<1>5. ReceiptWhileLeased' /\ ReceiptIsPrivate'
  BY <1>1 DEF ReceiptWhileLeased, ReceiptIsPrivate
<1> QED BY <1>3, <1>4, <1>5

(* A dequeue, whether its receipt reaches the process or not.               *)
LEMMA LeaseInv ==
  ASSUME QueueInv, NEW p \in Proc, NEW t \in Task, NEW r \in Receipt, Lease(p, t, r),
         \/ held' = [held EXCEPT ![p][t] = r]
         \/ held' = held
  PROVE  QueueInv'
<1> USE DEF QueueInv
<1>1. /\ r \notin UsedReceipts
      /\ processing' = (processing \ expired) \cup {t}
      /\ expired' = {}
      /\ receipts' = [x \in Task |-> IF x = t THEN r
                                     ELSE IF x \in expired THEN NoReceipt
                                     ELSE receipts[x]]
      /\ leasedTo' = [leasedTo EXCEPT ![t] = p]
      /\ UNCHANGED <<pending, delayed, calls>>
  BY DEF Lease
<1>2. /\ t \in Range(ready) \cup expired
      /\ ready' \in Seq(Task)
      /\ IsInjective(ready')
      /\ Range(ready') = (Range(ready) \cup expired) \ {t}
  BY LeaseEffect
<1>3. QueueTypeOK'
  <2>1. held' \in [Proc -> [Task -> MaybeReceipt]]
    <3>1. r \in MaybeReceipt /\ held \in [Proc -> [Task -> MaybeReceipt]]
      BY DEF QueueTypeOK, MaybeReceipt
    <3>2. [held EXCEPT ![p][t] = r] \in [Proc -> [Task -> MaybeReceipt]]
      BY <3>1, HeldUpdate, Zenon
    <3> QED BY <3>1, <3>2, Zenon
  <2>2. receipts' \in [Task -> MaybeReceipt] /\ leasedTo' \in [Task -> Proc]
    BY <1>1 DEF QueueTypeOK, MaybeReceipt
  <2> QED BY <1>1, <1>2, <2>1, <2>2 DEF QueueTypeOK
<1>4. Conservation'
  BY <1>1, <1>2 DEF Conservation
<1>5. ReceiptWhileLeased'
  BY <1>1, ReceiptAssumption DEF ReceiptWhileLeased, QueueTypeOK
<1>6. ReceiptIsPrivate'
  <2>1. /\ \A x \in Task : receipts[x] # r
        /\ \A q \in Proc, x \in Task : held[q][x] # r
        /\ \A c \in calls : c.receipt # r
    BY <1>1 DEF UsedReceipts
  <2>2. \A q \in Proc, x \in Task :
          held'[q][x] = held[q][x] \/ (q = p /\ x = t /\ held'[q][x] = r)
    BY DEF QueueTypeOK
  <2>3. \A x \in Task : /\ x # t => \/ receipts'[x] = NoReceipt
                                    \/ receipts'[x] = receipts[x]
                        /\ x # t => leasedTo'[x] = leasedTo[x]
    BY <1>1 DEF QueueTypeOK
  <2>4. receipts'[t] = r /\ leasedTo'[t] = p
    BY <1>1 DEF QueueTypeOK
  <2> SUFFICES ASSUME NEW x \in Task, receipts'[x] # NoReceipt
               PROVE  /\ \A q \in Proc, u \in Task :
                           held'[q][u] = receipts'[x] => q = leasedTo'[x] /\ u = x
                      /\ \A c \in calls' : c.receipt = receipts'[x] => c.task = x
                      /\ \A u \in Task : receipts'[u] = receipts'[x] => u = x
    BY DEF ReceiptIsPrivate
  <2>5. CASE x = t
    BY <2>1, <2>2, <2>3, <2>4, <2>5, <1>1
  <2>6. CASE x # t
    BY <2>1, <2>2, <2>3, <2>4, <2>6, <1>1 DEF ReceiptIsPrivate
  <2> QED BY <2>5, <2>6
<1> QED BY <1>3, <1>4, <1>5, <1>6

(* A process sends a call, popping its receipt or keeping it.               *)
LEMMA SendInv ==
  ASSUME QueueInv, NEW p \in Proc, NEW t \in Task,
         NEW op \in {"ack", "retry", "extend"}, Send(op, p, t),
         \/ held' = [held EXCEPT ![p][t] = NoReceipt]
         \/ held' = held,
         UNCHANGED <<pending, ready, delayed, processing, expired, receipts, leasedTo>>
  PROVE  QueueInv'
<1> USE DEF QueueInv
<1> DEFINE new == [op |-> op, task |-> t, receipt |-> held[p][t]]
<1>1. calls' = calls \cup {new}
  BY DEF Send
<1>2. new \in Call
  BY DEF Call, QueueTypeOK
<1>3. \A q \in Proc, x \in Task :
        held'[q][x] = held[q][x] \/ held'[q][x] = NoReceipt
  BY DEF QueueTypeOK
<1>4. QueueTypeOK'
  <2>1. held' \in [Proc -> [Task -> MaybeReceipt]]
    <3>1. NoReceipt \in MaybeReceipt /\ held \in [Proc -> [Task -> MaybeReceipt]]
      BY DEF QueueTypeOK, MaybeReceipt
    <3>2. [held EXCEPT ![p][t] = NoReceipt] \in [Proc -> [Task -> MaybeReceipt]]
      BY <3>1, HeldUpdate, Zenon
    <3> QED BY <3>1, <3>2, Zenon
  <2> QED BY <1>1, <1>2, <2>1 DEF QueueTypeOK
<1>5. Conservation' /\ ReceiptWhileLeased'
  BY DEF Conservation, ReceiptWhileLeased
<1>6. ReceiptIsPrivate'
  BY <1>1, <1>3 DEF ReceiptIsPrivate
<1> QED BY <1>4, <1>5, <1>6

(* Redis runs a call, or the call is lost.                                  *)
LEMMA CallInv ==
  ASSUME QueueInv, NEW c \in calls,
         Acknowledge(c) \/ Retry(c) \/ ExtendLease(c) \/ CallLost(c)
  PROVE  QueueInv'
<1> USE DEF QueueInv, Arrives
<1>0. c.task \in Task /\ calls' = calls \ {c} /\ held' = held /\ leasedTo' = leasedTo
  BY DEF QueueTypeOK, Call, Acknowledge, Retry, ExtendLease, CallLost
<1>1. CASE Acknowledge(c) /\ PresentsCurrent(c)
  <2>1. /\ pending' = pending \ {c.task} /\ processing' = processing \ {c.task}
        /\ expired' = expired \ {c.task}
        /\ receipts' = [receipts EXCEPT ![c.task] = NoReceipt]
        /\ ready' = ready /\ delayed' = delayed
    BY <1>1 DEF Acknowledge
  <2>2. c.task \in processing
    BY <1>0, <1>1 DEF PresentsCurrent, ReceiptWhileLeased
  <2>3. QueueTypeOK'
    BY <1>0, <2>1 DEF QueueTypeOK, MaybeReceipt
  <2>4. Conservation'
    BY <2>1, <2>2 DEF Conservation
  <2>5. ReceiptWhileLeased' /\ ReceiptIsPrivate'
    BY <1>0, <2>1 DEF ReceiptWhileLeased, ReceiptIsPrivate, QueueTypeOK
  <2> QED BY <2>3, <2>4, <2>5
<1>2. CASE Retry(c) /\ PresentsCurrent(c) /\ c.task \in processing
  <2>1. /\ pending' = pending /\ processing' = processing \ {c.task}
        /\ expired' = expired \ {c.task}
        /\ receipts' = [receipts EXCEPT ![c.task] = NoReceipt]
        /\ ready' = ready /\ delayed' = delayed \cup {c.task}
    BY <1>2 DEF Retry
  <2>3. QueueTypeOK'
    BY <1>0, <2>1 DEF QueueTypeOK, MaybeReceipt
  <2>4. Conservation'
    BY <1>2, <2>1 DEF Conservation
  <2>5. ReceiptWhileLeased' /\ ReceiptIsPrivate'
    BY <1>0, <2>1 DEF ReceiptWhileLeased, ReceiptIsPrivate, QueueTypeOK
  <2> QED BY <2>3, <2>4, <2>5
<1>3. CASE \/ Acknowledge(c) /\ ~PresentsCurrent(c)
           \/ Retry(c) /\ ~(PresentsCurrent(c) /\ c.task \in processing)
           \/ ExtendLease(c)
           \/ CallLost(c)
  <2>1. /\ UNCHANGED <<pending, ready, delayed, processing, receipts>>
        /\ expired' = expired \/ expired' = expired \ {c.task}
    BY <1>3 DEF Acknowledge, Retry, ExtendLease, CallLost
  <2>2. QueueTypeOK' /\ Conservation'
    BY <1>0, <2>1 DEF QueueTypeOK, Conservation
  <2>3. ReceiptWhileLeased' /\ ReceiptIsPrivate'
    BY <1>0, <2>1 DEF ReceiptWhileLeased, ReceiptIsPrivate
  <2> QED BY <2>2, <2>3
<1> QED BY <1>1, <1>2, <1>3

(* A deadline passes; the task stays leased until a dequeue reclaims it.    *)
LEMMA LeaseExpiresInv ==
  ASSUME QueueInv, NEW t \in Task, LeaseExpires(t)
  PROVE  QueueInv'
BY DEF QueueInv, LeaseExpires, QueueTypeOK, Conservation, ReceiptWhileLeased,
       ReceiptIsPrivate

(* A process dies with its receipts; the leases stay in Redis.              *)
LEMMA ProcessCrashInv ==
  ASSUME QueueInv, NEW p \in Proc, ProcessCrash(p)
  PROVE  QueueInv'
<1> USE DEF QueueInv
<1>1. /\ held' = [held EXCEPT ![p] = NoReceipts]
      /\ UNCHANGED <<pending, ready, delayed, processing, expired, receipts, calls,
                      leasedTo>>
  BY DEF ProcessCrash
<1>2. held' \in [Proc -> [Task -> MaybeReceipt]]
  BY <1>1 DEF QueueTypeOK, NoReceipts, MaybeReceipt
<1>3. \A q \in Proc, x \in Task : held'[q][x] = held[q][x] \/ held'[q][x] = NoReceipt
  BY <1>1 DEF QueueTypeOK, NoReceipts
<1>4. QueueTypeOK' /\ Conservation' /\ ReceiptWhileLeased'
  BY <1>1, <1>2 DEF QueueTypeOK, Conservation, ReceiptWhileLeased
<1>5. ReceiptIsPrivate'
  BY <1>1, <1>3 DEF ReceiptIsPrivate
<1> QED BY <1>4, <1>5

(* The invariant is inductive.                                              *)
LEMMA QueueNextInv == QueueInv /\ [QueueNext]_queueVars => QueueInv'
<1> SUFFICES ASSUME QueueInv, [QueueNext]_queueVars PROVE QueueInv'
  OBVIOUS
<1>1. CASE \E t \in Task : Enqueue(t)
  BY <1>1, EnqueueInv
<1>2. CASE \E p \in Proc, t \in Task : Dequeue(p, t) \/ DequeueReplyLost(p, t)
  BY <1>2, LeaseInv DEF Dequeue, DequeueReplyLost
<1>3. CASE \E p \in Proc, t \in Task :
             SendFinal("ack", p, t) \/ SendFinal("retry", p, t) \/ SendExtend(p, t)
  <2>1. PICK p \in Proc, t \in Task :
          SendFinal("ack", p, t) \/ SendFinal("retry", p, t) \/ SendExtend(p, t)
    BY <1>3
  <2>2. PICK op \in {"ack", "retry", "extend"} : Send(op, p, t)
    BY <2>1 DEF SendFinal, SendExtend
  <2>3. /\ held' = [held EXCEPT ![p][t] = NoReceipt] \/ held' = held
        /\ UNCHANGED <<pending, ready, delayed, processing, expired, receipts, leasedTo>>
    BY <2>1 DEF SendFinal, SendExtend
  <2> QED BY <2>2, <2>3, SendInv
<1>4. CASE \E c \in calls : Acknowledge(c) \/ Retry(c) \/ ExtendLease(c) \/ CallLost(c)
  BY <1>4, CallInv
<1>5. CASE \E t \in Task : LeaseExpires(t) \/ DelayElapses(t)
  BY <1>5, LeaseExpiresInv, DelayElapsesInv
<1>6. CASE \E p \in Proc : ProcessCrash(p)
  BY <1>6, ProcessCrashInv
<1>7. CASE UNCHANGED queueVars
  BY <1>7 DEF queueVars, QueueInv, QueueTypeOK, Conservation, ReceiptWhileLeased,
              ReceiptIsPrivate
<1> QED BY <1>1, <1>2, <1>3, <1>4, <1>5, <1>6, <1>7 DEF QueueNext

(* The invariant holds in every reachable state.                            *)
LEMMA QueueInvariant == QueueSpec => []QueueInv
BY QueueInitInv, QueueNextInv, PTL DEF QueueSpec

-----------------------------------------------------------------------------
(* The Redis keys and the receipt dicts of the processes keep their types.  *)
THEOREM QueueTypeCorrect == QueueSpec => []QueueTypeOK
<1>1. QueueInv => QueueTypeOK
  BY DEF QueueInv
<1> QED BY <1>1, QueueInvariant, PTL

(* No accepted task is lost, visible twice, or visible while it is leased.  *)
THEOREM QueueConserves == QueueSpec => []Conservation
<1>1. QueueInv => Conservation
  BY DEF QueueInv
<1> QED BY <1>1, QueueInvariant, PTL

(* The receipt of a live lease is known only to the process it was given to *)
(* and is present exactly while the task is leased.                         *)
THEOREM ReceiptsPrivate == QueueSpec => [](ReceiptIsPrivate /\ ReceiptWhileLeased)
<1>1. QueueInv => ReceiptIsPrivate /\ ReceiptWhileLeased
  BY DEF QueueInv
<1> QED BY <1>1, QueueInvariant, PTL

(* An unexpired lease ends only with an acknowledge or a retry under its    *)
(* own receipt.                                                             *)
THEOREM LateCallsHarmless == QueueSpec => LeaseEndsByItsReceipt
<1> DEFINE P == \A t \in processing \ expired :
                  \/ t \in processing' /\ receipts'[t] = receipts[t]
                  \/ \E c \in calls : /\ c.task = t /\ c.receipt = receipts[t]
                                      /\ c.op \in {"ack", "retry"} /\ c \notin calls'
<1>1. QueueInv /\ [QueueNext]_queueVars => [P]_queueVars
  <2> SUFFICES ASSUME QueueInv, QueueNext,
                      NEW t \in processing \ expired,
                      ~(t \in processing' /\ receipts'[t] = receipts[t])
               PROVE  \E c \in calls : /\ c.task = t /\ c.receipt = receipts[t]
                                       /\ c.op \in {"ack", "retry"} /\ c \notin calls'
    OBVIOUS
  <2>0. t \in Task /\ t \notin Range(ready) /\ receipts \in [Task -> MaybeReceipt]
    BY DEF QueueInv, QueueTypeOK, Conservation
  <2>1. ASSUME NEW c \in calls, Acknowledge(c) \/ Retry(c)
        PROVE  c.task = t /\ c.receipt = receipts[t] /\ c.op \in {"ack", "retry"}
               /\ c \notin calls'
    BY <2>0, <2>1 DEF Acknowledge, Retry, Arrives, PresentsCurrent
  <2>2. ASSUME NEW p \in Proc, NEW x \in Task, Dequeue(p, x) \/ DequeueReplyLost(p, x)
        PROVE  FALSE
    <3>1. PICK r \in Receipt : Lease(p, x, r)
      BY <2>2 DEF Dequeue, DequeueReplyLost
    <3>2. x \in Range(ready) \cup expired
      BY <3>1, LeaseEffect
    <3> QED BY <3>1, <3>2, <2>0 DEF Lease
  <2>3. QueueNext => \/ \E c \in calls : Acknowledge(c) \/ Retry(c)
                     \/ \E p \in Proc, x \in Task : Dequeue(p, x) \/ DequeueReplyLost(p, x)
                     \/ UNCHANGED <<processing, receipts>>
    BY DEF QueueNext, Enqueue, SendFinal, SendExtend, ExtendLease, CallLost,
           LeaseExpires, DelayElapses, ProcessCrash
  <2> QED BY <2>1, <2>2, <2>3
<1> QED BY <1>1, QueueInvariant, PTL DEF QueueSpec, LeaseEndsByItsReceipt

(* A task leaves the queue only when it is acknowledged under the receipt   *)
(* of its current lease.                                                    *)
THEOREM OnlyAcknowledgeRemoves == QueueSpec => LeavesOnlyAcknowledged
<1> DEFINE P == \A t \in pending \ pending' :
                  /\ t \in processing
                  /\ [op |-> "ack", task |-> t, receipt |-> receipts[t]] \in calls
<1>1. QueueInv /\ [QueueNext]_queueVars => [P]_queueVars
  <2> SUFFICES ASSUME QueueInv, QueueNext, NEW t \in pending \ pending'
               PROVE  /\ t \in processing
                      /\ [op |-> "ack", task |-> t, receipt |-> receipts[t]] \in calls
    OBVIOUS
  <2>1. QueueNext => \/ \E c \in calls : Acknowledge(c)
                     \/ pending \subseteq pending'
    BY DEF QueueNext, Enqueue, Dequeue, DequeueReplyLost, Lease, SendFinal, SendExtend,
           Retry, ExtendLease, CallLost, LeaseExpires, DelayElapses, ProcessCrash
  <2>2. PICK c \in calls : Acknowledge(c)
    BY <2>1
  <2>3. c \in Call /\ c.op = "ack" /\ c.task = t /\ PresentsCurrent(c)
    BY <2>2 DEF Acknowledge, Arrives, QueueInv, QueueTypeOK
  <2>4. t \in processing
    BY <2>3 DEF PresentsCurrent, QueueInv, ReceiptWhileLeased, Call
  <2>5. c = [op |-> "ack", task |-> t, receipt |-> receipts[t]]
    BY <2>3 DEF PresentsCurrent, Call
  <2> QED BY <2>4, <2>5
<1> QED BY <1>1, QueueInvariant, PTL DEF QueueSpec, LeavesOnlyAcknowledged

-----------------------------------------------------------------------------
(* Every script, call and crash is a step of the abstract queue, or none:   *)
(* a dequeue takes a task after its expired leases lapsed, an acknowledge   *)
(* or a retry under the current receipt is the holder's, everything else    *)
(* leaves the abstract state alone.                                         *)
THEOREM QueueImplementsLeases == QueueSpec => ImplementsLeaseQueue
<1>1. QueueInit => L!LeaseInit
  BY DEF QueueInit, L!LeaseInit, Lease_place
<1>2. QueueInv /\ [QueueNext]_queueVars => [L!LeaseNext]_(L!leaseVars)
  <2> SUFFICES ASSUME QueueInv, [QueueNext]_queueVars
               PROVE  L!LeaseNext \/ UNCHANGED L!leaseVars
    OBVIOUS
  <2> USE DEF QueueInv
  <2>0. /\ pending \subseteq Task /\ processing \subseteq pending /\ expired \subseteq processing
        /\ pending' \subseteq Task /\ processing' \subseteq pending'
    <3>1. QueueInv'
      BY QueueNextInv
    <3> QED BY <3>1 DEF QueueTypeOK, Conservation
  <2>1. ASSUME NEW t \in Task, Enqueue(t) PROVE L!LeaseNext
    <3>1. Lease_place' = [Lease_place EXCEPT ![t] = IF @ = "absent" THEN "visible" ELSE @]
      BY <2>0, <2>1 DEF Enqueue, Lease_place
    <3>2. L!Put(t)
      BY <2>1, <3>1 DEF Enqueue, L!Put
    <3> QED BY <3>2 DEF L!LeaseNext
  <2>2. ASSUME NEW p \in Proc, NEW t \in Task, Dequeue(p, t) \/ DequeueReplyLost(p, t)
        PROVE  L!LeaseNext
    <3>1. PICK r \in Receipt : Lease(p, t, r)
      BY <2>2 DEF Dequeue, DequeueReplyLost
    <3>2. t \in Range(ready) \cup expired
      BY <3>1, LeaseEffect
    <3>3. t \in pending /\ (t \in processing => t \in expired)
      BY <3>2 DEF Conservation
    <3>4. L!Take(p, t, expired)
      <4>1. \A u \in expired : Lease_place[u] = "leased"
        BY <2>0 DEF Lease_place
      <4>2. Lease_place[t] = "visible" \/ t \in expired
        BY <3>3 DEF Lease_place
      <4>3. Lease_place' = [u \in Task |-> IF u = t THEN "leased"
                                           ELSE IF u \in expired THEN "visible"
                                           ELSE Lease_place[u]]
        BY <2>0, <3>1 DEF Lease, Lease_place
      <4> QED BY <3>1, <4>1, <4>2, <4>3 DEF Lease, L!Take
    <3> QED BY <2>0, <3>4 DEF L!LeaseNext
  <2>3. ASSUME NEW c \in calls, Acknowledge(c), PresentsCurrent(c) PROVE L!LeaseNext
    <3>1. c.task \in processing /\ leasedTo[c.task] \in Proc
      BY <2>3 DEF PresentsCurrent, ReceiptWhileLeased, QueueTypeOK, Call
    <3>2. Lease_place' = [Lease_place EXCEPT ![c.task] = "absent"]
      BY <2>0, <2>3, <3>1 DEF Acknowledge, Lease_place
    <3>3. L!Finish(leasedTo[c.task], c.task)
      BY <2>0, <2>3, <3>1, <3>2 DEF Acknowledge, Arrives, L!Finish, L!Holds, Lease_place
    <3> QED BY <2>0, <3>1, <3>3 DEF L!LeaseNext
  <2>4. ASSUME NEW c \in calls, Retry(c), PresentsCurrent(c), c.task \in processing
        PROVE  L!LeaseNext
    <3>1. leasedTo[c.task] \in Proc
      BY <2>0, <2>4 DEF QueueTypeOK
    <3>2. Lease_place' = [Lease_place EXCEPT ![c.task] = "visible"]
      BY <2>0, <2>4 DEF Retry, Lease_place
    <3>3. L!GiveBack(leasedTo[c.task], c.task)
      BY <2>0, <2>4, <3>1, <3>2 DEF Retry, Arrives, L!GiveBack, L!Holds, Lease_place
    <3> QED BY <2>0, <2>4, <3>1, <3>3 DEF L!LeaseNext
  <2>5. CASE \/ \E t \in Task : LeaseExpires(t) \/ DelayElapses(t)
             \/ \E p \in Proc : ProcessCrash(p)
             \/ \E p \in Proc, t \in Task : \/ SendFinal("ack", p, t) \/ SendFinal("retry", p, t)
                                            \/ SendExtend(p, t)
             \/ \E c \in calls : \/ Acknowledge(c) /\ ~PresentsCurrent(c)
                                 \/ Retry(c) /\ ~(PresentsCurrent(c) /\ c.task \in processing)
                                 \/ ExtendLease(c) \/ CallLost(c)
             \/ UNCHANGED queueVars
    <3>1. UNCHANGED <<pending, processing, leasedTo>>
      BY <2>5 DEF LeaseExpires, DelayElapses, ProcessCrash, SendFinal, SendExtend, Acknowledge,
                  Retry, ExtendLease, CallLost, Arrives, queueVars
    <3> QED BY <3>1 DEF L!leaseVars, Lease_place
  <2> QED BY <2>1, <2>2, <2>3, <2>4, <2>5 DEF QueueNext
<1> QED BY <1>1, <1>2, QueueInvariant, PTL DEF QueueSpec, ImplementsLeaseQueue, L!LeaseSpec
=============================================================================
