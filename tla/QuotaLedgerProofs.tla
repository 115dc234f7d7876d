------------------------- MODULE QuotaLedgerProofs -------------------------
(***************************************************************************)
(* Proofs about QuotaLedger, for any Runs, clients, policies and bounds.    *)
(*                                                                         *)
(* The rows, the counters and the ledger change only in the three           *)
(* transactions reserve, commit and release (RowStep), and what these       *)
(* preserve (RowInv) does not depend on who calls them.  That every step of *)
(* every client is such a transaction needs what a client remembers between *)
(* two calls (JobInv): the reservation it built names limits that were in   *)
(* force, and the keys it will commit or release have a row.                *)
(*                                                                         *)
(* That an ended Run holds nothing (HeldInv) is about who answers for a     *)
(* reservation: whatever an over Run still holds is on the list of a client *)
(* or will be listed by one, and a Run under creation has one creator, who  *)
(* knows all of its rows.                                                   *)
(*                                                                         *)
(* That the counters are sums (BalanceInv) is about the transactions alone. *)
(***************************************************************************)
EXTENDS QuotaLedger, FiniteSetTheorems, WellFoundedInduction, TLAPS

RowTypes ==
  /\ rows \in [Key -> Reservation \cup {NoRow}]
  /\ reserved \in [Counter -> Int]
  /\ committed \in [Counter -> Nat]
  /\ ledger \in [Key -> Seq(Nat)]
  /\ overrun \in [Counter -> Nat]

RowInv == RowTypes /\ NotOversold /\ AccountedOnce

(* A reservation that a client may ask for: not yet settled, and limited by *)
(* what some policy said.                                                   *)
Askable(k, row) ==
  /\ row \in Reservation
  /\ row.state = "active"
  /\ \A c \in row.constraints : c.limit \in LimitsOf(<<c.scope, ResourceOf(k[2]), row.window>>)

RowStep ==
  \/ UNCHANGED rowVars
  \/ \E k \in Key, row \in Reservation :
       /\ Askable(k, row) /\ rows[k] = NoRow /\ ~Exceeds(row, k)
       /\ Insert(row, k)
  \/ \E k \in Key, amount \in Nat : rows[k] # NoRow /\ Commit(k, amount)
  \/ \E k \in Key, state \in {"released", "expired"} : rows[k] # NoRow /\ Release(k, state)

(* NoRow is no reservation.                                                 *)
LEMMA NoRowDistinct == ASSUME RowTypes, NEW k \in Key, rows[k] # NoRow
                       PROVE  rows[k] \in Reservation
BY DEF RowTypes

(* The resource of a key, and the counters of a reservation, exist.         *)
LEMMA CountersExist ==
  ASSUME NEW k \in Key, NEW row \in Reservation
  PROVE  /\ ResourceOf(k[2]) \in Resource
         /\ CountersOf(k, row) \subseteq Counter
         /\ \A n \in CountersOf(k, row) :
              \E c \in row.constraints : n = <<c.scope, ResourceOf(k[2]), row.window>>
<1>1. k[2] \in Kind
  BY DEF Key
<1>2. ResourceOf(k[2]) \in Resource
  BY <1>1 DEF Kind, ResourceOf, Resource
<1>3. \A c \in row.constraints : c.scope \in Scope
  BY DEF Reservation
<1>4. row.window \in Window
  BY DEF Reservation
<1> QED BY <1>2, <1>3, <1>4 DEF CountersOf, Counter

(* reserve adds to the counters of the reservation only what its limits     *)
(* leave room for.                                                          *)
LEMMA InsertInv ==
  ASSUME RowInv, NEW k \in Key, NEW row \in Reservation,
         Askable(k, row), rows[k] = NoRow, ~Exceeds(row, k), Insert(row, k)
  PROVE  RowInv'
<1>1. RowTypes'
  <2>1. row.amount \in Nat
    BY DEF Reservation
  <2>2. reserved' \in [Counter -> Int]
    BY <2>1 DEF Insert, RowInv, RowTypes
  <2>3. rows' \in [Key -> Reservation \cup {NoRow}]
    BY DEF Insert, RowInv, RowTypes
  <2> QED BY <2>2, <2>3 DEF Insert, RowInv, RowTypes
<1>2. NotOversold'
  <2> SUFFICES ASSUME NEW n \in Counter
               PROVE  \/ reserved'[n] + committed'[n] <= overrun'[n]
                      \/ \E m \in LimitsOf(n) : reserved'[n] + committed'[n] <= m + overrun'[n]
    BY DEF NotOversold, LimitsOf
  <2>1. committed' = committed /\ overrun' = overrun
    BY DEF Insert
  <2>2. CASE n \notin CountersOf(k, row)
    BY <2>1, <2>2 DEF Insert, RowInv, NotOversold
  <2>3. CASE n \in CountersOf(k, row)
    <3>1. PICK c \in row.constraints : n = <<c.scope, ResourceOf(k[2]), row.window>>
      BY <2>3, CountersExist
    <3>2. c.limit \in LimitsOf(n) /\ c.limit \in Nat /\ row.amount \in Nat
      BY <3>1, LimitAssumption DEF Askable, Reservation
    <3>3. ~(reserved[n] + committed[n] + row.amount > c.limit)
      BY <3>1 DEF Exceeds
    <3>4. reserved'[n] = reserved[n] + row.amount
      BY <2>3 DEF Insert
    <3>5. reserved[n] \in Int /\ committed[n] \in Nat /\ overrun[n] \in Nat
      BY DEF RowInv, RowTypes
    <3>6. reserved'[n] + committed'[n] <= c.limit + overrun'[n]
      BY <2>1, <3>2, <3>3, <3>4, <3>5
    <3> QED BY <3>2, <3>6
  <2> QED BY <2>2, <2>3
<1>3. AccountedOnce'
  <2>1. ledger' = ledger /\ \A x \in Key : x # k => rows'[x] = rows[x]
    BY DEF Insert, RowInv, RowTypes
  <2>2. rows'[k] = row /\ row.state # "committed"
    BY DEF Insert, RowInv, RowTypes, Askable
  <2> QED BY <2>1, <2>2 DEF AccountedOnce, RowInv
<1> QED BY <1>1, <1>2, <1>3 DEF RowInv

(* commit exchanges what was reserved for what was used: the total grows    *)
(* only by what the usage exceeds the reservation by.                       *)
LEMMA CommitInv ==
  ASSUME RowInv, NEW k \in Key, NEW amount \in Nat, rows[k] # NoRow, Commit(k, amount)
  PROVE  RowInv'
<1>1. CASE rows[k].state # "active"
  BY <1>1 DEF Commit, rowVars, RowInv, RowTypes, NotOversold, LimitsOf, AccountedOnce
<1>2. CASE rows[k].state = "active"
  <2> DEFINE row == rows[k]
             N == CountersOf(k, row)
  <2>1. row \in Reservation /\ row.amount \in Nat
    BY NoRowDistinct DEF RowInv, Reservation
  <2>2. /\ rows' = [rows EXCEPT ![k].state = "committed"]
        /\ reserved' = [n \in Counter |-> IF n \in N THEN reserved[n] - row.amount
                                                     ELSE reserved[n]]
        /\ committed' = [n \in Counter |-> IF n \in N THEN committed[n] + amount
                                                      ELSE committed[n]]
        /\ ledger' = [ledger EXCEPT ![k] = Append(@, amount)]
        /\ overrun' = [n \in Counter |-> IF n \in N /\ amount > row.amount
                                           THEN overrun[n] + (amount - row.amount)
                                           ELSE overrun[n]]
    BY <1>2 DEF Commit
  <2>3. [row EXCEPT !.state = "committed"] \in Reservation
    BY <2>1 DEF Reservation, Final
  <2>4. RowTypes'
    <3>1. rows' \in [Key -> Reservation \cup {NoRow}]
      BY <2>2, <2>3 DEF RowInv, RowTypes
    <3>2. /\ reserved' \in [Counter -> Int]
          /\ committed' \in [Counter -> Nat]
          /\ overrun' \in [Counter -> Nat]
      BY <2>1, <2>2 DEF RowInv, RowTypes
    <3>3. ledger' \in [Key -> Seq(Nat)]
      BY <2>2 DEF RowInv, RowTypes
    <3> QED BY <3>1, <3>2, <3>3 DEF RowTypes
  <2>5. NotOversold'
    <3> SUFFICES ASSUME NEW n \in Counter
                 PROVE  \/ reserved'[n] + committed'[n] <= overrun'[n]
                        \/ \E m \in LimitsOf(n) :
                             reserved'[n] + committed'[n] <= m + overrun'[n]
      BY DEF NotOversold, LimitsOf
    <3>1. reserved[n] \in Int /\ committed[n] \in Nat /\ overrun[n] \in Nat
      BY DEF RowInv, RowTypes
    <3>2. reserved'[n] + committed'[n] - overrun'[n] <= reserved[n] + committed[n] - overrun[n]
      <4>1. CASE n \in N /\ amount > row.amount
        <5>1. /\ reserved'[n] = reserved[n] - row.amount
              /\ committed'[n] = committed[n] + amount
              /\ overrun'[n] = overrun[n] + (amount - row.amount)
          BY <2>2, <4>1
        <5> QED BY <5>1, <3>1, <2>1
      <4>2. CASE n \in N /\ ~(amount > row.amount)
        <5>1. /\ reserved'[n] = reserved[n] - row.amount
              /\ committed'[n] = committed[n] + amount
              /\ overrun'[n] = overrun[n]
          BY <2>2, <4>2
        <5> QED BY <5>1, <3>1, <2>1, <4>2
      <4>3. CASE n \notin N
        BY <2>2, <3>1, <4>3
      <4> QED BY <4>1, <4>2, <4>3
    <3>3. reserved'[n] \in Int /\ committed'[n] \in Nat /\ overrun'[n] \in Nat
      BY <2>4 DEF RowTypes
    <3>4. \A m \in LimitsOf(n) : m \in Nat
      BY LimitAssumption DEF LimitsOf, Counter
    <3>5. CASE reserved[n] + committed[n] <= overrun[n]
      BY <3>1, <3>2, <3>3, <3>5
    <3>6. ASSUME NEW m \in LimitsOf(n), reserved[n] + committed[n] <= m + overrun[n]
          PROVE  reserved'[n] + committed'[n] <= m + overrun'[n]
      BY <3>1, <3>2, <3>3, <3>4, <3>6
    <3> QED BY <3>5, <3>6 DEF RowInv, NotOversold
  <2>6. AccountedOnce'
    <3>1. Len(ledger[k]) = 0 /\ ledger[k] \in Seq(Nat)
      BY <1>2 DEF RowInv, RowTypes, AccountedOnce
    <3>2. ledger'[k] = Append(ledger[k], amount)
      BY <2>2 DEF RowInv, RowTypes
    <3>3. Len(ledger'[k]) = 1
      BY <3>1, <3>2
    <3>4. rows'[k] # NoRow /\ rows'[k].state = "committed"
      <4>1. rows'[k] = [row EXCEPT !.state = "committed"]
        BY <2>2 DEF RowInv, RowTypes
      <4> QED BY <4>1, <2>1, <2>3, NoRowAssumption DEF Reservation
    <3>5. \A x \in Key : x # k => rows'[x] = rows[x] /\ ledger'[x] = ledger[x]
      BY <2>2 DEF RowInv, RowTypes
    <3> QED BY <3>3, <3>4, <3>5 DEF RowInv, AccountedOnce
  <2> QED BY <2>4, <2>5, <2>6 DEF RowInv
<1> QED BY <1>1, <1>2

(* release only takes away.                                                 *)
LEMMA ReleaseInv ==
  ASSUME RowInv, NEW k \in Key, NEW state \in {"released", "expired"}, rows[k] # NoRow,
         Release(k, state)
  PROVE  RowInv'
<1>1. CASE rows[k].state # "active"
  BY <1>1 DEF Release, rowVars, RowInv, RowTypes, NotOversold, LimitsOf, AccountedOnce
<1>2. CASE rows[k].state = "active"
  <2> DEFINE row == rows[k]
             N == CountersOf(k, row)
  <2>1. row \in Reservation /\ row.amount \in Nat
    BY NoRowDistinct DEF RowInv, Reservation
  <2>2. /\ rows' = [rows EXCEPT ![k].state = state]
        /\ reserved' = [n \in Counter |-> IF n \in N THEN reserved[n] - row.amount
                                                     ELSE reserved[n]]
        /\ UNCHANGED <<committed, ledger, overrun>>
    BY <1>2 DEF Release
  <2>3. [row EXCEPT !.state = state] \in Reservation
    BY <2>1 DEF Reservation, Final
  <2>4. RowTypes'
    <3>1. rows' \in [Key -> Reservation \cup {NoRow}]
      BY <2>2, <2>3 DEF RowInv, RowTypes
    <3>2. reserved' \in [Counter -> Int]
      BY <2>1, <2>2 DEF RowInv, RowTypes
    <3> QED BY <2>2, <3>1, <3>2 DEF RowInv, RowTypes
  <2>5. NotOversold'
    <3> SUFFICES ASSUME NEW n \in Counter
                 PROVE  \/ reserved'[n] + committed'[n] <= overrun'[n]
                        \/ \E m \in LimitsOf(n) :
                             reserved'[n] + committed'[n] <= m + overrun'[n]
      BY DEF NotOversold, LimitsOf
    <3>1. reserved[n] \in Int /\ committed[n] \in Nat /\ overrun[n] \in Nat
      BY DEF RowInv, RowTypes
    <3>2. reserved'[n] \in Int /\ reserved'[n] <= reserved[n]
      BY <2>1, <2>2, <3>1
    <3>3. \A m \in LimitsOf(n) : m \in Nat
      BY LimitAssumption DEF LimitsOf, Counter
    <3>4. committed'[n] = committed[n] /\ overrun'[n] = overrun[n]
      BY <2>2
    <3>5. CASE reserved[n] + committed[n] <= overrun[n]
      BY <3>1, <3>2, <3>4, <3>5
    <3>6. ASSUME NEW m \in LimitsOf(n), reserved[n] + committed[n] <= m + overrun[n]
          PROVE  reserved'[n] + committed'[n] <= m + overrun'[n]
      BY <3>1, <3>2, <3>3, <3>4, <3>6
    <3> QED BY <3>5, <3>6 DEF RowInv, NotOversold
  <2>6. AccountedOnce'
    <3>1. rows'[k] = [row EXCEPT !.state = state]
      BY <2>2 DEF RowInv, RowTypes
    <3>2. rows'[k].state # "committed"
      BY <2>1, <3>1 DEF Reservation
    <3>3. \A x \in Key : x # k => rows'[x] = rows[x]
      BY <2>2 DEF RowInv, RowTypes
    <3>4. Len(ledger[k]) = 0
      BY <1>2 DEF RowInv, AccountedOnce
    <3> QED BY <2>2, <3>2, <3>3, <3>4 DEF RowInv, AccountedOnce
  <2> QED BY <2>4, <2>5, <2>6 DEF RowInv
<1> QED BY <1>1, <1>2

(* Every transaction preserves what the tables promise.                     *)
LEMMA RowStepInv == RowInv /\ RowStep => RowInv'
<1>1. RowInv /\ UNCHANGED rowVars => RowInv'
  BY DEF rowVars, RowInv, RowTypes, NotOversold, LimitsOf, AccountedOnce
<1> QED BY <1>1, InsertInv, CommitInv, ReleaseInv DEF RowStep

(* What a transaction may do to a row that exists.                          *)
Kept(k) ==
  rows[k] # NoRow =>
    /\ rows'[k] # NoRow
    /\ rows'[k] = [rows[k] EXCEPT !.state = rows'[k].state]
    /\ rows[k].state \in Final => rows'[k] = rows[k]

(* A row is never removed, and after it has been settled never changed.     *)
LEMMA RowsKept == RowInv /\ RowStep => \A k \in Key : Kept(k)
<1> SUFFICES ASSUME RowInv, RowStep, NEW x \in Key, rows[x] # NoRow
             PROVE  Kept(x)
  BY DEF Kept
<1>0. rows[x] \in Reservation
  BY NoRowDistinct DEF RowInv
<1>1. CASE rows'[x] = rows[x]
  <2>1. rows[x] = [rows[x] EXCEPT !.state = rows[x].state]
    BY <1>0 DEF Reservation
  <2> QED BY <1>1, <2>1 DEF Kept
<1>2. ASSUME NEW state \in Final, rows[x].state = "active",
             rows'[x] = [rows[x] EXCEPT !.state = state]
      PROVE  Kept(x)
  <2>1. rows'[x] \in Reservation /\ rows'[x].state = state
    BY <1>0, <1>2 DEF Reservation
  <2> QED BY <1>2, <2>1, NoRowAssumption DEF Kept, Final
<1>3. CASE UNCHANGED rowVars
  BY <1>1, <1>3 DEF rowVars
<1>4. ASSUME NEW k \in Key, NEW row \in Reservation, rows[k] = NoRow, Insert(row, k)
      PROVE  rows'[x] = rows[x]
  BY <1>4 DEF Insert, RowInv, RowTypes
<1>5. ASSUME NEW k \in Key, NEW amount \in Nat, Commit(k, amount)
      PROVE  Kept(x)
  <2>1. CASE rows[k].state # "active" \/ k # x
    <3>1. rows'[x] = rows[x]
      BY <1>5, <2>1 DEF Commit, rowVars, RowInv, RowTypes
    <3> QED BY <3>1, <1>1
  <2>2. CASE rows[k].state = "active" /\ k = x
    <3>1. rows'[x] = [rows[x] EXCEPT !.state = "committed"]
      BY <1>5, <2>2 DEF Commit, RowInv, RowTypes
    <3> QED BY <3>1, <2>2, <1>2 DEF Final
  <2> QED BY <2>1, <2>2
<1>6. ASSUME NEW k \in Key, NEW state \in {"released", "expired"}, Release(k, state)
      PROVE  Kept(x)
  <2>1. CASE rows[k].state # "active" \/ k # x
    <3>1. rows'[x] = rows[x]
      BY <1>6, <2>1 DEF Release, rowVars, RowInv, RowTypes
    <3> QED BY <3>1, <1>1
  <2>2. CASE rows[k].state = "active" /\ k = x
    <3>1. rows'[x] = [rows[x] EXCEPT !.state = state]
      BY <1>6, <2>2 DEF Release, RowInv, RowTypes
    <3> QED BY <3>1, <2>2, <1>2 DEF Final
  <2> QED BY <2>1, <2>2
<1> QED BY <1>1, <1>3, <1>4, <1>5, <1>6 DEF RowStep

-----------------------------------------------------------------------------
(* What a client remembers between two calls.                               *)

Reserving == {"policy", "lookup", "write"}
OnRun == {"key", "consume", "execute", "cost", "unknown"} \cup Reserving

JobOK(j) ==
  /\ j \in Job
  /\ j.at \in OnRun => j.run \in Run
  /\ j.at \in {"key", "consume"} \cup Reserving => j.todo # <<>>
  /\ j.at = "key" => j.next = "ensure"
  /\ j.at = "consume" => j.next \in {"tokens", "cost"}
  /\ j.at \in Reserving => j.next \in {"admit", "ensure", "tokens", "cost"}
  /\ j.at \in {"lookup", "write"} => Askable(<<j.run, Head(j.todo)>>, j.seen)

(* The keys a client is about to commit or release have a row.              *)
KeysExist(j) ==
  /\ j.at = "consume" => rows[<<j.run, Head(j.todo)>>] # NoRow
  /\ \A k \in j.list : rows[k] # NoRow

(* The same after a step.                                                   *)
KeysStillExist(j) ==
  /\ j.at = "consume" => rows'[<<j.run, Head(j.todo)>>] # NoRow
  /\ \A k \in j.list : rows'[k] # NoRow

(* After the roll-back or the releases the client does not touch a Run.     *)
Returns(j) == j.at = "release" => j.next \in {"idle", "refused", "end"}

ClientsOK ==
  /\ client \in [Client -> Job]
  /\ \A c \in Client : JobOK(client[c]) /\ KeysExist(client[c]) /\ Returns(client[c])

PolicyKnown ==
  /\ policy \in [Scope -> [Resource -> Limit \cup {NoLimit}]]
  /\ \A s \in Scope, x \in Resource :
       policy[s][x] # NoLimit => \A w \in Window : policy[s][x] \in LimitsOf(<<s, x, w>>)

Rest ==
  /\ revision \in Nat
  /\ month \in 1..MaxMonth
  /\ unknown \subseteq Run
  /\ phase \in [Run -> {"absent", "creating", "queued", "running", "ended", "gone"}]
  /\ crashes \in 0..MaxCrash

JobInv == ClientsOK /\ PolicyKnown /\ Rest

QuotaInv == RowInv /\ JobInv

(* A client at work on a key has a key of a Run.                            *)
LEMMA KeyOfIsKey ==
  ASSUME JobInv, NEW c \in Client,
         client[c].at \in {"key", "consume"} \cup Reserving
  PROVE  KeyOf(c) \in Key /\ Head(client[c].todo) \in Kind /\ client[c].run \in Run
<1>1. client[c].run \in Run /\ client[c].todo # <<>> /\ client[c].todo \in Seq(Kind)
  BY DEF JobInv, ClientsOK, JobOK, OnRun, Job
<1>2. Head(client[c].todo) \in Kind
  BY <1>1
<1> QED BY <1>1, <1>2 DEF KeyOf, Key

(* Every step is one of the transactions, or changes no table.              *)
LEMMA StepIsTransaction == QuotaInv /\ QuotaNext => RowStep
<1> SUFFICES ASSUME QuotaInv, QuotaNext PROVE RowStep
  OBVIOUS
<1> USE DEF QuotaInv
<1>1. ASSUME NEW c \in Client, Write(c) PROVE RowStep
  <2>1. KeyOf(c) \in Key /\ Askable(KeyOf(c), client[c].seen)
    BY <1>1, KeyOfIsKey DEF Write, JobInv, ClientsOK, JobOK, Reserving, KeyOf
  <2> QED BY <1>1, <2>1 DEF Write, RowStep, Askable
<1>2. ASSUME NEW c \in Client, ConsumeCommit(c) PROVE RowStep
  <2>1. KeyOf(c) \in Key /\ rows[KeyOf(c)] # NoRow
    BY <1>2, KeyOfIsKey DEF ConsumeCommit, JobInv, ClientsOK, KeysExist, KeyOf
  <2>2. rows[KeyOf(c)].amount \in Nat
    BY <2>1, NoRowDistinct DEF RowInv, Reservation
  <2> QED BY <1>2, <2>1, <2>2 DEF ConsumeCommit, RowStep
<1>3. ASSUME NEW w \in Worker, RecordTokens(w) \/ RecordCost(w) PROVE RowStep
  <2>1. w \in Client /\ client[w].run \in Run
    BY <1>3 DEF RecordTokens, RecordCost, Client, JobInv, ClientsOK, JobOK, OnRun
  <2>2. PICK kind \in {"tokens", "cost"}, actual \in Kind, amount \in Usage :
               Record(w, kind, actual, amount)
    BY <1>3 DEF RecordTokens, RecordCost, Kind
  <2>3. <<client[w].run, kind>> \in Key /\ amount \in Nat
    BY <2>1, UsageAssumption DEF Key, Kind
  <2> QED BY <2>2, <2>3 DEF Record, RowStep
<1>4. ASSUME NEW w \in Worker, ReleaseCost(w) PROVE RowStep
  <2>1. w \in Client /\ client[w].run \in Run
    BY <1>4 DEF ReleaseCost, Client, JobInv, ClientsOK, JobOK, OnRun
  <2>2. <<client[w].run, "cost">> \in Key
    BY <2>1 DEF Key, Kind
  <2> QED BY <1>4, <2>2 DEF ReleaseCost, RowStep
<1>5. ASSUME NEW c \in Client, ReleaseNext(c) PROVE RowStep
  <2>1. PICK k \in client[c].list :
               Release(k, IF c = Reaper THEN "expired" ELSE "released")
    BY <1>5 DEF ReleaseNext
  <2>2. k \in Key /\ rows[k] # NoRow
    BY <2>1 DEF JobInv, ClientsOK, Job, KeysExist
  <2> QED BY <2>1, <2>2 DEF RowStep
<1>6. ASSUME ~(\E c \in Client : Write(c) \/ ConsumeCommit(c) \/ ReleaseNext(c)),
             ~(\E w \in Worker : RecordTokens(w) \/ RecordCost(w) \/ ReleaseCost(w))
      PROVE  UNCHANGED rowVars
  BY <1>6 DEF QuotaNext, ReserveStep, ApiStep, WorkerStep, RecordStep, CheckKey, ReadPolicies,
              Lookup, ListSubject, Crash, CreateRun, CreateUnadmitted, CancelRun, Refused,
              AddRun, AddRunFails, Deliver, NoRuntimeResult, RecordUnknown, EndRun,
              ReapExpired, NextMonth, ReplacePolicy
<1> QED BY <1>1, <1>2, <1>3, <1>4, <1>5, <1>6 DEF RowStep

-----------------------------------------------------------------------------
(* A client that takes a new position keeps the invariant of the clients if *)
(* the position is a sensible one.                                          *)
LEMMA ClientStep ==
  ASSUME ClientsOK, NEW c \in Client, NEW j, client' = [client EXCEPT ![c] = j],
         JobOK(j), KeysStillExist(j), Returns(j),
         \A k \in Key : rows[k] # NoRow => rows'[k] # NoRow
  PROVE  ClientsOK'
<1>1. client' \in [Client -> Job]
  BY DEF ClientsOK, JobOK
<1>2. ASSUME NEW d \in Client
      PROVE  JobOK(client'[d]) /\ KeysExist(client[d])' /\ Returns(client'[d])
  <2>1. CASE d = c
    <3>1. client'[d] = j
      BY <2>1 DEF ClientsOK
    <3> QED BY <3>1 DEF KeysExist, KeysStillExist
  <2>2. CASE d # c
    <3>1. client'[d] = client[d]
      BY <2>2 DEF ClientsOK
    <3>2. JobOK(client[d]) /\ KeysExist(client[d]) /\ Returns(client[d]) /\ client[d] \in Job
      BY DEF ClientsOK
    <3>3. client[d].list \subseteq Key
      BY <3>2 DEF Job
    <3>4. client[d].at = "consume" => <<client[d].run, Head(client[d].todo)>> \in Key
      <4>1. client[d].at = "consume" => /\ client[d].run \in Run /\ client[d].todo # <<>>
                                        /\ client[d].todo \in Seq(Kind)
        BY <3>2 DEF JobOK, OnRun, Job
      <4> QED BY <4>1 DEF Key
    <3>5. KeysExist(client[d])'
      BY <3>1, <3>2, <3>3, <3>4 DEF KeysExist
    <3> QED BY <3>1, <3>2, <3>5
  <2> QED BY <2>1, <2>2
<1> QED BY <1>1, <1>2 DEF ClientsOK, JobOK, Returns

(* An idle client remembers nothing.                                        *)
LEMMA IdleOK == Idle \in Job /\ JobOK(Idle) /\ Returns(Idle) /\ Idle.list = {} /\ Idle.at = "idle"
<1>1. Idle \in Job
  BY DEF Idle, Job, Place
<1> QED BY <1>1 DEF Idle, JobOK, Returns, OnRun, Reserving

(* No transaction removes a row.                                            *)
RowsStay == \A k \in Key : rows[k] # NoRow => rows'[k] # NoRow

(* The clients keep their invariant while they do nothing.                  *)
LEMMA ClientsStay == ClientsOK /\ RowsStay /\ UNCHANGED client => ClientsOK'
<1> SUFFICES ASSUME ClientsOK, RowsStay, UNCHANGED client, NEW d \in Client
             PROVE  KeysExist(client[d])'
  BY DEF ClientsOK, JobOK, Returns
<1>1. client[d].list \in SUBSET Key
  BY DEF ClientsOK, Job
<1>2. client[d].at = "consume" => <<client[d].run, Head(client[d].todo)>> \in Key
  <2>1. client[d].at = "consume" => /\ client[d].run \in Run /\ client[d].todo # <<>>
                                    /\ client[d].todo \in Seq(Kind)
    BY DEF ClientsOK, JobOK, OnRun, Job
  <2> QED BY <2>1 DEF Key
<1> QED BY <1>1, <1>2 DEF ClientsOK, KeysExist, RowsStay

(* The facts about a client that the next lemmas start from.                *)
LEMMA JobFacts ==
  ASSUME ClientsOK, NEW c \in Client
  PROVE  /\ client[c] \in Job /\ JobOK(client[c]) /\ Returns(client[c])
         /\ client[c].list \in SUBSET Key
         /\ \A k \in client[c].list : rows[k] # NoRow
BY DEF ClientsOK, Job, KeysExist

(* Moving on to a place where nothing is being reserved or released.        *)
LEMMA ToOK ==
  ASSUME ClientsOK, RowsStay, NEW c \in Client,
         NEW loc \in Place \ ({"key", "consume", "release"} \cup Reserving),
         To(c, loc), loc \in OnRun => client[c].run \in Run
  PROVE  ClientsOK'
<1> DEFINE j == [client[c] EXCEPT !.at = loc]
<1>1. client' = [client EXCEPT ![c] = j]
  BY DEF To
<1>2. j \in Job /\ j.at = loc /\ j.run = client[c].run /\ j.list = client[c].list
  BY JobFacts DEF Job
<1>3. JobOK(j) /\ Returns(j)
  BY <1>2 DEF JobOK, Returns, Reserving
<1>4. KeysStillExist(j)
  BY <1>2, JobFacts DEF KeysStillExist, RowsStay
<1> QED BY <1>1, <1>3, <1>4, ClientStep DEF RowsStay

(* Where the calls lead.                                                    *)
LEMMA Afters ==
  /\ AfterFailure["admit"] = "refused" /\ AfterFailure["ensure"] = "end"
  /\ AfterFailure["tokens"] = "end" /\ AfterFailure["cost"] = "end"
  /\ AfterSuccess["admit"] = "add" /\ AfterSuccess["ensure"] = "execute"
  /\ AfterSuccess["tokens"] = "cost" /\ AfterSuccess["cost"] = "end"
  /\ FirstStep["admit"] = "policy" /\ FirstStep["ensure"] = "key"
BY DEF AfterFailure, AfterSuccess, FirstStep

(* An exception in reserve: roll back, then leave.                          *)
LEMMA FailOK ==
  ASSUME ClientsOK, RowsStay, NEW c \in Client, client[c].at \in {"lookup", "write"}, Fail(c)
  PROVE  ClientsOK'
<1> DEFINE after == AfterFailure[client[c].next]
           loc == IF client[c].list = {} THEN after ELSE "release"
           j == [client[c] EXCEPT !.at = loc, !.next = after, !.todo = <<>>, !.seen = NoRow]
<1>1. client' = [client EXCEPT ![c] = j]
  BY DEF Fail
<1>2. after \in {"refused", "end"}
  BY JobFacts, Afters DEF JobOK, Reserving
<1>3. j \in Job /\ j.at = loc /\ j.next = after /\ j.list = client[c].list
  <2> HIDE DEF after, loc
  <2>1. loc \in Place /\ after \in {"refused", "end"} /\ <<>> \in Seq(Kind)
    BY <1>2 DEF loc, Place
  <2> QED BY <2>1, JobFacts DEF Job
<1>4. JobOK(j) /\ Returns(j)
  BY <1>2, <1>3 DEF JobOK, Returns, Reserving, OnRun
<1>5. KeysStillExist(j)
  BY <1>2, <1>3, JobFacts DEF KeysStillExist, RowsStay
<1> QED BY <1>1, <1>4, <1>5, ClientStep DEF RowsStay

(* reserve succeeded, or found a reservation.                               *)
LEMMA SettledOK ==
  ASSUME ClientsOK, RowsStay, NEW c \in Client, client[c].at \in {"key", "lookup", "write"},
         NEW own \in SUBSET Key, \A k \in own : rows'[k] # NoRow, Settled(c, own),
         client[c].next \notin Admitting => rows'[KeyOf(c)] # NoRow
  PROVE  ClientsOK'
<1> DEFINE J == client[c]
<1>1. /\ J \in Job /\ J.run \in Run /\ J.todo \in Seq(Kind) /\ J.todo # <<>>
      /\ J.next \in {"admit", "ensure", "tokens", "cost"}
  BY JobFacts DEF JobOK, Job, OnRun, Reserving
<1>2. CASE J.next \in Admitting
  <2> DEFINE last == Tail(J.todo) = <<>>
             loc == IF Tail(J.todo) # <<>> THEN FirstStep[J.next] ELSE AfterSuccess[J.next]
             rest == IF Tail(J.todo) = <<>> THEN {} ELSE J.list \cup own
             j == [J EXCEPT !.at = loc, !.todo = Tail(J.todo), !.seen = NoRow, !.list = rest]
  <2>1. client' = [client EXCEPT ![c] = j]
    BY <1>2 DEF Settled
  <2>2. Tail(J.todo) \in Seq(Kind)
    BY <1>1
  <2>3. /\ last => loc \in {"add", "execute"}
        /\ ~last => loc = FirstStep[J.next]
        /\ FirstStep[J.next] = IF J.next = "admit" THEN "policy" ELSE "key"
    BY <1>2, Afters DEF Admitting
  <2>4. rest \in SUBSET Key /\ \A k \in rest : rows'[k] # NoRow
    BY JobFacts DEF RowsStay
  <2>5. loc \in Place
    BY <2>3 DEF Place
  <2>6. /\ j \in Job /\ j.at = loc /\ j.todo = Tail(J.todo) /\ j.list = rest /\ j.run = J.run
        /\ j.next = J.next
    <3> HIDE DEF loc, rest, last
    <3> QED BY <1>1, <2>2, <2>4, <2>5 DEF Job
  <2>7. JobOK(j) /\ Returns(j)
    BY <1>1, <1>2, <2>3, <2>6 DEF JobOK, Returns, Reserving, OnRun, Admitting
  <2>8. KeysStillExist(j)
    <3>1. j.at # "consume"
      BY <2>3, <2>6
    <3>2. \A k \in j.list : rows'[k] # NoRow
      BY <2>4, <2>6
    <3> QED BY <3>1, <3>2 DEF KeysStillExist
  <2> QED BY <2>1, <2>7, <2>8, ClientStep DEF RowsStay
<1>3. CASE J.next \notin Admitting
  <2> DEFINE j == [J EXCEPT !.at = "consume", !.seen = NoRow]
  <2>1. client' = [client EXCEPT ![c] = j]
    BY <1>3 DEF Settled
  <2>2. /\ j \in Job /\ j.at = "consume" /\ j.todo = J.todo /\ j.list = J.list
        /\ j.run = J.run /\ j.next = J.next
    BY <1>1 DEF Job, Place
  <2>3. JobOK(j) /\ Returns(j)
    BY <1>1, <1>3, <2>2 DEF JobOK, Returns, Reserving, OnRun, Admitting
  <2>4. KeysStillExist(j)
    BY <1>3, <2>2, JobFacts DEF KeysStillExist, RowsStay, KeyOf
  <2> QED BY <2>1, <2>3, <2>4, ClientStep DEF RowsStay
<1> QED BY <1>2, <1>3

(* The length of a concatenation.                                           *)
LEMMA Concatenated ==
  ASSUME NEW S, NEW s \in Seq(S), NEW t \in Seq(S)
  PROVE  s \o t \in Seq(S) /\ Len(s \o t) = Len(s) + Len(t)
OBVIOUS

(* admit_run asks for at least one resource.                                *)
LEMMA RequestedOK ==
  ASSUME NEW r \in Run
  PROVE  Requested(r) \in Seq(Kind) /\ Requested(r) # <<>>
<1> DEFINE x == IF Plan[r]["cost"] > 0 THEN <<"cost">> ELSE <<>>
           y == IF Plan[r]["tokens"] > 0 THEN <<"tokens">> ELSE <<>>
           h == <<"concurrency">>
<1>1. /\ "concurrency" \in Kind /\ "cost" \in Kind /\ "tokens" \in Kind
  BY DEF Kind
<1>2. h \in Seq(Kind) /\ Len(h) = 1
  BY <1>1
<1>3. x \in Seq(Kind)
  BY <1>1
<1>4. y \in Seq(Kind)
  BY <1>1
<1>5. Requested(r) = (h \o x) \o y
  BY DEF Requested
<1> HIDE DEF x, y, h
<1>6. h \o x \in Seq(Kind) /\ Len(h \o x) = Len(h) + Len(x)
  BY <1>2, <1>3, Concatenated
<1>7. (h \o x) \o y \in Seq(Kind) /\ Len((h \o x) \o y) = Len(h \o x) + Len(y)
  BY <1>4, <1>6
<1>8. Len(x) \in Nat /\ Len(y) \in Nat
  BY <1>3, <1>4
<1>9. Len(Requested(r)) # 0
  BY <1>2, <1>5, <1>6, <1>7, <1>8
<1> QED BY <1>5, <1>7, <1>9

(* Starting from Idle, or going back to it.                                 *)
LEMMA FreshOK ==
  ASSUME ClientsOK, RowsStay, NEW c \in Client, NEW j, client' = [client EXCEPT ![c] = j],
         \/ j = Idle
         \/ \E r \in Run \cup {NoRow} : j = [Idle EXCEPT !.at = "list", !.run = r]
         \/ \E r \in Run, call \in {"admit", "ensure"} :
              j = [Idle EXCEPT !.at = FirstStep[call], !.run = r, !.todo = Requested(r),
                               !.next = call]
  PROVE  ClientsOK'
<1>1. CASE j = Idle
  <2>1. KeysStillExist(Idle)
    BY IdleOK DEF KeysStillExist
  <2> QED BY <1>1, <2>1, IdleOK, ClientStep DEF RowsStay
<1>2. ASSUME NEW r \in Run \cup {NoRow}, j = [Idle EXCEPT !.at = "list", !.run = r]
      PROVE  ClientsOK'
  <2>1. j \in Job /\ j.at = "list" /\ j.list = {}
    BY <1>2, IdleOK DEF Job, Place
  <2>2. JobOK(j) /\ Returns(j) /\ KeysStillExist(j)
    BY <2>1 DEF JobOK, Returns, KeysStillExist, OnRun, Reserving
  <2> QED BY <2>2, ClientStep DEF RowsStay
<1>3. ASSUME NEW r \in Run, NEW call \in {"admit", "ensure"},
             j = [Idle EXCEPT !.at = FirstStep[call], !.run = r, !.todo = Requested(r),
                              !.next = call]
      PROVE  ClientsOK'
  <2>1. Requested(r) \in Seq(Kind) /\ Requested(r) # <<>>
    BY RequestedOK
  <2>2. FirstStep[call] = IF call = "admit" THEN "policy" ELSE "key"
    BY Afters
  <2>3. /\ j \in Job /\ j.at = FirstStep[call] /\ j.run = r /\ j.todo = Requested(r)
        /\ j.next = call /\ j.list = {}
    BY <1>3, <2>1, <2>2, IdleOK DEF Job, Place
  <2>4. JobOK(j) /\ Returns(j) /\ KeysStillExist(j)
    BY <2>1, <2>2, <2>3 DEF JobOK, Returns, KeysStillExist, OnRun, Reserving
  <2> QED BY <2>4, ClientStep DEF RowsStay
<1> QED BY <1>1, <1>2, <1>3

(* Going on to release what was listed.                                     *)
LEMMA ReleaseListOK ==
  ASSUME ClientsOK, RowsStay, NEW c \in Client, NEW j \in Job,
         j.next \in {"idle", "refused", "end"}, \A k \in j.list : rows'[k] # NoRow,
         ReleaseList(c, j)
  PROVE  ClientsOK'
<1>1. CASE j.list # {}
  <2> DEFINE i == [j EXCEPT !.at = "release"]
  <2>1. i \in Job /\ i.at = "release" /\ i.next = j.next /\ i.list = j.list
    BY DEF Job, Place
  <2>2. JobOK(i) /\ Returns(i) /\ KeysStillExist(i)
    BY <2>1 DEF JobOK, Returns, KeysStillExist, OnRun, Reserving
  <2>3. client' = [client EXCEPT ![c] = i]
    BY <1>1 DEF ReleaseList
  <2> QED BY <2>2, <2>3, ClientStep DEF RowsStay
<1>2. CASE j.list = {} /\ j.next = "idle"
  <2>1. client' = [client EXCEPT ![c] = Idle]
    BY <1>2 DEF ReleaseList
  <2> QED BY <2>1, FreshOK
<1>3. CASE j.list = {} /\ j.next # "idle"
  <2> DEFINE i == [j EXCEPT !.at = j.next]
  <2>1. i \in Job /\ i.at = j.next /\ i.list = j.list
    BY <1>3 DEF Job, Place
  <2>2. JobOK(i) /\ Returns(i) /\ KeysStillExist(i)
    BY <1>3, <2>1 DEF JobOK, Returns, KeysStillExist, OnRun, Reserving
  <2>3. client' = [client EXCEPT ![c] = i]
    BY <1>3 DEF ReleaseList
  <2> QED BY <2>2, <2>3, ClientStep DEF RowsStay
<1> QED BY <1>1, <1>2, <1>3

-----------------------------------------------------------------------------
(* The steps of reserve.                                                    *)
LEMMA ReserveStepOK ==
  ASSUME QuotaInv, RowsStay, NEW c \in Client, ReserveStep(c)
  PROVE  ClientsOK'
<1> DEFINE J == client[c]
<1>0. ClientsOK /\ RowInv
  BY DEF QuotaInv, JobInv
<1>1. CASE CheckKey(c)
  <2>1. /\ J \in Job /\ J.at = "key" /\ J.run \in Run /\ J.todo # <<>> /\ J.next = "ensure"
        /\ \A k \in J.list : rows[k] # NoRow /\ k \in Key
    BY <1>0, <1>1, JobFacts DEF CheckKey, JobOK, OnRun
  <2>2. CASE Settled(c, {})
    BY <1>0, <2>1, <2>2, SettledOK DEF Admitting
  <2>3. CASE To(c, "policy")
    <3> DEFINE j == [J EXCEPT !.at = "policy"]
    <3>1. /\ j \in Job /\ j.at = "policy" /\ j.run = J.run /\ j.todo = J.todo
          /\ j.next = J.next /\ j.list = J.list
      BY <2>1 DEF Job, Place
    <3>2. JobOK(j) /\ Returns(j) /\ KeysStillExist(j)
      BY <2>1, <3>1 DEF JobOK, Returns, KeysStillExist, OnRun, Reserving, RowsStay
    <3>3. client' = [client EXCEPT ![c] = j]
      BY <2>3 DEF To
    <3> QED BY <1>0, <3>2, <3>3, ClientStep DEF RowsStay
  <2> QED BY <1>1, <2>2, <2>3 DEF CheckKey
<1>2. CASE ReadPolicies(c)
  <2> DEFINE kind == Head(J.todo)
             seen == [state |-> "active", amount |-> AmountOf(c),
                      constraints |-> Constraints(J.run, kind),
                      window |-> WindowAt(kind, month)]
             j == [J EXCEPT !.at = "lookup", !.seen = seen]
  <2>1. /\ J \in Job /\ J.at = "policy" /\ J.run \in Run /\ J.todo # <<>>
        /\ J.next \in {"admit", "ensure", "tokens", "cost"} /\ kind \in Kind
        /\ \A k \in J.list : rows[k] # NoRow /\ k \in Key
    BY <1>0, <1>2, JobFacts, KeyOfIsKey DEF ReadPolicies, JobOK, OnRun, Reserving, QuotaInv
  <2>2. AmountOf(c) \in Nat
    <3>1. J.amount \in Nat /\ Plan[J.run] \in [{"cost", "tokens"} -> Nat]
      BY <2>1, PlanAssumption DEF Job
    <3> QED BY <3>1 DEF AmountOf
  <2>3. ResourceOf(kind) \in Resource
    BY <2>1 DEF ResourceOf, Resource, Kind
  <2>4. WindowAt(kind, month) \in Window
    BY BoundAssumption DEF WindowAt, Window, QuotaInv, JobInv, Rest
  <2>5. /\ Constraints(J.run, kind) \subseteq [scope : Scope, limit : Limit]
        /\ \A x \in Constraints(J.run, kind) : \A w \in Window :
             x.limit \in LimitsOf(<<x.scope, ResourceOf(kind), w>>)
    <3>1. ScopesOf[J.run] \subseteq Scope
      BY <2>1, ScopesAssumption
    <3> HIDE DEF kind
    <3>2. ASSUME NEW s \in ScopesOf[J.run], policy[s][ResourceOf(kind)] # NoLimit
          PROVE  /\ policy[s][ResourceOf(kind)] \in Limit
                 /\ \A w \in Window : policy[s][ResourceOf(kind)]
                                        \in LimitsOf(<<s, ResourceOf(kind), w>>)
      BY <2>3, <3>1, <3>2 DEF QuotaInv, JobInv, PolicyKnown
    <3> QED BY <3>1, <3>2 DEF Constraints
  <2>6. seen \in Reservation /\ Askable(<<J.run, kind>>, seen)
    <3> HIDE DEF kind
    <3> QED BY <2>2, <2>4, <2>5 DEF Reservation, Askable
  <2> HIDE DEF seen
  <2>7. /\ j \in Job /\ j.at = "lookup" /\ j.run = J.run /\ j.todo = J.todo
        /\ j.next = J.next /\ j.list = J.list /\ j.seen = seen
    BY <2>1, <2>6 DEF Job, Place
  <2>8. JobOK(j) /\ Returns(j) /\ KeysStillExist(j)
    BY <2>1, <2>6, <2>7 DEF JobOK, Returns, KeysStillExist, OnRun, Reserving, RowsStay
  <2>9. client' = [client EXCEPT ![c] = j]
    BY <1>0, <1>2 DEF ReadPolicies, seen, ClientsOK
  <2> QED BY <1>0, <2>8, <2>9, ClientStep DEF RowsStay
<1>3. CASE Lookup(c)
  <2>1. /\ J.at = "lookup" /\ KeyOf(c) \in Key
        /\ J \in Job /\ JobOK(J) /\ \A k \in J.list : rows[k] # NoRow /\ k \in Key
    BY <1>0, <1>3, JobFacts, KeyOfIsKey DEF Lookup, QuotaInv, Reserving
  <2>2. CASE Fail(c)
    BY <1>0, <2>1, <2>2, FailOK
  <2>3. CASE rows[KeyOf(c)] # NoRow /\ Settled(c, {KeyOf(c)})
    BY <1>0, <2>1, <2>3, SettledOK DEF RowsStay
  <2>4. CASE To(c, "write")
    <3> DEFINE j == [J EXCEPT !.at = "write"]
    <3>1. /\ j \in Job /\ j.at = "write" /\ j.run = J.run /\ j.todo = J.todo
          /\ j.next = J.next /\ j.list = J.list /\ j.seen = J.seen
      BY <2>1 DEF Job, Place
    <3>2. JobOK(j) /\ Returns(j) /\ KeysStillExist(j)
      BY <2>1, <3>1 DEF JobOK, Returns, KeysStillExist, OnRun, Reserving, RowsStay
    <3>3. client' = [client EXCEPT ![c] = j]
      BY <2>4 DEF To
    <3> QED BY <1>0, <3>2, <3>3, ClientStep DEF RowsStay
  <2> QED BY <1>3, <2>2, <2>3, <2>4 DEF Lookup
<1>4. CASE Write(c)
  <2>1. J.at = "write" /\ KeyOf(c) \in Key /\ JobOK(J)
    BY <1>0, <1>4, JobFacts, KeyOfIsKey DEF Write, QuotaInv, Reserving
  <2>2. CASE Fail(c)
    BY <1>0, <2>1, <2>2, FailOK
  <2>3. CASE Settled(c, {KeyOf(c)}) /\ (rows[KeyOf(c)] # NoRow \/ Insert(J.seen, KeyOf(c)))
    <3>1. J.seen \in Reservation
      BY <2>1 DEF JobOK, Askable
    <3>2. rows'[KeyOf(c)] # NoRow
      BY <1>0, <2>1, <2>3, <3>1, NoRowAssumption DEF Insert, RowsStay, RowInv, RowTypes
    <3> QED BY <1>0, <2>1, <2>3, <3>2, SettledOK
  <2> QED BY <1>4, <2>2, <2>3 DEF Write
<1>5. CASE ConsumeCommit(c)
  <2> DEFINE loc == IF CommitRefused(KeyOf(c)) THEN AfterFailure[J.next]
                                               ELSE AfterSuccess[J.next]
             j == [J EXCEPT !.at = loc, !.todo = <<>>, !.amount = 0]
  <2>1. /\ J \in Job /\ J.at = "consume" /\ J.run \in Run /\ J.next \in {"tokens", "cost"}
        /\ \A k \in J.list : rows[k] # NoRow /\ k \in Key
    BY <1>0, <1>5, JobFacts DEF ConsumeCommit, JobOK, OnRun
  <2>2. loc \in {"end", "cost"}
    BY <2>1, Afters
  <2>3. client' = [client EXCEPT ![c] = j]
    BY <1>5 DEF ConsumeCommit
  <2> HIDE DEF loc
  <2>4. j \in Job /\ j.at = loc /\ j.run = J.run /\ j.list = J.list
    <3>1. loc \in Place /\ <<>> \in Seq(Kind)
      BY <2>2 DEF Place
    <3> QED BY <2>1, <3>1 DEF Job
  <2>5. JobOK(j) /\ Returns(j) /\ KeysStillExist(j)
    BY <2>1, <2>2, <2>4 DEF JobOK, Returns, KeysStillExist, OnRun, Reserving, RowsStay
  <2> QED BY <1>0, <2>3, <2>5, ClientStep DEF RowsStay
<1> QED BY <1>1, <1>2, <1>3, <1>4, <1>5 DEF ReserveStep

-----------------------------------------------------------------------------
(* The API's steps outside reserve.                                         *)
LEMMA ApiStepOK ==
  ASSUME ClientsOK, RowsStay, NEW c \in Api, ApiStep(c)
  PROVE  ClientsOK'
<1>0. c \in Client
  BY DEF Client
<1>1. ASSUME NEW r \in Run, CreateRun(c, r) PROVE ClientsOK'
  <2>1. client' = [client EXCEPT ![c] =
          [Idle EXCEPT !.at = FirstStep["admit"], !.run = r, !.todo = Requested(r),
                       !.next = "admit"]]
    BY <1>1, Afters DEF CreateRun, Starts
  <2> QED BY <1>0, <2>1, FreshOK
<1>2. ASSUME NEW r \in Run, CreateUnadmitted(c, r) PROVE ClientsOK'
  BY <1>2, ClientsStay DEF CreateUnadmitted
<1>3. ASSUME NEW r \in Run, CancelRun(c, r) PROVE ClientsOK'
  BY <1>0, <1>3, FreshOK DEF CancelRun, Starts
<1>4. CASE Refused(c) \/ AddRun(c)
  BY <1>0, <1>4, FreshOK DEF Refused, AddRun
<1>5. CASE AddRunFails(c)
  BY <1>0, <1>5, ToOK DEF AddRunFails, Place, OnRun, Reserving
<1> QED BY <1>1, <1>2, <1>3, <1>4, <1>5 DEF ApiStep

(* record_run_result for one resource.                                      *)
LEMMA RecordOK ==
  ASSUME ClientsOK, RowsStay, NEW w \in Client, client[w].at \in {"execute", "cost"},
         NEW kind \in {"tokens", "cost"}, NEW actual \in Kind, NEW amount \in Nat,
         Record(w, kind, actual, amount)
  PROVE  ClientsOK'
<1> DEFINE J == client[w]
<1>1. J \in Job /\ J.run \in Run /\ \A k \in J.list : rows[k] # NoRow /\ k \in Key
  BY JobFacts DEF JobOK, OnRun
<1>2. ASSUME NEW loc \in {"end", "cost"}, To(w, loc) PROVE ClientsOK'
  BY <1>1, <1>2, ToOK DEF Place, Reserving
<1>3. AfterFailure[kind] \in {"end", "cost"} /\ AfterSuccess[kind] \in {"end", "cost"}
  BY Afters
<1>4. CASE rows[<<J.run, kind>>] # NoRow
  BY <1>2, <1>3, <1>4 DEF Record
<1>5. CASE rows[<<J.run, kind>>] = NoRow /\ amount = 0
  BY <1>2, <1>3, <1>5 DEF Record, To
<1>6. CASE rows[<<J.run, kind>>] = NoRow /\ amount # 0
  <2> DEFINE j == [J EXCEPT !.at = "policy", !.todo = <<actual>>, !.amount = amount,
                            !.next = kind]
  <2>1. client' = [client EXCEPT ![w] = j]
    BY <1>6 DEF Record
  <2>2. <<actual>> \in Seq(Kind) /\ <<actual>> # <<>>
    OBVIOUS
  <2>3. /\ j \in Job /\ j.at = "policy" /\ j.run = J.run /\ j.todo = <<actual>>
        /\ j.next = kind /\ j.list = J.list
    BY <1>1, <2>2 DEF Job, Place
  <2>4. JobOK(j) /\ Returns(j) /\ KeysStillExist(j)
    BY <1>1, <2>2, <2>3 DEF JobOK, Returns, KeysStillExist, OnRun, Reserving, RowsStay
  <2> QED BY <2>1, <2>4, ClientStep DEF RowsStay
<1> QED BY <1>4, <1>5, <1>6

(* The worker's steps outside reserve.                                      *)
LEMMA WorkerStepOK ==
  ASSUME ClientsOK, RowsStay, NEW w \in Worker, WorkerStep(w)
  PROVE  ClientsOK'
<1>0. w \in Client /\ JobOK(client[w]) /\ client[w] \in Job
  BY JobFacts DEF Client
<1>1. ASSUME NEW r \in Run, Deliver(w, r) PROVE ClientsOK'
  <2>1. CASE client' = [client EXCEPT ![w] =
               [Idle EXCEPT !.at = FirstStep["ensure"], !.run = r, !.todo = Requested(r),
                            !.next = "ensure"]]
    BY <1>0, <2>1, FreshOK
  <2>2. CASE client' = [client EXCEPT ![w] = [Idle EXCEPT !.at = "list", !.run = r]]
    BY <1>0, <2>2, FreshOK
  <2> QED BY <1>1, <2>1, <2>2, Afters DEF Deliver, Starts
<1>2. CASE NoRuntimeResult(w)
  BY <1>0, <1>2, ToOK DEF NoRuntimeResult, Place, OnRun, Reserving
<1>3. CASE RecordTokens(w)
  <2>1. "actual-tokens" \in Kind
    BY DEF Kind
  <2> QED BY <1>0, <1>3, <2>1, RecordOK, UsageAssumption DEF RecordTokens
<1>4. CASE RecordCost(w)
  <2>1. "actual-cost" \in Kind
    BY DEF Kind
  <2> QED BY <1>0, <1>4, <2>1, RecordOK, UsageAssumption DEF RecordCost
<1>5. CASE ReleaseCost(w)
  <2>1. client[w].run \in Run
    BY <1>0, <1>5 DEF ReleaseCost, JobOK, OnRun
  <2> QED BY <1>0, <1>5, <2>1, ToOK DEF ReleaseCost, Place, Reserving
<1>6. CASE RecordUnknown(w)
  BY <1>0, <1>6, ToOK DEF RecordUnknown, Place, OnRun, Reserving
<1>7. CASE EndRun(w)
  <2>1. client[w].run \in Run \cup {NoRow}
    BY <1>0 DEF Job
  <2> QED BY <1>0, <1>7, <2>1, FreshOK DEF EndRun
<1> QED BY <1>1, <1>2, <1>3, <1>4, <1>5, <1>6, <1>7 DEF WorkerStep, RecordStep

(* Giving back: release_subject, a roll-back and the reaper.                *)
LEMMA ReleaseStepOK ==
  ASSUME QuotaInv, RowsStay, NEW c \in Client, ListSubject(c) \/ ReleaseNext(c)
  PROVE  ClientsOK'
<1>0. ClientsOK /\ JobOK(client[c]) /\ client[c] \in Job /\ Returns(client[c])
      /\ \A k \in client[c].list : rows[k] # NoRow /\ k \in Key
  BY JobFacts DEF QuotaInv, JobInv
<1>1. CASE ListSubject(c)
  <2> DEFINE own == {k \in Active : k[1] = client[c].run}
             j == [Idle EXCEPT !.run = client[c].run, !.list = own]
  <2>1. own \in SUBSET Key /\ \A k \in own : rows'[k] # NoRow
    BY DEF Active, RowsStay
  <2> HIDE DEF own
  <2>2. j \in Job /\ j.next = "idle" /\ j.list = own
    <3>1. Idle \in Job /\ client[c].run \in Run \cup {NoRow}
      BY <1>0, IdleOK DEF Job
    <3>2. Idle.next = "idle"
      BY DEF Idle
    <3> QED BY <2>1, <3>1, <3>2 DEF Job
  <2>3. ReleaseList(c, j)
    BY <1>1 DEF ListSubject, own
  <2> QED BY <1>0, <2>1, <2>2, <2>3, ReleaseListOK
<1>2. CASE ReleaseNext(c)
  <2>1. PICK k \in client[c].list : ReleaseList(c, [client[c] EXCEPT !.list = @ \ {k}])
    BY <1>2 DEF ReleaseNext
  <2> DEFINE j == [client[c] EXCEPT !.list = @ \ {k}]
  <2>2. j \in Job /\ j.next = client[c].next /\ j.list = client[c].list \ {k}
    BY <1>0 DEF Job
  <2>3. j.next \in {"idle", "refused", "end"}
    BY <1>0, <1>2, <2>2 DEF ReleaseNext, Returns
  <2>4. \A x \in j.list : rows'[x] # NoRow
    BY <1>0, <2>2 DEF RowsStay
  <2> QED BY <1>0, <2>1, <2>2, <2>3, <2>4, ReleaseListOK
<1> QED BY <1>1, <1>2

(* The reaper takes up to MaxBatch overdue reservations.                    *)
LEMMA ReapOK ==
  ASSUME ClientsOK, RowsStay, NEW batch \in Batches, ReapExpired(batch)
  PROVE  ClientsOK'
<1> DEFINE j == [Idle EXCEPT !.at = "release", !.list = batch]
<1>1. batch \in SUBSET Key /\ \A k \in batch : rows'[k] # NoRow
  BY DEF Batches, Active, RowsStay
<1>2. j \in Job /\ j.at = "release" /\ j.next = "idle" /\ j.list = batch
  <2>1. Idle.next = "idle"
    BY DEF Idle
  <2> QED BY <1>1, <2>1, IdleOK DEF Job, Place
<1>3. JobOK(j) /\ Returns(j) /\ KeysStillExist(j)
  BY <1>1, <1>2 DEF JobOK, Returns, KeysStillExist, OnRun, Reserving
<1>4. client' = [client EXCEPT ![Reaper] = j] /\ Reaper \in Client
  BY DEF ReapExpired, Starts, Client
<1> QED BY <1>3, <1>4, ClientStep DEF RowsStay

-----------------------------------------------------------------------------
(* Every step keeps what the clients remember.                              *)
LEMMA ClientsInv == QuotaInv /\ QuotaNext /\ RowsStay => ClientsOK'
<1> SUFFICES ASSUME QuotaInv, QuotaNext, RowsStay PROVE ClientsOK'
  OBVIOUS
<1>0. ClientsOK
  BY DEF QuotaInv, JobInv
<1>1. ASSUME NEW c \in Client, Crash(c) PROVE ClientsOK'
  BY <1>0, <1>1, FreshOK DEF Crash
<1>2. CASE NextMonth
  BY <1>0, <1>2, ClientsStay DEF NextMonth
<1>3. ASSUME NEW s \in Scope, NEW limits \in NewLimits, ReplacePolicy(s, limits)
      PROVE  ClientsOK'
  BY <1>0, <1>3, ClientsStay DEF ReplacePolicy
<1> QED BY <1>0, <1>1, <1>2, <1>3, ReserveStepOK, ReleaseStepOK, ApiStepOK, WorkerStepOK,
           ReapOK DEF QuotaNext

(* The policies only ever set limits that the administrator may set.        *)
LEMMA PolicyInv == QuotaInv /\ QuotaNext => PolicyKnown'
<1> SUFFICES ASSUME QuotaInv, QuotaNext PROVE PolicyKnown'
  OBVIOUS
<1>0. PolicyKnown
  BY DEF QuotaInv, JobInv
<1>1. CASE UNCHANGED policy
  BY <1>0, <1>1 DEF PolicyKnown, LimitsOf
<1>2. ASSUME NEW s \in Scope, NEW limits \in NewLimits, ReplacePolicy(s, limits)
      PROVE  PolicyKnown'
  <2>1. policy' = [policy EXCEPT ![s] = limits]
    BY <1>2 DEF ReplacePolicy
  <2>2. limits \in [Resource -> Limit \cup {NoLimit}]
    BY LimitAssumption
  <2>3. policy' \in [Scope -> [Resource -> Limit \cup {NoLimit}]]
    BY <1>0, <2>1, <2>2 DEF PolicyKnown
  <2>4. ASSUME NEW t \in Scope, NEW x \in Resource, policy'[t][x] # NoLimit, NEW w \in Window
        PROVE  policy'[t][x] \in LimitsOf(<<t, x, w>>)
    <3>1. CASE t = s
      <4>1. policy'[t] = limits
        BY <1>0, <2>1, <3>1 DEF PolicyKnown
      <4> QED BY <2>4, <4>1 DEF LimitsOf
    <3>2. CASE t # s
      <4>1. policy'[t] = policy[t]
        BY <1>0, <2>1, <3>2 DEF PolicyKnown
      <4> QED BY <1>0, <2>4, <4>1 DEF PolicyKnown
    <3> QED BY <3>1, <3>2
  <2> QED BY <2>3, <2>4 DEF PolicyKnown, LimitsOf
<1>3. ASSUME ~(\E s \in Scope, limits \in NewLimits : ReplacePolicy(s, limits))
      PROVE  UNCHANGED policy
  BY <1>3 DEF QuotaNext, ReserveStep, ApiStep, WorkerStep, RecordStep, CheckKey, ReadPolicies,
              Lookup, Write, ConsumeCommit, ListSubject, ReleaseNext, Crash, CreateRun,
              CreateUnadmitted, CancelRun, Refused, AddRun, AddRunFails, Deliver,
              NoRuntimeResult, RecordTokens, RecordCost, ReleaseCost, RecordUnknown, EndRun,
              ReapExpired, NextMonth, envVars
<1> QED BY <1>1, <1>2, <1>3

(* The clock, the phases of the Runs and the history variables.             *)
LEMMA RestInv == QuotaInv /\ QuotaNext => Rest'
<1> SUFFICES ASSUME QuotaInv, QuotaNext PROVE Rest'
  OBVIOUS
<1>0. Rest /\ ClientsOK
  BY DEF QuotaInv, JobInv
<1>1. revision' \in Nat /\ month' \in 1..MaxMonth /\ crashes' \in 0..MaxCrash
  <2>1. \/ UNCHANGED <<revision, month, crashes>>
        \/ UNCHANGED <<revision, month>> /\ crashes < MaxCrash /\ crashes' = crashes + 1
        \/ UNCHANGED <<revision, crashes>> /\ month < MaxMonth /\ month' = month + 1
        \/ UNCHANGED <<month, crashes>> /\ revision' = revision + 1
    BY DEF QuotaNext, ReserveStep, ApiStep, WorkerStep, RecordStep, CheckKey, ReadPolicies,
           Lookup, Write, ConsumeCommit, ListSubject, ReleaseNext, Crash, CreateRun,
           CreateUnadmitted, CancelRun, Refused, AddRun, AddRunFails, Deliver,
           NoRuntimeResult, RecordTokens, RecordCost, ReleaseCost, RecordUnknown, EndRun,
           ReapExpired, NextMonth, ReplacePolicy, envVars
  <2> QED BY <1>0, <2>1, BoundAssumption DEF Rest
<1>2. unknown' \subseteq Run
  <2>1. UNCHANGED unknown \/ \E w \in Worker : RecordUnknown(w)
    BY DEF QuotaNext, ReserveStep, ApiStep, WorkerStep, RecordStep, CheckKey, ReadPolicies,
           Lookup, Write, ConsumeCommit, ListSubject, ReleaseNext, Crash, CreateRun,
           CreateUnadmitted, CancelRun, Refused, AddRun, AddRunFails, Deliver,
           NoRuntimeResult, RecordTokens, RecordCost, ReleaseCost, EndRun,
           ReapExpired, NextMonth, ReplacePolicy
  <2>2. ASSUME NEW w \in Worker, RecordUnknown(w) PROVE unknown' \subseteq Run
    <3>1. client[w].run \in Run
      BY <1>0, <2>2 DEF RecordUnknown, ClientsOK, JobOK, OnRun, Client
    <3> QED BY <1>0, <2>2, <3>1 DEF RecordUnknown, Rest
  <2> QED BY <1>0, <2>1, <2>2 DEF Rest
<1>3. phase' \in [Run -> {"absent", "creating", "queued", "running", "ended", "gone"}]
  <2>1. \/ UNCHANGED phase
        \/ \E r, p : /\ p \in {"creating", "queued", "running", "ended", "gone"}
                     /\ phase' = [phase EXCEPT ![r] = p]
    BY DEF QuotaNext, ReserveStep, ApiStep, WorkerStep, RecordStep, CheckKey, ReadPolicies,
           Lookup, Write, ConsumeCommit, ListSubject, ReleaseNext, Crash, CreateRun,
           CreateUnadmitted, CancelRun, Refused, AddRun, AddRunFails, Deliver,
           NoRuntimeResult, RecordTokens, RecordCost, ReleaseCost, RecordUnknown, EndRun,
           ReapExpired, NextMonth, ReplacePolicy
  <2> QED BY <1>0, <2>1 DEF Rest
<1> QED BY <1>1, <1>2, <1>3 DEF Rest

(* The initial tables are empty and nobody is at work.                      *)
LEMMA QuotaInitInv == QuotaInit => QuotaInv
<1> SUFFICES ASSUME QuotaInit PROVE QuotaInv
  OBVIOUS
<1> USE DEF QuotaInit
<1>1. RowTypes
  <2>1. <<>> \in Seq(Nat)
    OBVIOUS
  <2> QED BY <2>1 DEF RowTypes
<1>2. NotOversold
  BY DEF NotOversold
<1>3. AccountedOnce
  BY DEF AccountedOnce
<1>4. ClientsOK
  <2>1. \A c \in Client : client[c] = Idle
    OBVIOUS
  <2>2. KeysExist(Idle)
    BY IdleOK DEF KeysExist
  <2>3. client \in [Client -> Job]
    BY IdleOK
  <2> QED BY <2>1, <2>2, <2>3, IdleOK DEF ClientsOK
<1>5. PolicyKnown
  BY LimitAssumption DEF PolicyKnown, LimitsOf
<1>6. Rest
  BY BoundAssumption DEF Rest
<1> QED BY <1>1, <1>2, <1>3, <1>4, <1>5, <1>6 DEF QuotaInv, RowInv, JobInv

(* QuotaInv is inductive.                                                   *)
LEMMA QuotaNextInv == QuotaInv /\ [QuotaNext]_quotaVars => QuotaInv'
<1>1. QuotaInv /\ QuotaNext => QuotaInv'
  <2> SUFFICES ASSUME QuotaInv, QuotaNext PROVE QuotaInv'
    OBVIOUS
  <2>1. RowStep /\ RowInv
    BY StepIsTransaction DEF QuotaInv
  <2>2. RowInv'
    BY <2>1, RowStepInv
  <2>3. RowsStay
    BY <2>1, RowsKept DEF RowsStay, Kept
  <2> QED BY <2>2, <2>3, ClientsInv, PolicyInv, RestInv DEF QuotaInv, JobInv
<1>2. QuotaInv /\ UNCHANGED quotaVars => QuotaInv'
  <2> SUFFICES ASSUME QuotaInv, UNCHANGED quotaVars PROVE QuotaInv'
    OBVIOUS
  <2>1. RowInv'
    BY RowStepInv DEF quotaVars, rowVars, RowStep, QuotaInv
  <2>2. ClientsOK'
    BY ClientsStay DEF quotaVars, RowsStay, QuotaInv, JobInv
  <2>3. PolicyKnown'
    BY DEF quotaVars, QuotaInv, JobInv, PolicyKnown, LimitsOf
  <2>4. Rest'
    BY DEF quotaVars, QuotaInv, JobInv, Rest
  <2> QED BY <2>1, <2>2, <2>3, <2>4 DEF QuotaInv, JobInv
<1> QED BY <1>1, <1>2

-----------------------------------------------------------------------------
(* Which clients will still give a reservation back.                        *)

(* The job of a client that will list what its Run holds before it is done, *)
(* or has the reservation on its list.                                      *)
WillList(j) ==
  \/ j.at \in {"list", "key", "consume", "execute", "cost", "unknown", "end"}
  \/ j.at \in Reserving /\ j.next \in {"ensure", "tokens", "cost"}
  \/ j.at = "release" /\ j.next = "end"

WillRelease(j, k) == j.run = k[1] /\ (WillList(j) \/ (j.at = "release" /\ k \in j.list))

(* The job of RunService.create, from the admission to the Run's row.       *)
Creates(j) ==
  \/ j.at \in Reserving /\ j.next = "admit"
  \/ j.at = "release" /\ j.next = "refused"
  \/ j.at \in {"add", "refused"}

(* While it reserves, every row of its Run is on its list; while it rolls   *)
(* back, every active one; then nothing is left.                            *)
KnowsRows(j) ==
  \A k \in Key : k[1] = j.run =>
    /\ j.at \in Reserving /\ rows[k] # NoRow => k \in j.list
    /\ j.at = "release" /\ k \in Active => k \in j.list
    /\ j.at = "refused" => k \notin Active

(* The same after a step.                                                   *)
StillKnowsRows(j) ==
  \A k \in Key : k[1] = j.run =>
    /\ j.at \in Reserving /\ rows'[k] # NoRow => k \in j.list
    /\ j.at = "release" /\ k \in Active' => k \in j.list
    /\ j.at = "refused" => k \notin Active'

Over == {"ended", "gone"}

(* A Run that is over has somebody to give back what it holds; one that is  *)
(* being created is its creator's alone; one that is not yet has no rows.   *)
HeldInv ==
  /\ \A k \in Active : phase[k[1]] \in Over => \E c \in Client : WillRelease(client[c], k)
  /\ \A c \in Client :
       LET j == client[c]
       IN  Creates(j) =>
             /\ j.run \in Run /\ phase[j.run] = "creating"
             /\ \A d \in Client : client[d].run = j.run => d = c
             /\ KnowsRows(j)
  /\ \A r \in Run : phase[r] = "absent" =>
       /\ \A k \in Key : k[1] = r => rows[k] = NoRow
       /\ \A c \in Client : client[c].run # r

(* In the initial state nobody has a row.                                   *)
LEMMA HeldInit == QuotaInit => HeldInv
<1> SUFFICES ASSUME QuotaInit PROVE HeldInv
  OBVIOUS
<1>1. \A c \in Client : client[c] = Idle
  BY DEF QuotaInit
<1>2. \A c \in Client : client[c].at = "idle" /\ client[c].run = NoRow
  BY <1>1 DEF Idle
<1>3. \A k \in Key : rows[k] = NoRow
  BY DEF QuotaInit
<1>4. NoRow \notin Run /\ Active = {}
  BY <1>3, NoRowAssumption DEF Active
<1> QED BY <1>2, <1>3, <1>4 DEF HeldInv, Creates, Reserving

(* Client c takes the job j, and nobody else moves; a new row, if any, is   *)
(* of its Run.  What it would have given back it still gives back, it       *)
(* answers for what it has reserved and for the Runs it ends, and it keeps  *)
(* away from Runs that others create.                                       *)
LEMMA HeldMoves ==
  ASSUME HeldInv, ClientsOK, NEW c \in Client, NEW j,
         client' = [client EXCEPT ![c] = j],
         \A k \in Key : /\ rows'[k] # NoRow => rows[k] # NoRow \/ k[1] = client[c].run
                        /\ k \in Active' /\ k \notin Active => k[1] = client[c].run,
         \A k \in Active' : /\ phase'[k[1]] \in Over
                            /\ \/ k \notin Active
                               \/ WillRelease(client[c], k)
                               \/ phase[k[1]] \notin Over
                            => WillRelease(j, k),
         Creates(j) => /\ j.run \in Run /\ phase'[j.run] = "creating"
                       /\ \A d \in Client : client[d].run = j.run => d = c
                       /\ StillKnowsRows(j),
         \A d \in Client : d # c /\ Creates(client[d]) =>
           phase'[client[d].run] = phase[client[d].run] /\ j.run # client[d].run,
         \A r \in Run : phase'[r] = "absent" => phase[r] = "absent" /\ j.run # r
  PROVE  HeldInv'
<1>1. client'[c] = j /\ \A d \in Client : d # c => client'[d] = client[d]
  BY DEF ClientsOK
<1>2. ASSUME NEW k \in Active', phase'[k[1]] \in Over
      PROVE  \E d \in Client : WillRelease(client'[d], k)
  <2>1. CASE k \notin Active \/ phase[k[1]] \notin Over
    BY <1>1, <1>2, <2>1
  <2>2. CASE k \in Active /\ phase[k[1]] \in Over
    <3>1. PICK d \in Client : WillRelease(client[d], k)
      BY <2>2 DEF HeldInv
    <3> QED BY <1>1, <1>2, <3>1
  <2> QED BY <2>1, <2>2
<1>3. ASSUME NEW d \in Client, Creates(client'[d])
      PROVE  /\ client'[d].run \in Run /\ phase'[client'[d].run] = "creating"
             /\ \A e \in Client : client'[e].run = client'[d].run => e = d
             /\ KnowsRows(client[d])'
  <2>1. CASE d = c
    BY <1>1, <1>3, <2>1 DEF KnowsRows, StillKnowsRows
  <2>2. CASE d # c
    <3>1. /\ client'[d] = client[d] /\ client[d].run \in Run
          /\ phase[client[d].run] = "creating" /\ KnowsRows(client[d])
          /\ \A e \in Client : client[e].run = client[d].run => e = d
      BY <1>1, <1>3, <2>2 DEF HeldInv
    <3>2. client[c].run # client[d].run /\ j.run # client[d].run
      BY <1>3, <2>2, <3>1
    <3>3. Active' \subseteq Key
      BY DEF Active
    <3>4. KnowsRows(client[d])'
      BY <3>1, <3>2, <3>3 DEF KnowsRows
    <3> QED BY <1>1, <1>3, <2>2, <3>1, <3>2, <3>4
  <2> QED BY <2>1, <2>2
<1>4. ASSUME NEW r \in Run, phase'[r] = "absent"
      PROVE  /\ \A k \in Key : k[1] = r => rows'[k] = NoRow
             /\ \A d \in Client : client'[d].run # r
  BY <1>1, <1>4 DEF HeldInv
<1> QED BY <1>2, <1>3, <1>4 DEF HeldInv

(* ... without touching the phases, and staying with its Run or leaving it. *)
LEMMA HeldGoes ==
  ASSUME HeldInv, ClientsOK, NEW c \in Client, NEW j,
         client' = [client EXCEPT ![c] = j], UNCHANGED phase,
         j.run = client[c].run \/ j.run = NoRow,
         \A k \in Key : /\ rows'[k] # NoRow => rows[k] # NoRow \/ k[1] = client[c].run
                        /\ k \in Active' /\ k \notin Active =>
                             k[1] = client[c].run /\ (WillRelease(j, k) \/ Creates(client[c])),
         \A k \in Active' : WillRelease(client[c], k) => WillRelease(j, k),
         Creates(j) => Creates(client[c]) /\ j.run = client[c].run /\ StillKnowsRows(j)
  PROVE  HeldInv'
<1>1. NoRow \notin Run
  BY NoRowAssumption
<1>2. ASSUME NEW k \in Active', phase[k[1]] \in Over, k \notin Active PROVE WillRelease(j, k)
  <2>1. k \in Key /\ k[1] = client[c].run
    BY <1>2 DEF Active
  <2>2. ~Creates(client[c])
    BY <1>2, <2>1 DEF HeldInv, Over
  <2> QED BY <1>2, <2>1, <2>2
<1>3. Creates(j) => /\ j.run \in Run /\ phase[j.run] = "creating"
                    /\ \A d \in Client : client[d].run = j.run => d = c
  BY DEF HeldInv
<1>4. \A d \in Client : d # c /\ Creates(client[d]) => j.run # client[d].run
  BY <1>1 DEF HeldInv
<1>5. \A r \in Run : phase[r] = "absent" => j.run # r
  BY <1>1 DEF HeldInv
<1>6. \A k \in Active' : /\ phase'[k[1]] \in Over
                         /\ \/ k \notin Active
                            \/ WillRelease(client[c], k)
                            \/ phase[k[1]] \notin Over
                         => WillRelease(j, k)
  BY <1>2
<1>7. Creates(j) => /\ j.run \in Run /\ phase'[j.run] = "creating"
                    /\ \A d \in Client : client[d].run = j.run => d = c
                    /\ StillKnowsRows(j)
  BY <1>3
<1>8. \A d \in Client : d # c /\ Creates(client[d]) =>
        phase'[client[d].run] = phase[client[d].run] /\ j.run # client[d].run
  BY <1>4
<1>9. \A r \in Run : phase'[r] = "absent" => phase[r] = "absent" /\ j.run # r
  BY <1>5
<1>10. \A k \in Key : /\ rows'[k] # NoRow => rows[k] # NoRow \/ k[1] = client[c].run
                      /\ k \in Active' /\ k \notin Active => k[1] = client[c].run
  OBVIOUS
<1> QED BY <1>6, <1>7, <1>8, <1>9, <1>10, HeldMoves

(* What the transactions do to the rows of a Run: a release or a commit     *)
(* settles its row, and only Insert adds one.                               *)
LEMMA RowsOfStep ==
  ASSUME QuotaInv, NEW k \in Key
  PROVE  /\ UNCHANGED rowVars => Active' = Active /\ rows' = rows
         /\ \A amount \in Nat :
              /\ rows[k] # NoRow
              /\ Commit(k, amount) \/ Release(k, "released") \/ Release(k, "expired")
              => /\ Active' \subseteq Active /\ k \notin Active'
                 /\ \A x \in Key : rows'[x] # NoRow => rows[x] # NoRow
         /\ \A row \in Reservation : rows[k] = NoRow /\ Insert(row, k) =>
              /\ Active' \subseteq Active \cup {k}
              /\ \A x \in Key : x # k => rows'[x] = rows[x]
<1>0. RowTypes
  BY DEF QuotaInv, RowInv
<1>1. UNCHANGED rowVars => Active' = Active /\ rows' = rows
  BY DEF rowVars, Active
<1>2. ASSUME NEW state \in {"committed", "released", "expired"}, rows[k] # NoRow,
             rows[k].state = "active", rows' = [rows EXCEPT ![k].state = state]
      PROVE  /\ Active' \subseteq Active /\ k \notin Active'
             /\ \A x \in Key : rows'[x] # NoRow => rows[x] # NoRow
  <2>1. \A x \in Key : x # k => rows'[x] = rows[x]
    BY <1>0, <1>2 DEF RowTypes
  <2>2. rows'[k].state = state
    BY <1>0, <1>2, NoRowDistinct DEF RowTypes, Reservation
  <2>3. k \in Active
    BY <1>2 DEF Active
  <2> QED BY <1>2, <2>1, <2>2, <2>3 DEF Active
<1> QED BY <1>0, <1>1, <1>2 DEF Commit, Release, Insert, Active, RowTypes

(* A client that will list what its Run holds has nothing to remember.      *)
LEMMA HeldWorks ==
  ASSUME HeldInv, ClientsOK, NEW c \in Client, NEW j,
         client' = [client EXCEPT ![c] = j], UNCHANGED phase,
         j.run = client[c].run, WillList(j),
         \A k \in Key : /\ rows'[k] # NoRow => rows[k] # NoRow \/ k[1] = client[c].run
                        /\ k \in Active' /\ k \notin Active => k[1] = client[c].run
  PROVE  HeldInv'
<1>1. \A k \in Key : k[1] = client[c].run => WillRelease(j, k)
  BY DEF WillRelease
<1>2. \A k \in Active' : k \in Key
  BY DEF Active
<1>3. ~Creates(j)
  BY DEF WillList, Creates, Reserving
<1>4. \A k \in Key : /\ rows'[k] # NoRow => rows[k] # NoRow \/ k[1] = client[c].run
                     /\ k \in Active' /\ k \notin Active =>
                          k[1] = client[c].run /\ (WillRelease(j, k) \/ Creates(client[c]))
  BY <1>1
<1>5. \A k \in Active' : WillRelease(client[c], k) => WillRelease(j, k)
  BY DEF WillRelease
<1> QED BY <1>3, <1>4, <1>5, HeldGoes

(* One call of reserve: what a worker's leads to; what a creator's leads to. *)
LEMMA FailHeld ==
  ASSUME QuotaInv, HeldInv, NEW c \in Client, client[c].at \in {"lookup", "write"}, Fail(c),
         UNCHANGED <<rowVars, phase>>
  PROVE  HeldInv'
<1> DEFINE J == client[c]
           after == AfterFailure[J.next]
           loc == IF J.list = {} THEN after ELSE "release"
           j == [J EXCEPT !.at = loc, !.next = after, !.todo = <<>>, !.seen = NoRow]
<1>0. ClientsOK
  BY DEF QuotaInv, JobInv
<1>1. client' = [client EXCEPT ![c] = j]
  BY DEF Fail
<1>2. J \in Job /\ J.next \in {"admit", "ensure", "tokens", "cost"}
  BY <1>0, JobFacts DEF JobOK, Reserving
<1>3. j.at = loc /\ j.next = after /\ j.list = J.list /\ j.run = J.run
  <2> HIDE DEF after, loc
  <2> QED BY <1>2 DEF Job
<1>4. rows' = rows /\ Active' = Active /\ Active \subseteq Key
  BY DEF rowVars, Active
<1>5. CASE J.next # "admit"
  <2>1. WillList(j)
    BY <1>2, <1>3, <1>5, Afters DEF WillList
  <2> QED BY <1>0, <1>1, <1>3, <1>4, <2>1, HeldWorks
<1>6. CASE J.next = "admit"
  <2>1. after = "refused"
    BY <1>6, Afters
  <2> HIDE DEF j
  <2>2. Creates(J) /\ KnowsRows(J)
    BY <1>6 DEF HeldInv, Creates, Reserving
  <2>3. StillKnowsRows(j)
    BY <1>3, <1>4, <2>1, <2>2 DEF KnowsRows, StillKnowsRows, Reserving, Active
  <2>4. \A k \in Active' : ~WillRelease(J, k)
    BY <1>6 DEF WillRelease, WillList
  <2> QED BY <1>0, <1>1, <1>3, <1>4, <2>2, <2>3, <2>4, HeldGoes
<1> QED BY <1>5, <1>6

LEMMA SettledHeld ==
  ASSUME QuotaInv, HeldInv, NEW c \in Client, client[c].at \in {"key", "lookup", "write"},
         NEW own \in SUBSET {KeyOf(c)}, Settled(c, own), UNCHANGED phase,
         \A k \in Key : /\ rows'[k] # NoRow => rows[k] # NoRow \/ k = KeyOf(c)
                        /\ k \in Active' => k \in Active \/ k = KeyOf(c),
         client[c].at # "key" => own = {KeyOf(c)}
  PROVE  HeldInv'
<1> DEFINE J == client[c]
<1>0. ClientsOK
  BY DEF QuotaInv, JobInv
<1>1. /\ J \in Job /\ J.run \in Run
      /\ J.next \in {"admit", "ensure", "tokens", "cost"}
      /\ J.at = "key" => J.next = "ensure"
  BY <1>0, JobFacts DEF JobOK, Job, OnRun, Reserving
<1>2. KeyOf(c)[1] = J.run /\ KeyOf(c) \in Key
  BY KeyOfIsKey DEF KeyOf, QuotaInv, Reserving
<1>3. \A k \in Key : /\ rows'[k] # NoRow => rows[k] # NoRow \/ k[1] = J.run
                     /\ k \in Active' /\ k \notin Active => k[1] = J.run
  BY <1>2
<1>4. CASE J.next \in Admitting
  <2> DEFINE loc == IF Tail(J.todo) # <<>> THEN FirstStep[J.next] ELSE AfterSuccess[J.next]
             rest == IF Tail(J.todo) = <<>> THEN {} ELSE J.list \cup own
             j == [J EXCEPT !.at = loc, !.todo = Tail(J.todo), !.seen = NoRow, !.list = rest]
  <2>1. client' = [client EXCEPT ![c] = j]
    BY <1>4 DEF Settled
  <2>2. j.at = loc /\ j.list = rest /\ j.run = J.run /\ j.next = J.next
    <3> HIDE DEF loc, rest
    <3> QED BY <1>1 DEF Job
  <2>3. CASE J.next = "ensure"
    <3>1. WillList(j)
      BY <2>2, <2>3, Afters DEF WillList
    <3> QED BY <1>0, <1>3, <2>1, <2>2, <3>1, HeldWorks
  <2>4. CASE J.next = "admit"
    <3>1. J.at \in Reserving /\ own = {KeyOf(c)}
      BY <1>1, <2>4 DEF Reserving
    <3>2. Creates(J) /\ KnowsRows(J)
      BY <2>4, <3>1 DEF HeldInv, Creates
    <3>3. loc = IF Tail(J.todo) # <<>> THEN "policy" ELSE "add"
      BY <2>4, Afters
    <3> HIDE DEF j, loc
    <3>4. StillKnowsRows(j)
      BY <2>2, <3>1, <3>2, <3>3 DEF KnowsRows, StillKnowsRows, Reserving
    <3>5. \A k \in Active' : ~WillRelease(J, k)
      BY <2>4, <3>1 DEF WillRelease, WillList, Reserving
    <3>6. \A k \in Key :
            /\ rows'[k] # NoRow => rows[k] # NoRow \/ k[1] = J.run
            /\ k \in Active' /\ k \notin Active =>
                 k[1] = J.run /\ (WillRelease(j, k) \/ Creates(J))
      BY <1>3, <3>2
    <3>7. \A k \in Active' : WillRelease(J, k) => WillRelease(j, k)
      BY <3>5
    <3>8. j.run = J.run
      BY <2>2
    <3>9. Creates(j) => Creates(J) /\ j.run = J.run /\ StillKnowsRows(j)
      BY <3>2, <3>4, <3>8
    <3> QED BY <1>0, <2>1, <3>6, <3>7, <3>8, <3>9, HeldGoes
  <2> QED BY <1>4, <2>3, <2>4 DEF Admitting
<1>5. CASE J.next \notin Admitting
  <2> DEFINE j == [J EXCEPT !.at = "consume", !.seen = NoRow]
  <2>1. client' = [client EXCEPT ![c] = j]
    BY <1>5 DEF Settled
  <2>2. j.at = "consume" /\ j.run = J.run
    BY <1>1 DEF Job
  <2>3. WillList(j)
    BY <2>2 DEF WillList
  <2> QED BY <1>0, <1>3, <2>1, <2>2, <2>3, HeldWorks
<1> QED BY <1>4, <1>5

(* The calls of a client, one by one.                                       *)
LEMMA ReserveHeld ==
  ASSUME QuotaInv, HeldInv, NEW c \in Client, ReserveStep(c)
  PROVE  HeldInv'
<1> DEFINE J == client[c]
<1>0. ClientsOK /\ RowTypes /\ J \in Job /\ JobOK(J)
  BY JobFacts DEF QuotaInv, JobInv, RowInv
<1>1. Active \subseteq Key /\ (UNCHANGED rowVars => rows' = rows /\ Active' = Active)
  BY DEF Active, rowVars
<1>2. CASE CheckKey(c)
  <2>1. J.at = "key" /\ J.next = "ensure" /\ UNCHANGED <<rowVars, phase>>
    BY <1>0, <1>2 DEF CheckKey, JobOK
  <2>2. CASE Settled(c, {})
    BY <1>1, <2>1, <2>2, SettledHeld
  <2>3. CASE To(c, "policy")
    <3> DEFINE j == [J EXCEPT !.at = "policy"]
    <3>1. j.at = "policy" /\ j.run = J.run /\ j.next = J.next
      BY <1>0 DEF Job
    <3>2. client' = [client EXCEPT ![c] = j]
      BY <2>3 DEF To
    <3>3. WillList(j)
      BY <2>1, <3>1 DEF WillList, Reserving
    <3> QED BY <1>0, <1>1, <2>1, <3>1, <3>2, <3>3, HeldWorks
  <2> QED BY <1>2, <2>2, <2>3 DEF CheckKey
<1>3. ASSUME NEW j, client' = [client EXCEPT ![c] = j], J.at \in Reserving, j.at \in Reserving,
             j.run = J.run, j.next = J.next, j.list = J.list, UNCHANGED <<rowVars, phase>>
      PROVE  HeldInv'
  <2>1. j.at \in Reserving /\ j.run = J.run /\ j.next = J.next /\ j.list = J.list
    BY <1>3
  <2>2. J.next \in {"admit", "ensure", "tokens", "cost"}
    BY <1>0, <1>3 DEF JobOK
  <2>3. CASE J.next # "admit"
    <3>1. WillList(j)
      BY <2>1, <2>2, <2>3 DEF WillList
    <3> QED BY <1>0, <1>1, <1>3, <2>1, <3>1, HeldWorks
  <2>4. CASE J.next = "admit"
    <3>1. Creates(J) /\ KnowsRows(J)
      BY <1>3, <2>4 DEF HeldInv, Creates
    <3>2. StillKnowsRows(j)
      BY <1>1, <1>3, <2>1, <3>1 DEF KnowsRows, StillKnowsRows, Reserving
    <3>3. \A k \in Active' : WillRelease(J, k) => WillRelease(j, k)
      BY <1>3, <2>4 DEF WillRelease, WillList, Reserving
    <3> QED BY <1>0, <1>1, <1>3, <2>1, <3>1, <3>2, <3>3, HeldGoes
  <2> QED BY <2>3, <2>4
<1>4. CASE ReadPolicies(c)
  <2> DEFINE seen == [state |-> "active", amount |-> AmountOf(c),
                      constraints |-> Constraints(J.run, Head(J.todo)),
                      window |-> WindowAt(Head(J.todo), month)]
             j == [J EXCEPT !.at = "lookup", !.seen = seen]
  <2> HIDE DEF seen
  <2>1. client' = [client EXCEPT ![c] = j]
    BY <1>0, <1>4 DEF ReadPolicies, seen, ClientsOK
  <2>2. j.at = "lookup" /\ j.run = J.run /\ j.next = J.next /\ j.list = J.list
    BY <1>0 DEF Job
  <2>3. J.at = "policy" /\ UNCHANGED <<rowVars, phase>>
    BY <1>4 DEF ReadPolicies
  <2> QED BY <1>3, <2>1, <2>2, <2>3 DEF Reserving
<1>5. CASE Lookup(c)
  <2>1. J.at \in {"lookup"} \cap Reserving /\ UNCHANGED <<rowVars, phase>>
    BY <1>5 DEF Lookup, Reserving
  <2>2. CASE Fail(c)
    BY <2>1, <2>2, FailHeld
  <2>3. CASE Settled(c, {KeyOf(c)})
    BY <1>1, <2>1, <2>3, SettledHeld
  <2>4. CASE To(c, "write")
    <3> DEFINE j == [J EXCEPT !.at = "write"]
    <3>1. j.at = "write" /\ j.run = J.run /\ j.next = J.next /\ j.list = J.list
      BY <1>0 DEF Job
    <3>2. client' = [client EXCEPT ![c] = j]
      BY <2>4 DEF To
    <3> QED BY <1>3, <2>1, <3>1, <3>2 DEF Reserving
  <2> QED BY <1>5, <2>2, <2>3, <2>4 DEF Lookup
<1>6. CASE Write(c)
  <2>1. /\ J.at = "write" /\ KeyOf(c) \in Key /\ UNCHANGED phase
        /\ J.seen \in Reservation
    BY <1>0, <1>6, KeyOfIsKey DEF Write, QuotaInv, Reserving, JobOK, Askable
  <2>2. CASE Fail(c) /\ UNCHANGED rowVars
    BY <2>1, <2>2, FailHeld
  <2>3. CASE Settled(c, {KeyOf(c)}) /\ UNCHANGED rowVars
    BY <1>1, <2>1, <2>3, SettledHeld
  <2>4. CASE Settled(c, {KeyOf(c)}) /\ rows[KeyOf(c)] = NoRow /\ Insert(J.seen, KeyOf(c))
    <3>1. /\ Active' \subseteq Active \cup {KeyOf(c)}
          /\ \A x \in Key : x # KeyOf(c) => rows'[x] = rows[x]
      BY <2>1, <2>4, RowsOfStep
    <3> QED BY <2>1, <2>4, <3>1, SettledHeld
  <2> QED BY <1>6, <2>2, <2>3, <2>4 DEF Write
<1>7. CASE ConsumeCommit(c)
  <2> DEFINE loc == IF CommitRefused(KeyOf(c)) THEN AfterFailure[J.next]
                                               ELSE AfterSuccess[J.next]
             j == [J EXCEPT !.at = loc, !.todo = <<>>, !.amount = 0]
  <2>1. /\ J.next \in {"tokens", "cost"} /\ KeyOf(c) \in Key /\ rows[KeyOf(c)] # NoRow
        /\ UNCHANGED phase
    BY <1>0, <1>7, KeyOfIsKey DEF ConsumeCommit, JobOK, QuotaInv, JobInv, ClientsOK, KeysExist, KeyOf
  <2>2. loc \in {"end", "cost"}
    BY <2>1, Afters
  <2>3. client' = [client EXCEPT ![c] = j]
    BY <1>7 DEF ConsumeCommit
  <2> HIDE DEF loc
  <2>4. j.at = loc /\ j.run = J.run
    BY <1>0 DEF Job
  <2>5. WillList(j)
    BY <2>2, <2>4 DEF WillList
  <2>6. rows[KeyOf(c)].amount \in Nat
    BY <1>0, <2>1, NoRowDistinct DEF Reservation
  <2>7. Active' \subseteq Active /\ \A x \in Key : rows'[x] # NoRow => rows[x] # NoRow
    BY <1>7, <2>1, <2>6, RowsOfStep DEF ConsumeCommit
  <2> QED BY <1>0, <2>1, <2>3, <2>4, <2>5, <2>7, HeldWorks
<1> QED BY <1>2, <1>4, <1>5, <1>6, <1>7 DEF ReserveStep

(* The rows stay and at most the phase of the Run r moves, at the hands of  *)
(* a client that has to do with no other Run and takes the job j.           *)
Turns(c, j, r) ==
  /\ UNCHANGED rowVars
  /\ client[c].run \in {r, NoRow} /\ j.run \in {r, NoRow}
  /\ phase'[r] # "absent"
  /\ \A q \in Run : q # r => phase'[q] = phase[q]
  /\ \A d \in Client : d # c /\ Creates(client[d]) => client[d].run # r
  /\ \A k \in Active : k[1] = r /\ phase'[r] \in Over => WillRelease(j, k)
  /\ Creates(j) =>
       /\ j.run = r /\ phase'[r] = "creating"
       /\ \A d \in Client : client[d].run = r => d = c
       /\ StillKnowsRows(j)

LEMMA HeldTurns ==
  ASSUME HeldInv, ClientsOK, NEW c \in Client, NEW j, NEW r \in Run,
         client' = [client EXCEPT ![c] = j], Turns(c, j, r)
  PROVE  HeldInv'
<1>1. rows' = rows /\ Active' = Active /\ NoRow \notin Run
  BY NoRowAssumption DEF Turns, Active, rowVars
<1>2. \A k \in Active : k[1] \in Run
  BY DEF Active, Key
<1>3. \A k \in Key : /\ rows'[k] # NoRow => rows[k] # NoRow \/ k[1] = client[c].run
                     /\ k \in Active' /\ k \notin Active => k[1] = client[c].run
  BY <1>1
<1>4. ASSUME NEW k \in Active', phase'[k[1]] \in Over,
             k \notin Active \/ WillRelease(client[c], k) \/ phase[k[1]] \notin Over
      PROVE  WillRelease(j, k)
  <2>1. k \in Active /\ k[1] \in Run
    BY <1>1, <1>2
  <2>2. k[1] = r
    BY <1>1, <1>4, <2>1 DEF WillRelease, Turns
  <2> QED BY <1>1, <1>4, <2>1, <2>2 DEF Turns
<1>5. Creates(j) => /\ j.run \in Run /\ phase'[j.run] = "creating"
                    /\ \A d \in Client : client[d].run = j.run => d = c
                    /\ StillKnowsRows(j)
  BY DEF Turns
<1>6. \A d \in Client : d # c /\ Creates(client[d]) =>
        phase'[client[d].run] = phase[client[d].run] /\ j.run # client[d].run
  <2> SUFFICES ASSUME NEW d \in Client, d # c, Creates(client[d])
               PROVE  phase'[client[d].run] = phase[client[d].run] /\ j.run # client[d].run
    OBVIOUS
  <2>1. client[d].run \in Run /\ client[d].run # r
    BY DEF HeldInv, Turns
  <2> QED BY <1>1, <2>1 DEF Turns
<1>7. \A q \in Run : phase'[q] = "absent" => phase[q] = "absent" /\ j.run # q
  BY <1>1 DEF Turns
<1>8. \A k \in Active' : /\ phase'[k[1]] \in Over
                         /\ \/ k \notin Active
                            \/ WillRelease(client[c], k)
                            \/ phase[k[1]] \notin Over
                         => WillRelease(j, k)
  BY <1>4
<1> QED BY <1>3, <1>5, <1>6, <1>7, <1>8, HeldMoves

(* The API's steps outside reserve.                                         *)
LEMMA ApiHeld ==
  ASSUME QuotaInv, HeldInv, NEW c \in Api, ApiStep(c)
  PROVE  HeldInv'
<1> DEFINE J == client[c]
<1>0. /\ c \in Client /\ ClientsOK /\ J \in Job /\ NoRow \notin Run
      /\ phase \in [Run -> {"absent", "creating", "queued", "running", "ended", "gone"}]
  BY JobFacts, NoRowAssumption DEF Client, QuotaInv, JobInv, Rest
<1>1. /\ Active \subseteq Key /\ (UNCHANGED rowVars => rows' = rows /\ Active' = Active)
      /\ \A k \in Key : k[1] \in Run
  BY DEF Active, rowVars, Key
<1>2. Idle.at = "idle" /\ Idle.run = NoRow
  BY DEF Idle
<1>3. ~Creates(Idle) /\ \A k : ~WillRelease(Idle, k)
  BY <1>2 DEF Creates, WillRelease, WillList, Reserving
<1>4. ASSUME NEW r \in Run, CreateRun(c, r) PROVE HeldInv'
  <2> DEFINE j == [Idle EXCEPT !.at = "policy", !.run = r, !.todo = Requested(r), !.next = "admit"]
  <2>1. j.at = "policy" /\ j.run = r
    BY DEF Idle
  <2>2. J = Idle /\ client' = [client EXCEPT ![c] = j] /\ UNCHANGED rowVars
    BY <1>4 DEF CreateRun, Starts
  <2>3. phase[r] = "absent" /\ phase' = [phase EXCEPT ![r] = "creating"]
    BY <1>4 DEF CreateRun
  <2> HIDE DEF j
  <2>4. /\ \A k \in Key : k[1] = r => rows[k] = NoRow
        /\ \A d \in Client : client[d].run # r
    BY <2>3 DEF HeldInv
  <2>5. StillKnowsRows(j)
    BY <1>1, <2>1, <2>2, <2>4 DEF StillKnowsRows
  <2>6. phase'[r] = "creating" /\ phase'[r] \notin Over /\ \A q \in Run : q # r => phase'[q] = phase[q]
    BY <1>0, <2>3 DEF Over
  <2>7. J.run \in {r, NoRow}
    BY <1>2, <2>2
  <2>8. Creates(j) => /\ j.run = r /\ phase'[r] = "creating"
                      /\ \A d \in Client : client[d].run = r => d = c
                      /\ StillKnowsRows(j)
    BY <2>1, <2>4, <2>5, <2>6
  <2>9. \A k \in Active : k[1] = r /\ phase'[r] \in Over => WillRelease(j, k)
    BY <2>6
  <2>10. \A d \in Client : d # c /\ Creates(client[d]) => client[d].run # r
    BY <2>4
  <2>11. Turns(c, j, r)
    BY <2>1, <2>2, <2>6, <2>7, <2>8, <2>9, <2>10 DEF Turns
  <2> QED BY <1>0, <2>2, <2>11, HeldTurns
<1>5. ASSUME NEW r \in Run, CreateUnadmitted(c, r) PROVE HeldInv'
  <2>1. UNCHANGED <<rowVars, client>> /\ phase[r] = "absent"
        /\ phase' = [phase EXCEPT ![r] = "queued"]
    BY <1>5 DEF CreateUnadmitted
  <2>2. phase'[r] = "queued" /\ \A q \in Run : q # r => phase'[q] = phase[q]
    BY <1>0, <2>1
  <2> QED BY <1>1, <2>1, <2>2 DEF HeldInv, KnowsRows, Over
<1>6. ASSUME NEW r \in Run, CancelRun(c, r) PROVE HeldInv'
  <2> DEFINE j == [Idle EXCEPT !.at = "list", !.run = r]
  <2>1. j.at = "list" /\ j.run = r
    BY DEF Idle
  <2>2. J = Idle /\ client' = [client EXCEPT ![c] = j] /\ UNCHANGED rowVars
    BY <1>6 DEF CancelRun, Starts
  <2>3. phase[r] \in {"queued", "running", "ended"} /\ phase' = [phase EXCEPT ![r] = "ended"]
    BY <1>6 DEF CancelRun
  <2> HIDE DEF j
  <2>4. phase'[r] = "ended" /\ \A q \in Run : q # r => phase'[q] = phase[q]
    BY <1>0, <2>3
  <2>5. ~Creates(j)
    BY <2>1 DEF Creates, Reserving
  <2>6. \A d \in Client : d # c /\ Creates(client[d]) => client[d].run # r
    BY <2>3 DEF HeldInv
  <2>7. \A k \in Active : k[1] = r /\ phase'[r] \in Over => WillRelease(j, k)
    BY <2>1 DEF WillRelease, WillList
  <2>8. J.run \in {r, NoRow} /\ phase'[r] # "absent"
    BY <1>2, <2>2, <2>4
  <2>9. Turns(c, j, r)
    BY <2>1, <2>2, <2>4, <2>5, <2>6, <2>7, <2>8 DEF Turns
  <2> QED BY <1>0, <2>2, <2>9, HeldTurns
<1>7. CASE Refused(c) \/ AddRun(c)
  <2> DEFINE after == IF J.at = "add" THEN "queued" ELSE "gone"
  <2>1. /\ Creates(J) /\ J.at \in {"add", "refused"} /\ UNCHANGED rowVars
        /\ client' = [client EXCEPT ![c] = Idle]
        /\ phase' = [phase EXCEPT ![J.run] = after]
    BY <1>7 DEF Refused, AddRun, Creates
  <2>2. /\ J.run \in Run /\ phase[J.run] = "creating" /\ KnowsRows(J)
        /\ \A d \in Client : client[d].run = J.run => d = c
    BY <1>0, <2>1 DEF HeldInv
  <2>3. /\ phase'[J.run] = after /\ phase'[J.run] # "absent"
        /\ \A q \in Run : q # J.run => phase'[q] = phase[q]
    BY <1>0, <2>1, <2>2
  <2>4. \A k \in Active : k[1] = J.run /\ phase'[J.run] \in Over => WillRelease(Idle, k)
    BY <1>1, <2>1, <2>3 , <2>2 DEF Over, KnowsRows
  <2>5. \A d \in Client : d # c /\ Creates(client[d]) => client[d].run # J.run
    BY <2>2
  <2>6. J.run \in {J.run, NoRow} /\ Idle.run \in {J.run, NoRow}
    BY <1>2
  <2>7. Turns(c, Idle, J.run)
    BY <1>3, <2>1, <2>3, <2>4, <2>5, <2>6 DEF Turns
  <2> QED BY <1>0, <2>1, <2>2, <2>7, HeldTurns
<1>8. CASE AddRunFails(c)
  <2> DEFINE j == [J EXCEPT !.at = "list"]
  <2>1. /\ Creates(J) /\ UNCHANGED rowVars
        /\ client' = [client EXCEPT ![c] = j]
        /\ phase' = [phase EXCEPT ![J.run] = "gone"]
    BY <1>8 DEF AddRunFails, Creates, To
  <2>2. /\ J.run \in Run /\ phase[J.run] = "creating"
        /\ \A d \in Client : client[d].run = J.run => d = c
    BY <1>0, <2>1 DEF HeldInv
  <2>3. j.at = "list" /\ j.run = J.run
    BY <1>0 DEF Job
  <2> HIDE DEF j
  <2>4. /\ phase'[J.run] # "absent" /\ \A q \in Run : q # J.run => phase'[q] = phase[q]
    BY <1>0, <2>1, <2>2
  <2>5. ~Creates(j) /\ \A k \in Active : k[1] = J.run /\ phase'[J.run] \in Over => WillRelease(j, k)
    BY <2>3 DEF Creates, WillRelease, WillList, Reserving
  <2>6. \A d \in Client : d # c /\ Creates(client[d]) => client[d].run # J.run
    BY <2>2
  <2>7. J.run \in {J.run, NoRow} /\ j.run \in {J.run, NoRow}
    BY <2>3
  <2>8. Turns(c, j, J.run)
    BY <2>1, <2>4, <2>5, <2>6, <2>7 DEF Turns
  <2> QED BY <1>0, <2>1, <2>2, <2>8, HeldTurns
<1> QED BY <1>4, <1>5, <1>6, <1>7, <1>8 DEF ApiStep

(* A worker that goes on with its Run, whatever it settles on the way.      *)
LEMMA WorkGoesOn ==
  ASSUME HeldInv, ClientsOK, NEW w \in Client, NEW loc \in {"cost", "unknown", "end"}, To(w, loc),
         UNCHANGED phase, Active' \subseteq Active,
         \A k \in Key : rows'[k] # NoRow => rows[k] # NoRow
  PROVE  HeldInv'
<1> DEFINE j == [client[w] EXCEPT !.at = loc]
<1>1. client' = [client EXCEPT ![w] = j] /\ client[w] \in Job
  BY DEF To, ClientsOK
<1>2. j.at = loc /\ j.run = client[w].run
  BY <1>1 DEF Job
<1> HIDE DEF j
<1>3. WillList(j)
  BY <1>2 DEF WillList
<1> QED BY <1>1, <1>2, <1>3, HeldWorks

LEMMA RecordHeld ==
  ASSUME QuotaInv, HeldInv, NEW w \in Client, client[w].at \in {"execute", "cost"},
         NEW kind \in {"tokens", "cost"}, NEW actual \in Kind, NEW amount \in Nat,
         Record(w, kind, actual, amount), UNCHANGED phase
  PROVE  HeldInv'
<1> DEFINE J == client[w]
           key == <<J.run, kind>>
<1>0. ClientsOK /\ J \in Job /\ JobOK(J)
  BY JobFacts DEF QuotaInv, JobInv
<1>1. key \in Key
  BY <1>0 DEF JobOK, OnRun, Key, Kind
<1>2. UNCHANGED rowVars => Active' = Active /\ rows' = rows
  BY DEF Active, rowVars
<1>3. AfterFailure[kind] \in {"end", "cost"} /\ AfterSuccess[kind] \in {"end", "cost"}
  BY Afters
<1> HIDE DEF key
<1>4. CASE rows[key] # NoRow
  <2>1. Commit(key, amount)
    BY <1>4 DEF Record, key
  <2>2. Active' \subseteq Active /\ \A k \in Key : rows'[k] # NoRow => rows[k] # NoRow
    BY <1>1, <1>4, <2>1, RowsOfStep
  <2>3. \E loc \in {"end", "cost"} : To(w, loc)
    BY <1>3, <1>4 DEF Record, key
  <2> QED BY <1>0, <2>2, <2>3, WorkGoesOn
<1>5. CASE rows[key] = NoRow /\ amount = 0
  <2>1. UNCHANGED rowVars /\ \E loc \in {"end", "cost"} : To(w, loc)
    BY <1>3, <1>5 DEF Record, To, key
  <2> QED BY <1>0, <1>2, <2>1, WorkGoesOn
<1>6. CASE rows[key] = NoRow /\ amount # 0
  <2> DEFINE j == [J EXCEPT !.at = "policy", !.todo = <<actual>>, !.amount = amount,
                            !.next = kind]
  <2>1. client' = [client EXCEPT ![w] = j] /\ UNCHANGED rowVars
    BY <1>6 DEF Record, key
  <2>2. j.at = "policy" /\ j.next = kind /\ j.run = J.run
    BY <1>0 DEF Job
  <2> HIDE DEF j
  <2>3. WillList(j)
    BY <2>2 DEF WillList, Reserving
  <2> QED BY <1>0, <1>2, <2>1, <2>2, <2>3, HeldWorks
<1> QED BY <1>4, <1>5, <1>6

(* The worker's steps outside reserve.                                      *)
LEMMA WorkerHeld ==
  ASSUME QuotaInv, HeldInv, NEW w \in Worker, WorkerStep(w)
  PROVE  HeldInv'
<1> DEFINE J == client[w]
<1>0. /\ w \in Client /\ ClientsOK /\ J \in Job /\ JobOK(J) /\ NoRow \notin Run
      /\ phase \in [Run -> {"absent", "creating", "queued", "running", "ended", "gone"}]
  BY JobFacts, NoRowAssumption DEF Client, QuotaInv, JobInv, Rest
<1>1. /\ Active \subseteq Key /\ (UNCHANGED rowVars => rows' = rows /\ Active' = Active)
      /\ \A k \in Key : k[1] \in Run
  BY DEF Active, rowVars, Key
<1>2. Idle.run = NoRow
  BY DEF Idle
<1>3. ASSUME NEW r \in Run, Deliver(w, r) PROVE HeldInv'
  <2>1. J = Idle /\ UNCHANGED rowVars /\ phase[r] \in {"queued", "running", "ended"}
    BY <1>3 DEF Deliver, Starts
  <2>2. \A d \in Client : d # w /\ Creates(client[d]) => client[d].run # r
    BY <2>1 DEF HeldInv
  <2>3. ASSUME NEW j, client' = [client EXCEPT ![w] = j], j.run = r, j.at \in {"key", "list"},
               phase' = [phase EXCEPT ![r] = "running"] \/ UNCHANGED phase
        PROVE  HeldInv'
    <3>1. phase'[r] # "absent" /\ \A q \in Run : q # r => phase'[q] = phase[q]
      BY <1>0, <2>1, <2>3
    <3>2. \A k \in Active : k[1] = r => WillRelease(j, k)
      BY <2>3 DEF WillRelease, WillList
    <3>3. ~Creates(j)
      BY <2>3 DEF Creates, Reserving
    <3>4. Turns(w, j, r)
      BY <1>2, <2>1, <2>2, <2>3, <3>1, <3>2, <3>3 DEF Turns
    <3> QED BY <1>0, <2>3, <3>4, HeldTurns
  <2>4. CASE client' = [client EXCEPT ![w] = [Idle EXCEPT !.at = "key", !.run = r,
                                                 !.todo = Requested(r), !.next = "ensure"]]
             /\ phase' = [phase EXCEPT ![r] = "running"]
    <3> DEFINE j == [Idle EXCEPT !.at = "key", !.run = r, !.todo = Requested(r), !.next = "ensure"]
    <3>1. j.run = r /\ j.at = "key"
      BY DEF Idle
    <3> HIDE DEF j
    <3>2. client' = [client EXCEPT ![w] = j]
      BY <2>4 DEF j
    <3> QED BY <2>3, <2>4, <3>1, <3>2
  <2>5. CASE client' = [client EXCEPT ![w] = [Idle EXCEPT !.at = "list", !.run = r]]
             /\ UNCHANGED phase
    <3> DEFINE j == [Idle EXCEPT !.at = "list", !.run = r]
    <3>1. j.run = r /\ j.at = "list"
      BY DEF Idle
    <3> HIDE DEF j
    <3>2. client' = [client EXCEPT ![w] = j]
      BY <2>5 DEF j
    <3> QED BY <2>3, <2>5, <3>1, <3>2
  <2> QED BY <1>3, <2>4, <2>5 DEF Deliver, Starts
<1>4. CASE NoRuntimeResult(w)
  BY <1>0, <1>1, <1>4, WorkGoesOn DEF NoRuntimeResult
<1>5. CASE RecordTokens(w)
  <2>1. "actual-tokens" \in Kind
    BY DEF Kind
  <2> QED BY <1>0, <1>5, <2>1, RecordHeld, UsageAssumption DEF RecordTokens
<1>6. CASE RecordCost(w)
  <2>1. "actual-cost" \in Kind
    BY DEF Kind
  <2> QED BY <1>0, <1>6, <2>1, RecordHeld, UsageAssumption DEF RecordCost
<1>7. CASE ReleaseCost(w)
  <2> DEFINE key == <<J.run, "cost">>
  <2>1. key \in Key /\ To(w, "unknown") /\ UNCHANGED phase
    BY <1>0, <1>7 DEF ReleaseCost, JobOK, OnRun, Key, Kind
  <2>2. UNCHANGED rowVars \/ (rows[key] # NoRow /\ Release(key, "released"))
    BY <1>7 DEF ReleaseCost
  <2> HIDE DEF key
  <2>3. Active' \subseteq Active /\ \A k \in Key : rows'[k] # NoRow => rows[k] # NoRow
    BY <1>1, <2>1, <2>2, RowsOfStep
  <2> QED BY <1>0, <2>1, <2>3, WorkGoesOn
<1>8. CASE RecordUnknown(w)
  BY <1>0, <1>1, <1>8, WorkGoesOn DEF RecordUnknown
<1>9. CASE EndRun(w)
  <2> DEFINE j == [Idle EXCEPT !.at = "list", !.run = J.run]
  <2>1. j.at = "list" /\ j.run = J.run
    BY DEF Idle
  <2>2. /\ client' = [client EXCEPT ![w] = j] /\ UNCHANGED rowVars /\ J.at = "end"
        /\ phase' = [phase EXCEPT ![J.run] = "ended"]
    BY <1>9 DEF EndRun
  <2> HIDE DEF j
  <2>3. WillList(j) /\ ~Creates(j)
    BY <2>1 DEF WillList, Creates, Reserving
  <2>4. CASE J.run \in Run
    <3>1. phase'[J.run] # "absent" /\ \A q \in Run : q # J.run => phase'[q] = phase[q]
      BY <1>0, <2>2, <2>4
    <3>2. \A d \in Client : d # w /\ Creates(client[d]) => client[d].run # J.run
      BY <1>0 DEF HeldInv
    <3>3. \A k \in Active : k[1] = J.run => WillRelease(j, k)
      BY <2>1, <2>3 DEF WillRelease
    <3>4. J.run \in {J.run, NoRow} /\ j.run \in {J.run, NoRow}
      BY <2>1
    <3>5. Turns(w, j, J.run)
      BY <2>2, <2>3, <3>1, <3>2, <3>3, <3>4 DEF Turns
    <3> QED BY <1>0, <2>2, <2>4, <3>5, HeldTurns
  <2>5. CASE J.run \notin Run
    <3>1. UNCHANGED phase
      BY <1>0, <2>2, <2>5
    <3> QED BY <1>0, <1>1, <2>1, <2>2, <2>3, <3>1, HeldWorks
  <2> QED BY <2>4, <2>5
<1> QED BY <1>3, <1>4, <1>5, <1>6, <1>7, <1>8, <1>9 DEF WorkerStep, RecordStep

(* Giving back: release_subject, a roll-back and the reaper.                *)
LEMMA ReleaseHeld ==
  ASSUME QuotaInv, HeldInv, NEW c \in Client, ListSubject(c) \/ ReleaseNext(c)
  PROVE  HeldInv'
<1> DEFINE J == client[c]
<1>0. /\ ClientsOK /\ J \in Job /\ JobOK(J) /\ Returns(J)
      /\ \A k \in J.list : rows[k] # NoRow /\ k \in Key
  BY JobFacts DEF QuotaInv, JobInv
<1>1. /\ UNCHANGED rowVars => rows' = rows /\ Active' = Active
      /\ \A k \in Active : k \in Key /\ k[1] \in Run
      /\ NoRow \notin Run
  BY NoRowAssumption DEF Active, rowVars, Key
<1>2. Idle.run = NoRow /\ Idle.next = "idle" /\ Idle.at = "idle"
  BY DEF Idle
<1>3. ~Creates(Idle)
  BY <1>2 DEF Creates, Reserving
<1>4. CASE ListSubject(c)
  <2> DEFINE own == {k \in Active : k[1] = J.run}
             j == [Idle EXCEPT !.run = J.run, !.list = own]
             g == [j EXCEPT !.at = "release"]
  <2>1. j.run = J.run /\ j.list = own /\ j.next = "idle"
    BY DEF Idle
  <2>2. g.at = "release" /\ g.run = J.run /\ g.list = own /\ g.next = "idle"
    BY DEF Idle
  <2>3. /\ client' = [client EXCEPT ![c] = IF j.list # {} THEN g
                                           ELSE IF j.next = "idle" THEN Idle
                                           ELSE [j EXCEPT !.at = j.next]]
        /\ UNCHANGED <<rowVars, phase>>
    BY <1>4 DEF ListSubject, ReleaseList
  <2>4. \A k \in Active : J.run = k[1] => k \in own
    OBVIOUS
  <2> HIDE DEF own, j, g
  <2>5. CASE own # {}
    <3>1. client' = [client EXCEPT ![c] = g]
      BY <2>1, <2>3, <2>5
    <3>2. ~Creates(g)
      BY <2>2 DEF Creates, Reserving
    <3>3. \A k \in Active' : WillRelease(J, k) => WillRelease(g, k)
      BY <1>1, <2>2, <2>3, <2>4 DEF WillRelease
    <3> QED BY <1>0, <1>1, <2>2, <2>3, <3>1, <3>2, <3>3, HeldGoes
  <2>6. CASE own = {}
    <3>1. client' = [client EXCEPT ![c] = Idle]
      BY <2>1, <2>3, <2>6
    <3>2. \A k \in Active' : WillRelease(J, k) => WillRelease(Idle, k)
      BY <1>1, <2>3, <2>4, <2>6 DEF WillRelease
    <3> QED BY <1>0, <1>1, <1>2, <1>3, <2>3, <3>1, <3>2, HeldGoes
  <2> QED BY <2>5, <2>6
<1>5. CASE ReleaseNext(c)
  <2>1. PICK k \in J.list : /\ Release(k, IF c = Reaper THEN "expired" ELSE "released")
                            /\ ReleaseList(c, [J EXCEPT !.list = @ \ {k}])
    BY <1>5 DEF ReleaseNext
  <2>2. J.at = "release" /\ J.next \in {"idle", "refused", "end"} /\ UNCHANGED phase
    BY <1>0, <1>5 DEF ReleaseNext, Returns
  <2>3. /\ Active' \subseteq Active /\ k \notin Active'
        /\ \A x \in Key : rows'[x] # NoRow => rows[x] # NoRow
    BY <1>0, <2>1, RowsOfStep
  <2> DEFINE list == J.list \ {k}
             j == [J EXCEPT !.list = list]
             loc == IF list # {} THEN "release" ELSE J.next
             g == [j EXCEPT !.at = loc]
  <2>4. j.list = list /\ j.next = J.next
    BY <1>0 DEF Job
  <2>5. g.at = loc /\ g.run = J.run /\ g.list = list /\ g.next = J.next
    BY <1>0 DEF Job
  <2>6. client' = [client EXCEPT ![c] = IF list = {} /\ J.next = "idle" THEN Idle ELSE g]
    BY <2>1, <2>4 DEF ReleaseList
  <2>7. \A x \in Active' : x \in J.list => x \in list
    BY <2>3
  <2>8. list # {} \/ J.next # "idle" => loc \in {"release", "refused", "end"}
    BY <2>2
  <2>9. loc = "refused" => list = {} /\ J.next = "refused"
    BY <2>2
  <2>10. loc = "release" => list # {}
    BY <2>2
  <2>11. list # {} => loc = "release"
    OBVIOUS
  <2>12. J.next = "end" /\ list = {} => loc = "end"
    OBVIOUS
  <2> HIDE DEF list, j, g, loc
  <2>13. CASE list = {} /\ J.next = "idle"
    <3>1. client' = [client EXCEPT ![c] = Idle]
      BY <2>6, <2>13
    <3>2. \A x \in Active' : WillRelease(J, x) => WillRelease(Idle, x)
      BY <2>2, <2>7, <2>13 DEF WillRelease, WillList, Reserving
    <3> QED BY <1>0, <1>2, <1>3, <2>2, <2>3, <3>1, <3>2, HeldGoes
  <2>14. CASE list # {} \/ J.next # "idle"
    <3>1. client' = [client EXCEPT ![c] = g]
      BY <2>6, <2>14
    <3>2. \A x \in Active' : WillRelease(J, x) => WillRelease(g, x)
      <4> SUFFICES ASSUME NEW x \in Active', WillRelease(J, x) PROVE WillRelease(g, x)
        OBVIOUS
      <4>1. J.run = x[1] /\ (J.next = "end" \/ x \in list)
        BY <2>2, <2>7 DEF WillRelease, WillList, Reserving
      <4>2. CASE list # {}
        BY <2>5, <2>11, <4>1, <4>2 DEF WillRelease, WillList
      <4>3. CASE list = {}
        BY <2>5, <2>12, <4>1, <4>3 DEF WillRelease, WillList
      <4> QED BY <4>2, <4>3
    <3>3. Creates(g) => J.next = "refused" /\ Creates(J) /\ KnowsRows(J)
      <4>1. Creates(g) => J.next = "refused"
        BY <2>5, <2>8, <2>9, <2>14 DEF Creates, Reserving
      <4>2. J.next = "refused" => Creates(J)
        BY <2>2 DEF Creates
      <4> QED BY <4>1, <4>2 DEF HeldInv
    <3>4. Creates(g) => StillKnowsRows(g)
      <4> SUFFICES ASSUME KnowsRows(J), NEW x \in Key, x[1] = g.run
                   PROVE  /\ g.at \in Reserving /\ rows'[x] # NoRow => x \in g.list
                          /\ g.at = "release" /\ x \in Active' => x \in g.list
                          /\ g.at = "refused" => x \notin Active'
        BY <3>3 DEF StillKnowsRows
      <4>1. x \in Active' => x \in list
        BY <2>2, <2>3, <2>5, <2>7 DEF KnowsRows
      <4> QED BY <2>5, <2>8, <2>9, <2>14, <4>1 DEF Reserving
    <3>5. g.run = J.run
      BY <2>5
    <3>6. Creates(g) => Creates(J) /\ g.run = J.run /\ StillKnowsRows(g)
      BY <3>3, <3>4, <3>5
    <3>7. \A x \in Key : /\ rows'[x] # NoRow => rows[x] # NoRow \/ x[1] = J.run
                         /\ x \in Active' /\ x \notin Active =>
                              x[1] = J.run /\ (WillRelease(g, x) \/ Creates(J))
      BY <2>3
    <3> QED BY <1>0, <2>2, <3>1, <3>2, <3>5, <3>6, <3>7, HeldGoes
  <2> QED BY <2>13, <2>14
<1> QED BY <1>4, <1>5

(* The reaper does not touch a Run, and its list costs nobody a release.    *)
LEMMA ReapHeld ==
  ASSUME QuotaInv, HeldInv, NEW batch \in Batches, ReapExpired(batch)
  PROVE  HeldInv'
<1> DEFINE j == [Idle EXCEPT !.at = "release", !.list = batch]
<1>1. j.at = "release" /\ j.run = NoRow /\ j.next = "idle"
  BY DEF Idle
<1>2. /\ client' = [client EXCEPT ![Reaper] = j] /\ client[Reaper] = Idle
      /\ UNCHANGED <<rowVars, phase>> /\ Reaper \in Client /\ ClientsOK
  BY DEF ReapExpired, Starts, Client, QuotaInv, JobInv
<1> HIDE DEF j
<1>3. rows' = rows /\ Active' = Active
  BY <1>2 DEF Active, rowVars
<1>4. ~Creates(j)
  BY <1>1 DEF Creates, Reserving
<1>5. Idle.at = "idle"
  BY DEF Idle
<1>6. \A k \in Active' : WillRelease(client[Reaper], k) => WillRelease(j, k)
  BY <1>2, <1>5 DEF WillRelease, WillList, Reserving
<1> QED BY <1>1, <1>2, <1>3, <1>4, <1>6, HeldGoes

(* Without crashes every step keeps it.                                     *)
HeldUntilCrash == crashes = 0 => HeldInv

LEMMA HeldNext == QuotaInv /\ HeldUntilCrash /\ [QuotaNext]_quotaVars => HeldUntilCrash'
<1> SUFFICES ASSUME QuotaInv, crashes = 0 => HeldInv, [QuotaNext]_quotaVars, crashes' = 0
             PROVE  HeldInv'
  BY DEF HeldUntilCrash
<1>1. crashes \in Nat
  BY BoundAssumption DEF QuotaInv, JobInv, Rest
<1>2. ASSUME UNCHANGED <<rowVars, phase, client, crashes>> PROVE HeldInv'
  <2>1. rows' = rows /\ Active' = Active
    BY <1>2 DEF Active, rowVars
  <2> QED BY <1>2, <2>1 DEF HeldInv, KnowsRows
<1>3. ASSUME NEW c \in Client, ReserveStep(c) PROVE HeldInv'
  <2>1. UNCHANGED crashes
    BY <1>3 DEF ReserveStep, CheckKey, ReadPolicies, Lookup, Write, ConsumeCommit
  <2> QED BY <1>3, <2>1, ReserveHeld
<1>4. ASSUME NEW c \in Client, ListSubject(c) \/ ReleaseNext(c) PROVE HeldInv'
  <2>1. UNCHANGED crashes
    BY <1>4 DEF ListSubject, ReleaseNext
  <2> QED BY <1>4, <2>1, ReleaseHeld
<1>5. ASSUME NEW c \in Client, Crash(c) PROVE HeldInv'
  BY <1>1, <1>5 DEF Crash
<1>6. ASSUME NEW c \in Api, ApiStep(c) PROVE HeldInv'
  <2>1. UNCHANGED crashes
    BY <1>6 DEF ApiStep, CreateRun, CreateUnadmitted, CancelRun, Refused, AddRun, AddRunFails
  <2> QED BY <1>6, <2>1, ApiHeld
<1>7. ASSUME NEW w \in Worker, WorkerStep(w) PROVE HeldInv'
  <2>1. UNCHANGED crashes
    BY <1>7 DEF WorkerStep, RecordStep, Deliver, NoRuntimeResult, RecordTokens, RecordCost,
                ReleaseCost, RecordUnknown, EndRun
  <2> QED BY <1>7, <2>1, WorkerHeld
<1>8. ASSUME NEW batch \in Batches, ReapExpired(batch) PROVE HeldInv'
  BY <1>8, ReapHeld DEF ReapExpired
<1>9. CASE NextMonth \/ (\E s \in Scope, limits \in NewLimits : ReplacePolicy(s, limits))
  BY <1>2, <1>9 DEF NextMonth, ReplacePolicy
<1>10. CASE UNCHANGED quotaVars
  BY <1>2, <1>10 DEF quotaVars, rowVars
<1> QED BY <1>3, <1>4, <1>5, <1>6, <1>7, <1>8, <1>9, <1>10 DEF QuotaNext

-----------------------------------------------------------------------------
(* Sums: Total is what MapThenFoldSet computes by recursion over the subsets *)
(* of a finite set.  The lemmas say that the order in which it takes the     *)
(* elements does not matter.                                                 *)

(* Induction, for a set of numbers.                                         *)
LEMMA AllNumbers ==
  ASSUME NEW ns \in SUBSET Nat, 0 \in ns, \A n \in ns : n + 1 \in ns
  PROVE  ns = Nat
<1> DEFINE rest == Nat \ ns
<1> SUFFICES ASSUME rest # {} PROVE FALSE
  OBVIOUS
<1>1. PICK x \in rest : \A y \in rest : ~(<<y, x>> \in OpToRel(<, Nat))
  BY WFMin, NatLessThanWellFounded
<1>2. \A y \in rest : ~(y < x)
  BY <1>1 DEF OpToRel
<1>3. x # 0 /\ x - 1 \in Nat /\ x - 1 \notin rest
  BY <1>2
<1> QED BY <1>3

(* The sums of amounts over the subsets of ks that have at most m elements.  *)
First(s) == CHOOSE k \in s : TRUE
Small(ks, m) == {s \in SUBSET ks : Cardinality(s) <= m}
IsSum(f, g, ss) ==
  g = [s \in ss |-> IF s = {} THEN 0 ELSE f[First(s)] + g[s \ {First(s)}]]

LEMMA Smaller ==
  ASSUME NEW s, IsFiniteSet(s), NEW k \in s
  PROVE  /\ IsFiniteSet(s \ {k}) /\ Cardinality(s) \in Nat /\ Cardinality(s) # 0
         /\ Cardinality(s \ {k}) = Cardinality(s) - 1
BY FS_RemoveElement, FS_CardinalityType, FS_EmptySet

LEMMA FirstIn == ASSUME NEW s, s # {} PROVE First(s) \in s
BY DEF First

LEMMA SumExists ==
  ASSUME NEW ks, IsFiniteSet(ks), NEW f
  PROVE  \E g : IsSum(f, g, SUBSET ks)
<1>0. \A s \in SUBSET ks : IsFiniteSet(s) /\ Cardinality(s) \in Nat /\ Cardinality(s) <= Cardinality(ks)
  BY FS_Subset, FS_CardinalityType
<1> DEFINE ns == {m \in Nat : \E g : IsSum(f, g, Small(ks, m))}
<1>1. 0 \in ns
  <2> DEFINE g == [s \in Small(ks, 0) |-> 0]
  <2>1. \A s \in Small(ks, 0) : s = {}
    BY <1>0, FS_EmptySet DEF Small
  <2>2. IsSum(f, g, Small(ks, 0))
    BY <2>1 DEF IsSum
  <2> QED BY <2>2
<1>2. ASSUME NEW m \in ns PROVE m + 1 \in ns
  <2>1. PICK g : IsSum(f, g, Small(ks, m))
    OBVIOUS
  <2>2. \A s \in Small(ks, m) : g[s] = IF s = {} THEN 0 ELSE f[First(s)] + g[s \ {First(s)}]
    BY <2>1 DEF IsSum
  <2> DEFINE h == [s \in Small(ks, m + 1) |->
                     IF s = {} THEN 0 ELSE f[First(s)] + g[s \ {First(s)}]]
  <2>3. ASSUME NEW s \in Small(ks, m + 1)
        PROVE  h[s] = IF s = {} THEN 0 ELSE f[First(s)] + h[s \ {First(s)}]
    <3>1. CASE s = {}
      BY <3>1
    <3>2. CASE s # {}
      <4> DEFINE t == s \ {First(s)}
      <4>1. t \in Small(ks, m) /\ t \in Small(ks, m + 1)
        <5>1. First(s) \in s /\ IsFiniteSet(s) /\ Cardinality(s) <= m + 1
          BY <1>0, <3>2, FirstIn DEF Small
        <5>2. Cardinality(t) = Cardinality(s) - 1 /\ Cardinality(s) \in Nat
          BY <5>1, Smaller
        <5> QED BY <5>1, <5>2 DEF Small
      <4>2. h[t] = IF t = {} THEN 0 ELSE f[First(t)] + g[t \ {First(t)}]
        BY <4>1
      <4>3. h[t] = g[t]
        BY <4>1, <4>2, <2>2
      <4> QED BY <3>2, <4>3
    <3> QED BY <3>1, <3>2
  <2>4. h = [s \in Small(ks, m + 1) |-> h[s]]
    OBVIOUS
  <2>5. IsSum(f, h, Small(ks, m + 1))
    <3> HIDE DEF h
    <3> QED BY <2>3, <2>4 DEF IsSum
  <2> QED BY <2>5
<1> HIDE DEF ns
<1>3. ns = Nat
  BY <1>1, <1>2, AllNumbers DEF ns
<1>4. Cardinality(ks) \in ns /\ Small(ks, Cardinality(ks)) = SUBSET ks
  BY <1>0, <1>3 DEF Small
<1> QED BY <1>4 DEF ns

LEMMA TotalIsSum ==
  ASSUME NEW ks, IsFiniteSet(ks), NEW f
  PROVE  \E g : IsSum(f, g, SUBSET ks) /\ Total(f, ks) = g[ks]
<1> DEFINE g == CHOOSE h : IsSum(f, h, SUBSET ks)
<1>1. IsSum(f, g, SUBSET ks)
  BY SumExists
<1>2. Total(f, ks) = g[ks]
  BY DEF Total, MapThenFoldSet, IsSum, First
<1> QED BY <1>1, <1>2

WholeSum(f, g, ks) == IsSum(f, g, SUBSET ks)
Ints(f, ks) == \A k \in ks : f[k] \in Int
Agree(f, e, s) == \A k \in s : f[k] = e[k]
AnyOrder(f, g, s) == g[s] \in Int /\ \A k \in s : g[s] = f[k] + g[s \ {k}]

(* The order in which a sum takes the elements does not matter.              *)
LEMMA SumAny ==
  ASSUME NEW ks, IsFiniteSet(ks), NEW f, Ints(f, ks), NEW g, WholeSum(f, g, ks)
  PROVE  \A s \in SUBSET ks : AnyOrder(f, g, s)
<1>0. \A s \in SUBSET ks : IsFiniteSet(s) /\ Cardinality(s) \in Nat
  BY FS_Subset, FS_CardinalityType
<1>1. \A s \in SUBSET ks : g[s] = IF s = {} THEN 0 ELSE f[First(s)] + g[s \ {First(s)}]
  BY DEF IsSum, WholeSum
<1>8. \A k \in ks : f[k] \in Int
  BY DEF Ints
<1> DEFINE ns == {m \in Nat : \A s \in SUBSET ks : Cardinality(s) <= m => AnyOrder(f, g, s)}
<1>9. \A s \in SUBSET ks : Cardinality(s) <= 0 => s = {}
  BY <1>0, FS_EmptySet
<1>10. AnyOrder(f, g, {})
  <2>1. g[{}] = 0
    BY <1>1
  <2> QED BY <2>1 DEF AnyOrder
<1>2. 0 \in ns
  BY <1>9, <1>10
<1>3. ASSUME NEW m \in ns PROVE m + 1 \in ns
  <2>0. ASSUME NEW s \in SUBSET ks, Cardinality(s) <= m + 1, s # {} PROVE AnyOrder(f, g, s)
    <3> DEFINE y == First(s)
    <3>1. y \in s /\ g[s] = f[y] + g[s \ {y}] /\ f[y] \in Int
      BY <1>1, <1>8, <2>0, FirstIn
    <3> HIDE DEF y
    <3>2. \A k \in s : (s \ {k}) \in SUBSET ks /\ Cardinality(s \ {k}) <= m
      BY <1>0, <2>0, Smaller
    <3>3. \A k \in s : AnyOrder(f, g, s \ {k})
      BY <3>2
    <3>4. g[s] \in Int
      <4>1. AnyOrder(f, g, s \ {y})
        BY <3>1, <3>3
      <4>2. g[s \ {y}] \in Int
        BY <4>1 DEF AnyOrder
      <4> QED BY <3>1, <4>2
    <3>5. ASSUME NEW k \in s, k # y PROVE g[s] = f[k] + g[s \ {k}]
      <4> DEFINE t == (s \ {k}) \ {y}
      <4>1. t = (s \ {y}) \ {k} /\ k \in s \ {y} /\ y \in s \ {k}
        BY <3>1, <3>5
      <4>2. g[s \ {y}] = f[k] + g[t] /\ g[s \ {k}] = f[y] + g[t]
        <5>1. AnyOrder(f, g, s \ {y}) /\ AnyOrder(f, g, s \ {k})
          BY <3>1, <3>3
        <5>2. g[s \ {y}] = f[k] + g[(s \ {y}) \ {k}]
          BY <4>1, <5>1 DEF AnyOrder
        <5>3. g[s \ {k}] = f[y] + g[(s \ {k}) \ {y}]
          BY <4>1, <5>1 DEF AnyOrder
        <5> QED BY <4>1, <5>2, <5>3
      <4>3. AnyOrder(f, g, t)
        <5>1. t \in SUBSET ks /\ Cardinality(t) <= m
          <6>1. IsFiniteSet(s \ {k}) /\ y \in s \ {k} /\ Cardinality(s \ {k}) <= m
            BY <1>0, <3>2, <4>1
          <6>2. Cardinality(t) = Cardinality(s \ {k}) - 1 /\ Cardinality(s \ {k}) \in Nat
            BY <6>1, Smaller
          <6> QED BY <6>1, <6>2
        <5> HIDE DEF t
        <5> QED BY <5>1
      <4> HIDE DEF t
      <4>4. g[t] \in Int /\ f[k] \in Int /\ f[y] \in Int
        BY <1>8, <3>1, <4>3 DEF AnyOrder
      <4> QED BY <3>1, <4>2, <4>4
    <3> QED BY <3>1, <3>4, <3>5 DEF AnyOrder
  <2>1. \A s \in SUBSET ks : Cardinality(s) <= m + 1 => AnyOrder(f, g, s)
    BY <1>10, <2>0
  <2> QED BY <2>1
<1> HIDE DEF ns
<1>4. ns = Nat
  BY <1>2, <1>3, AllNumbers DEF ns
<1> QED BY <1>0, <1>4 DEF ns

(* A sum is of the amounts of its elements, and of nothing else.             *)
LEMMA SumSame ==
  ASSUME NEW ks, IsFiniteSet(ks), NEW f, NEW g, WholeSum(f, g, ks),
         NEW ls, NEW e, NEW h, WholeSum(e, h, ls)
  PROVE  \A s \in SUBSET ks : s \subseteq ls /\ Agree(f, e, s) => g[s] = h[s]
<1>0. \A s \in SUBSET ks : IsFiniteSet(s) /\ Cardinality(s) \in Nat
  BY FS_Subset, FS_CardinalityType
<1>1. \A s \in SUBSET ks : g[s] = IF s = {} THEN 0 ELSE f[First(s)] + g[s \ {First(s)}]
  BY DEF IsSum, WholeSum
<1>2. \A s \in SUBSET ls : h[s] = IF s = {} THEN 0 ELSE e[First(s)] + h[s \ {First(s)}]
  BY DEF IsSum, WholeSum
<1> DEFINE Alike(s) == s \subseteq ls /\ Agree(f, e, s) => g[s] = h[s]
           ns == {m \in Nat : \A s \in SUBSET ks : Cardinality(s) <= m => Alike(s)}
<1>9. \A s \in SUBSET ks : Cardinality(s) <= 0 => s = {}
  BY <1>0, FS_EmptySet
<1>10. Alike({})
  BY <1>1, <1>2
<1>3. 0 \in ns
  <2> HIDE DEF Alike
  <2> QED BY <1>9, <1>10
<1>4. ASSUME NEW m \in ns PROVE m + 1 \in ns
  <2>0. ASSUME NEW s \in SUBSET ks, Cardinality(s) <= m + 1, s # {},
               s \subseteq ls, Agree(f, e, s)
        PROVE  g[s] = h[s]
    <3> DEFINE t == s \ {First(s)}
    <3>1. First(s) \in s
      BY <2>0, FirstIn
    <3>2. t \in SUBSET ks /\ Cardinality(t) <= m
      BY <1>0, <2>0, <3>1, Smaller
    <3>3. g[t] = h[t]
      <4>1. t \subseteq ls /\ Agree(f, e, t)
        BY <2>0 DEF Agree
      <4> HIDE DEF t
      <4> QED BY <3>2, <4>1
    <3> QED BY <1>1, <1>2, <2>0, <3>1, <3>3 DEF Agree
  <2>1. ASSUME NEW s \in SUBSET ks, Cardinality(s) <= m + 1 PROVE Alike(s)
    BY <1>10, <2>0, <2>1
  <2> HIDE DEF Alike
  <2> QED BY <2>1
<1> HIDE DEF ns
<1>5. ns = Nat
  BY <1>3, <1>4, AllNumbers DEF ns
<1> QED BY <1>0, <1>5 DEF ns

LEMMA TotalEmpty == \A f : Total(f, {}) = 0
<1> TAKE f
<1>1. PICK g : IsSum(f, g, SUBSET {}) /\ Total(f, {}) = g[{}]
  BY TotalIsSum, FS_EmptySet
<1> QED BY <1>1 DEF IsSum

LEMMA TotalSame ==
  ASSUME NEW ks, IsFiniteSet(ks), NEW f, NEW e, Agree(f, e, ks)
  PROVE  Total(f, ks) = Total(e, ks)
<1>1. PICK g : WholeSum(f, g, ks) /\ Total(f, ks) = g[ks]
  BY TotalIsSum DEF WholeSum
<1>2. PICK h : WholeSum(e, h, ks) /\ Total(e, ks) = h[ks]
  BY TotalIsSum DEF WholeSum
<1>3. WholeSum(f, g, ks) /\ WholeSum(e, h, ks)
  BY <1>1, <1>2
<1>4. \A s \in SUBSET ks : s \subseteq ks /\ Agree(f, e, s) => g[s] = h[s]
  BY <1>3, SumSame
<1>5. g[ks] = h[ks]
  BY <1>4
<1> QED BY <1>1, <1>2, <1>5

LEMMA TotalAdds ==
  ASSUME NEW ks, IsFiniteSet(ks), NEW k, k \notin ks, NEW f, NEW e,
         Ints(f, ks \cup {k}), Agree(f, e, ks)
  PROVE  Total(f, ks \cup {k}) = Total(e, ks) + f[k] /\ Total(e, ks) \in Int
<1> DEFINE all == ks \cup {k}
<1>1. IsFiniteSet(all) /\ Ints(f, all)
  BY FS_AddElement
<1>2. all \ {k} = ks /\ ks \in SUBSET all /\ k \in all /\ all \in SUBSET all
  OBVIOUS
<1> HIDE DEF all
<1>3. PICK g : WholeSum(f, g, all) /\ Total(f, all) = g[all]
  BY <1>1, TotalIsSum DEF WholeSum
<1>4. PICK h : WholeSum(e, h, ks) /\ Total(e, ks) = h[ks]
  BY TotalIsSum DEF WholeSum
<1>5. WholeSum(f, g, all) /\ WholeSum(e, h, ks)
  BY <1>3, <1>4
<1>6. \A s \in SUBSET all : AnyOrder(f, g, s)
  BY <1>1, <1>5, SumAny
<1>7. g[all] = f[k] + g[ks] /\ g[ks] \in Int
  BY <1>2, <1>6 DEF AnyOrder
<1>8. g[ks] = h[ks]
  <2>1. \A s \in SUBSET all : s \subseteq ks /\ Agree(f, e, s) => g[s] = h[s]
    BY <1>1, <1>5, SumSame
  <2> QED BY <1>2, <2>1
<1>9. f[k] \in Int
  BY <1>1, <1>2 DEF Ints
<1> QED BY <1>3, <1>4, <1>7, <1>8, <1>9 DEF all

SameOf(cs, ds, ks) == \A l \in ks : l \in cs <=> l \in ds

(* With one key more, the total of those that are counted.                   *)
LEMMA TotalCounted ==
  ASSUME NEW ks, IsFiniteSet(ks), NEW k, k \notin ks, NEW f, NEW e,
         Ints(f, ks \cup {k}), Agree(f, e, ks), NEW cs, NEW ds, SameOf(cs, ds, ks)
  PROVE  /\ Total(f, (ks \cup {k}) \cap cs) =
              Total(e, ks \cap ds) + (IF k \in cs THEN f[k] ELSE 0)
         /\ Total(e, ks \cap ds) \in Int
<1> DEFINE ls == ks \cap ds
<1>1. IsFiniteSet(ls) /\ k \notin ls /\ Ints(f, ls \cup {k}) /\ Agree(f, e, ls)
  BY FS_Subset DEF Ints, Agree
<1>2. (ks \cup {k}) \cap cs = IF k \in cs THEN ls \cup {k} ELSE ls
  BY DEF SameOf
<1> HIDE DEF ls
<1>3. Total(f, ls \cup {k}) = Total(e, ls) + f[k] /\ Total(e, ls) \in Int
  BY <1>1, TotalAdds
<1>4. Total(f, ls) = Total(e, ls)
  BY <1>1, TotalSame
<1>5. CASE k \in cs
  BY <1>2, <1>3, <1>5 DEF ls
<1>6. CASE k \notin cs
  <2>1. Total(e, ls) + 0 = Total(e, ls)
    BY <1>3
  <2> QED BY <1>2, <1>3, <1>4, <1>6, <2>1 DEF ls
<1> QED BY <1>5, <1>6

HeldAmounts == [k \in Active |-> rows[k].amount]
UsedAmounts == [k \in Used |-> ledger[k][1]]
CountedIn(n) == {k \in Key : CountedBy(n, k)}

BalanceInv ==
  /\ IsFiniteSet(Active) /\ IsFiniteSet(Used)
  /\ \A n \in Counter : /\ reserved[n] = Total(HeldAmounts, Active \cap CountedIn(n))
                        /\ committed[n] = Total(UsedAmounts, Used \cap CountedIn(n))

LEMMA BalanceIs ==
  BalanceInv => CountersBalance
<1>1. \A n : /\ Counted(n, Active) = Active \cap CountedIn(n)
             /\ Counted(n, Used) = Used \cap CountedIn(n)
  BY DEF Counted, CountedIn, Active, Used
<1> QED BY <1>1 DEF BalanceInv, CountersBalance, HeldAmounts, UsedAmounts

(* A counter is one of the reservation's exactly when it counts it.          *)
LEMMA CountersCount ==
  ASSUME NEW k, NEW n \in Counter, NEW row
  PROVE  n \in CountersOf(k, row) <=> /\ ResourceOf(k[2]) = n[2] /\ row.window = n[3]
                                      /\ \E c \in row.constraints : c.scope = n[1]
<1>1. PICK s \in Scope, q \in Resource, w \in Window : n = <<s, q, w>>
  BY DEF Counter
<1>2. n[1] = s /\ n[2] = q /\ n[3] = w
  BY <1>1
<1>3. n \in CountersOf(k, row) <=>
        \E c \in row.constraints : <<s, q, w>> = <<c.scope, ResourceOf(k[2]), row.window>>
  BY <1>1 DEF CountersOf
<1> QED BY <1>2, <1>3

LEMMA CountedIs ==
  ASSUME NEW k \in Key, NEW n \in Counter
  PROVE  /\ n \in CountersOf(k, rows[k]) <=> k \in CountedIn(n)
         /\ n \in CountersOf(k, rows'[k]) <=> k \in CountedIn(n)'
BY CountersCount DEF CountedIn, CountedBy

(* A row that is not touched, or whose state alone is, is counted as before. *)
LEMMA CountedStays ==
  ASSUME NEW k \in Key, rows'[k].window = rows[k].window, rows'[k].constraints = rows[k].constraints,
         NEW n
  PROVE  k \in CountedIn(n)' <=> k \in CountedIn(n)
BY DEF CountedIn, CountedBy

(* A reservation more, or one less, among those that hold quota.             *)
LEMMA HeldMore ==
  ASSUME IsFiniteSet(Active), NEW k \in Key, k \notin Active, Active' = Active \cup {k},
         \A l \in Key : l # k => rows'[l] = rows[l],
         \A l \in Active \cup {k} : rows'[l].amount \in Int, NEW n
  PROVE  /\ Total(HeldAmounts', Active' \cap CountedIn(n)') =
              Total(HeldAmounts, Active \cap CountedIn(n))
                + (IF k \in CountedIn(n)' THEN rows'[k].amount ELSE 0)
         /\ Total(HeldAmounts, Active \cap CountedIn(n)) \in Int
<1> DEFINE f == HeldAmounts'
           e == HeldAmounts
           cs == CountedIn(n)'
           ds == CountedIn(n)
<1>1. f[k] = rows'[k].amount /\ Ints(f, Active \cup {k}) /\ Agree(f, e, Active)
  BY DEF HeldAmounts, Ints, Agree, Active
<1>2. SameOf(cs, ds, Active)
  BY CountedStays DEF Active, SameOf
<1> HIDE DEF f, e, cs, ds
<1>3. /\ Total(f, (Active \cup {k}) \cap cs) = Total(e, Active \cap ds) + (IF k \in cs THEN f[k] ELSE 0)
      /\ Total(e, Active \cap ds) \in Int
  BY <1>1, <1>2, TotalCounted
<1> QED BY <1>1, <1>3 DEF f, e, cs, ds

LEMMA HeldLess ==
  ASSUME IsFiniteSet(Active), NEW k \in Active, Active' = Active \ {k},
         \A l \in Key : l # k => rows'[l] = rows[l],
         \A l \in Active : rows[l].amount \in Int, NEW n
  PROVE  /\ Total(HeldAmounts, Active \cap CountedIn(n)) =
              Total(HeldAmounts', Active' \cap CountedIn(n)')
                + (IF k \in CountedIn(n) THEN rows[k].amount ELSE 0)
         /\ Total(HeldAmounts', Active' \cap CountedIn(n)') \in Int
<1> DEFINE f == HeldAmounts
           e == HeldAmounts'
           cs == CountedIn(n)
           ds == CountedIn(n)'
           rest == Active \ {k}
<1>1. f[k] = rows[k].amount /\ Ints(f, rest \cup {k}) /\ Agree(f, e, rest)
  BY DEF HeldAmounts, Ints, Agree, Active
<1>2. SameOf(cs, ds, rest)
  BY CountedStays DEF Active, SameOf
<1>3. IsFiniteSet(rest) /\ k \notin rest /\ Active = rest \cup {k}
  BY FS_RemoveElement
<1> HIDE DEF f, e, cs, ds, rest
<1>4. /\ Total(f, (rest \cup {k}) \cap cs) = Total(e, rest \cap ds) + (IF k \in cs THEN f[k] ELSE 0)
      /\ Total(e, rest \cap ds) \in Int
  BY <1>1, <1>2, <1>3, TotalCounted
<1> QED BY <1>1, <1>3, <1>4 DEF f, e, cs, ds, rest

(* The same of the reservations that were committed.                         *)
LEMMA UsedMore ==
  ASSUME IsFiniteSet(Used), NEW k \in Key, k \notin Used, Used' = Used \cup {k},
         \A l \in Key : /\ l # k => ledger'[l] = ledger[l]
                        /\ rows'[l].window = rows[l].window
                        /\ rows'[l].constraints = rows[l].constraints,
         \A l \in Used \cup {k} : ledger'[l][1] \in Int, NEW n
  PROVE  Total(UsedAmounts', Used' \cap CountedIn(n)') =
           Total(UsedAmounts, Used \cap CountedIn(n))
             + (IF k \in CountedIn(n) THEN ledger'[k][1] ELSE 0)
<1> DEFINE f == UsedAmounts'
           e == UsedAmounts
           cs == CountedIn(n)'
           ds == CountedIn(n)
<1>1. f[k] = ledger'[k][1] /\ Ints(f, Used \cup {k}) /\ Agree(f, e, Used)
  BY DEF UsedAmounts, Ints, Agree, Used
<1>2. SameOf(cs, ds, Used) /\ (k \in cs <=> k \in ds)
  BY CountedStays DEF Used, SameOf
<1> HIDE DEF f, e, cs, ds
<1>3. /\ Total(f, (Used \cup {k}) \cap cs) = Total(e, Used \cap ds) + (IF k \in cs THEN f[k] ELSE 0)
      /\ Total(e, Used \cap ds) \in Int
  BY <1>1, <1>2, TotalCounted
<1> QED BY <1>1, <1>2, <1>3 DEF f, e, cs, ds

LEMMA UsedSame ==
  ASSUME IsFiniteSet(Used), UNCHANGED ledger,
         \A l \in Used : /\ rows'[l].window = rows[l].window
                         /\ rows'[l].constraints = rows[l].constraints
  PROVE  Used' = Used /\ \A n : Total(UsedAmounts', Used' \cap CountedIn(n)') =
                                  Total(UsedAmounts, Used \cap CountedIn(n))
<1>1. Used' = Used /\ UsedAmounts' = UsedAmounts
  BY DEF Used, UsedAmounts
<1>2. \A n : Used' \cap CountedIn(n)' = Used \cap CountedIn(n)
  BY <1>1, CountedStays DEF Used
<1> QED BY <1>1, <1>2

(* What an active reservation of the tables is.                              *)
LEMMA ActiveIs ==
  ASSUME RowInv, NEW k \in Active
  PROVE  /\ k \in Key /\ rows[k] \in Reservation /\ rows[k].amount \in Nat
         /\ ledger[k] = << >> /\ k \notin Used
<1>1. k \in Key /\ rows[k] # NoRow /\ rows[k].state = "active"
  BY DEF Active
<1>2. rows[k] \in Reservation /\ rows[k].amount \in Nat
  BY <1>1, NoRowDistinct DEF RowInv, Reservation
<1>3. Len(ledger[k]) = 0 /\ ledger[k] \in Seq(Nat)
  BY <1>1 DEF RowInv, RowTypes, AccountedOnce
<1> QED BY <1>1, <1>2, <1>3 DEF Used

LEMMA UsedIs ==
  ASSUME RowInv, NEW k \in Used
  PROVE  k \in Key /\ rows[k] # NoRow /\ rows[k].state = "committed" /\ ledger[k][1] \in Nat
<1>1. k \in Key /\ ledger[k] # << >> /\ ledger[k] \in Seq(Nat)
  BY DEF Used, RowInv, RowTypes
<1>2. Len(ledger[k]) # 0 /\ ledger[k][1] \in Nat
  BY <1>1
<1> QED BY <1>1, <1>2 DEF RowInv, AccountedOnce

LEMMA InsertBalance ==
  ASSUME RowInv, BalanceInv, NEW k \in Key, NEW row \in Reservation,
         Askable(k, row), rows[k] = NoRow, Insert(row, k)
  PROVE  BalanceInv'
<1>1. /\ \A l \in Key : l # k => rows'[l] = rows[l]
      /\ rows'[k] = row /\ row.state = "active" /\ row # NoRow /\ row.amount \in Nat
      /\ UNCHANGED <<committed, ledger>>
      /\ reserved' = [n \in Counter |-> IF n \in CountersOf(k, row) THEN reserved[n] + row.amount
                                                                   ELSE reserved[n]]
  BY NoRowAssumption DEF Insert, RowInv, RowTypes, Askable, Reservation
<1>2. k \notin Active /\ Active' = Active \cup {k} /\ k \notin Used
  <2>1. k \notin Used
    BY UsedIs
  <2> QED BY <1>1, <2>1 DEF Active
<1>3. IsFiniteSet(Active) /\ IsFiniteSet(Used) /\ IsFiniteSet(Active')
  BY <1>2, FS_AddElement DEF BalanceInv
<1>4. \A l \in Active \cup {k} : rows'[l].amount \in Int
  BY <1>1, <1>2, ActiveIs
<1>5. \A l \in Used : rows'[l] = rows[l]
  BY <1>1, <1>2 DEF Used
<1>6. /\ Used' = Used
      /\ \A n : Total(UsedAmounts', Used' \cap CountedIn(n)') = Total(UsedAmounts, Used \cap CountedIn(n))
  BY <1>1, <1>3, <1>5, UsedSame
<1>7. ASSUME NEW n \in Counter
      PROVE  reserved'[n] = Total(HeldAmounts', Active' \cap CountedIn(n)')
  <2>1. n \in CountersOf(k, row) <=> k \in CountedIn(n)'
    <3>1. n \in CountersOf(k, rows'[k]) <=> k \in CountedIn(n)'
      BY CountedIs
    <3> QED BY <1>1, <3>1
  <2>2. reserved[n] = Total(HeldAmounts, Active \cap CountedIn(n))
    BY DEF BalanceInv
  <2>3. /\ Total(HeldAmounts', Active' \cap CountedIn(n)') =
             Total(HeldAmounts, Active \cap CountedIn(n)) + (IF k \in CountedIn(n)' THEN row.amount ELSE 0)
        /\ Total(HeldAmounts, Active \cap CountedIn(n)) \in Int
    BY <1>1, <1>2, <1>3, <1>4, HeldMore
  <2> QED BY <1>1, <2>1, <2>2, <2>3
<1>8. \A n \in Counter : committed'[n] = Total(UsedAmounts', Used' \cap CountedIn(n)')
  BY <1>1, <1>6 DEF BalanceInv
<1> QED BY <1>3, <1>6, <1>7, <1>8 DEF BalanceInv

(* commit and release take the reservation from those that hold quota.       *)
LEMMA SettledHeldLess ==
  ASSUME RowInv, BalanceInv, NEW k \in Active, NEW state \in {"committed", "released", "expired"},
         rows' = [rows EXCEPT ![k].state = state],
         reserved' = [n \in Counter |-> IF n \in CountersOf(k, rows[k])
                                        THEN reserved[n] - rows[k].amount ELSE reserved[n]]
  PROVE  /\ IsFiniteSet(Active')
         /\ \A n \in Counter : reserved'[n] = Total(HeldAmounts', Active' \cap CountedIn(n)')
         /\ \A l \in Key : /\ l # k => rows'[l] = rows[l]
                           /\ rows'[l].window = rows[l].window
                           /\ rows'[l].constraints = rows[l].constraints
<1>1. k \in Key /\ rows[k] \in Reservation /\ rows[k].amount \in Nat
  BY ActiveIs
<1>2. \A l \in Key : l # k => rows'[l] = rows[l]
  BY <1>1 DEF RowInv, RowTypes
<1>3. rows'[k] = [rows[k] EXCEPT !.state = state]
  BY <1>1 DEF RowInv, RowTypes
<1>4. /\ rows'[k].state = state /\ rows'[k].window = rows[k].window
      /\ rows'[k].constraints = rows[k].constraints
  BY <1>1, <1>3 DEF Reservation
<1>5. Active' = Active \ {k}
  BY <1>2, <1>4 DEF Active
<1>6. IsFiniteSet(Active) /\ IsFiniteSet(Active')
  BY <1>5, FS_RemoveElement DEF BalanceInv
<1>7. \A l \in Active : rows[l].amount \in Int
  BY ActiveIs
<1>8. ASSUME NEW n \in Counter
      PROVE  reserved'[n] = Total(HeldAmounts', Active' \cap CountedIn(n)')
  <2>1. n \in CountersOf(k, rows[k]) <=> k \in CountedIn(n)
    BY <1>1, CountedIs
  <2>2. reserved[n] = Total(HeldAmounts, Active \cap CountedIn(n))
    BY DEF BalanceInv
  <2>3. /\ Total(HeldAmounts, Active \cap CountedIn(n)) =
             Total(HeldAmounts', Active' \cap CountedIn(n)')
               + (IF k \in CountedIn(n) THEN rows[k].amount ELSE 0)
        /\ Total(HeldAmounts', Active' \cap CountedIn(n)') \in Int
    BY <1>2, <1>5, <1>6, <1>7, HeldLess
  <2>4. reserved'[n] = IF n \in CountersOf(k, rows[k]) THEN reserved[n] - rows[k].amount ELSE reserved[n]
    OBVIOUS
  <2> QED BY <1>1, <2>1, <2>2, <2>3, <2>4
<1> QED BY <1>2, <1>4, <1>6, <1>8

LEMMA BalanceStays == RowInv /\ BalanceInv /\ UNCHANGED rowVars => BalanceInv'
<1> SUFFICES ASSUME BalanceInv, UNCHANGED rowVars PROVE BalanceInv'
  OBVIOUS
<1>1. UNCHANGED <<rows, reserved, committed, ledger>>
  BY DEF rowVars
<1>2. Active' = Active /\ Used' = Used /\ \A n : CountedIn(n)' = CountedIn(n)
  BY <1>1 DEF Active, Used, CountedIn, CountedBy
<1>3. HeldAmounts' = HeldAmounts /\ UsedAmounts' = UsedAmounts
  BY <1>1, <1>2 DEF HeldAmounts, UsedAmounts
<1> QED BY <1>1, <1>2, <1>3 DEF BalanceInv

LEMMA ReleaseBalance ==
  ASSUME RowInv, BalanceInv, NEW k \in Key, NEW state \in {"released", "expired"}, rows[k] # NoRow,
         Release(k, state)
  PROVE  BalanceInv'
<1>1. CASE rows[k].state # "active"
  BY <1>1, BalanceStays DEF Release
<1>2. CASE rows[k].state = "active"
  <2>1. k \in Active
    BY <1>2 DEF Active
  <2>2. /\ rows' = [rows EXCEPT ![k].state = state]
        /\ reserved' = [n \in Counter |-> IF n \in CountersOf(k, rows[k])
                                          THEN reserved[n] - rows[k].amount ELSE reserved[n]]
        /\ UNCHANGED <<committed, ledger>>
    BY <1>2 DEF Release
  <2>3. /\ IsFiniteSet(Active')
        /\ \A n \in Counter : reserved'[n] = Total(HeldAmounts', Active' \cap CountedIn(n)')
        /\ \A l \in Key : rows'[l].window = rows[l].window /\ rows'[l].constraints = rows[l].constraints
    BY <2>1, <2>2, SettledHeldLess
  <2>4. \A l \in Used : rows'[l].window = rows[l].window /\ rows'[l].constraints = rows[l].constraints
    BY <2>3 DEF Used
  <2>5. IsFiniteSet(Used)
    BY DEF BalanceInv
  <2>6. /\ Used' = Used
        /\ \A n : Total(UsedAmounts', Used' \cap CountedIn(n)') =
                    Total(UsedAmounts, Used \cap CountedIn(n))
    BY <2>2, <2>4, <2>5, UsedSame
  <2> QED BY <2>2, <2>3, <2>5, <2>6 DEF BalanceInv
<1> QED BY <1>1, <1>2

LEMMA CommitBalance ==
  ASSUME RowInv, BalanceInv, NEW k \in Key, NEW amount \in Nat, rows[k] # NoRow, Commit(k, amount)
  PROVE  BalanceInv'
<1>1. CASE rows[k].state # "active"
  BY <1>1, BalanceStays DEF Commit
<1>2. CASE rows[k].state = "active"
  <2>1. k \in Active /\ k \notin Used /\ ledger[k] = << >>
    BY <1>2, ActiveIs DEF Active
  <2>2. /\ rows' = [rows EXCEPT ![k].state = "committed"]
        /\ reserved' = [n \in Counter |-> IF n \in CountersOf(k, rows[k])
                                          THEN reserved[n] - rows[k].amount ELSE reserved[n]]
        /\ committed' = [n \in Counter |-> IF n \in CountersOf(k, rows[k])
                                           THEN committed[n] + amount ELSE committed[n]]
        /\ ledger' = [ledger EXCEPT ![k] = Append(@, amount)]
    BY <1>2 DEF Commit
  <2>3. /\ IsFiniteSet(Active')
        /\ \A n \in Counter : reserved'[n] = Total(HeldAmounts', Active' \cap CountedIn(n)')
        /\ \A l \in Key : rows'[l].window = rows[l].window /\ rows'[l].constraints = rows[l].constraints
    BY <2>1, <2>2, SettledHeldLess
  <2>4. /\ \A l \in Key : l # k => ledger'[l] = ledger[l]
        /\ ledger'[k] = <<amount>>
    BY <2>1, <2>2 DEF RowInv, RowTypes
  <2>5. Used' = Used \cup {k}
    BY <2>4 DEF Used
  <2>6. IsFiniteSet(Used) /\ IsFiniteSet(Used')
    BY <2>5, FS_AddElement DEF BalanceInv
  <2>7. \A l \in Used \cup {k} : ledger'[l][1] \in Int
    BY <2>1, <2>4, UsedIs
  <2>8. ASSUME NEW n \in Counter
        PROVE  committed'[n] = Total(UsedAmounts', Used' \cap CountedIn(n)')
    <3>1. n \in CountersOf(k, rows[k]) <=> k \in CountedIn(n)
      BY CountedIs
    <3>2. committed[n] = Total(UsedAmounts, Used \cap CountedIn(n)) /\ committed[n] \in Nat
      BY DEF BalanceInv, RowInv, RowTypes
    <3>3. Total(UsedAmounts', Used' \cap CountedIn(n)') =
            Total(UsedAmounts, Used \cap CountedIn(n)) + (IF k \in CountedIn(n) THEN amount ELSE 0)
      BY <2>1, <2>3, <2>4, <2>5, <2>6, <2>7, UsedMore
    <3>4. committed'[n] = IF n \in CountersOf(k, rows[k]) THEN committed[n] + amount ELSE committed[n]
      BY <2>2
    <3> QED BY <3>1, <3>2, <3>3, <3>4
  <2> QED BY <2>3, <2>6, <2>8 DEF BalanceInv
<1> QED BY <1>1, <1>2

LEMMA BalanceInit == QuotaInit => BalanceInv
<1> SUFFICES ASSUME QuotaInit PROVE BalanceInv
  OBVIOUS
<1>1. Active = {} /\ Used = {}
  BY DEF QuotaInit, Active, Used
<1>2. \A n : Active \cap CountedIn(n) = {} /\ Used \cap CountedIn(n) = {}
  BY <1>1
<1>3. \A n \in Counter : reserved[n] = 0 /\ committed[n] = 0
  BY DEF QuotaInit
<1> QED BY <1>1, <1>2, <1>3, TotalEmpty, FS_EmptySet DEF BalanceInv

LEMMA BalanceNext == QuotaInv /\ BalanceInv /\ [QuotaNext]_quotaVars => BalanceInv'
<1>1. RowInv /\ BalanceInv /\ RowStep => BalanceInv'
  BY BalanceStays, InsertBalance, CommitBalance, ReleaseBalance DEF RowStep
<1>2. QuotaInv /\ [QuotaNext]_quotaVars => RowInv /\ RowStep
  BY StepIsTransaction DEF QuotaInv, quotaVars, RowStep, rowVars
<1> QED BY <1>1, <1>2

-----------------------------------------------------------------------------
(* In every reachable state the tables hold values of the columns' types    *)
(* and every client of quota/service.py is at a point of a call.            *)
THEOREM QuotaTypeCorrect == QuotaSafety => []QuotaTypeOK
<1>1. QuotaInv => QuotaTypeOK
  BY DEF QuotaInv, RowInv, RowTypes, JobInv, ClientsOK, PolicyKnown, Rest, QuotaTypeOK
<1> QED BY <1>1, QuotaInitInv, QuotaNextInv, PTL DEF QuotaSafety

(* Concurrent reserves, commits in a later month, policy changes, retries   *)
(* and crashes never make a counter exceed a limit that was in force by     *)
(* more than runtimes used beyond their reservations.                       *)
THEOREM QuotaNeverOversold == QuotaSafety => []NotOversold
<1>1. QuotaInv => NotOversold
  BY DEF QuotaInv, RowInv
<1> QED BY <1>1, QuotaInitInv, QuotaNextInv, PTL DEF QuotaSafety

(* A reservation has a ledger entry exactly when it was committed, and only *)
(* one, however often a result is recorded again.                           *)
THEOREM UsageAccountedOnce == QuotaSafety => []AccountedOnce
<1>1. QuotaInv => AccountedOnce
  BY DEF QuotaInv, RowInv
<1> QED BY <1>1, QuotaInitInv, QuotaNextInv, PTL DEF QuotaSafety

(* No step of any client rewrites a reservation or leaves a settled state.  *)
THEOREM SettledForGood == QuotaSafety => ReservationsAreFinal
<1> DEFINE P == \A k \in Key : rows[k] # NoRow =>
                  /\ rows'[k] # NoRow
                  /\ rows'[k] = [rows[k] EXCEPT !.state = rows'[k].state]
                  /\ rows[k].state \in Final => rows'[k] = rows[k]
<1>1. QuotaInv /\ [QuotaNext]_quotaVars => [P]_quotaVars
  BY StepIsTransaction, RowsKept DEF QuotaInv, Kept
<1> QED BY <1>1, QuotaInitInv, QuotaNextInv, PTL DEF QuotaSafety, ReservationsAreFinal

(* A Run that has ended, was refused or could not be added, and that no     *)
(* client is working on, holds no quota, as long as no client died in the   *)
(* middle of a call: cancel, the worker's delivery of a Run that was over   *)
(* and the roll-back of an admission leave nothing behind, in whatever      *)
(* order they, the reaper and a reservation under way come.                 *)
THEOREM EndedRunsAreFree == QuotaSafety => []EndedRunsHoldNothing
<1>1. QuotaInit => HeldUntilCrash
  BY HeldInit DEF HeldUntilCrash
<1>2. QuotaInv /\ HeldUntilCrash => EndedRunsHoldNothing
  <2> SUFFICES ASSUME crashes = 0, HeldInv, NEW r \in Run, phase[r] \in {"ended", "gone"},
                      \A c \in Client : client[c].run # r,
                      NEW k \in Active, k[1] = r
               PROVE  FALSE
    BY DEF EndedRunsHoldNothing, HeldUntilCrash
  <2>1. \E c \in Client : WillRelease(client[c], k)
    BY DEF HeldInv, Over
  <2> QED BY <2>1 DEF WillRelease
<1> QED BY <1>1, <1>2, QuotaInitInv, QuotaNextInv, HeldNext, PTL DEF QuotaSafety

(* The reserved and committed counters of a scope, a resource and a month   *)
(* are the sums of what the active reservations hold of it and of what the  *)
(* ledger recorded for it, through every reserve, commit and release.       *)
THEOREM CountersAreSums == QuotaSafety => []CountersBalance
<1> QED BY QuotaInitInv, QuotaNextInv, BalanceInit, BalanceNext, BalanceIs, PTL DEF QuotaSafety
=============================================================================
