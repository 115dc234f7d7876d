--------------------------- MODULE OperationsProofs ----------------------------
(***************************************************************************)
(* Proofs about the services that work on their own or for an operator, and *)
(* about what surrounds a Run: triggers, the gates of a promotion and the   *)
(* release workflow, the finalization of stuck Runs and its incidents,      *)
(* threads, the tools a Run gets and the files it leaves.                   *)
(***************************************************************************)
EXTENDS Services, FiniteSetTheorems, WellFoundedInduction, TLAPS

-----------------------------------------------------------------------------
(* Triggers.                                                                 *)

LEMMA TriggerPart ==
  /\ ServicesInit => TriggerInit
  /\ [ServicesNext]_servicesVars => [TriggerNext]_triggerVars
<1>1. ServicesInit => TriggerInit
  BY DEF ServicesInit
<1>2. ServicesNext => TriggerNext \/ UNCHANGED triggerVars
  BY DEF ServicesNext, Only
<1>3. UNCHANGED servicesVars => UNCHANGED triggerVars
  BY DEF servicesVars
<1> QED BY <1>1, <1>2, <1>3

PayloadRow == [revision : Nat, enabled : BOOLEAN, next : Nat, secret : Nat]
InvocationRow == [pc : {"idle", "replace", "done", "session", "failed", "advance", "addSession",
                        "find", "addRun", "touch", "write", "answered"},
                  key : Key, copy : PayloadRow, route : Nat]

(* A call that has found its Session has one, one that has its Run has it.  *)
InvocationHolds(j) ==
  /\ j.pc = "addSession" => j.route # 0
  /\ j.pc \in {"find", "addRun", "touch", "write", "answered"} => sessions[j.key] # 0
  /\ j.pc \in {"touch", "write", "answered"} => runsOf[j.key] = 1

RunsInv ==
  /\ sessions \in [Key -> Nat] /\ runsOf \in [Key -> {0, 1}]
  /\ \A k \in Key : runsOf[k] = 1 => sessions[k] # 0

TriggerInv ==
  /\ RunsInv
  /\ payload \in PayloadRow /\ columns \in [revision : Nat, enabled : BOOLEAN, next : Nat]
  /\ route \in Nat /\ route # 0
  /\ invocation \in [Client -> InvocationRow]
  /\ \A c \in Client : InvocationHolds(invocation[c])

(* Sessions and Runs stay; the rest of the trigger keeps its type.          *)
TriggerMoves ==
  /\ RunsInv'
  /\ \A k \in Key : /\ sessions[k] # 0 => sessions'[k] = sessions[k]
                    /\ runsOf[k] = 1 => runsOf'[k] = 1
  /\ payload' \in PayloadRow /\ columns' \in [revision : Nat, enabled : BOOLEAN, next : Nat]
  /\ route' \in Nat /\ route' # 0

LEMMA TriggerInitInv == TriggerInit => TriggerInv
<1> SUFFICES ASSUME TriggerInit PROVE TriggerInv
  OBVIOUS
<1>1. 0 \in Key
  BY TriggerAssumption DEF Key
<1>2. payload \in PayloadRow /\ columns \in [revision : Nat, enabled : BOOLEAN, next : Nat]
  BY DEF TriggerInit, PayloadRow, Columns
<1>3. /\ invocation \in [Client -> InvocationRow]
      /\ \A c \in Client : invocation[c].pc = "idle"
  BY <1>1, <1>2 DEF TriggerInit, InvocationRow
<1>4. RunsInv /\ route = 1
  BY DEF TriggerInit, RunsInv
<1>5. \A c \in Client : InvocationHolds(invocation[c])
  BY <1>3 DEF InvocationHolds
<1> QED BY <1>2, <1>3, <1>4, <1>5 DEF TriggerInv

LEMMA InvocationStays ==
  ASSUME TriggerInv, TriggerMoves, NEW j \in InvocationRow, InvocationHolds(j)
  PROVE  InvocationHolds(j)'
<1>1. j.key \in Key
  BY DEF InvocationRow
<1> QED BY <1>1 DEF TriggerMoves, InvocationHolds

LEMMA InvocationMoves ==
  ASSUME TriggerInv, TriggerMoves, NEW c \in Client, NEW j \in InvocationRow, InvocationHolds(j)',
         invocation' = [invocation EXCEPT ![c] = j]
  PROVE  TriggerInv'
<1>1. /\ invocation' \in [Client -> InvocationRow] /\ invocation'[c] = j
      /\ \A d \in Client : d # c => invocation'[d] = invocation[d]
  BY DEF TriggerInv
<1>2. ASSUME NEW d \in Client PROVE InvocationHolds(invocation[d])'
  <2>1. PICK k \in InvocationRow : k = invocation'[d]
    BY <1>1
  <2>2. CASE d = c
    BY <1>1, <2>1, <2>2 DEF InvocationHolds
  <2>3. CASE d # c
    <3>1. k = invocation[d] /\ InvocationHolds(k)
      BY <1>1, <2>1, <2>3 DEF TriggerInv
    <3>2. InvocationHolds(k)'
      BY <3>1, InvocationStays
    <3> QED BY <2>1, <3>2 DEF InvocationHolds
  <2> QED BY <2>2, <2>3
<1> QED BY <1>1, <1>2 DEF TriggerInv, TriggerMoves

LEMMA TriggerStays ==
  ASSUME TriggerInv, UNCHANGED <<sessions, runsOf>>,
         UNCHANGED <<columns, payload>> \/ (payload' \in PayloadRow
           /\ columns' \in [revision : Nat, enabled : BOOLEAN, next : Nat]),
         UNCHANGED route
  PROVE  TriggerMoves
BY DEF TriggerInv, TriggerMoves, RunsInv

(* A call goes to another point, with what it holds.                        *)
LEMMA StepMoves ==
  ASSUME TriggerInv, TriggerMoves, NEW c \in Client, NEW pc, Step(c, pc),
         pc \in {"idle", "done", "session", "failed", "find", "addRun", "touch", "answered"},
         pc \in {"find", "addRun", "touch", "answered"} => sessions'[invocation[c].key] # 0,
         pc \in {"touch", "answered"} => runsOf'[invocation[c].key] = 1
  PROVE  TriggerInv'
<1> DEFINE j == [invocation[c] EXCEPT !.pc = pc]
<1>1. invocation[c] \in InvocationRow /\ invocation \in [Client -> InvocationRow]
  BY DEF TriggerInv
<1>2. invocation' = [invocation EXCEPT ![c] = j]
  BY <1>1 DEF Step
<1>3. j \in InvocationRow /\ j.pc = pc /\ j.key = invocation[c].key
  BY <1>1 DEF InvocationRow
<1> HIDE DEF j
<1>4. PICK k \in InvocationRow : k = j
  BY <1>3
<1>5. InvocationHolds(k)'
  BY <1>3, <1>4 DEF InvocationHolds
<1> QED BY <1>2, <1>3, <1>4, <1>5, InvocationMoves

LEMMA CopyMoves ==
  ASSUME TriggerInv, TriggerMoves, NEW c \in Client, NEW pc \in {"replace", "failed", "write"},
         pc = "write" => invocation[c].pc = "touch",
         invocation' = [invocation EXCEPT ![c] = [@ EXCEPT !.pc = pc, !.copy = payload]]
  PROVE  TriggerInv'
<1> DEFINE u == [invocation[c] EXCEPT !.pc = pc]
           j == [u EXCEPT !.copy = payload]
<1>1. PICK o \in InvocationRow : o = invocation[c] /\ InvocationHolds(o)
  BY DEF TriggerInv
<1>2. invocation' = [invocation EXCEPT ![c] = j]
  BY DEF TriggerInv
<1>3. u \in InvocationRow /\ u.pc = pc /\ u.key = o.key
  BY <1>1 DEF InvocationRow
<1> HIDE DEF u
<1>4. j \in InvocationRow /\ j.pc = pc /\ j.key = o.key
  BY <1>3 DEF TriggerInv, InvocationRow
<1> HIDE DEF j
<1>5. PICK k \in InvocationRow : k = j
  BY <1>4
<1>6. InvocationHolds(o)'
  BY <1>1, InvocationStays
<1>7. InvocationHolds(k)'
  BY <1>1, <1>4, <1>5, <1>6 DEF InvocationHolds
<1> QED BY <1>2, <1>4, <1>5, <1>7, InvocationMoves

LEMMA AdminInv ==
  ASSUME TriggerInv, NEW a \in Admin, AdminRead(a) \/ ReplaceTrigger(a)
  PROVE  TriggerInv'
<1>1. a \in Client /\ UNCHANGED <<sessions, runsOf, route>>
  BY DEF Client, AdminRead, ReplaceTrigger, DataUnchanged
<1>2. CASE AdminRead(a)
  <2>1. /\ UNCHANGED <<columns, payload>>
        /\ invocation' = [invocation EXCEPT ![a] = [@ EXCEPT !.pc = "replace", !.copy = payload]]
    BY <1>2 DEF AdminRead, StoreUnchanged
  <2> QED BY <1>1, <2>1, TriggerStays, CopyMoves
<1>3. CASE ReplaceTrigger(a)
  <2>1. PICK copy \in PayloadRow : copy = invocation[a].copy
    BY <1>1 DEF TriggerInv, InvocationRow
  <2>2. Step(a, "done") /\ (\/ UNCHANGED <<columns, payload>>
                            \/ \E p \in {SwitchTrigger(copy), RotateSecret(copy)} :
                                 payload' = p /\ columns' = Columns(p))
    BY <1>3, <2>1 DEF ReplaceTrigger, StoreUnchanged
  <2> DEFINE u == [copy EXCEPT !.revision = @ + 1]
             b == ~u.enabled
             switched == [u EXCEPT !.enabled = b]
             rotated == [u EXCEPT !.secret = @ + 1]
  <2>3. b \in BOOLEAN
    OBVIOUS
  <2>4. u \in PayloadRow
    BY DEF PayloadRow
  <2>5. SwitchTrigger(copy) = switched /\ RotateSecret(copy) = rotated
    BY <2>1 DEF SwitchTrigger, RotateSecret, PayloadRow
  <2> HIDE DEF u, b
  <2>6. switched \in PayloadRow /\ rotated \in PayloadRow
    BY <2>3, <2>4 DEF PayloadRow
  <2> HIDE DEF switched, rotated
  <2>7. \A p \in PayloadRow : Columns(p) \in [revision : Nat, enabled : BOOLEAN, next : Nat]
    BY DEF PayloadRow, Columns
  <2>8. TriggerMoves
    BY <1>1, <2>2, <2>5, <2>6, <2>7, TriggerStays
  <2> QED BY <1>1, <2>2, <2>8, StepMoves
<1> QED BY <1>2, <1>3

LEMMA ListDueInv ==
  ASSUME TriggerInv, NEW d \in Dispatcher, ListDue(d)
  PROVE  TriggerInv'
<1>1. /\ d \in Client /\ UNCHANGED <<sessions, runsOf, route, columns, payload>>
      /\ columns.next <= MaxSlot
      /\ invocation' = [invocation EXCEPT ![d] = [@ EXCEPT !.pc = "advance", !.key = columns.next]]
  BY DEF Client, ListDue, DataUnchanged, StoreUnchanged
<1>2. TriggerMoves
  BY <1>1, TriggerStays
<1> DEFINE u == [invocation[d] EXCEPT !.pc = "advance"]
           j == [u EXCEPT !.key = columns.next]
<1>3. invocation' = [invocation EXCEPT ![d] = j]
  BY <1>1 DEF TriggerInv
<1>4. columns.next \in Key
  BY <1>1, TriggerAssumption DEF TriggerInv, Key
<1>5. u \in InvocationRow /\ u.pc = "advance"
  BY <1>1 DEF TriggerInv, InvocationRow
<1> HIDE DEF u
<1>6. j \in InvocationRow /\ j.pc = "advance"
  BY <1>4, <1>5 DEF InvocationRow
<1> HIDE DEF j
<1>7. PICK k \in InvocationRow : k = j
  BY <1>6
<1>8. InvocationHolds(k)'
  BY <1>6, <1>7 DEF InvocationHolds
<1> QED BY <1>1, <1>2, <1>3, <1>6, <1>7, <1>8, InvocationMoves

LEMMA AdvanceInv ==
  ASSUME TriggerInv, NEW d \in Dispatcher, AdvanceSchedule(d) \/ Revert(d)
  PROVE  TriggerInv'
<1>1. d \in Client /\ UNCHANGED <<sessions, runsOf, route>>
  BY DEF Client, AdvanceSchedule, Revert, DataUnchanged
<1>2. PICK slot \in Nat : slot = invocation[d].key
  BY <1>1, TriggerAssumption DEF TriggerInv, InvocationRow, Key
<1>3. PICK n \in Nat, m \in Nat, pc \in {"idle", "session"} : Moved(n, m) /\ Step(d, pc)
  <2>1. slot + 1 \in Nat
    OBVIOUS
  <2> QED BY <1>2, <2>1 DEF AdvanceSchedule, Revert
<1>4. [payload EXCEPT !.next = m] \in PayloadRow
  BY DEF TriggerInv, PayloadRow
<1>5. [columns EXCEPT !.next = m] \in [revision : Nat, enabled : BOOLEAN, next : Nat]
  BY DEF TriggerInv
<1>6. TriggerMoves
  BY <1>1, <1>3, <1>4, <1>5, TriggerStays DEF Moved, StoreUnchanged
<1> QED BY <1>1, <1>3, <1>6, StepMoves

LEMMA FindSessionInv ==
  ASSUME TriggerInv, NEW c \in Client, FindSession(c)
  PROVE  TriggerInv'
<1>1. UNCHANGED <<sessions, runsOf, route, columns, payload>> /\ invocation[c].pc = "session"
  BY DEF FindSession, DataUnchanged, StoreUnchanged, At
<1>2. TriggerMoves
  BY <1>1, TriggerStays
<1>3. PICK o \in InvocationRow : o = invocation[c]
  BY DEF TriggerInv
<1>4. PICK pc \in {"addSession", "find"} :
        pc = IF sessions[invocation[c].key] = 0 THEN "addSession" ELSE "find"
  OBVIOUS
<1> DEFINE u == [invocation[c] EXCEPT !.pc = pc]
           j == [u EXCEPT !.route = route]
<1>5. invocation' = [invocation EXCEPT ![c] = j]
  BY <1>4 DEF FindSession, TriggerInv
<1>6. u \in InvocationRow /\ u.pc = pc /\ u.key = o.key
  BY <1>3 DEF InvocationRow
<1> HIDE DEF u
<1>7. j \in InvocationRow /\ j.pc = pc /\ j.key = o.key /\ j.route = route
  BY <1>6 DEF TriggerInv, InvocationRow
<1> HIDE DEF j
<1>8. PICK k \in InvocationRow : k = j
  BY <1>7
<1>9. InvocationHolds(k)'
  BY <1>1, <1>3, <1>4, <1>7, <1>8 DEF InvocationHolds, TriggerInv
<1> QED BY <1>2, <1>5, <1>7, <1>8, <1>9, InvocationMoves

LEMMA AddsInv ==
  ASSUME TriggerInv, NEW c \in Client, AddSession(c) \/ AddRun(c)
  PROVE  TriggerInv'
<1>1. PICK o \in InvocationRow : o = invocation[c] /\ InvocationHolds(o)
  BY DEF TriggerInv
<1>2. PICK k \in Key : k = o.key
  BY DEF InvocationRow
<1>3. UNCHANGED <<columns, payload, route>>
  BY DEF AddSession, AddRun, StoreUnchanged
<1>4. CASE AddSession(c)
  <2>1. PICK mine \in Nat : mine = o.route /\ mine # 0
    BY <1>1, <1>4 DEF AddSession, At, InvocationHolds, InvocationRow
  <2>2. /\ UNCHANGED runsOf
        /\ sessions' = IF sessions[k] = 0 THEN [sessions EXCEPT ![k] = mine] ELSE sessions
        /\ Step(c, IF sessions'[k] = mine THEN "find" ELSE "failed")
    BY <1>1, <1>2, <1>4, <2>1 DEF AddSession
  <2>3. TriggerMoves
    BY <1>3, <2>1, <2>2 DEF TriggerInv, TriggerMoves, RunsInv
  <2> QED BY <1>1, <1>2, <2>1, <2>2, <2>3, StepMoves
<1>5. CASE AddRun(c)
  <2>1. /\ o.pc = "addRun" /\ UNCHANGED sessions
        /\ \/ runsOf[k] = 0 /\ runsOf' = [runsOf EXCEPT ![k] = 1] /\ Step(c, "touch")
           \/ UNCHANGED runsOf /\ Step(c, "failed")
    BY <1>1, <1>2, <1>5 DEF AddRun, At
  <2>2. sessions[k] # 0
    BY <1>1, <1>2, <2>1 DEF InvocationHolds
  <2>3. TriggerMoves
    BY <1>3, <2>1, <2>2 DEF TriggerInv, TriggerMoves, RunsInv
  <2>4. runsOf' = [runsOf EXCEPT ![k] = 1] => runsOf'[k] = 1
    BY DEF TriggerInv, RunsInv
  <2> QED BY <1>1, <1>2, <2>1, <2>2, <2>3, <2>4, StepMoves
<1> QED BY <1>4, <1>5

LEMMA InvokeInv ==
  ASSUME TriggerInv, NEW c \in Client,
         FindRun(c) \/ TouchRead(c) \/ TouchWrite(c) \/ InvocationFails(c)
  PROVE  TriggerInv'
<1>1. PICK o \in InvocationRow : o = invocation[c] /\ InvocationHolds(o)
  BY DEF TriggerInv
<1>2. UNCHANGED <<sessions, runsOf, route, columns>>
  BY DEF FindRun, TouchRead, TouchWrite, InvocationFails, DataUnchanged, StoreUnchanged
<1>3. CASE FindRun(c)
  <2>1. UNCHANGED payload /\ o.pc = "find"
        /\ Step(c, IF runsOf[o.key] = 0 THEN "addRun" ELSE "touch")
    BY <1>1, <1>3 DEF FindRun, StoreUnchanged, At
  <2>2. sessions[o.key] # 0 /\ runsOf[o.key] \in {0, 1}
    BY <1>1, <2>1 DEF InvocationHolds, TriggerInv, RunsInv, InvocationRow
  <2> QED BY <1>1, <1>2, <2>1, <2>2, TriggerStays, StepMoves
<1>4. CASE TouchRead(c)
  <2>1. PICK pc \in {"failed", "write"} :
          /\ UNCHANGED payload /\ o.pc = "touch"
          /\ invocation' = [invocation EXCEPT ![c] = [@ EXCEPT !.pc = pc, !.copy = payload]]
    BY <1>1, <1>4 DEF TouchRead, StoreUnchanged, At
  <2> QED BY <1>1, <1>2, <2>1, TriggerStays, CopyMoves
<1>5. CASE TouchWrite(c)
  <2>1. PICK pc \in {"answered", "idle"} : o.pc = "write" /\ payload' = o.copy /\ Step(c, pc)
    BY <1>1, <1>5 DEF TouchWrite, At
  <2>2. sessions[o.key] # 0 /\ runsOf[o.key] = 1
    BY <1>1, <2>1 DEF InvocationHolds
  <2>3. TriggerMoves
    BY <1>2, <2>1, TriggerStays DEF TriggerInv, InvocationRow
  <2> QED BY <1>1, <1>2, <2>1, <2>2, <2>3, StepMoves
<1>6. CASE InvocationFails(c)
  <2>1. UNCHANGED payload /\ Step(c, "failed")
    BY <1>6 DEF InvocationFails, StoreUnchanged
  <2> QED BY <1>2, <2>1, TriggerStays, StepMoves
<1> QED BY <1>3, <1>4, <1>5, <1>6

LEMMA TriggerStep == TriggerInv /\ [TriggerNext]_triggerVars => TriggerInv'
<1> SUFFICES ASSUME TriggerInv, [TriggerNext]_triggerVars PROVE TriggerInv'
  OBVIOUS
<1>1. CASE UNCHANGED triggerVars
  BY <1>1 DEF triggerVars, TriggerInv, RunsInv, InvocationHolds
<1>2. ASSUME NEW a \in Admin, AdminRead(a) \/ ReplaceTrigger(a) PROVE TriggerInv'
  BY <1>2, AdminInv
<1>3. ASSUME NEW c \in Caller, Authenticate(c) \/ Repeat(c) PROVE TriggerInv'
  <2>1. PICK pc \in {"session", "failed", "idle"} : Step(c, pc)
    BY <1>3 DEF Authenticate, Repeat
  <2>2. c \in Client /\ UNCHANGED <<columns, payload, sessions, runsOf, route>>
    BY <1>3 DEF Client, Authenticate, Repeat, StoreUnchanged, DataUnchanged
  <2> QED BY <2>1, <2>2, TriggerStays, StepMoves
<1>4. ASSUME NEW d \in Dispatcher, ListDue(d) \/ AdvanceSchedule(d) \/ Revert(d) PROVE TriggerInv'
  BY <1>4, ListDueInv, AdvanceInv
<1>5. ASSUME NEW c \in Caller \cup Dispatcher, Invoke(c) PROVE TriggerInv'
  BY <1>5, FindSessionInv, AddsInv, InvokeInv DEF Invoke, Client
<1>6. CASE Promote
  <2>1. /\ UNCHANGED <<sessions, runsOf, columns, payload, invocation>>
        /\ route' \in Nat /\ route' # 0
    BY <1>6 DEF Promote, StoreUnchanged, DataUnchanged, TriggerInv
  <2> QED BY <2>1 DEF TriggerInv, RunsInv, InvocationHolds
<1> QED BY <1>1, <1>2, <1>3, <1>4, <1>5, <1>6 DEF TriggerNext

(* However many callers and dispatchers work on a key at once, repeat their *)
(* requests or give a slot back, the key names one Run at most, in a        *)
(* Session, and an answer names that Run (triggers/service.py).             *)
THEOREM KeysRunOnce == ServicesSpec => []TriggerRunsOnce
<1>1. TriggerInv => TriggerRunsOnce
  <2> SUFFICES ASSUME TriggerInv PROVE TriggerRunsOnce
    OBVIOUS
  <2>1. \A k \in Key : runsOf[k] <= 1 /\ (runsOf[k] = 1 => sessions[k] # 0)
    BY DEF TriggerInv, RunsInv
  <2>2. \A c \in Caller : At(c, "answered") => runsOf[invocation[c].key] = 1
    BY DEF TriggerInv, InvocationHolds, At, Client
  <2> QED BY <2>1, <2>2 DEF TriggerRunsOnce
<1> QED BY <1>1, TriggerPart, TriggerInitInv, TriggerStep, PTL DEF ServicesSpec

-----------------------------------------------------------------------------
(* The gates of a promotion.                                                 *)

LEMMA GatesPart ==
  /\ ServicesInit => PromotionInit
  /\ [ServicesNext]_servicesVars => [PromotionNext]_promotionVars
<1>1. ServicesInit => PromotionInit
  BY DEF ServicesInit
<1>2. ServicesNext => PromotionNext \/ UNCHANGED promotionVars
  BY DEF ServicesNext, Only
<1>3. UNCHANGED servicesVars => UNCHANGED promotionVars
  BY DEF servicesVars
<1> QED BY <1>1, <1>2, <1>3

(* Of numbers that are bounded there is a largest one.                      *)
LEMMA LargestOf ==
  ASSUME NEW T, NEW max \in Nat, T \subseteq 0 .. max, T # {}
  PROVE  \E n \in T : \A m \in T : m <= n
<1> DEFINE below == {max - n : n \in T}
<1>1. below \subseteq Nat /\ below # {}
  <2>1. \A n \in T : max - n \in Nat
    OBVIOUS
  <2>2. PICK t \in T : TRUE
    OBVIOUS
  <2> QED BY <2>1, <2>2
<1>2. PICK x \in below : \A y \in below : ~(<<y, x>> \in OpToRel(<, Nat))
  BY <1>1, WFMin, NatLessThanWellFounded
<1>3. \A y \in below : ~(y < x)
  BY <1>1, <1>2 DEF OpToRel
<1>4. PICK n \in T : x = max - n
  OBVIOUS
<1>5. ASSUME NEW m \in T PROVE m <= n
  <2>1. max - m \in below
    OBVIOUS
  <2>2. ~(max - m < max - n)
    BY <1>3, <1>4, <2>1
  <2>3. m \in Int /\ n \in Int /\ max \in Int
    OBVIOUS
  <2> HIDE DEF below
  <2> QED BY <2>2, <2>3
<1> QED BY <1>4, <1>5

DatasetRow == [version : 1 .. MaxDatasets, required : BOOLEAN, cases : Nat, package : Nat]
MakerRow == [pc : {"idle", "bundle", "version", "add"}, cases : Nat, package : Nat, version : Nat]
PromoterRow == [pc : {"idle", "datasets", "runs", "rules", "incidents", "store", "refused", "promoted"},
                listed : SUBSET DatasetRow, rules : BOOLEAN, before : SUBSET DatasetRow,
                stuck : BOOLEAN]

(* For every required version that was there, rows hold one as late.        *)
AsLate(before, rows) ==
  \A d \in before : d.required => \E e \in rows : e.required /\ e.version >= d.version

PassedRows == {d \in datasets : d.version \in passes}

(* What a promotion has checked so far, and that it waits at an incident    *)
(* that was there all along.                                                *)
PromoterHolds(j) ==
  /\ j.pc # "idle" => j.before \subseteq datasets
  /\ j.pc = "runs" => j.listed \subseteq datasets /\ AsLate(j.before, j.listed)
  /\ j.pc \in {"rules", "incidents", "store", "promoted"} => AsLate(j.before, PassedRows)
  /\ j.pc \notin {"idle", "refused"} /\ j.stuck => blocking = Alarm /\ j.pc \notin {"store", "promoted"}
  /\ j.pc = "incidents" /\ j.stuck => j.rules

GatesInv ==
  /\ revision \in Nat /\ blocking \subseteq Alarm
  /\ datasets \subseteq DatasetRow /\ IsFiniteSet(datasets)
  /\ maker \in [Maker -> MakerRow] /\ \A m \in Maker : maker[m].pc = "add" => maker[m].version # 0
  /\ promoter \in [Promoter -> PromoterRow]
  /\ \A p \in Promoter : PromoterHolds(promoter[p])

LEMMA LatestIsAsLate ==
  ASSUME NEW rows \in SUBSET DatasetRow
  PROVE  LatestRequired(rows) \subseteq rows /\ AsLate(rows, LatestRequired(rows))
<1>1. LatestRequired(rows) \subseteq rows
  BY DEF LatestRequired
<1>2. ASSUME NEW d \in rows, d.required
      PROVE  \E e \in LatestRequired(rows) : e.required /\ e.version >= d.version
  <2> DEFINE required == {e \in rows : e.required}
             numbers == {e.version : e \in required}
  <2>1. numbers \subseteq 0 .. MaxDatasets /\ d.version \in numbers
    BY <1>2, DatasetsAssumption DEF DatasetRow
  <2>2. PICK n \in numbers : \A m \in numbers : m <= n
    BY <2>1, LargestOf, DatasetsAssumption
  <2>3. PICK e \in required : e.version = n
    OBVIOUS
  <2>4. \A f \in required : f.version <= e.version
    BY <2>2, <2>3
  <2>5. e \in LatestRequired(rows)
    BY <2>4 DEF LatestRequired
  <2>6. d.version <= e.version
    BY <1>2, <2>4
  <2>7. d.version \in Int /\ e.version \in Int
    BY DEF DatasetRow
  <2> QED BY <2>3, <2>5, <2>6, <2>7
<1> QED BY <1>1, <1>2 DEF AsLate

LEMMA AsLateStays ==
  ASSUME NEW before \in SUBSET DatasetRow, NEW rows \in SUBSET DatasetRow,
         NEW further \in SUBSET DatasetRow, AsLate(before, rows), AsLate(rows, further)
  PROVE  AsLate(before, further)
<1>1. ASSUME NEW d \in before, d.required PROVE \E f \in further : f.required /\ f.version >= d.version
  <2>1. PICK e \in rows : e.required /\ e.version >= d.version
    BY <1>1 DEF AsLate
  <2>2. PICK f \in further : f.required /\ f.version >= e.version
    BY <2>1 DEF AsLate
  <2>3. d.version \in Int /\ e.version \in Int /\ f.version \in Int
    BY DEF DatasetRow
  <2> QED BY <2>1, <2>2, <2>3
<1> QED BY <1>1 DEF AsLate

LEMMA AsLateGrows ==
  ASSUME NEW before, NEW rows, NEW more, rows \subseteq more, AsLate(before, rows)
  PROVE  AsLate(before, more)
BY DEF AsLate

(* What a step leaves to the promotions: rows and passes stay, and while    *)
(* one is stuck the alarms do.                                              *)
GatesMove ==
  /\ revision' \in Nat /\ blocking' \subseteq Alarm
  /\ datasets' \subseteq DatasetRow /\ IsFiniteSet(datasets') /\ datasets \subseteq datasets'
  /\ passes \subseteq passes'
  /\ maker' \in [Maker -> MakerRow] /\ \A m \in Maker : maker'[m].pc = "add" => maker'[m].version # 0

LEMMA PromoterStays ==
  ASSUME GatesInv, GatesMove, NEW j \in PromoterRow, NEW k \in PromoterRow, PromoterHolds(j),
         k.pc = j.pc, k.listed = j.listed, k.rules = j.rules, k.before = j.before,
         k.stuck => j.stuck /\ UNCHANGED blocking
  PROVE  PromoterHolds(k)'
<1>1. PassedRows \subseteq PassedRows'
  BY DEF GatesMove, PassedRows
<1>2. AsLate(j.before, PassedRows) => AsLate(j.before, PassedRows')
  BY <1>1, AsLateGrows
<1>3. k.pc \in {"rules", "incidents", "store", "promoted"} => AsLate(k.before, PassedRows')
  BY <1>2 DEF PromoterHolds
<1>4. k.pc # "idle" => k.before \subseteq datasets'
  BY DEF PromoterHolds, GatesMove
<1>5. k.pc = "runs" => k.listed \subseteq datasets' /\ AsLate(k.before, k.listed)
  BY DEF PromoterHolds, GatesMove
<1>6. /\ k.pc \notin {"idle", "refused"} /\ k.stuck => blocking' = Alarm /\ k.pc \notin {"store", "promoted"}
      /\ k.pc = "incidents" /\ k.stuck => k.rules
  BY DEF PromoterHolds
<1>7. AsLate(k.before, k.listed) <=> AsLate(k.before, k.listed)'
  BY DEF AsLate
<1>8. AsLate(k.before, PassedRows') <=> AsLate(k.before, PassedRows)'
  BY DEF AsLate
<1> QED BY <1>3, <1>4, <1>5, <1>6, <1>7, <1>8 DEF PromoterHolds

LEMMA PromotersKeep ==
  ASSUME GatesInv, GatesMove, UNCHANGED <<promoter, blocking>>
  PROVE  GatesInv'
<1>1. ASSUME NEW p \in Promoter PROVE PromoterHolds(promoter[p])'
  <2>1. PICK j \in PromoterRow : j = promoter[p] /\ PromoterHolds(j)
    BY DEF GatesInv
  <2>2. PromoterHolds(j)'
    BY <2>1, PromoterStays
  <2> QED BY <2>1, <2>2 DEF PromoterHolds, AsLate, PassedRows
<1> QED BY <1>1 DEF GatesInv, GatesMove

LEMMA PromoterMoves ==
  ASSUME GatesInv, UNCHANGED <<revision, datasets, passes, blocking, maker>>, NEW p \in Promoter,
         NEW j \in PromoterRow, PromoterHolds(j), promoter' = [promoter EXCEPT ![p] = j]
  PROVE  GatesInv'
<1>1. /\ promoter' \in [Promoter -> PromoterRow] /\ promoter'[p] = j
      /\ \A q \in Promoter : q # p => promoter'[q] = promoter[q]
  BY DEF GatesInv
<1>2. \A q \in Promoter : PromoterHolds(promoter'[q])
  BY <1>1 DEF GatesInv
<1>3. \A q \in Promoter : PromoterHolds(promoter[q])'
  BY <1>2 DEF PromoterHolds, AsLate, PassedRows
<1> QED BY <1>1, <1>3 DEF GatesInv

LEMMA GatesInitInv == PromotionInit => GatesInv
<1> SUFFICES ASSUME PromotionInit PROVE GatesInv
  OBVIOUS
<1> DEFINE one == [version |-> 1, required |-> TRUE, cases |-> 1, package |-> 1]
<1>1. datasets = {} \/ datasets = {one}
  BY DEF PromotionInit
<1>2. one \in DatasetRow
  BY DatasetsAssumption DEF DatasetRow
<1> HIDE DEF one
<1>3. IsFiniteSet({one}) /\ IsFiniteSet({})
  BY FS_EmptySet, FS_Singleton
<1>4. datasets \subseteq DatasetRow /\ IsFiniteSet(datasets)
  BY <1>1, <1>2, <1>3
<1>5. NotMaking \in MakerRow /\ NotMaking.pc = "idle"
  BY DEF NotMaking, MakerRow
<1>6. NotPromoting \in PromoterRow /\ NotPromoting.pc = "idle"
  BY DEF NotPromoting, PromoterRow
<1>7. \A p \in Promoter : promoter[p] = NotPromoting
  BY DEF PromotionInit
<1>8. \A p \in Promoter : PromoterHolds(promoter[p])
  BY <1>6, <1>7 DEF PromoterHolds
<1> QED BY <1>4, <1>5, <1>6, <1>8 DEF PromotionInit, GatesInv

LEMMA MakerInv ==
  ASSUME GatesInv, NEW m \in Maker,
         ReadDraft(m) \/ CompileBundle(m) \/ NextVersion(m) \/ \E required \in BOOLEAN : AddDataset(m, required)
  PROVE  GatesInv'
<1>1. PICK made \in MakerRow : made = maker[m]
  BY DEF GatesInv
<1>2. revision \in Nat /\ maker \in [Maker -> MakerRow]
  BY DEF GatesInv
<1>3. /\ UNCHANGED <<revision, passes, blocking, promoter>> /\ blocking \subseteq Alarm
      /\ datasets \subseteq DatasetRow /\ IsFiniteSet(datasets)
  BY DEF GatesInv, ReadDraft, CompileBundle, NextVersion, AddDataset, OnlyMaker
<1>4. ASSUME UNCHANGED datasets, NEW j \in MakerRow, j.pc = "add" => j.version # 0,
             maker' = [maker EXCEPT ![m] = j]
      PROVE  GatesInv'
  <2>1. maker' \in [Maker -> MakerRow] /\ \A k \in Maker : maker'[k].pc = "add" => maker'[k].version # 0
    BY <1>2, <1>4 DEF GatesInv
  <2>2. GatesMove
    BY <1>2, <1>3, <1>4, <2>1 DEF GatesMove
  <2> QED BY <1>3, <2>2, PromotersKeep
<1>5. CASE ReadDraft(m)
  <2> DEFINE u == [maker[m] EXCEPT !.pc = "bundle"]
             j == [u EXCEPT !.cases = revision]
  <2>1. maker' = [maker EXCEPT ![m] = j] /\ UNCHANGED datasets
    BY <1>2, <1>5 DEF ReadDraft
  <2>2. u \in MakerRow /\ u.pc = "bundle"
    BY <1>1 DEF MakerRow
  <2> HIDE DEF u
  <2>3. j \in MakerRow /\ j.pc = "bundle"
    BY <1>2, <2>2 DEF MakerRow
  <2> HIDE DEF j
  <2> QED BY <1>4, <2>1, <2>3
<1>6. CASE CompileBundle(m)
  <2> DEFINE u == [maker[m] EXCEPT !.pc = "version"]
             j == [u EXCEPT !.package = revision]
  <2>1. maker' = [maker EXCEPT ![m] = j] /\ UNCHANGED datasets
    BY <1>2, <1>6 DEF CompileBundle
  <2>2. u \in MakerRow /\ u.pc = "version"
    BY <1>1 DEF MakerRow
  <2> HIDE DEF u
  <2>3. j \in MakerRow /\ j.pc = "version"
    BY <1>2, <2>2 DEF MakerRow
  <2> HIDE DEF j
  <2> QED BY <1>4, <2>1, <2>3
<1>7. CASE NextVersion(m)
  <2> DEFINE n == Cardinality(datasets) + 1
             u == [maker[m] EXCEPT !.pc = "add"]
             j == [u EXCEPT !.version = n]
  <2>1. maker' = [maker EXCEPT ![m] = j] /\ UNCHANGED datasets
    BY <1>2, <1>7 DEF NextVersion
  <2>2. n \in Nat /\ n # 0
    <3>1. Cardinality(datasets) \in Nat
      BY <1>3, FS_CardinalityType
    <3> QED BY <3>1
  <2> HIDE DEF n
  <2>3. u \in MakerRow /\ u.pc = "add"
    BY <1>1 DEF MakerRow
  <2> HIDE DEF u
  <2>4. j \in MakerRow /\ j.version # 0
    BY <2>2, <2>3 DEF MakerRow
  <2> HIDE DEF j
  <2> QED BY <1>4, <2>1, <2>4
<1>8. CASE \E required \in BOOLEAN : AddDataset(m, required)
  <2>1. PICK required \in BOOLEAN : AddDataset(m, required)
    BY <1>8
  <2> DEFINE n == [version |-> made.version, required |-> required,
                   cases |-> made.cases, package |-> made.package]
  <2>2. /\ made.pc = "add" /\ made.version <= MaxDatasets
        /\ datasets' = datasets \/ datasets' = datasets \cup {n}
        /\ maker' = [maker EXCEPT ![m] = NotMaking]
    BY <1>1, <2>1 DEF AddDataset, MakerAt
  <2>3. made.version # 0
    BY <1>1, <2>2 DEF GatesInv
  <2>4. n \in DatasetRow
    BY <2>2, <2>3, DatasetsAssumption DEF MakerRow, DatasetRow
  <2> HIDE DEF n
  <2>5. IsFiniteSet(datasets \cup {n})
    BY <1>3, FS_AddElement
  <2>6. NotMaking \in MakerRow /\ NotMaking.pc = "idle"
    BY DEF NotMaking, MakerRow
  <2>7. maker' \in [Maker -> MakerRow] /\ \A k \in Maker : maker'[k].pc = "add" => maker'[k].version # 0
    BY <1>2, <2>2, <2>6 DEF GatesInv
  <2>8. GatesMove
    BY <1>2, <1>3, <2>2, <2>4, <2>5, <2>7 DEF GatesMove
  <2> QED BY <1>3, <2>8, PromotersKeep
<1> QED BY <1>5, <1>6, <1>7, <1>8

LEMMA QualityInv ==
  ASSUME GatesInv, NEW alarm \in Alarm, QualityMoves(alarm)
  PROVE  GatesInv'
<1>1. /\ UNCHANGED <<revision, datasets, passes, maker>> /\ blocking' \subseteq Alarm
      /\ promoter' = Watched
  BY DEF GatesInv, QualityMoves
<1>2. GatesMove
  BY <1>1 DEF GatesInv, GatesMove
<1>3. ASSUME NEW p \in Promoter
      PROVE  promoter'[p] \in PromoterRow /\ PromoterHolds(promoter[p])'
  <2>1. PICK j \in PromoterRow : j = promoter[p] /\ PromoterHolds(j)
    BY DEF GatesInv
  <2> DEFINE b == j.stuck /\ blocking' = Alarm
             k == [j EXCEPT !.stuck = b]
  <2>2. promoter'[p] = k
    BY <1>1, <2>1 DEF Watched
  <2>3. b \in BOOLEAN /\ (b => j.stuck /\ blocking' = Alarm)
    OBVIOUS
  <2> HIDE DEF b
  <2>4. /\ k \in PromoterRow /\ k.pc = j.pc /\ k.listed = j.listed /\ k.rules = j.rules
        /\ k.before = j.before /\ k.stuck = b
    BY <2>3 DEF PromoterRow
  <2> HIDE DEF k
  <2>5. PICK i \in PromoterRow : i = k
    BY <2>4
  <2>6. CASE i.pc \in {"idle", "refused", "store", "promoted"}
    <3>1. i.stuck => j.stuck
      BY <2>3, <2>4, <2>5
    <3> DEFINE r == [j EXCEPT !.stuck = FALSE]
    <3>2. r \in PromoterRow /\ r.pc = j.pc /\ r.listed = j.listed /\ r.rules = j.rules /\ r.before = j.before /\ ~r.stuck
      BY DEF PromoterRow
    <3> HIDE DEF r
    <3>3. PICK s \in PromoterRow : s = r
      BY <3>2
    <3>4. PromoterHolds(s)'
      BY <1>2, <2>1, <3>2, <3>3, PromoterStays
    <3>5. PromoterHolds(i)'
      BY <2>1, <2>4, <2>5, <2>6, <3>1, <3>2, <3>3, <3>4 DEF PromoterHolds
    <3> QED BY <2>2, <2>4, <2>5, <3>5 DEF PromoterHolds, AsLate, PassedRows
  <2>7. CASE i.pc \notin {"idle", "refused", "store", "promoted"}
    <3>1. i.stuck => blocking' = Alarm /\ blocking = Alarm
      BY <2>1, <2>3, <2>4, <2>5, <2>7 DEF PromoterHolds
    <3>2. i.stuck => j.stuck /\ UNCHANGED blocking
      BY <2>3, <2>4, <2>5, <3>1
    <3>3. PromoterHolds(i)'
      BY <1>2, <2>1, <2>4, <2>5, <3>2, PromoterStays
    <3> QED BY <2>2, <2>4, <2>5, <3>3 DEF PromoterHolds, AsLate, PassedRows
  <2> QED BY <2>6, <2>7
<1>4. promoter' \in [Promoter -> PromoterRow]
  BY <1>1, <1>3 DEF Watched
<1> QED BY <1>2, <1>3, <1>4 DEF GatesInv, GatesMove

LEMMA BeginInv ==
  ASSUME GatesInv, NEW p \in Promoter, BeginPromotion(p)
  PROVE  GatesInv'
<1>1. PICK o \in PromoterRow : o = promoter[p]
  BY DEF GatesInv
<1> DEFINE b == (blocking = Alarm)
           u == [promoter[p] EXCEPT !.pc = "datasets"]
           v == [u EXCEPT !.before = datasets]
           j == [v EXCEPT !.stuck = b]
<1>2. promoter' = [promoter EXCEPT ![p] = j] /\ UNCHANGED <<revision, datasets, passes, blocking, maker>>
  BY DEF GatesInv, BeginPromotion, OnlyPromoter
<1>3. b \in BOOLEAN /\ (b => blocking = Alarm)
  OBVIOUS
<1> HIDE DEF b
<1>4. u \in PromoterRow /\ u.pc = "datasets"
  BY <1>1 DEF PromoterRow
<1> HIDE DEF u
<1>5. v \in PromoterRow /\ v.pc = "datasets" /\ v.before = datasets
  BY <1>4 DEF PromoterRow, GatesInv
<1> HIDE DEF v
<1>6. j \in PromoterRow /\ j.pc = "datasets" /\ j.before = datasets /\ j.stuck = b
  BY <1>3, <1>5 DEF PromoterRow
<1> HIDE DEF j
<1>7. PICK k \in PromoterRow : k = j
  BY <1>6
<1>8. PromoterHolds(k)
  BY <1>3, <1>6, <1>7 DEF PromoterHolds
<1> QED BY <1>2, <1>6, <1>7, <1>8, PromoterMoves

LEMMA ListDatasetsInv ==
  ASSUME GatesInv, NEW p \in Promoter, ListDatasets(p)
  PROVE  GatesInv'
<1>1. PICK o \in PromoterRow : o = promoter[p] /\ PromoterHolds(o)
  BY DEF GatesInv
<1> DEFINE latest == LatestRequired(datasets)
           u == [promoter[p] EXCEPT !.pc = "runs"]
           j == [u EXCEPT !.listed = latest]
<1>2. /\ promoter' = [promoter EXCEPT ![p] = j] /\ UNCHANGED <<revision, datasets, passes, blocking, maker>>
      /\ o.pc = "datasets"
  BY <1>1 DEF GatesInv, ListDatasets, OnlyPromoter, PromoterAt
<1>3. o.before \subseteq datasets /\ datasets \in SUBSET DatasetRow
  BY <1>1, <1>2 DEF PromoterHolds, GatesInv
<1>4. latest \subseteq datasets /\ AsLate(datasets, latest)
  BY <1>3, LatestIsAsLate
<1> HIDE DEF latest
<1>5. AsLate(o.before, latest)
  BY <1>3, <1>4 DEF AsLate
<1>6. u \in PromoterRow /\ u.pc = "runs" /\ u.before = o.before /\ u.stuck = o.stuck
  BY <1>1 DEF PromoterRow
<1> HIDE DEF u
<1>7. /\ j \in PromoterRow /\ j.pc = "runs" /\ j.before = o.before /\ j.stuck = o.stuck
      /\ j.listed = latest
  BY <1>3, <1>4, <1>6 DEF PromoterRow
<1> HIDE DEF j
<1>8. PICK k \in PromoterRow : k = j
  BY <1>7
<1>9. PromoterHolds(k)
  BY <1>1, <1>2, <1>3, <1>4, <1>5, <1>7, <1>8 DEF PromoterHolds
<1> QED BY <1>2, <1>7, <1>8, <1>9, PromoterMoves

LEMMA ListPassesInv ==
  ASSUME GatesInv, NEW p \in Promoter, ListPasses(p)
  PROVE  GatesInv'
<1>1. PICK o \in PromoterRow : o = promoter[p] /\ PromoterHolds(o)
  BY DEF GatesInv
<1>2. PICK pc \in {"rules", "refused"} :
        pc = IF Numbers(promoter[p].listed) \subseteq passes THEN "rules" ELSE "refused"
  OBVIOUS
<1> DEFINE u == [promoter[p] EXCEPT !.listed = {}]
           j == [u EXCEPT !.pc = pc]
<1>3. /\ promoter' = [promoter EXCEPT ![p] = j] /\ UNCHANGED <<revision, datasets, passes, blocking, maker>>
      /\ o.pc = "runs"
  BY <1>1, <1>2 DEF GatesInv, ListPasses, OnlyPromoter, PromoterAt
<1>4. o.before \subseteq datasets /\ o.listed \subseteq datasets /\ AsLate(o.before, o.listed)
  BY <1>1, <1>3 DEF PromoterHolds
<1>5. ASSUME pc = "rules" PROVE AsLate(o.before, PassedRows)
  <2>1. o.listed \subseteq PassedRows
    BY <1>1, <1>2, <1>4, <1>5 DEF Numbers, PassedRows
  <2> QED BY <1>4, <2>1, AsLateGrows
<1>6. u \in PromoterRow /\ u.before = o.before /\ u.stuck = o.stuck
  BY <1>1 DEF PromoterRow
<1> HIDE DEF u
<1>7. j \in PromoterRow /\ j.pc = pc /\ j.before = o.before /\ j.stuck = o.stuck
  BY <1>6 DEF PromoterRow
<1> HIDE DEF j
<1>8. PICK k \in PromoterRow : k = j
  BY <1>7
<1>9. PromoterHolds(k)
  BY <1>1, <1>3, <1>4, <1>5, <1>7, <1>8 DEF PromoterHolds
<1> QED BY <1>3, <1>7, <1>8, <1>9, PromoterMoves

LEMMA ListRulesInv ==
  ASSUME GatesInv, NEW p \in Promoter, ListRules(p)
  PROVE  GatesInv'
<1>1. PICK o \in PromoterRow : o = promoter[p] /\ PromoterHolds(o)
  BY DEF GatesInv
<1> DEFINE b == "rule" \in blocking
           u == [promoter[p] EXCEPT !.pc = "incidents"]
           j == [u EXCEPT !.rules = b]
<1>2. /\ promoter' = [promoter EXCEPT ![p] = j] /\ UNCHANGED <<revision, datasets, passes, blocking, maker>>
      /\ o.pc = "rules"
  BY <1>1 DEF GatesInv, ListRules, OnlyPromoter, PromoterAt
<1>3. b \in BOOLEAN /\ (blocking = Alarm => b)
  BY DEF Alarm
<1> HIDE DEF b
<1>4. u \in PromoterRow /\ u.pc = "incidents" /\ u.before = o.before /\ u.stuck = o.stuck
  BY <1>1 DEF PromoterRow
<1> HIDE DEF u
<1>5. /\ j \in PromoterRow /\ j.pc = "incidents" /\ j.before = o.before /\ j.stuck = o.stuck
      /\ j.rules = b
  BY <1>3, <1>4 DEF PromoterRow
<1> HIDE DEF j
<1>6. PICK k \in PromoterRow : k = j
  BY <1>5
<1>7. PromoterHolds(k)
  BY <1>1, <1>2, <1>3, <1>5, <1>6 DEF PromoterHolds
<1> QED BY <1>2, <1>5, <1>6, <1>7, PromoterMoves

LEMMA DecidesInv ==
  ASSUME GatesInv, NEW p \in Promoter, ReadIncidents(p) \/ StorePromotion(p)
  PROVE  GatesInv'
<1>1. PICK o \in PromoterRow : o = promoter[p] /\ PromoterHolds(o)
  BY DEF GatesInv
<1>2. PICK pc \in {"refused", "store", "promoted"} :
        /\ promoter' = [promoter EXCEPT ![p].pc = pc]
        /\ \/ /\ o.pc = "incidents"
              /\ pc # "refused" => ~(o.rules /\ "incident" \in blocking)
           \/ o.pc = "store"
  BY <1>1 DEF ReadIncidents, StorePromotion, PromoterAt
<1>3. UNCHANGED <<revision, datasets, passes, blocking, maker>>
  BY DEF ReadIncidents, StorePromotion, OnlyPromoter
<1> DEFINE j == [promoter[p] EXCEPT !.pc = pc]
<1>4. promoter' = [promoter EXCEPT ![p] = j]
  BY <1>2 DEF GatesInv
<1>5. j \in PromoterRow /\ j.pc = pc /\ j.before = o.before /\ j.stuck = o.stuck
  BY <1>1 DEF PromoterRow
<1> HIDE DEF j
<1>6. PICK k \in PromoterRow : k = j
  BY <1>5
<1>7. ASSUME o.stuck PROVE pc = "refused"
  BY <1>1, <1>2, <1>7 DEF PromoterHolds, Alarm
<1>8. AsLate(o.before, PassedRows) /\ o.before \subseteq datasets
  BY <1>1, <1>2 DEF PromoterHolds
<1>9. PromoterHolds(k)
  BY <1>5, <1>6, <1>7, <1>8 DEF PromoterHolds
<1> QED BY <1>3, <1>4, <1>5, <1>6, <1>9, PromoterMoves

LEMMA GatesStep == GatesInv /\ [PromotionNext]_promotionVars => GatesInv'
<1> SUFFICES ASSUME GatesInv, [PromotionNext]_promotionVars PROVE GatesInv'
  OBVIOUS
<1>1. ASSUME UNCHANGED <<datasets, blocking, maker, promoter>>, revision' \in Nat, passes \subseteq passes'
      PROVE  GatesInv'
  <2>1. GatesMove
    BY <1>1 DEF GatesInv, GatesMove
  <2> QED BY <1>1, <2>1, PromotersKeep
<1>2. CASE SaveDraft \/ UNCHANGED promotionVars \/ \E version \in 1 .. MaxDatasets : EvalPasses(version)
  <2>1. /\ UNCHANGED <<datasets, blocking, maker, promoter>> /\ passes \subseteq passes'
        /\ revision' = revision \/ revision' = revision + 1
    BY <1>2 DEF SaveDraft, EvalPasses, promotionVars
  <2> QED BY <1>1, <2>1 DEF GatesInv
<1>3. ASSUME NEW m \in Maker,
             \/ ReadDraft(m) \/ CompileBundle(m) \/ NextVersion(m)
             \/ \E required \in BOOLEAN : AddDataset(m, required)
      PROVE  GatesInv'
  BY <1>3, MakerInv
<1>4. ASSUME NEW alarm \in Alarm, QualityMoves(alarm) PROVE GatesInv'
  BY <1>4, QualityInv
<1>5. ASSUME NEW p \in Promoter,
             \/ BeginPromotion(p) \/ ListDatasets(p) \/ ListPasses(p) \/ ListRules(p)
             \/ ReadIncidents(p) \/ StorePromotion(p)
      PROVE  GatesInv'
  BY <1>5, BeginInv, ListDatasetsInv, ListPassesInv, ListRulesInv, DecidesInv
<1> QED BY <1>2, <1>3, <1>4, <1>5 DEF PromotionNext

(* Whatever is added, passed, opened or resolved between the reads of a     *)
(* promotion, it goes through only past a passing Eval Run on a version as  *)
(* late as the required one there was when it was asked for, and not past   *)
(* an incident that blocked it all along (deployments/service.py, promote). *)
THEOREM PromotionsPassGates == ServicesSpec => []PromotionsGated
<1>1. GatesInv => PromotionsGated
  <2> SUFFICES ASSUME GatesInv, NEW p \in Promoter, PromoterAt(p, "promoted")
               PROVE  /\ ~promoter[p].stuck
                      /\ \A d \in promoter[p].before :
                           d.required =>
                             \E e \in datasets : e.required /\ e.version >= d.version /\ e.version \in passes
    BY DEF PromotionsGated
  <2>1. promoter[p].pc = "promoted" /\ PromoterHolds(promoter[p])
    BY DEF PromoterAt, GatesInv
  <2> QED BY <2>1 DEF PromoterHolds, AsLate, PassedRows
<1> QED BY <1>1, GatesPart, GatesInitInv, GatesStep, PTL DEF ServicesSpec

-----------------------------------------------------------------------------
(* Reliability incidents.                                                    *)

LEMMA IncidentsPart ==
  /\ ServicesInit => IncidentInit
  /\ [ServicesNext]_servicesVars => [IncidentNext]_incidentVars
<1>1. ServicesInit => IncidentInit
  BY DEF ServicesInit
<1>2. ServicesNext => IncidentNext \/ UNCHANGED incidentVars
  BY DEF ServicesNext, Only
<1>3. UNCHANGED servicesVars => UNCHANGED incidentVars
  BY DEF servicesVars
<1> QED BY <1>1, <1>2, <1>3

Finalizing == {"check", "append", "quota", "lease"}
IncidentRow == [status : {"none", "open", "resolved"}, lease : BOOLEAN]
ReaperRow == [pc : Finalizing \cup {"idle", "open", "reopen", "resolve", "close"},
              why : {"none", "reap", "repair", "maintain"}, seen : BOOLEAN, copy : IncidentRow]

IncidentTypes ==
  /\ stuckRun \in [ended : BOOLEAN, events : Nat, quota : BOOLEAN, lease : BOOLEAN]
  /\ incidents \in [Fingerprint -> IncidentRow]
  /\ reapers \in [Repairer -> ReaperRow]
  /\ load \subseteq Measured /\ page.active \subseteq Measured \cup {"stuck"}
  /\ lapsed \in BOOLEAN /\ died \in BOOLEAN

(* A reaper that finalizes has done the steps before the one it is at.      *)
ReaperHolds(r) ==
  LET mine == reapers[r]
  IN /\ mine.pc = "idle" => mine.why = "none"
     /\ mine.why \in {"reap", "repair"} => stuckRun.ended
     /\ mine.why = "reap" => mine.pc \in Finalizing \cup {"open"}
     /\ mine.why = "repair" => mine.copy.status = "open" /\ mine.pc # "open"
     /\ mine.pc \in Finalizing \cup {"reopen"} => mine.why \in {"reap", "repair"}
     /\ mine.pc = "append" /\ mine.seen => stuckRun.events > 0
     /\ mine.pc \in {"quota", "lease"} => stuckRun.events > 0
     /\ mine.pc = "lease" => stuckRun.quota
     /\ mine.why = "repair" /\ mine.pc \in {"resolve", "close"} => Finalized

(* While no claim has outlived its lease one reaper finalizes at a time.    *)
OneFinalizes ==
  /\ \A r, q \in Repairer :
       reapers[r].why \in {"reap", "repair"} /\ reapers[q].why \in {"reap", "repair"} => r = q
  /\ \A r \in Repairer :
       reapers[r].why = "repair" => incidents["finalize"] = [status |-> "open", lease |-> TRUE]
  /\ \A r \in Repairer : reapers[r].why = "reap" => incidents["finalize"].status = "none"
  /\ \A r \in Repairer : reapers[r].pc = "append" /\ ~reapers[r].seen => stuckRun.events = 0
  /\ stuckRun.events <= 1

OnRecord ==
  \/ \E r \in Repairer : reapers[r].why = "reap"
  \/ incidents["finalize"].status = "open"

IncidentInv ==
  /\ IncidentTypes
  /\ \A r \in Repairer : ReaperHolds(r)
  /\ ~stuckRun.ended => incidents["finalize"].status = "none" /\ stuckRun.events = 0
  /\ ~lapsed => OneFinalizes
  /\ (stuckRun.ended /\ ~Finalized /\ ~died) => OnRecord

LEMMA FingerprintsAre ==
  "finalize" \in Fingerprint /\ "maintenance" \in Fingerprint
BY DEF Fingerprint

LEMMA IncidentInitInv == IncidentInit => IncidentInv
<1> SUFFICES ASSUME IncidentInit PROVE IncidentInv
  OBVIOUS
<1>1. NoIncident \in IncidentRow /\ NoIncident.status = "none"
  BY DEF NoIncident, IncidentRow
<1>2. IdleAt \in ReaperRow /\ IdleAt.pc = "idle" /\ IdleAt.why = "none"
  BY <1>1 DEF IdleAt, ReaperRow
<1>3. /\ \A r \in Repairer : reapers[r] = IdleAt
      /\ incidents["finalize"] = NoIncident
      /\ reapers \in [Repairer -> ReaperRow] /\ incidents \in [Fingerprint -> IncidentRow]
  BY <1>1, <1>2, FingerprintsAre DEF IncidentInit
<1>4. /\ stuckRun \in [ended : BOOLEAN, events : Nat, quota : BOOLEAN, lease : BOOLEAN]
      /\ ~stuckRun.ended /\ stuckRun.events = 0
  BY DEF IncidentInit
<1>5. IncidentTypes
  BY <1>3, <1>4 DEF IncidentInit, IncidentTypes, ClosedPage
<1>6. \A r \in Repairer : ReaperHolds(r)
  BY <1>2, <1>3 DEF ReaperHolds, Finalizing
<1>7. OneFinalizes
  BY <1>2, <1>3, <1>4 DEF OneFinalizes
<1> QED BY <1>1, <1>3, <1>4, <1>5, <1>6, <1>7 DEF IncidentInv

(* What a reaper's step does to its own row.                                *)
LEMMA ReaperMoves ==
  ASSUME reapers \in [Repairer -> ReaperRow], NEW r \in Repairer,
         NEW pc \in Finalizing \cup {"idle", "open", "reopen", "resolve", "close"},
         MoveReaper(r, pc)
  PROVE  /\ reapers' \in [Repairer -> ReaperRow]
         /\ reapers'[r].pc = pc /\ reapers'[r].why = reapers[r].why
         /\ reapers'[r].copy = reapers[r].copy /\ reapers'[r].seen = reapers[r].seen
         /\ \A q \in Repairer : q # r => reapers'[q] = reapers[q]
BY DEF MoveReaper, ReaperRow

LEMMA ReaperRests ==
  ASSUME reapers \in [Repairer -> ReaperRow], NEW r \in Repairer, RestReaper(r)
  PROVE  /\ reapers' \in [Repairer -> ReaperRow]
         /\ reapers'[r].pc = "idle" /\ reapers'[r].why = "none"
         /\ \A q \in Repairer : q # r => reapers'[q] = reapers[q]
<1>1. NoIncident \in IncidentRow
  BY DEF NoIncident, IncidentRow
<1>2. IdleAt \in ReaperRow /\ IdleAt.pc = "idle" /\ IdleAt.why = "none"
  BY <1>1 DEF IdleAt, ReaperRow
<1> QED BY <1>2 DEF RestReaper

LEMMA ReaperStarts ==
  ASSUME reapers \in [Repairer -> ReaperRow], NEW r \in Repairer,
         NEW pc \in {"check", "open", "resolve"}, NEW why \in {"reap", "maintain"},
         reapers' = [reapers EXCEPT ![r] = [IdleAt EXCEPT !.pc = pc, !.why = why]]
  PROVE  /\ reapers' \in [Repairer -> ReaperRow]
         /\ reapers'[r].pc = pc /\ reapers'[r].why = why
         /\ \A q \in Repairer : q # r => reapers'[q] = reapers[q]
<1>1. NoIncident \in IncidentRow
  BY DEF NoIncident, IncidentRow
<1> DEFINE u == [IdleAt EXCEPT !.pc = pc]
           e == [u EXCEPT !.why = why]
<1>2. reapers' = [reapers EXCEPT ![r] = e]
  OBVIOUS
<1>3. u \in ReaperRow /\ u.pc = pc
  <2>1. IdleAt \in ReaperRow
    BY <1>1 DEF IdleAt, ReaperRow
  <2> QED BY <2>1 DEF ReaperRow, Finalizing
<1> HIDE DEF u
<1>4. e \in ReaperRow /\ e.pc = pc /\ e.why = why
  BY <1>3 DEF ReaperRow
<1> HIDE DEF e
<1> QED BY <1>2, <1>4

(* The page and the load write only what concerns alerts.                   *)
LEMMA AlertsInv ==
  ASSUME IncidentInv, UNCHANGED <<stuckRun, reapers, lapsed, died>>,
         incidents' \in [Fingerprint -> IncidentRow],
         incidents'["finalize"] = incidents["finalize"],
         load' \subseteq Measured, page'.active \subseteq Measured \cup {"stuck"}
  PROVE  IncidentInv'
<1>1. IncidentTypes'
  BY DEF IncidentInv, IncidentTypes
<1>2. \A r \in Repairer : ReaperHolds(r)'
  BY DEF IncidentInv, ReaperHolds, Finalized
<1>3. OneFinalizes => OneFinalizes'
  BY DEF OneFinalizes
<1>4. OnRecord => OnRecord'
  BY DEF OnRecord
<1>5. Finalized' = Finalized
  BY DEF Finalized
<1> QED BY <1>1, <1>2, <1>3, <1>4, <1>5 DEF IncidentInv

(* A reaper's step: the rest of the invariant is left for the step to show. *)
LEMMA RepairSteps ==
  ASSUME IncidentInv, NEW r \in Repairer, UNCHANGED <<load, page>>,
         stuckRun' \in [ended : BOOLEAN, events : Nat, quota : BOOLEAN, lease : BOOLEAN],
         incidents' \in [Fingerprint -> IncidentRow],
         reapers' \in [Repairer -> ReaperRow], lapsed' \in BOOLEAN, died' \in BOOLEAN,
         \A q \in Repairer : q # r => reapers'[q] = reapers[q],
         ReaperHolds(r)',
         stuckRun.ended => stuckRun'.ended, stuckRun.events > 0 => stuckRun'.events > 0,
         stuckRun.quota => stuckRun'.quota, stuckRun.lease => stuckRun'.lease,
         ~stuckRun'.ended => incidents'["finalize"].status = "none" /\ stuckRun'.events = 0,
         ~lapsed' => OneFinalizes',
         (stuckRun.ended /\ ~Finalized /\ ~died)' => OnRecord'
  PROVE  IncidentInv'
<1>1. IncidentTypes'
  BY DEF IncidentInv, IncidentTypes
<1>2. Finalized => Finalized'
  BY DEF Finalized
<1>3. ASSUME NEW q \in Repairer PROVE ReaperHolds(q)'
  <2>1. CASE q # r
    BY <1>2, <2>1 DEF IncidentInv, ReaperHolds
  <2> QED BY <2>1
<1> QED BY <1>1, <1>3 DEF IncidentInv

LEMMA ReapStuckInv == ASSUME IncidentInv, NEW r \in Repairer, ReapStuck(r) PROVE IncidentInv'
<1>1. ~stuckRun.ended /\ reapers[r].pc = "idle" /\ UNCHANGED <<incidents, load, page, lapsed, died>>
  BY DEF ReapStuck, ReaperAt, PageRests
<1>2. reapers' = [reapers EXCEPT ![r] = [IdleAt EXCEPT !.pc = "check", !.why = "reap"]]
  BY DEF ReapStuck
<1>3. "check" \in {"check", "open", "resolve"} /\ "reap" \in {"reap", "maintain"}
  OBVIOUS
<1>4. /\ reapers' \in [Repairer -> ReaperRow] /\ reapers'[r].pc = "check" /\ reapers'[r].why = "reap"
      /\ \A q \in Repairer : q # r => reapers'[q] = reapers[q]
  BY <1>2, <1>3, ReaperStarts DEF IncidentInv, IncidentTypes
<1>5. /\ stuckRun' \in [ended : BOOLEAN, events : Nat, quota : BOOLEAN, lease : BOOLEAN]
      /\ stuckRun'.ended /\ stuckRun'.events = stuckRun.events
      /\ stuckRun'.quota = stuckRun.quota /\ stuckRun'.lease = stuckRun.lease
  BY DEF ReapStuck, IncidentInv, IncidentTypes
<1>6. /\ incidents["finalize"].status = "none" /\ stuckRun.events = 0
      /\ \A q \in Repairer : reapers[q].why \notin {"reap", "repair"}
      /\ \A q \in Repairer : reapers[q].pc # "append"
  BY <1>1 DEF IncidentInv, ReaperHolds, Finalizing
<1>7. ReaperHolds(r)'
  BY <1>4, <1>5 DEF ReaperHolds, Finalizing
<1>8. OneFinalizes'
  BY <1>1, <1>4, <1>5, <1>6 DEF OneFinalizes
<1>9. OnRecord'
  BY <1>4 DEF OnRecord
<1>10. incidents' \in [Fingerprint -> IncidentRow] /\ lapsed' \in BOOLEAN /\ died' \in BOOLEAN
  BY <1>1 DEF IncidentInv, IncidentTypes
<1> QED BY <1>1, <1>4, <1>5, <1>7, <1>8, <1>9, <1>10, RepairSteps

(* A step of a reaper that leaves the incident of the Run and the Run alone *)
(* and goes on with what it was at.                                         *)
LEMMA QuietReaper ==
  ASSUME IncidentInv, NEW r \in Repairer, UNCHANGED <<stuckRun, load, page, lapsed>>,
         incidents' \in [Fingerprint -> IncidentRow],
         incidents'["finalize"] = incidents["finalize"],
         reapers' \in [Repairer -> ReaperRow], died' \in BOOLEAN,
         \A q \in Repairer : q # r => reapers'[q] = reapers[q],
         ReaperHolds(r)', reapers'[r].why \in {"reap", "repair"} => reapers'[r].why = reapers[r].why,
         reapers[r].why = "reap" /\ ~died' => reapers'[r].why = "reap",
         reapers'[r].pc = "append" /\ ~reapers'[r].seen => stuckRun.events = 0,
         died => died'
  PROVE  IncidentInv'
<1>1. OneFinalizes => OneFinalizes'
  BY DEF OneFinalizes
<1>2. Finalized' = Finalized
  BY DEF Finalized
<1>3. OnRecord /\ ~died' => OnRecord'
  BY DEF OnRecord
<1>4. lapsed' \in BOOLEAN
  BY DEF IncidentInv, IncidentTypes
<1>5. (stuckRun.ended /\ ~Finalized /\ ~died)' => OnRecord'
  BY <1>2, <1>3 DEF IncidentInv
<1>6. stuckRun' \in [ended : BOOLEAN, events : Nat, quota : BOOLEAN, lease : BOOLEAN]
  BY DEF IncidentInv, IncidentTypes
<1>7. ~lapsed' => OneFinalizes'
  BY <1>1 DEF IncidentInv
<1>8. ~stuckRun'.ended => incidents'["finalize"].status = "none" /\ stuckRun'.events = 0
  BY DEF IncidentInv
<1> QED BY <1>4, <1>5, <1>6, <1>7, <1>8, RepairSteps

LEMMA ReadEventsInv == ASSUME IncidentInv, NEW r \in Repairer, ReadEvents(r) PROVE IncidentInv'
<1>1. reapers[r].pc = "check" /\ UNCHANGED <<stuckRun, incidents, load, page, lapsed, died>>
  BY DEF ReadEvents, ReaperAt, PageRests
<1> DEFINE some == stuckRun.events > 0
<1>2. some \in BOOLEAN /\ (some => stuckRun.events > 0)
  OBVIOUS
<1> DEFINE u == [reapers EXCEPT ![r].pc = "append"]
           v == [u EXCEPT ![r].seen = some]
<1>3. reapers' = v
  BY DEF ReadEvents
<1>9. stuckRun.events \in Nat /\ died' \in BOOLEAN /\ incidents' \in [Fingerprint -> IncidentRow]
  BY <1>1 DEF IncidentInv, IncidentTypes
<1>10. ~some => stuckRun.events = 0
  BY <1>9
<1> HIDE DEF some
<1>4. /\ u \in [Repairer -> ReaperRow] /\ u[r].pc = "append" /\ u[r].why = reapers[r].why
      /\ u[r].copy = reapers[r].copy /\ \A q \in Repairer : q # r => u[q] = reapers[q]
  BY DEF IncidentInv, IncidentTypes, ReaperRow, Finalizing
<1> HIDE DEF u
<1>5. /\ v \in [Repairer -> ReaperRow] /\ v[r].pc = "append" /\ v[r].why = reapers[r].why
      /\ v[r].seen = some
      /\ v[r].copy = reapers[r].copy /\ \A q \in Repairer : q # r => v[q] = reapers[q]
  BY <1>2, <1>4 DEF ReaperRow
<1> HIDE DEF v
<1>6. /\ reapers' \in [Repairer -> ReaperRow] /\ reapers'[r].pc = "append"
      /\ reapers'[r].why = reapers[r].why /\ reapers'[r].seen = some
      /\ reapers'[r].copy = reapers[r].copy /\ \A q \in Repairer : q # r => reapers'[q] = reapers[q]
  BY <1>3, <1>5
<1>7. ReaperHolds(r)
  BY DEF IncidentInv
<1>8. ReaperHolds(r)'
  BY <1>1, <1>2, <1>6, <1>7 DEF ReaperHolds, Finalizing
<1> QED BY <1>1, <1>6, <1>8, <1>9, <1>10, QuietReaper

LEMMA AppendTerminalInv == ASSUME IncidentInv, NEW r \in Repairer, AppendTerminal(r) PROVE IncidentInv'
<1>1. /\ reapers[r].pc = "append" /\ UNCHANGED <<incidents, load, page, lapsed, died>>
      /\ MoveReaper(r, "quota") /\ reapers \in [Repairer -> ReaperRow]
      /\ stuckRun \in [ended : BOOLEAN, events : Nat, quota : BOOLEAN, lease : BOOLEAN]
      /\ incidents' \in [Fingerprint -> IncidentRow] /\ lapsed' \in BOOLEAN /\ died' \in BOOLEAN
  BY DEF AppendTerminal, ReaperAt, PageRests, IncidentInv, IncidentTypes
<1>2. "quota" \in Finalizing \cup {"idle", "open", "reopen", "resolve", "close"}
  BY DEF Finalizing
<1>3. /\ reapers' \in [Repairer -> ReaperRow]
      /\ reapers'[r].pc = "quota" /\ reapers'[r].why = reapers[r].why
      /\ reapers'[r].copy = reapers[r].copy
      /\ \A q \in Repairer : q # r => reapers'[q] = reapers[q]
  BY <1>1, <1>2, ReaperMoves
<1>4. PICK n \in Nat : n = IF reapers[r].seen THEN stuckRun.events ELSE stuckRun.events + 1
  BY <1>1
<1>5. stuckRun' = [stuckRun EXCEPT !.events = n]
  BY <1>4 DEF AppendTerminal
<1>6. /\ stuckRun' \in [ended : BOOLEAN, events : Nat, quota : BOOLEAN, lease : BOOLEAN]
      /\ stuckRun'.events = n /\ stuckRun'.ended = stuckRun.ended
      /\ stuckRun'.quota = stuckRun.quota /\ stuckRun'.lease = stuckRun.lease
  BY <1>1, <1>5
<1>7. ReaperHolds(r)
  BY DEF IncidentInv
<1>8. n > 0 /\ n >= stuckRun.events
  BY <1>1, <1>4, <1>7 DEF ReaperHolds
<1>9. stuckRun.ended /\ reapers[r].why \in {"reap", "repair"}
  BY <1>1, <1>7 DEF ReaperHolds, Finalizing
<1>10. ReaperHolds(r)'
  BY <1>1, <1>3, <1>6, <1>7, <1>8 DEF ReaperHolds, Finalizing
<1>11. OneFinalizes => OneFinalizes'
  <2> SUFFICES ASSUME OneFinalizes PROVE OneFinalizes'
    OBVIOUS
  <2>1. n <= 1
    BY <1>1, <1>4 DEF OneFinalizes
  <2>2. ASSUME NEW q \in Repairer, reapers'[q].pc = "append" PROVE FALSE
    <3>1. q # r /\ reapers[q].pc = "append"
      BY <1>3, <2>2
    <3>2. reapers[q].why \in {"reap", "repair"}
      BY <3>1 DEF IncidentInv, ReaperHolds, Finalizing
    <3> QED BY <1>9, <3>1, <3>2 DEF OneFinalizes
  <2> QED BY <1>1, <1>3, <1>6, <2>1, <2>2 DEF OneFinalizes
<1>12. OnRecord => OnRecord'
  BY <1>1, <1>3 DEF OnRecord
<1>13. (stuckRun.ended /\ ~Finalized /\ ~died)' => OnRecord'
  BY <1>1, <1>6, <1>8, <1>9, <1>12 DEF IncidentInv, Finalized
<1>14. ~lapsed' => OneFinalizes'
  BY <1>1, <1>11 DEF IncidentInv
<1> QED BY <1>1, <1>3, <1>6, <1>8, <1>9, <1>10, <1>13, <1>14, RepairSteps

LEMMA ReleaseSubjectInv == ASSUME IncidentInv, NEW r \in Repairer, ReleaseSubject(r) PROVE IncidentInv'
<1>1. /\ reapers[r].pc = "quota" /\ UNCHANGED <<incidents, load, page, lapsed, died>>
      /\ MoveReaper(r, "lease") /\ reapers \in [Repairer -> ReaperRow]
      /\ stuckRun \in [ended : BOOLEAN, events : Nat, quota : BOOLEAN, lease : BOOLEAN]
      /\ incidents' \in [Fingerprint -> IncidentRow] /\ lapsed' \in BOOLEAN /\ died' \in BOOLEAN
  BY DEF ReleaseSubject, ReaperAt, PageRests, IncidentInv, IncidentTypes
<1>2. "lease" \in Finalizing \cup {"idle", "open", "reopen", "resolve", "close"}
  BY DEF Finalizing
<1>3. /\ reapers' \in [Repairer -> ReaperRow]
      /\ reapers'[r].pc = "lease" /\ reapers'[r].why = reapers[r].why
      /\ reapers'[r].copy = reapers[r].copy
      /\ \A q \in Repairer : q # r => reapers'[q] = reapers[q]
  BY <1>1, <1>2, ReaperMoves
<1>4. /\ stuckRun' \in [ended : BOOLEAN, events : Nat, quota : BOOLEAN, lease : BOOLEAN]
      /\ stuckRun'.events = stuckRun.events /\ stuckRun'.ended = stuckRun.ended
      /\ stuckRun'.quota /\ stuckRun'.lease = stuckRun.lease
  BY <1>1 DEF ReleaseSubject
<1>5. ReaperHolds(r)
  BY DEF IncidentInv
<1>6. stuckRun.ended
  BY <1>1, <1>5 DEF ReaperHolds, Finalizing
<1>7. ReaperHolds(r)'
  BY <1>1, <1>3, <1>4, <1>5 DEF ReaperHolds, Finalizing
<1>8. OneFinalizes => OneFinalizes'
  BY <1>1, <1>3, <1>4 DEF OneFinalizes
<1>9. OnRecord => OnRecord'
  BY <1>1, <1>3 DEF OnRecord
<1>10. (stuckRun.ended /\ ~Finalized /\ ~died)' => OnRecord'
  BY <1>1, <1>4, <1>9 DEF IncidentInv, Finalized
<1>11. ~lapsed' => OneFinalizes'
  BY <1>1, <1>8 DEF IncidentInv
<1> QED BY <1>1, <1>3, <1>4, <1>6, <1>7, <1>10, <1>11, RepairSteps

LEMMA RevokeLeasesInv == ASSUME IncidentInv, NEW r \in Repairer, RevokeLeases(r) PROVE IncidentInv'
<1>1. /\ reapers[r].pc = "lease" /\ UNCHANGED <<incidents, load, page, lapsed, died>>
      /\ reapers \in [Repairer -> ReaperRow]
      /\ stuckRun \in [ended : BOOLEAN, events : Nat, quota : BOOLEAN, lease : BOOLEAN]
      /\ incidents' \in [Fingerprint -> IncidentRow] /\ lapsed' \in BOOLEAN /\ died' \in BOOLEAN
  BY DEF RevokeLeases, ReaperAt, PageRests, IncidentInv, IncidentTypes
<1>2. /\ stuckRun' \in [ended : BOOLEAN, events : Nat, quota : BOOLEAN, lease : BOOLEAN]
      /\ stuckRun'.events = stuckRun.events /\ stuckRun'.ended = stuckRun.ended
      /\ stuckRun'.quota = stuckRun.quota /\ stuckRun'.lease
  BY <1>1 DEF RevokeLeases
<1>3. ReaperHolds(r)
  BY DEF IncidentInv
<1>4. stuckRun.ended /\ Finalized'
  BY <1>1, <1>2, <1>3 DEF ReaperHolds, Finalizing, Finalized
<1>5. "resolve" \in Finalizing \cup {"idle", "open", "reopen", "resolve", "close"}
  OBVIOUS
<1>6. /\ reapers' \in [Repairer -> ReaperRow]
      /\ \/ /\ reapers'[r].pc = "resolve" /\ reapers'[r].why = "repair"
            /\ reapers[r].why = "repair" /\ reapers'[r].copy = reapers[r].copy
         \/ reapers'[r].pc = "idle" /\ reapers'[r].why = "none"
      /\ \A q \in Repairer : q # r => reapers'[q] = reapers[q]
  <2>1. CASE reapers[r].why = "repair"
    <3>1. MoveReaper(r, "resolve")
      BY <2>1 DEF RevokeLeases
    <3> QED BY <1>1, <1>5, <2>1, <3>1, ReaperMoves
  <2>2. CASE reapers[r].why # "repair"
    <3>1. RestReaper(r)
      BY <2>2 DEF RevokeLeases
    <3> QED BY <1>1, <3>1, ReaperRests
  <2> QED BY <2>1, <2>2
<1>7. ReaperHolds(r)'
  BY <1>2, <1>3, <1>4, <1>6 DEF ReaperHolds, Finalizing
<1>8. OneFinalizes => OneFinalizes'
  BY <1>1, <1>2, <1>6 DEF OneFinalizes
<1>9. ~lapsed' => OneFinalizes'
  BY <1>1, <1>8 DEF IncidentInv
<1> QED BY <1>1, <1>2, <1>4, <1>6, <1>7, <1>9, RepairSteps

LEMMA FinalizeFailsInv == ASSUME IncidentInv, NEW r \in Repairer, FinalizeFails(r) PROVE IncidentInv'
<1>1. /\ reapers[r].pc \in Finalizing /\ UNCHANGED <<stuckRun, incidents, load, page, lapsed, died>>
      /\ reapers \in [Repairer -> ReaperRow]
      /\ incidents' \in [Fingerprint -> IncidentRow] /\ died' \in BOOLEAN
  BY DEF FinalizeFails, PageRests, IncidentInv, IncidentTypes, Finalizing
<1>2. ReaperHolds(r)
  BY DEF IncidentInv
<1>3. PICK pc \in {"open", "reopen"} :
        pc = (IF reapers[r].why = "repair" THEN "reopen" ELSE "open") /\ MoveReaper(r, pc)
  BY DEF FinalizeFails
<1>4. pc \in Finalizing \cup {"idle", "open", "reopen", "resolve", "close"}
  BY <1>3
<1>5. /\ reapers' \in [Repairer -> ReaperRow]
      /\ reapers'[r].pc = pc /\ reapers'[r].why = reapers[r].why
      /\ reapers'[r].copy = reapers[r].copy
      /\ \A q \in Repairer : q # r => reapers'[q] = reapers[q]
  BY <1>1, <1>3, <1>4, ReaperMoves
<1>6. ReaperHolds(r)'
  BY <1>1, <1>2, <1>3, <1>5 DEF ReaperHolds, Finalizing
<1>7. reapers'[r].pc # "append"
  BY <1>3, <1>5
<1> QED BY <1>1, <1>5, <1>6, <1>7, QuietReaper

(* While no claim has lapsed, no one else finalizes beside r.               *)
LEMMA NoOtherFinalizes ==
  ASSUME OneFinalizes, NEW r \in Repairer, reapers[r].why \in {"reap", "repair"},
         NEW q \in Repairer, q # r
  PROVE  reapers[q].why \notin {"reap", "repair"}
BY DEF OneFinalizes

LEMMA ReopenIncidentInv == ASSUME IncidentInv, NEW r \in Repairer, ReopenIncident(r) PROVE IncidentInv'
<1>1. /\ reapers[r].pc = "reopen" /\ UNCHANGED <<stuckRun, load, page, lapsed, died>>
      /\ reapers \in [Repairer -> ReaperRow] /\ RestReaper(r) /\ reapers[r].copy \in IncidentRow
      /\ incidents' = [incidents EXCEPT !["finalize"] = [reapers[r].copy EXCEPT !.lease = FALSE]]
      /\ lapsed' \in BOOLEAN /\ died' \in BOOLEAN
      /\ stuckRun' \in [ended : BOOLEAN, events : Nat, quota : BOOLEAN, lease : BOOLEAN]
  BY DEF ReopenIncident, ReaperAt, PageRests, Upsert, IncidentInv, IncidentTypes, ReaperRow
<1>2. ReaperHolds(r)
  BY DEF IncidentInv
<1>3. reapers[r].why = "repair" /\ reapers[r].copy.status = "open" /\ stuckRun.ended
  BY <1>1, <1>2 DEF ReaperHolds, Finalizing
<1>4. PICK c \in IncidentRow : c = reapers[r].copy
  BY <1>1
<1> DEFINE e == [c EXCEPT !.lease = FALSE]
<1>5. incidents' = [incidents EXCEPT !["finalize"] = e]
  BY <1>1, <1>4
<1>12. e \in IncidentRow /\ e.status = "open"
  BY <1>3, <1>4 DEF IncidentRow
<1> HIDE DEF e
<1>6. incidents' \in [Fingerprint -> IncidentRow] /\ incidents'["finalize"].status = "open"
  BY <1>5, <1>12, FingerprintsAre DEF IncidentInv, IncidentTypes
<1>7. /\ reapers' \in [Repairer -> ReaperRow]
      /\ reapers'[r].pc = "idle" /\ reapers'[r].why = "none"
      /\ \A q \in Repairer : q # r => reapers'[q] = reapers[q]
  BY <1>1, ReaperRests
<1>8. ReaperHolds(r)'
  BY <1>7 DEF ReaperHolds, Finalizing
<1>9. OneFinalizes => OneFinalizes'
  <2> SUFFICES ASSUME OneFinalizes PROVE OneFinalizes'
    OBVIOUS
  <2>1. \A q \in Repairer : reapers'[q].why \notin {"reap", "repair"}
    BY <1>3, <1>7, NoOtherFinalizes
  <2> QED BY <1>1, <1>7, <2>1 DEF OneFinalizes
<1>10. ~lapsed' => OneFinalizes'
  BY <1>1, <1>9 DEF IncidentInv
<1>11. OnRecord'
  BY <1>6 DEF OnRecord
<1> QED BY <1>1, <1>3, <1>6, <1>7, <1>8, <1>10, <1>11, RepairSteps

LEMMA OpenIncidentInv == ASSUME IncidentInv, NEW r \in Repairer, OpenIncident(r) PROVE IncidentInv'
<1>1. /\ reapers[r].pc = "open" /\ UNCHANGED <<stuckRun, load, page, lapsed, died>>
      /\ reapers \in [Repairer -> ReaperRow] /\ RestReaper(r)
      /\ lapsed' \in BOOLEAN /\ died' \in BOOLEAN
      /\ stuckRun' \in [ended : BOOLEAN, events : Nat, quota : BOOLEAN, lease : BOOLEAN]
  BY DEF OpenIncident, ReaperAt, IncidentInv, IncidentTypes
<1>2. PICK f \in {"finalize", "maintenance"} :
        /\ f = IF reapers[r].why = "reap" THEN "finalize" ELSE "maintenance"
        /\ incidents' = [incidents EXCEPT ![f] = OpenNow]
  BY DEF OpenIncident, Upsert
<1>3. OpenNow \in IncidentRow /\ OpenNow.status = "open"
  BY DEF OpenNow, IncidentRow
<1>4. /\ incidents' \in [Fingerprint -> IncidentRow] /\ incidents'[f] = OpenNow
      /\ f = "maintenance" => incidents'["finalize"] = incidents["finalize"]
  BY <1>2, <1>3, FingerprintsAre DEF IncidentInv, IncidentTypes
<1>5. /\ reapers' \in [Repairer -> ReaperRow]
      /\ reapers'[r].pc = "idle" /\ reapers'[r].why = "none"
      /\ \A q \in Repairer : q # r => reapers'[q] = reapers[q]
  BY <1>1, ReaperRests
<1>6. ReaperHolds(r)'
  BY <1>5 DEF ReaperHolds, Finalizing
<1>7. CASE reapers[r].why = "reap"
  <2>1. stuckRun.ended /\ f = "finalize" /\ incidents'["finalize"].status = "open"
    BY <1>2, <1>3, <1>4, <1>7 DEF IncidentInv, ReaperHolds
  <2>2. OneFinalizes => OneFinalizes'
    <3> SUFFICES ASSUME OneFinalizes PROVE OneFinalizes'
      OBVIOUS
    <3>1. \A q \in Repairer : reapers'[q].why \notin {"reap", "repair"}
      BY <1>5, <1>7, NoOtherFinalizes
    <3>2. \A q \in Repairer : reapers'[q].pc = "append" => reapers[q].pc = "append" /\ reapers'[q] = reapers[q]
      BY <1>5
    <3> QED BY <1>1, <1>5, <3>1, <3>2 DEF OneFinalizes
  <2>3. ~lapsed' => OneFinalizes'
    BY <1>1, <2>2 DEF IncidentInv
  <2>4. OnRecord'
    BY <2>1 DEF OnRecord
  <2> QED BY <1>1, <1>4, <1>5, <1>6, <2>1, <2>3, <2>4, RepairSteps
<1>8. CASE reapers[r].why # "reap"
  <2>1. incidents'["finalize"] = incidents["finalize"]
    BY <1>2, <1>4, <1>8
  <2> QED BY <1>1, <1>4, <1>5, <1>6, <1>8, <2>1, QuietReaper
<1> QED BY <1>7, <1>8

LEMMA ReadIncidentInv == ASSUME IncidentInv, NEW r \in Repairer, ReadIncident(r) PROVE IncidentInv'
<1>1. /\ reapers[r].pc = "resolve" /\ UNCHANGED <<stuckRun, incidents, load, page, lapsed, died>>
      /\ reapers \in [Repairer -> ReaperRow] /\ died' \in BOOLEAN
      /\ incidents' \in [Fingerprint -> IncidentRow] /\ incidents \in [Fingerprint -> IncidentRow]
  BY DEF ReadIncident, ReaperAt, PageRests, IncidentInv, IncidentTypes
<1>2. ReaperHolds(r)
  BY DEF IncidentInv
<1>3. reapers[r].why # "reap"
  BY <1>1, <1>2 DEF ReaperHolds, Finalizing
<1>4. CASE incidents[Resolves(r)].status = "open"
  <2>1. PICK c \in IncidentRow : c = incidents[Resolves(r)] /\ c.status = "open"
    BY <1>1, <1>4, FingerprintsAre DEF Resolves
  <2> DEFINE u == [reapers EXCEPT ![r].pc = "close"]
             v == [u EXCEPT ![r].copy = c]
  <2>2. reapers' = v
    BY <1>4, <2>1 DEF ReadIncident
  <2>3. /\ u \in [Repairer -> ReaperRow] /\ u[r].pc = "close" /\ u[r].why = reapers[r].why
        /\ \A q \in Repairer : q # r => u[q] = reapers[q]
    BY <1>1 DEF ReaperRow
  <2> HIDE DEF u
  <2>4. /\ v \in [Repairer -> ReaperRow] /\ v[r].pc = "close" /\ v[r].why = reapers[r].why
        /\ v[r].copy = c /\ \A q \in Repairer : q # r => v[q] = reapers[q]
    BY <2>3 DEF ReaperRow
  <2> HIDE DEF v
  <2>5. /\ reapers' \in [Repairer -> ReaperRow] /\ reapers'[r].pc = "close"
        /\ reapers'[r].why = reapers[r].why /\ reapers'[r].copy.status = "open"
        /\ \A q \in Repairer : q # r => reapers'[q] = reapers[q]
    BY <2>1, <2>2, <2>4
  <2>6. ReaperHolds(r)'
    BY <1>1, <1>2, <2>5 DEF ReaperHolds, Finalizing, Finalized
  <2> QED BY <1>1, <1>3, <2>5, <2>6, QuietReaper
<1>5. CASE incidents[Resolves(r)].status # "open"
  <2>1. RestReaper(r)
    BY <1>5 DEF ReadIncident
  <2>2. /\ reapers' \in [Repairer -> ReaperRow]
        /\ reapers'[r].pc = "idle" /\ reapers'[r].why = "none"
        /\ \A q \in Repairer : q # r => reapers'[q] = reapers[q]
    BY <1>1, <2>1, ReaperRests
  <2>3. ReaperHolds(r)'
    BY <2>2 DEF ReaperHolds, Finalizing
  <2> QED BY <1>1, <1>3, <2>2, <2>3, QuietReaper
<1> QED BY <1>4, <1>5

LEMMA ResolveIncidentInv == ASSUME IncidentInv, NEW r \in Repairer, ResolveIncident(r) PROVE IncidentInv'
<1>1. /\ reapers[r].pc = "close" /\ UNCHANGED <<stuckRun, load, page, lapsed, died>>
      /\ reapers \in [Repairer -> ReaperRow] /\ RestReaper(r)
      /\ lapsed' \in BOOLEAN /\ died' \in BOOLEAN
      /\ stuckRun' \in [ended : BOOLEAN, events : Nat, quota : BOOLEAN, lease : BOOLEAN]
  BY DEF ResolveIncident, ReaperAt, PageRests, IncidentInv, IncidentTypes
<1> DEFINE e == [status |-> "resolved", lease |-> FALSE]
<1>2. PICK f \in {"finalize", "maintenance"} :
        /\ f = IF reapers[r].why = "repair" THEN "finalize" ELSE "maintenance"
        /\ incidents' = [incidents EXCEPT ![f] = e]
  BY DEF ResolveIncident, Upsert, Resolves
<1>3. e \in IncidentRow
  BY DEF IncidentRow
<1>4. /\ incidents' \in [Fingerprint -> IncidentRow]
      /\ f = "maintenance" => incidents'["finalize"] = incidents["finalize"]
  BY <1>2, <1>3, FingerprintsAre DEF IncidentInv, IncidentTypes
<1>5. /\ reapers' \in [Repairer -> ReaperRow]
      /\ reapers'[r].pc = "idle" /\ reapers'[r].why = "none"
      /\ \A q \in Repairer : q # r => reapers'[q] = reapers[q]
  BY <1>1, ReaperRests
<1>6. ReaperHolds(r)'
  BY <1>5 DEF ReaperHolds, Finalizing
<1>7. ReaperHolds(r)
  BY DEF IncidentInv
<1>8. CASE reapers[r].why = "repair"
  <2>1. stuckRun.ended /\ Finalized
    BY <1>1, <1>7, <1>8 DEF ReaperHolds
  <2>2. OneFinalizes => OneFinalizes'
    <3> SUFFICES ASSUME OneFinalizes PROVE OneFinalizes'
      OBVIOUS
    <3>1. \A q \in Repairer : reapers'[q].why \notin {"reap", "repair"}
      BY <1>5, <1>8, NoOtherFinalizes
    <3>2. \A q \in Repairer : reapers'[q].pc = "append" => reapers[q].pc = "append" /\ reapers'[q] = reapers[q]
      BY <1>5
    <3> QED BY <1>1, <1>5, <3>1, <3>2 DEF OneFinalizes
  <2>3. ~lapsed' => OneFinalizes'
    BY <1>1, <2>2 DEF IncidentInv
  <2>4. Finalized'
    BY <1>1, <2>1 DEF Finalized
  <2> QED BY <1>1, <1>4, <1>5, <1>6, <2>1, <2>3, <2>4, RepairSteps
<1>9. CASE reapers[r].why # "repair"
  <2>1. incidents'["finalize"] = incidents["finalize"]
    BY <1>2, <1>4, <1>9
  <2>2. reapers[r].why # "reap"
    BY <1>1, <1>7 DEF ReaperHolds, Finalizing
  <2> QED BY <1>1, <1>4, <1>5, <1>6, <2>1, <2>2, QuietReaper
<1> QED BY <1>8, <1>9

LEMMA RunMaintenanceInv == ASSUME IncidentInv, NEW r \in Repairer, RunMaintenance(r) PROVE IncidentInv'
<1>1. /\ reapers[r].pc = "idle" /\ UNCHANGED <<stuckRun, incidents, load, page, lapsed, died>>
      /\ reapers \in [Repairer -> ReaperRow] /\ died' \in BOOLEAN
      /\ incidents' \in [Fingerprint -> IncidentRow]
  BY DEF RunMaintenance, ReaperAt, PageRests, IncidentInv, IncidentTypes
<1>2. ReaperHolds(r)
  BY DEF IncidentInv
<1>3. reapers[r].why = "none"
  BY <1>1, <1>2 DEF ReaperHolds
<1>4. PICK pc \in {"open", "resolve"} :
        reapers' = [reapers EXCEPT ![r] = [IdleAt EXCEPT !.pc = pc, !.why = "maintain"]]
  BY DEF RunMaintenance
<1>5. pc \in {"check", "open", "resolve"} /\ "maintain" \in {"reap", "maintain"}
  BY <1>4
<1>6. /\ reapers' \in [Repairer -> ReaperRow] /\ reapers'[r].pc = pc /\ reapers'[r].why = "maintain"
      /\ \A q \in Repairer : q # r => reapers'[q] = reapers[q]
  BY <1>1, <1>4, <1>5, ReaperStarts
<1>7. ReaperHolds(r)'
  BY <1>4, <1>6 DEF ReaperHolds, Finalizing
<1> QED BY <1>1, <1>3, <1>4, <1>6, <1>7, QuietReaper

LEMMA ReaperDiesInv == ASSUME IncidentInv, NEW r \in Repairer, ReaperDies(r) PROVE IncidentInv'
<1>1. /\ UNCHANGED <<stuckRun, incidents, load, page, lapsed>> /\ RestReaper(r)
      /\ reapers \in [Repairer -> ReaperRow]
      /\ incidents' \in [Fingerprint -> IncidentRow]
  BY DEF ReaperDies, IncidentInv, IncidentTypes
<1>2. died' \in BOOLEAN /\ (died => died') /\ (reapers[r].why = "reap" => died')
  BY DEF ReaperDies, IncidentInv, IncidentTypes
<1>3. /\ reapers' \in [Repairer -> ReaperRow]
      /\ reapers'[r].pc = "idle" /\ reapers'[r].why = "none"
      /\ \A q \in Repairer : q # r => reapers'[q] = reapers[q]
  BY <1>1, ReaperRests
<1>4. ReaperHolds(r)'
  BY <1>3 DEF ReaperHolds, Finalizing
<1> QED BY <1>1, <1>2, <1>3, <1>4, QuietReaper

LEMMA ClaimIncidentInv == ASSUME IncidentInv, NEW r \in Repairer, ClaimIncident(r) PROVE IncidentInv'
<1> DEFINE e == [status |-> "open", lease |-> TRUE]
<1>1. /\ reapers[r].pc = "idle" /\ UNCHANGED <<stuckRun, load, page, lapsed, died>>
      /\ reapers \in [Repairer -> ReaperRow] /\ incidents \in [Fingerprint -> IncidentRow]
      /\ lapsed' \in BOOLEAN /\ died' \in BOOLEAN
      /\ stuckRun' \in [ended : BOOLEAN, events : Nat, quota : BOOLEAN, lease : BOOLEAN]
  BY DEF ClaimIncident, ReaperAt, PageRests, IncidentInv, IncidentTypes
<1>2. /\ incidents["finalize"].status = "open" /\ ~incidents["finalize"].lease
      /\ Claimed("finalize") = e
  BY DEF ClaimIncident, Claimed
<1>3. /\ incidents' = [incidents EXCEPT !["finalize"] = e]
      /\ reapers' = [reapers EXCEPT ![r] = [IdleAt EXCEPT !.pc = "check", !.why = "repair", !.copy = e]]
  BY <1>2 DEF ClaimIncident, Upsert
<1>4. e \in IncidentRow /\ e.status = "open"
  BY DEF IncidentRow
<1>5. incidents' \in [Fingerprint -> IncidentRow] /\ incidents'["finalize"] = e
  BY <1>1, <1>3, <1>4, FingerprintsAre
<1>6. /\ reapers' \in [Repairer -> ReaperRow] /\ reapers'[r].pc = "check" /\ reapers'[r].why = "repair"
      /\ reapers'[r].copy = e /\ \A q \in Repairer : q # r => reapers'[q] = reapers[q]
  <2> DEFINE u == [IdleAt EXCEPT !.pc = "check"]
             v == [u EXCEPT !.why = "repair"]
             x == [v EXCEPT !.copy = e]
  <2>1. reapers' = [reapers EXCEPT ![r] = x]
    BY <1>3
  <2>2. IdleAt \in ReaperRow
    BY DEF IdleAt, NoIncident, IncidentRow, ReaperRow
  <2>3. u \in ReaperRow /\ u.pc = "check"
    BY <2>2 DEF ReaperRow, Finalizing
  <2> HIDE DEF u
  <2>4. v \in ReaperRow /\ v.pc = "check" /\ v.why = "repair"
    BY <2>3 DEF ReaperRow
  <2> HIDE DEF v
  <2>5. x \in ReaperRow /\ x.pc = "check" /\ x.why = "repair" /\ x.copy = e
    BY <1>4, <2>4 DEF ReaperRow
  <2> HIDE DEF x
  <2> QED BY <1>1, <2>1, <2>5
<1>7. stuckRun.ended
  BY <1>2 DEF IncidentInv
<1>8. ReaperHolds(r)'
  BY <1>1, <1>4, <1>6, <1>7 DEF ReaperHolds, Finalizing
<1>9. OneFinalizes => OneFinalizes'
  <2> SUFFICES ASSUME OneFinalizes PROVE OneFinalizes'
    OBVIOUS
  <2>1. \A q \in Repairer : reapers[q].why \notin {"reap", "repair"}
    BY <1>2 DEF OneFinalizes
  <2>2. \A q \in Repairer : reapers'[q].pc = "append" => reapers[q].pc = "append" /\ reapers'[q] = reapers[q]
    BY <1>6
  <2> QED BY <1>1, <1>5, <1>6, <2>1, <2>2 DEF OneFinalizes
<1>10. ~lapsed' => OneFinalizes'
  BY <1>1, <1>9 DEF IncidentInv
<1>11. OnRecord'
  BY <1>4, <1>5 DEF OnRecord
<1> QED BY <1>1, <1>5, <1>6, <1>7, <1>8, <1>10, <1>11, RepairSteps

LEMMA LeasePassesInv == IncidentInv /\ LeasePasses => IncidentInv'
<1> SUFFICES ASSUME IncidentInv, LeasePasses PROVE IncidentInv'
  OBVIOUS
<1>1. UNCHANGED <<stuckRun, reapers, page, load, died>>
  BY DEF LeasePasses
<1>2. /\ lapsed' \in BOOLEAN /\ (lapsed => lapsed')
      /\ ~lapsed' => \A r \in Repairer : reapers[r].why # "repair"
  BY DEF LeasePasses, IncidentInv, IncidentTypes
<1>3. /\ incidents' \in [Fingerprint -> IncidentRow]
      /\ incidents'["finalize"].status = incidents["finalize"].status
  <2>1. incidents' = [incidents EXCEPT !["finalize"].lease = FALSE]
    BY DEF LeasePasses
  <2> QED BY <2>1, FingerprintsAre DEF IncidentInv, IncidentTypes, IncidentRow
<1>4. IncidentTypes'
  BY <1>1, <1>2, <1>3 DEF IncidentInv, IncidentTypes
<1>5. \A r \in Repairer : ReaperHolds(r)'
  BY <1>1 DEF IncidentInv, ReaperHolds, Finalized
<1>6. ~lapsed' => OneFinalizes'
  <2> SUFFICES ASSUME ~lapsed' PROVE OneFinalizes'
    OBVIOUS
  <2>1. OneFinalizes
    BY <1>2 DEF IncidentInv
  <2> QED BY <1>1, <1>2, <1>3, <2>1 DEF OneFinalizes
<1>7. OnRecord => OnRecord'
  BY <1>1, <1>3 DEF OnRecord
<1>8. Finalized' = Finalized
  BY <1>1 DEF Finalized
<1> QED BY <1>1, <1>3, <1>4, <1>5, <1>6, <1>7, <1>8 DEF IncidentInv

LEMMA PageInv ==
  ASSUME IncidentInv,
         (\E r \in Repairer : StuckRound(r)) \/ (\E f \in Measured : LoadChanges(f))
         \/ OpenPage \/ ListIncidents \/ ClosePage
  PROVE  IncidentInv'
<1>1. UNCHANGED <<stuckRun, reapers, lapsed, died, incidents>>
  BY DEF StuckRound, LoadChanges, OpenPage, ListIncidents, ClosePage
<1>2. load \subseteq Measured /\ page.active \subseteq Measured \cup {"stuck"}
  BY DEF IncidentInv, IncidentTypes
<1>3. load' \subseteq Measured
  BY <1>2 DEF StuckRound, LoadChanges, OpenPage, ListIncidents, ClosePage
<1>4. page'.active \subseteq Measured \cup {"stuck"}
  <2>1. CASE OpenPage
    <3>1. page' = [ClosedPage EXCEPT !.pc = "list", !.active = Alerts, !.stuck = gauge]
      BY <2>1 DEF OpenPage
    <3>2. page'.active = Alerts
      BY <3>1 DEF ClosedPage
    <3> QED BY <1>2, <3>2 DEF Alerts
  <2>2. CASE ClosePage
    BY <2>2 DEF ClosePage, ClosedPage
  <2>3. CASE UNCHANGED page
    BY <1>2, <2>3
  <2>4. CASE ListIncidents
    <3>1. page' = [page EXCEPT !.pc = "raise", !.listed = ListOpen, !.stuck = 0]
      BY <2>4 DEF ListIncidents
    <3>2. page'.active = page.active
      BY <3>1
    <3> QED BY <1>2, <3>2
  <2> QED BY <2>1, <2>2, <2>3, <2>4 DEF StuckRound, LoadChanges
<1>5. incidents' \in [Fingerprint -> IncidentRow]
  BY <1>1 DEF IncidentInv, IncidentTypes
<1> QED BY <1>1, <1>3, <1>4, <1>5, AlertsInv

(* The page has the alerts of the load and of stuck Runs only.              *)
LEMMA AlertPageInv ==
  ASSUME IncidentInv, NEW f \in Fingerprint, RaiseAlert(f) \/ ResolveAlert(f) PROVE IncidentInv'
<1>1. UNCHANGED <<stuckRun, reapers, load, lapsed, died>>
  BY DEF RaiseAlert, ResolveAlert
<1>2. load \subseteq Measured /\ page.active \subseteq Measured \cup {"stuck"}
  BY DEF IncidentInv, IncidentTypes
<1>3. f \in Measured \cup {"stuck"}
  BY <1>2 DEF RaiseAlert, ResolveAlert, ManagedKinds
<1>4. f # "finalize"
  BY <1>3, MeasuredAssumption
<1>5. PICK e \in IncidentRow : incidents' = [incidents EXCEPT ![f] = e]
  <2>1. OpenNow \in IncidentRow /\ [status |-> "resolved", lease |-> FALSE] \in IncidentRow
    BY DEF OpenNow, IncidentRow
  <2> QED BY <2>1 DEF RaiseAlert, ResolveAlert, Upsert
<1>6. incidents' \in [Fingerprint -> IncidentRow] /\ incidents'["finalize"] = incidents["finalize"]
  BY <1>4, <1>5, FingerprintsAre DEF IncidentInv, IncidentTypes
<1>7. page'.active \subseteq page.active
  <2>1. CASE RaiseAlert(f)
    <3>1. page' = [page EXCEPT !.active = @ \ {f}, !.listed = @ \ {f}]
      BY <2>1 DEF RaiseAlert
    <3> DEFINE left == page.active \ {f}
    <3>2. page'.active = page.active \ {f} \/ page' = page \/ page'.active = page.active
      BY <3>1
    <3> QED BY <3>2
  <2>2. CASE ResolveAlert(f)
    <3>1. page' = [page EXCEPT !.listed = @ \ {f}]
      BY <2>2 DEF ResolveAlert
    <3>2. page'.active = page.active
      BY <3>1
    <3> QED BY <3>2
  <2> QED BY <2>1, <2>2
<1> QED BY <1>1, <1>2, <1>6, <1>7, AlertsInv

LEMMA IncidentStepInv == IncidentInv /\ [IncidentNext]_incidentVars => IncidentInv'
<1> SUFFICES ASSUME IncidentInv, [IncidentNext]_incidentVars PROVE IncidentInv'
  OBVIOUS
<1>1. ASSUME NEW r \in Repairer,
             \/ ReapStuck(r) \/ ClaimIncident(r) \/ ReadEvents(r) \/ AppendTerminal(r)
             \/ ReleaseSubject(r) \/ RevokeLeases(r) \/ FinalizeFails(r) \/ ReopenIncident(r)
             \/ OpenIncident(r) \/ ReadIncident(r) \/ ResolveIncident(r) \/ RunMaintenance(r)
             \/ ReaperDies(r)
      PROVE  IncidentInv'
  BY <1>1, ReapStuckInv, ClaimIncidentInv, ReadEventsInv, AppendTerminalInv, ReleaseSubjectInv,
     RevokeLeasesInv, FinalizeFailsInv, ReopenIncidentInv, OpenIncidentInv, ReadIncidentInv,
     ResolveIncidentInv, RunMaintenanceInv, ReaperDiesInv
<1>2. CASE LeasePasses
  BY <1>2, LeasePassesInv
<1>3. CASE (\E r \in Repairer : StuckRound(r)) \/ (\E f \in Measured : LoadChanges(f))
           \/ OpenPage \/ ListIncidents \/ ClosePage
  BY <1>3, PageInv
<1>4. CASE \E f \in Fingerprint : RaiseAlert(f) \/ ResolveAlert(f)
  BY <1>4, AlertPageInv
<1>5. CASE UNCHANGED incidentVars
  BY <1>5 DEF incidentVars, IncidentInv, IncidentTypes, ReaperHolds, OneFinalizes, OnRecord, Finalized
<1> QED BY <1>1, <1>2, <1>3, <1>4, <1>5 DEF IncidentNext

(* ReliabilityController: a Run a reaper ended is not left half finalized   *)
(* without a reaper at it or an open incident, whatever repairs,            *)
(* maintenance and the operations page write, and its terminal event is     *)
(* appended once unless a claim outlived its lease.                         *)
THEOREM HalfDoneRunsAreRecorded == ServicesSpec => []HalfDoneIsRecorded
<1>1. ServicesInit => IncidentInv
  BY IncidentsPart, IncidentInitInv
<1>2. IncidentInv /\ [ServicesNext]_servicesVars => IncidentInv'
  BY IncidentsPart, IncidentStepInv
<1>3. IncidentInv => HalfDoneIsRecorded
  <2> SUFFICES ASSUME IncidentInv PROVE HalfDoneIsRecorded
    OBVIOUS
  <2>1. stuckRun.events \in Nat
    BY DEF IncidentInv, IncidentTypes
  <2> QED BY <2>1 DEF IncidentInv, OneFinalizes, OnRecord, HalfDoneIsRecorded
<1> QED BY <1>1, <1>2, <1>3, PTL DEF ServicesSpec

-----------------------------------------------------------------------------
(* AG-UI threads.                                                            *)

LEMMA ThreadsPart ==
  /\ ServicesInit => ThreadInit
  /\ [ServicesNext]_servicesVars => [ThreadNext]_threadVars
<1>1. ServicesInit => ThreadInit
  BY DEF ServicesInit
<1>2. ServicesNext => ThreadNext \/ UNCHANGED threadVars
  BY DEF ServicesNext, Only
<1>3. UNCHANGED servicesVars => UNCHANGED threadVars
  BY DEF servicesVars
<1> QED BY <1>1, <1>2, <1>3

BindingRow == [session : Nat, previous : SUBSET Nat, archived : BOOLEAN, title : Nat, model : BOOLEAN]
PostPc == {"idle", "add", "active", "unarchive", "unarchived", "unlock", "rebind", "rebound", "fail",
           "run", "title", "titled", "done"}
PostRow == [pc : PostPc, copy : BindingRow, session : Nat, stamp : Nat, archived : BOOLEAN]
TaskRow == [pc : {"idle", "ask", "write", "done"}, copy : BindingRow, stamp : Nat]
AskedVersion == {VersionOf[q] : q \in Poster}
ThreadRun == [session : Nat, poster : Poster, active : BOOLEAN]

ThreadTypes ==
  /\ binding \in BindingRow /\ versions \in Seq(AskedVersion)
  /\ threadRuns \subseteq ThreadRun
  /\ post \in [Poster -> PostRow]
  /\ titling \in TaskRow /\ archiver \in TaskRow
  /\ clock \in Nat /\ overlap \in BOOLEAN

(* The Sessions a binding lists.                                            *)
ListedIn(copy) == SessionIds(copy) \ {0}

(* What a message knows of the binding.                                     *)
PostHolds(q) ==
  LET mine == post[q]
  IN /\ mine.pc \in {"unarchive", "unarchived", "unlock", "run"} => mine.session \in ListedIn(binding)
     /\ mine.pc \in {"rebind", "rebound"} => mine.session # 0
     /\ mine.pc \in {"title", "titled"} => binding.session # 0
     /\ mine.pc \notin {"title", "titled", "done"} => mine.stamp = 0
     /\ mine.pc = "titled" => mine.copy.title <= binding.title
     /\ mine.pc = "done" => mine.stamp <= binding.title

BindingHolds ==
  /\ binding.session = 0 => binding.previous = {} /\ binding.title = 0
  /\ \A r \in threadRuns : r.session \in ListedIn(binding)
  /\ titling.pc # "idle" => binding.session # 0

ThreadInv ==
  /\ ThreadTypes
  /\ ~overlap => BindingHolds /\ \A q \in Poster : PostHolds(q)

(* A write of the row that overlaps with no other only adds to it.          *)
BindingGrows ==
  /\ ListedIn(binding) \subseteq ListedIn(binding')
  /\ binding.title <= binding'.title
  /\ binding.session # 0 => binding'.session # 0
  /\ binding'.session = 0 => binding'.previous = {} /\ binding'.title = 0

LEMMA ThreadInitInv == ThreadInit => ThreadInv
<1> SUFFICES ASSUME ThreadInit PROVE ThreadInv
  OBVIOUS
<1>1. NoBinding \in BindingRow /\ NoBinding.session = 0 /\ NoBinding.previous = {} /\ NoBinding.title = 0
  BY DEF NoBinding, BindingRow
<1>2. IdleTask \in TaskRow /\ IdleTask.pc = "idle"
  BY <1>1 DEF IdleTask, TaskRow
<1> DEFINE fresh == [pc |-> "idle", copy |-> NoBinding, session |-> 0, stamp |-> 0, archived |-> FALSE]
<1>3. fresh \in PostRow /\ fresh.pc = "idle" /\ fresh.stamp = 0
  BY <1>1 DEF PostRow, PostPc
<1>4. post = [q \in Poster |-> fresh]
  BY DEF ThreadInit
<1> HIDE DEF fresh
<1>5. post \in [Poster -> PostRow] /\ \A q \in Poster : post[q].pc = "idle" /\ post[q].stamp = 0
  BY <1>3, <1>4
<1>9. versions \in Seq(AskedVersion)
  <2>1. << >> \in Seq(AskedVersion)
    OBVIOUS
  <2> QED BY <2>1 DEF ThreadInit
<1>10. threadRuns = {} /\ clock \in Nat /\ overlap \in BOOLEAN
  BY DEF ThreadInit
<1>11. binding \in BindingRow /\ titling \in TaskRow /\ archiver \in TaskRow
  BY <1>1, <1>2 DEF ThreadInit
<1>6. ThreadTypes
  BY <1>5, <1>9, <1>10, <1>11 DEF ThreadTypes
<1>7. BindingHolds
  BY <1>1, <1>2 DEF ThreadInit, BindingHolds
<1>8. \A q \in Poster : PostHolds(q)
  BY <1>5 DEF PostHolds
<1> QED BY <1>6, <1>7, <1>8 DEF ThreadInv

(* A step of a message, or of a task: the other messages lose nothing.      *)
LEMMA OthersHold ==
  ASSUME ThreadTypes, ThreadTypes', NEW q \in Poster, PostHolds(q), BindingGrows, post'[q] = post[q]
  PROVE  PostHolds(q)'
<1>1. /\ post[q].session \in Nat /\ post[q].stamp \in Nat /\ post[q].copy.title \in Nat
      /\ binding.title \in Nat /\ binding'.title \in Nat
  BY DEF ThreadTypes, PostRow, BindingRow
<1>2. binding.title <= binding'.title
  BY DEF BindingGrows
<1> QED BY <1>1, <1>2 DEF PostHolds, BindingGrows

LEMMA PostSteps ==
  ASSUME ThreadInv, ~overlap, NEW q \in Poster, ThreadTypes',
         \A p \in Poster : p # q => post'[p] = post[p],
         ~overlap' => /\ BindingGrows /\ PostHolds(q)'
                      /\ \A r \in threadRuns' : r \in threadRuns \/ r.session \in ListedIn(binding')
                      /\ titling'.pc = titling.pc \/ binding'.session # 0
  PROVE  ThreadInv'
<1> SUFFICES ASSUME ~overlap' PROVE (BindingHolds /\ \A p \in Poster : PostHolds(p))'
  BY DEF ThreadInv
<1>1. BindingHolds'
  BY DEF ThreadInv, BindingHolds, BindingGrows
<1>2. ASSUME NEW p \in Poster PROVE PostHolds(p)'
  <2>1. CASE p = q
    BY <2>1
  <2>2. CASE p # q
    BY <2>2, OthersHold DEF ThreadInv
  <2> QED BY <2>1, <2>2
<1> QED BY <1>1, <1>2

LEMMA BindingRests ==
  ASSUME ThreadInv, ~overlap, UNCHANGED binding
  PROVE  BindingGrows
BY DEF ThreadInv, ThreadTypes, BindingRow, BindingHolds, BindingGrows

LEMMA ResolveBindingInv ==
  ASSUME ThreadInv, ~overlap, NEW q \in Poster, ResolveBinding(q) PROVE ThreadInv'
<1>1. /\ post[q].pc = "idle" /\ UNCHANGED <<binding, versions, threadRuns, overlap, titling, archiver, clock>>
      /\ post \in [Poster -> PostRow] /\ binding \in BindingRow
  BY DEF ResolveBinding, PostAt, ThreadRest, ThreadInv, ThreadTypes
<1>2. PICK pc \in {"add", "active", "unarchive", "unlock"} :
        pc = IF binding.session = 0 THEN "add"
             ELSE IF versions[binding.session] # VersionOf[q] THEN "active"
             ELSE IF binding.archived THEN "unarchive" ELSE "unlock"
  OBVIOUS
<1> DEFINE t == [post EXCEPT ![q].copy = binding]
           u == [t EXCEPT ![q].session = binding.session]
           v == [u EXCEPT ![q].archived = binding.archived]
           x == [v EXCEPT ![q].pc = pc]
<1>3. post' = x
  BY <1>2 DEF ResolveBinding
<1>4. /\ t \in [Poster -> PostRow] /\ t[q].stamp = post[q].stamp
      /\ \A p \in Poster : p # q => t[p] = post[p]
  BY <1>1 DEF PostRow
<1> HIDE DEF t
<1>5. /\ u \in [Poster -> PostRow] /\ u[q].stamp = post[q].stamp /\ u[q].session = binding.session
      /\ \A p \in Poster : p # q => u[p] = post[p]
  BY <1>1, <1>4 DEF PostRow, BindingRow
<1> HIDE DEF u
<1>6. /\ v \in [Poster -> PostRow] /\ v[q].stamp = post[q].stamp /\ v[q].session = binding.session
      /\ \A p \in Poster : p # q => v[p] = post[p]
  BY <1>1, <1>5 DEF PostRow, BindingRow
<1> HIDE DEF v
<1>7. /\ x \in [Poster -> PostRow] /\ x[q].stamp = post[q].stamp /\ x[q].session = binding.session
      /\ x[q].pc = pc /\ \A p \in Poster : p # q => x[p] = post[p]
  BY <1>6 DEF PostRow, PostPc
<1> HIDE DEF x
<1>8. /\ post' \in [Poster -> PostRow] /\ post'[q].stamp = post[q].stamp
      /\ post'[q].session = binding.session /\ post'[q].pc = pc
      /\ \A p \in Poster : p # q => post'[p] = post[p]
  BY <1>3, <1>7
<1>9. ThreadTypes'
  BY <1>1, <1>8 DEF ThreadInv, ThreadTypes
<1>10. PostHolds(q)
  BY DEF ThreadInv
<1>11. pc # "add" => binding.session # 0 /\ binding.session \in ListedIn(binding)
  BY <1>2 DEF ListedIn, SessionIds
<1>12. PostHolds(q)'
  BY <1>1, <1>2, <1>8, <1>10, <1>11 DEF PostHolds
<1>13. BindingGrows
  BY <1>1, BindingRests
<1> QED BY <1>1, <1>8, <1>9, <1>12, <1>13, PostSteps

(* A message's step that moves it on and may give it a Session of the list. *)
LEMMA PostMoves ==
  ASSUME post \in [Poster -> PostRow], NEW q \in Poster, NEW pc \in PostPc, PostGoes(q, pc)
  PROVE  /\ post' \in [Poster -> PostRow] /\ post'[q].pc = pc
         /\ post'[q].session = post[q].session /\ post'[q].stamp = post[q].stamp
         /\ post'[q].copy = post[q].copy
         /\ \A p \in Poster : p # q => post'[p] = post[p]
BY DEF PostGoes, PostRow

LEMMA PostTakes ==
  ASSUME post \in [Poster -> PostRow], NEW q \in Poster, NEW pc \in PostPc, NEW n \in Nat,
         post' = [post EXCEPT ![q].pc = pc, ![q].session = n]
  PROVE  /\ post' \in [Poster -> PostRow] /\ post'[q].pc = pc
         /\ post'[q].session = n /\ post'[q].stamp = post[q].stamp
         /\ \A p \in Poster : p # q => post'[p] = post[p]
<1> DEFINE u == [post EXCEPT ![q].pc = pc]
           v == [u EXCEPT ![q].session = n]
<1>1. post' = v
  OBVIOUS
<1>2. /\ u \in [Poster -> PostRow] /\ u[q].pc = pc /\ u[q].stamp = post[q].stamp
      /\ \A p \in Poster : p # q => u[p] = post[p]
  BY DEF PostRow
<1> HIDE DEF u
<1>3. /\ v \in [Poster -> PostRow] /\ v[q].pc = pc /\ v[q].stamp = post[q].stamp /\ v[q].session = n
      /\ \A p \in Poster : p # q => v[p] = post[p]
  BY <1>2 DEF PostRow
<1> HIDE DEF v
<1> QED BY <1>1, <1>3

LEMMA SessionIsMade ==
  ASSUME versions \in Seq(AskedVersion), NEW q \in Poster, versions' = Append(versions, VersionOf[q])
  PROVE  versions' \in Seq(AskedVersion) /\ Len(versions') \in Nat /\ Len(versions') # 0
<1>1. VersionOf[q] \in AskedVersion
  BY DEF AskedVersion
<1> QED BY <1>1

LEMMA AddBindingInv ==
  ASSUME ThreadInv, ~overlap, NEW q \in Poster, AddBinding(q) PROVE ThreadInv'
<1>1. /\ post[q].pc = "add" /\ UNCHANGED <<threadRuns, overlap, titling, archiver, clock>>
      /\ post \in [Poster -> PostRow] /\ binding \in BindingRow
      /\ versions \in Seq(AskedVersion) /\ versions' = Append(versions, VersionOf[q])
  BY DEF AddBinding, PostAt, ThreadRest, ThreadInv, ThreadTypes
<1>2. PostHolds(q) /\ BindingHolds
  BY DEF ThreadInv
<1>3. PICK n \in Nat : n = Len(versions') /\ n # 0
  BY <1>1, SessionIsMade
<1>4. versions' \in Seq(AskedVersion)
  BY <1>1, SessionIsMade
<1>5. "unlock" \in PostPc /\ "fail" \in PostPc
  BY DEF PostPc
<1>6. CASE binding.session = 0
  <2>1. /\ binding' = [NoBinding EXCEPT !.session = n]
        /\ post' = [post EXCEPT ![q].pc = "unlock", ![q].session = n]
    BY <1>3, <1>6 DEF AddBinding
  <2>2. binding' \in BindingRow /\ binding'.session = n /\ binding'.title = 0 /\ binding'.previous = {}
    BY <2>1 DEF NoBinding, BindingRow
  <2>3. /\ post' \in [Poster -> PostRow] /\ post'[q].pc = "unlock"
        /\ post'[q].session = n /\ post'[q].stamp = post[q].stamp
        /\ \A p \in Poster : p # q => post'[p] = post[p]
    BY <1>1, <1>5, <2>1, PostTakes
  <2>4. ThreadTypes'
    BY <1>1, <1>4, <2>2, <2>3 DEF ThreadInv, ThreadTypes
  <2>5. ListedIn(binding) = {} /\ binding.title = 0
    BY <1>2, <1>6 DEF BindingHolds, ListedIn, SessionIds
  <2>6. BindingGrows
    BY <1>3, <1>6, <2>2, <2>5 DEF BindingGrows
  <2>7. n \in ListedIn(binding')
    BY <1>3, <2>2 DEF ListedIn, SessionIds
  <2>8. PostHolds(q)'
    BY <1>1, <1>2, <2>3, <2>7 DEF PostHolds, ListedIn, SessionIds
  <2> QED BY <1>1, <2>3, <2>4, <2>6, <2>8, PostSteps
<1>7. CASE binding.session # 0
  <2>1. UNCHANGED binding /\ PostGoes(q, "fail")
    BY <1>7 DEF AddBinding
  <2>2. /\ post' \in [Poster -> PostRow] /\ post'[q].pc = "fail" /\ post'[q].stamp = post[q].stamp
        /\ \A p \in Poster : p # q => post'[p] = post[p]
    BY <1>1, <1>5, <2>1, PostMoves
  <2>3. ThreadTypes'
    BY <1>1, <1>4, <2>1, <2>2 DEF ThreadInv, ThreadTypes
  <2>4. PostHolds(q)'
    BY <1>1, <1>2, <2>2 DEF PostHolds
  <2>5. BindingGrows
    BY <2>1, BindingRests
  <2> QED BY <1>1, <2>2, <2>3, <2>4, <2>5, PostSteps
<1> QED BY <1>6, <1>7

LEMMA CheckActiveInv ==
  ASSUME ThreadInv, ~overlap, NEW q \in Poster, CheckActive(q) PROVE ThreadInv'
<1>1. /\ post[q].pc = "active"
      /\ UNCHANGED <<binding, threadRuns, overlap, titling, archiver, clock>>
      /\ post \in [Poster -> PostRow] /\ versions \in Seq(AskedVersion)
  BY DEF CheckActive, PostAt, ThreadRest, ThreadInv, ThreadTypes
<1>2. PostHolds(q)
  BY DEF ThreadInv
<1>3. "fail" \in PostPc /\ "rebind" \in PostPc
  BY DEF PostPc
<1>4. BindingGrows
  BY <1>1, BindingRests
<1>5. CASE PostGoes(q, "fail") /\ UNCHANGED versions
  <2>1. /\ post' \in [Poster -> PostRow] /\ post'[q].pc = "fail" /\ post'[q].stamp = post[q].stamp
        /\ \A p \in Poster : p # q => post'[p] = post[p]
    BY <1>1, <1>3, <1>5, PostMoves
  <2>2. ThreadTypes'
    BY <1>1, <1>5, <2>1 DEF ThreadInv, ThreadTypes
  <2>3. PostHolds(q)'
    BY <1>1, <1>2, <2>1 DEF PostHolds
  <2> QED BY <1>1, <1>4, <2>1, <2>2, <2>3, PostSteps
<1>6. CASE /\ versions' = Append(versions, VersionOf[q])
           /\ post' = [post EXCEPT ![q].pc = "rebind", ![q].session = Len(versions')]
  <2>1. PICK n \in Nat : n = Len(versions') /\ n # 0
    BY <1>1, <1>6, SessionIsMade
  <2>2. post' = [post EXCEPT ![q].pc = "rebind", ![q].session = n]
    BY <1>6, <2>1
  <2>3. /\ post' \in [Poster -> PostRow] /\ post'[q].pc = "rebind"
        /\ post'[q].session = n /\ post'[q].stamp = post[q].stamp
        /\ \A p \in Poster : p # q => post'[p] = post[p]
    BY <1>1, <1>3, <2>2, PostTakes
  <2>4. versions' \in Seq(AskedVersion)
    BY <1>1, <1>6, SessionIsMade
  <2>5. ThreadTypes'
    BY <1>1, <2>3, <2>4 DEF ThreadInv, ThreadTypes
  <2>6. PostHolds(q)'
    BY <1>1, <1>2, <2>1, <2>3 DEF PostHolds
  <2> QED BY <1>1, <1>4, <2>3, <2>5, <2>6, PostSteps
<1> QED BY <1>5, <1>6 DEF CheckActive

LEMMA ReadRowInv ==
  ASSUME ThreadInv, ~overlap, NEW q \in Poster, NEW at \in {"rebind", "unarchive", "title"},
         NEW to \in {"rebound", "unarchived", "titled"}, ReadRow(q, at, to),
         at = "rebind" => to = "rebound", at = "unarchive" => to = "unarchived",
         at = "title" => to = "titled"
  PROVE  ThreadInv'
<1>1. /\ post[q].pc = at /\ UNCHANGED <<binding, versions, threadRuns, overlap, titling, archiver, clock>>
      /\ post \in [Poster -> PostRow] /\ binding \in BindingRow
      /\ post' = [post EXCEPT ![q].pc = to, ![q].copy = binding]
  BY DEF ReadRow, PostAt, ThreadRest, ThreadInv, ThreadTypes
<1>2. /\ post' \in [Poster -> PostRow] /\ post'[q].stamp = post[q].stamp
      /\ post'[q].session = post[q].session /\ post'[q].pc = to /\ post'[q].copy = binding
      /\ \A p \in Poster : p # q => post'[p] = post[p]
  <2> DEFINE u == [post EXCEPT ![q].pc = to]
             v == [u EXCEPT ![q].copy = binding]
  <2>1. post' = v
    BY <1>1
  <2>2. /\ u \in [Poster -> PostRow] /\ u[q].pc = to /\ u[q].stamp = post[q].stamp
        /\ u[q].session = post[q].session /\ \A p \in Poster : p # q => u[p] = post[p]
    BY <1>1 DEF PostRow, PostPc
  <2> HIDE DEF u
  <2>3. /\ v \in [Poster -> PostRow] /\ v[q].pc = to /\ v[q].stamp = post[q].stamp
        /\ v[q].copy = binding
        /\ v[q].session = post[q].session /\ \A p \in Poster : p # q => v[p] = post[p]
    BY <1>1, <2>2 DEF PostRow
  <2> HIDE DEF v
  <2> QED BY <2>1, <2>3
<1>3. PostHolds(q)
  BY DEF ThreadInv
<1>4. ThreadTypes'
  BY <1>1, <1>2 DEF ThreadInv, ThreadTypes
<1>5. binding.title \in Nat
  BY <1>1 DEF BindingRow
<1>6. PostHolds(q)'
  BY <1>1, <1>2, <1>3, <1>5 DEF PostHolds
<1>7. BindingGrows
  BY <1>1, BindingRests
<1> QED BY <1>1, <1>2, <1>4, <1>6, <1>7, PostSteps

(* A row that is written from one that is still there.                      *)
LEMMA RebindGrows ==
  ASSUME binding \in BindingRow, NEW n \in Nat, n # 0, binding' = RebindSession(binding, n)
  PROVE  BindingGrows /\ n \in ListedIn(binding')
<1> DEFINE old == binding.previous \cup {binding.session}
           u == [binding EXCEPT !.session = n]
           v == [u EXCEPT !.previous = @ \cup {binding.session}]
<1>1. binding' = v
  BY DEF RebindSession
<1>2. /\ u \in BindingRow /\ u.session = n /\ u.previous = binding.previous
      /\ u.title = binding.title
  BY DEF BindingRow
<1> HIDE DEF u
<1>3. binding.session \in Nat /\ binding.title \in Nat
  BY DEF BindingRow
<1>4. v.session = n /\ v.previous = old /\ v.title = binding.title
  BY <1>2, <1>3 DEF BindingRow
<1> HIDE DEF v
<1>5. binding'.session = n /\ binding'.previous = old /\ binding'.title = binding.title
  BY <1>1, <1>4
<1> QED BY <1>3, <1>5 DEF BindingGrows, ListedIn, SessionIds

LEMMA RebindTypes ==
  ASSUME NEW copy \in BindingRow, NEW n \in Nat
  PROVE  RebindSession(copy, n) \in BindingRow
<1> DEFINE u == [copy EXCEPT !.session = n]
           v == [u EXCEPT !.previous = @ \cup {copy.session}]
<1>1. RebindSession(copy, n) = v
  BY DEF RebindSession
<1>2. u \in BindingRow
  BY DEF BindingRow
<1> HIDE DEF u
<1>3. v \in BindingRow
  BY <1>2 DEF BindingRow
<1> HIDE DEF v
<1> QED BY <1>1, <1>3

LEMMA RebindInv == ASSUME ThreadInv, ~overlap, NEW q \in Poster, Rebind(q) PROVE ThreadInv'
<1>1. /\ post[q].pc = "rebound" /\ UNCHANGED <<versions, threadRuns, titling, archiver, clock>>
      /\ post \in [Poster -> PostRow] /\ binding \in BindingRow
      /\ binding' = RebindSession(post[q].copy, post[q].session)
      /\ overlap' = (overlap \/ post[q].copy # binding)
  BY DEF Rebind, PostAt, ThreadRest, ThreadInv, ThreadTypes, WriteBinding
<1>2. PostHolds(q)
  BY DEF ThreadInv
<1>3. post[q].session \in Nat /\ post[q].session # 0 /\ post[q].copy \in BindingRow
  BY <1>1, <1>2 DEF PostHolds, PostRow
<1>4. PICK pc \in {"unarchive", "unlock"} : PostGoes(q, pc)
  BY DEF Rebind
<1>5. pc \in PostPc
  BY <1>4 DEF PostPc
<1>6. /\ post' \in [Poster -> PostRow] /\ post'[q].pc = pc
      /\ post'[q].session = post[q].session /\ post'[q].stamp = post[q].stamp
      /\ \A p \in Poster : p # q => post'[p] = post[p]
  BY <1>1, <1>4, <1>5, PostMoves
<1>7. binding' \in BindingRow
  BY <1>1, <1>3, RebindTypes
<1>8. overlap' \in BOOLEAN
  BY <1>1
<1>9. ThreadTypes'
  BY <1>1, <1>6, <1>7, <1>8 DEF ThreadInv, ThreadTypes
<1>10. ASSUME ~overlap' PROVE BindingGrows /\ PostHolds(q)'
  <2>1. binding' = RebindSession(binding, post[q].session)
    BY <1>1, <1>10
  <2>2. BindingGrows /\ post[q].session \in ListedIn(binding')
    BY <1>1, <1>3, <2>1, RebindGrows
  <2>3. PostHolds(q)'
    BY <1>1, <1>2, <1>4, <1>6, <2>2 DEF PostHolds, ListedIn, SessionIds
  <2> QED BY <2>2, <2>3
<1> QED BY <1>1, <1>6, <1>9, <1>10, PostSteps

(* The row is written with its Sessions as they are and no lower title.     *)
LEMMA SameSessions ==
  ASSUME ThreadInv, ~overlap, binding' \in BindingRow, binding'.session = binding.session,
         binding'.previous = binding.previous, binding'.title >= binding.title,
         binding.session # 0 \/ binding'.title = binding.title
  PROVE  BindingGrows
<1>1. binding \in BindingRow /\ BindingHolds
  BY DEF ThreadInv, ThreadTypes
<1>2. binding.title \in Nat /\ binding'.title \in Nat
  BY <1>1 DEF BindingRow
<1> QED BY <1>1, <1>2 DEF BindingHolds, BindingGrows, ListedIn, SessionIds

LEMMA UnarchiveInv == ASSUME ThreadInv, ~overlap, NEW q \in Poster, Unarchive(q) PROVE ThreadInv'
<1>1. /\ post[q].pc = "unarchived" /\ UNCHANGED <<versions, threadRuns, titling, archiver, clock>>
      /\ post \in [Poster -> PostRow] /\ binding \in BindingRow
      /\ binding' = [post[q].copy EXCEPT !.archived = FALSE]
      /\ overlap' = (overlap \/ post[q].copy # binding)
      /\ PostGoes(q, "unlock")
  BY DEF Unarchive, PostAt, ThreadRest, ThreadInv, ThreadTypes, WriteBinding
<1>2. PostHolds(q)
  BY DEF ThreadInv
<1>3. PICK copy \in BindingRow : copy = post[q].copy
  BY <1>1 DEF PostRow
<1>4. "unlock" \in PostPc
  BY DEF PostPc
<1>5. /\ post' \in [Poster -> PostRow] /\ post'[q].pc = "unlock"
      /\ post'[q].session = post[q].session /\ post'[q].stamp = post[q].stamp
      /\ \A p \in Poster : p # q => post'[p] = post[p]
  BY <1>1, <1>4, PostMoves
<1>6. binding' = [copy EXCEPT !.archived = FALSE]
  BY <1>1, <1>3
<1>7. /\ binding' \in BindingRow /\ binding'.session = copy.session
      /\ binding'.previous = copy.previous /\ binding'.title = copy.title
  BY <1>6 DEF BindingRow
<1>8. overlap' \in BOOLEAN
  BY <1>1
<1>9. ThreadTypes'
  BY <1>1, <1>5, <1>7, <1>8 DEF ThreadInv, ThreadTypes
<1>10. ASSUME ~overlap' PROVE BindingGrows /\ PostHolds(q)'
  <2>1. copy = binding
    BY <1>1, <1>3, <1>10
  <2>2. binding'.title >= binding.title
    BY <1>1, <1>7, <2>1 DEF BindingRow
  <2>3. BindingGrows
    BY <1>7, <2>1, <2>2, SameSessions
  <2>4. PostHolds(q)'
    BY <1>1, <1>2, <1>5, <2>3 DEF PostHolds, BindingGrows
  <2> QED BY <2>3, <2>4
<1> QED BY <1>1, <1>5, <1>9, <1>10, PostSteps

LEMMA ReleaseLockInv == ASSUME ThreadInv, ~overlap, NEW q \in Poster, ReleaseLock(q) PROVE ThreadInv'
<1>1. /\ post[q].pc \in {"unlock", "fail"}
      /\ UNCHANGED <<binding, versions, threadRuns, overlap, titling, archiver, clock>>
      /\ post \in [Poster -> PostRow] /\ binding \in BindingRow
  BY DEF ReleaseLock, ThreadRest, ThreadInv, ThreadTypes
<1>2. PICK pc \in {"run", "done"} : pc = IF post[q].pc = "unlock" THEN "run" ELSE "done"
  OBVIOUS
<1> DEFINE u == [post EXCEPT ![q].pc = pc]
           v == [u EXCEPT ![q].copy = NoBinding]
           x == [v EXCEPT ![q].archived = FALSE]
<1>3. post' = x
  BY <1>2 DEF ReleaseLock
<1>4. /\ u \in [Poster -> PostRow] /\ u[q].pc = pc /\ u[q].session = post[q].session
      /\ u[q].stamp = post[q].stamp /\ \A p \in Poster : p # q => u[p] = post[p]
  BY <1>1 DEF PostRow, PostPc
<1> HIDE DEF u
<1>5. NoBinding \in BindingRow
  BY DEF NoBinding, BindingRow
<1>6. /\ v \in [Poster -> PostRow] /\ v[q].pc = pc /\ v[q].session = post[q].session
      /\ v[q].stamp = post[q].stamp /\ \A p \in Poster : p # q => v[p] = post[p]
  BY <1>4, <1>5 DEF PostRow
<1> HIDE DEF v
<1>7. /\ x \in [Poster -> PostRow] /\ x[q].pc = pc /\ x[q].session = post[q].session
      /\ x[q].stamp = post[q].stamp /\ \A p \in Poster : p # q => x[p] = post[p]
  BY <1>6 DEF PostRow
<1> HIDE DEF x
<1>8. /\ post' \in [Poster -> PostRow] /\ post'[q].pc = pc /\ post'[q].session = post[q].session
      /\ post'[q].stamp = post[q].stamp /\ \A p \in Poster : p # q => post'[p] = post[p]
  BY <1>3, <1>7
<1>9. ThreadTypes'
  BY <1>1, <1>8 DEF ThreadInv, ThreadTypes
<1>10. PostHolds(q) /\ binding.title \in Nat
  BY <1>1 DEF ThreadInv, BindingRow
<1>11. post[q].stamp = 0
  BY <1>1, <1>10 DEF PostHolds
<1>12. PostHolds(q)'
  BY <1>1, <1>2, <1>8, <1>10, <1>11 DEF PostHolds
<1>13. BindingGrows
  BY <1>1, BindingRests
<1> QED BY <1>1, <1>8, <1>9, <1>12, <1>13, PostSteps

LEMMA PostRunInv ==
  ASSUME ThreadInv, ~overlap, NEW q \in Poster, NEW same \in BOOLEAN, PostRun(q, same)
  PROVE  ThreadInv'
<1>1. /\ post[q].pc = "run" /\ UNCHANGED <<binding, versions, overlap, titling, archiver>>
      /\ post \in [Poster -> PostRow] /\ binding \in BindingRow /\ clock' \in Nat
      /\ threadRuns \subseteq ThreadRun
      /\ post' = [post EXCEPT ![q].pc = "title", ![q].stamp = clock']
  BY DEF PostRun, PostAt, ThreadInv, ThreadTypes
<1>2. PICK n \in Nat : n = clock'
  BY <1>1
<1> DEFINE u == [post EXCEPT ![q].pc = "title"]
           v == [u EXCEPT ![q].stamp = n]
<1>3. post' = v
  BY <1>1, <1>2
<1>4. u \in [Poster -> PostRow] /\ u[q].pc = "title" /\ \A p \in Poster : p # q => u[p] = post[p]
  BY <1>1 DEF PostRow, PostPc
<1> HIDE DEF u
<1>5. v \in [Poster -> PostRow] /\ v[q].pc = "title" /\ \A p \in Poster : p # q => v[p] = post[p]
  BY <1>4 DEF PostRow
<1> HIDE DEF v
<1>6. /\ post' \in [Poster -> PostRow] /\ post'[q].pc = "title"
      /\ \A p \in Poster : p # q => post'[p] = post[p]
  BY <1>3, <1>5
<1>7. PostHolds(q) /\ BindingHolds
  BY DEF ThreadInv
<1>8. post[q].session \in ListedIn(binding) /\ post[q].session \in Nat
  BY <1>1, <1>7 DEF PostHolds, PostRow
<1>9. binding.session # 0
  BY <1>7, <1>8 DEF BindingHolds, ListedIn, SessionIds
<1> DEFINE made == [session |-> post[q].session, poster |-> q, active |-> TRUE]
<1>10. made \in ThreadRun /\ made.session \in ListedIn(binding)
  BY <1>8 DEF ThreadRun
<1>11. threadRuns' \subseteq threadRuns \cup {made}
  BY DEF PostRun
<1> HIDE DEF made
<1>12. threadRuns' \subseteq ThreadRun
  BY <1>1, <1>10, <1>11
<1>13. ThreadTypes'
  BY <1>1, <1>6, <1>12 DEF ThreadInv, ThreadTypes
<1>14. PostHolds(q)'
  BY <1>1, <1>6, <1>9 DEF PostHolds
<1>15. \A r \in threadRuns' : r \in threadRuns \/ r.session \in ListedIn(binding')
  BY <1>1, <1>10, <1>11
<1>16. BindingGrows
  BY <1>1, BindingRests
<1> QED BY <1>1, <1>6, <1>13, <1>14, <1>15, <1>16, PostSteps

LEMMA TitleWritten ==
  ASSUME NEW copy \in BindingRow, NEW stamp \in Nat, NEW model \in BOOLEAN
  PROVE  LET mine == UpdateTitle(copy, stamp, model)
         IN /\ mine \in BindingRow /\ mine.session = copy.session /\ mine.previous = copy.previous
            /\ mine.title >= stamp /\ mine.title >= copy.title
<1>1. copy.title \in Nat
  BY DEF BindingRow
<1>2. CASE copy.title > stamp
  BY <1>1, <1>2 DEF UpdateTitle
<1>3. CASE ~(copy.title > stamp)
  <2> DEFINE u == [copy EXCEPT !.title = stamp]
             v == [u EXCEPT !.model = model]
  <2>1. UpdateTitle(copy, stamp, model) = v
    BY <1>3 DEF UpdateTitle
  <2>2. /\ u \in BindingRow /\ u.session = copy.session /\ u.previous = copy.previous
        /\ u.title = stamp
    BY DEF BindingRow
  <2> HIDE DEF u
  <2>3. /\ v \in BindingRow /\ v.session = copy.session /\ v.previous = copy.previous
        /\ v.title = stamp
    BY <2>2 DEF BindingRow
  <2> HIDE DEF v
  <2> QED BY <1>1, <1>3, <2>1, <2>3
<1> QED BY <1>2, <1>3

LEMMA FallbackTitleInv ==
  ASSUME ThreadInv, ~overlap, NEW q \in Poster, FallbackTitle(q) PROVE ThreadInv'
<1>1. /\ post[q].pc = "titled" /\ UNCHANGED <<versions, threadRuns, archiver, clock>>
      /\ post \in [Poster -> PostRow] /\ binding \in BindingRow /\ titling \in TaskRow
      /\ post' = [post EXCEPT ![q].pc = "done", ![q].copy = NoBinding]
  BY DEF FallbackTitle, PostAt, ThreadInv, ThreadTypes
<1>2. PostHolds(q) /\ BindingHolds
  BY DEF ThreadInv
<1>3. PICK copy \in BindingRow : copy = post[q].copy
  BY <1>1 DEF PostRow
<1>4. PICK stamp \in Nat : stamp = post[q].stamp
  BY <1>1 DEF PostRow
<1>5. PICK written \in BindingRow :
        /\ written = UpdateTitle(copy, stamp, FALSE)
        /\ written.session = copy.session /\ written.previous = copy.previous
        /\ written.title >= stamp /\ written.title >= copy.title
  BY TitleWritten
<1>6. IF written = copy THEN UNCHANGED <<binding, overlap>> ELSE WriteBinding(copy, written)
  BY <1>3, <1>4, <1>5 DEF FallbackTitle
<1>7. /\ post' \in [Poster -> PostRow] /\ post'[q].pc = "done" /\ post'[q].stamp = stamp
      /\ \A p \in Poster : p # q => post'[p] = post[p]
  <2> DEFINE u == [post EXCEPT ![q].pc = "done"]
             v == [u EXCEPT ![q].copy = NoBinding]
  <2>1. post' = v
    BY <1>1
  <2>2. /\ u \in [Poster -> PostRow] /\ u[q].pc = "done" /\ u[q].stamp = post[q].stamp
        /\ \A p \in Poster : p # q => u[p] = post[p]
    BY <1>1 DEF PostRow, PostPc
  <2> HIDE DEF u
  <2>3. NoBinding \in BindingRow
    BY DEF NoBinding, BindingRow
  <2>4. /\ v \in [Poster -> PostRow] /\ v[q].pc = "done" /\ v[q].stamp = post[q].stamp
        /\ \A p \in Poster : p # q => v[p] = post[p]
    BY <2>2, <2>3 DEF PostRow
  <2> HIDE DEF v
  <2> QED BY <1>4, <2>1, <2>4
<1>8. titling' \in TaskRow
  <2>1. CASE titling' = titling
    BY <1>1, <2>1
  <2>2. CASE titling' = [IdleTask EXCEPT !.pc = "ask", !.stamp = post[q].stamp]
    <3> DEFINE u == [IdleTask EXCEPT !.pc = "ask"]
               v == [u EXCEPT !.stamp = stamp]
    <3>1. titling' = v
      BY <1>4, <2>2
    <3>2. u \in TaskRow
      BY DEF IdleTask, NoBinding, TaskRow, BindingRow
    <3> HIDE DEF u
    <3>3. v \in TaskRow
      BY <3>2 DEF TaskRow
    <3> QED BY <3>1, <3>3
  <2> QED BY <2>1, <2>2 DEF FallbackTitle
<1>9. binding' \in BindingRow /\ overlap' \in BOOLEAN
  BY <1>1, <1>6 DEF WriteBinding, ThreadInv, ThreadTypes
<1>10. ThreadTypes'
  BY <1>1, <1>7, <1>8, <1>9 DEF ThreadInv, ThreadTypes
<1>11. ASSUME ~overlap' PROVE BindingGrows /\ PostHolds(q)' /\ binding'.session # 0
  <2>1. binding.session # 0 /\ copy.title <= binding.title
    BY <1>1, <1>2, <1>3 DEF PostHolds
  <2>2. CASE written = copy
    <3>1. UNCHANGED binding /\ stamp <= copy.title
      BY <1>5, <1>6, <2>2
    <3>2. BindingGrows
      BY <3>1, BindingRests
    <3>3. stamp <= binding'.title
      BY <1>1, <2>1, <3>1 DEF BindingRow
    <3> QED BY <1>7, <2>1, <3>1, <3>2, <3>3 DEF PostHolds
  <2>3. CASE written # copy
    <3>1. binding' = written /\ copy = binding
      BY <1>6, <1>11, <2>3 DEF WriteBinding
    <3>2. BindingGrows
      BY <1>5, <2>1, <3>1, SameSessions
    <3> QED BY <1>5, <1>7, <2>1, <3>1, <3>2 DEF PostHolds
  <2> QED BY <2>2, <2>3
<1> QED BY <1>1, <1>7, <1>10, <1>11, PostSteps

LEMMA TaskSteps ==
  ASSUME ThreadInv, ~overlap, ThreadTypes', UNCHANGED post,
         ~overlap' => /\ BindingGrows
                      /\ \A r \in threadRuns' : \E s \in threadRuns : r.session = s.session
                      /\ titling'.pc = "idle" \/ binding'.session # 0
  PROVE  ThreadInv'
<1> SUFFICES ASSUME ~overlap' PROVE (BindingHolds /\ \A p \in Poster : PostHolds(p))'
  BY DEF ThreadInv
<1>1. BindingHolds'
  BY DEF ThreadInv, BindingHolds, BindingGrows
<1>2. ASSUME NEW p \in Poster PROVE PostHolds(p)'
  BY OthersHold DEF ThreadInv
<1> QED BY <1>1, <1>2

LEMMA FinishRunInv == ASSUME ThreadInv, ~overlap, NEW r \in threadRuns, FinishRun(r) PROVE ThreadInv'
<1>1. /\ UNCHANGED <<binding, versions, post, titling, archiver, clock, overlap>>
      /\ threadRuns' = (threadRuns \ {r}) \cup {[r EXCEPT !.active = FALSE]}
      /\ threadRuns \subseteq ThreadRun
  BY DEF FinishRun, ThreadInv, ThreadTypes
<1>2. PICK s \in ThreadRun : s = [r EXCEPT !.active = FALSE] /\ s.session = r.session
  <2> DEFINE after == [r EXCEPT !.active = FALSE]
  <2>1. r \in ThreadRun
    BY <1>1
  <2>2. after \in ThreadRun /\ after.session = r.session
    BY <2>1 DEF ThreadRun
  <2> QED BY <2>2
<1>3. threadRuns' = (threadRuns \ {r}) \cup {s}
  BY <1>1, <1>2
<1>4. threadRuns' \subseteq ThreadRun
  BY <1>1, <1>2, <1>3
<1>5. ThreadTypes'
  BY <1>1, <1>4 DEF ThreadInv, ThreadTypes
<1>6. \A t \in threadRuns' : \E u \in threadRuns : t.session = u.session
  BY <1>2, <1>3
<1>7. BindingGrows
  BY <1>1, BindingRests
<1>8. titling'.pc = "idle" \/ binding'.session # 0
  BY <1>1 DEF ThreadInv, BindingHolds
<1> QED BY <1>1, <1>5, <1>6, <1>7, <1>8, TaskSteps

LEMMA IdleTaskType == IdleTask \in TaskRow /\ IdleTask.pc = "idle"
BY DEF IdleTask, NoBinding, TaskRow, BindingRow

LEMMA GenerateTitleInv == ASSUME ThreadInv, ~overlap, GenerateTitle PROVE ThreadInv'
<1>1. /\ UNCHANGED <<binding, versions, threadRuns, post, archiver, clock, overlap>>
      /\ titling.pc = "ask" /\ titling \in TaskRow /\ binding \in BindingRow
  BY DEF GenerateTitle, ThreadInv, ThreadTypes
<1>2. titling' \in TaskRow
  <2>1. CASE titling' = IdleTask
    BY <2>1, IdleTaskType
  <2>2. CASE titling' = [titling EXCEPT !.pc = "write", !.copy = binding]
    <3> DEFINE u == [titling EXCEPT !.pc = "write"]
               v == [u EXCEPT !.copy = binding]
    <3>1. titling' = v
      BY <2>2
    <3>2. u \in TaskRow
      BY <1>1 DEF TaskRow
    <3> HIDE DEF u
    <3>3. v \in TaskRow
      BY <1>1, <3>2 DEF TaskRow
    <3> QED BY <3>1, <3>3
  <2> QED BY <2>1, <2>2 DEF GenerateTitle
<1>3. ThreadTypes'
  BY <1>1, <1>2 DEF ThreadInv, ThreadTypes
<1>4. BindingGrows
  BY <1>1, BindingRests
<1>5. binding'.session # 0
  BY <1>1 DEF ThreadInv, BindingHolds
<1> QED BY <1>1, <1>3, <1>4, <1>5, TaskSteps

LEMMA ModelTitleInv == ASSUME ThreadInv, ~overlap, ModelTitle PROVE ThreadInv'
<1>1. /\ UNCHANGED <<versions, threadRuns, post, archiver, clock>> /\ titling' = IdleTask
      /\ titling.pc = "write" /\ titling \in TaskRow /\ binding \in BindingRow
  BY DEF ModelTitle, ThreadInv, ThreadTypes
<1>2. PICK copy \in BindingRow : copy = titling.copy
  BY <1>1 DEF TaskRow
<1>3. PICK stamp \in Nat : stamp = titling.stamp
  BY <1>1 DEF TaskRow
<1>4. PICK written \in BindingRow :
        /\ written = UpdateTitle(copy, stamp, TRUE)
        /\ written.session = copy.session /\ written.previous = copy.previous
        /\ written.title >= copy.title
  BY TitleWritten
<1>5. IF written = copy THEN UNCHANGED <<binding, overlap>> ELSE WriteBinding(copy, written)
  BY <1>2, <1>3, <1>4 DEF ModelTitle
<1>6. binding' \in BindingRow /\ overlap' \in BOOLEAN
  BY <1>1, <1>5 DEF WriteBinding, ThreadInv, ThreadTypes
<1>7. ThreadTypes'
  BY <1>1, <1>6, IdleTaskType DEF ThreadInv, ThreadTypes
<1>8. ASSUME ~overlap' PROVE BindingGrows
  <2>1. CASE written = copy
    BY <1>5, <2>1, BindingRests
  <2>2. CASE written # copy
    <3>1. binding' = written /\ copy = binding
      BY <1>5, <1>8, <2>2 DEF WriteBinding
    <3>2. binding.session # 0
      BY <1>1 DEF ThreadInv, BindingHolds
    <3> QED BY <1>4, <3>1, <3>2, SameSessions
  <2> QED BY <2>1, <2>2
<1> QED BY <1>1, <1>7, <1>8, IdleTaskType, TaskSteps

LEMMA SetArchivedInv == ASSUME ThreadInv, ~overlap, SetArchived PROVE ThreadInv'
<1>1. /\ UNCHANGED <<versions, threadRuns, post, titling, clock>>
      /\ archiver \in TaskRow /\ binding \in BindingRow /\ overlap \in BOOLEAN
  BY DEF SetArchived, ThreadInv, ThreadTypes
<1>2. PICK copy \in BindingRow : copy = archiver.copy
  BY <1>1 DEF TaskRow
<1>3. /\ binding' \in BindingRow /\ archiver' \in TaskRow /\ overlap' \in BOOLEAN
      /\ ~overlap' => BindingGrows
  <2>1. CASE UNCHANGED <<binding, overlap>> /\ archiver' = [archiver EXCEPT !.pc = "write", !.copy = binding]
    <3> DEFINE u == [archiver EXCEPT !.pc = "write"]
               v == [u EXCEPT !.copy = binding]
    <3>1. archiver' = v
      BY <2>1
    <3>2. u \in TaskRow
      BY <1>1 DEF TaskRow
    <3> HIDE DEF u
    <3>3. v \in TaskRow
      BY <1>1, <3>2 DEF TaskRow
    <3> QED BY <1>1, <2>1, <3>1, <3>3, BindingRests
  <2>2. CASE /\ WriteBinding(archiver.copy, [archiver.copy EXCEPT !.archived = TRUE])
             /\ archiver' = [IdleTask EXCEPT !.pc = "done"]
    <3>1. archiver' \in TaskRow
      BY <2>2, IdleTaskType DEF TaskRow
    <3>2. binding' = [copy EXCEPT !.archived = TRUE] /\ overlap' = (overlap \/ copy # binding)
      BY <1>2, <2>2 DEF WriteBinding
    <3>3. /\ binding' \in BindingRow /\ binding'.session = copy.session
          /\ binding'.previous = copy.previous /\ binding'.title = copy.title
      BY <3>2 DEF BindingRow
    <3>4. ASSUME ~overlap' PROVE BindingGrows
      <4>1. copy = binding
        BY <3>2, <3>4
      <4>2. binding'.title >= binding.title
        BY <1>1, <3>3, <4>1 DEF BindingRow
      <4> QED BY <3>3, <4>1, <4>2, SameSessions
    <3> QED BY <3>1, <3>2, <3>3, <3>4
  <2> QED BY <2>1, <2>2 DEF SetArchived
<1>4. ThreadTypes'
  BY <1>1, <1>3 DEF ThreadInv, ThreadTypes
<1>5. ASSUME ~overlap' PROVE titling'.pc = "idle" \/ binding'.session # 0
  BY <1>1, <1>3, <1>5 DEF ThreadInv, BindingHolds, BindingGrows
<1> QED BY <1>1, <1>3, <1>4, <1>5, TaskSteps

LEMMA ThreadStepInv == ThreadInv /\ [ThreadNext]_threadVars => ThreadInv'
<1> SUFFICES ASSUME ThreadInv, [ThreadNext]_threadVars PROVE ThreadInv'
  OBVIOUS
<1>1. ASSUME ~overlap, NEW q \in Poster,
             \/ ResolveBinding(q) \/ AddBinding(q) \/ CheckActive(q)
             \/ ReadRow(q, "rebind", "rebound") \/ Rebind(q)
             \/ ReadRow(q, "unarchive", "unarchived") \/ Unarchive(q)
             \/ ReleaseLock(q)
             \/ \E same \in BOOLEAN : PostRun(q, same)
             \/ ReadRow(q, "title", "titled") \/ FallbackTitle(q)
      PROVE  ThreadInv'
  BY <1>1, ResolveBindingInv, AddBindingInv, CheckActiveInv, ReadRowInv, RebindInv, UnarchiveInv,
     ReleaseLockInv, PostRunInv, FallbackTitleInv
<1>2. ASSUME ~overlap, NEW r \in threadRuns, FinishRun(r) PROVE ThreadInv'
  BY <1>2, FinishRunInv
<1>3. ASSUME ~overlap, GenerateTitle \/ ModelTitle \/ SetArchived PROVE ThreadInv'
  BY <1>3, GenerateTitleInv, ModelTitleInv, SetArchivedInv
<1>4. CASE UNCHANGED threadVars
  BY <1>4 DEF threadVars, ThreadInv, ThreadTypes, BindingHolds, PostHolds
<1> QED BY <1>1, <1>2, <1>3, <1>4 DEF ThreadNext, ThreadStep

(* agui/service.py: unless two writers of a thread's row overlapped, the row *)
(* lists the Session of every Run the thread's messages made, through every  *)
(* switch of Agent versions, and its title is never older than a message     *)
(* that was titled.                                                          *)
THEOREM ThreadsKeepRuns == ServicesSpec => []ThreadKeepsRuns
<1>1. ServicesInit => ThreadInv
  BY ThreadsPart, ThreadInitInv
<1>2. ThreadInv /\ [ServicesNext]_servicesVars => ThreadInv'
  BY ThreadsPart, ThreadStepInv
<1>3. ThreadInv => ThreadKeepsRuns
  BY DEF ThreadInv, BindingHolds, PostHolds, ThreadKeepsRuns, ListedIn, PostAt
<1> QED BY <1>1, <1>2, <1>3, PTL DEF ServicesSpec

-----------------------------------------------------------------------------
(* The tools of a Run.                                                       *)

LEMMA ToolsPart ==
  /\ ServicesInit => ToolSetupInit
  /\ [ServicesNext]_servicesVars => [ToolSetupNext]_toolVars
<1>1. ServicesInit => ToolSetupInit
  BY DEF ServicesInit
<1>2. ServicesNext => ToolSetupNext \/ UNCHANGED toolVars
  BY DEF ServicesNext, Only
<1>3. UNCHANGED servicesVars => UNCHANGED toolVars
  BY DEF servicesVars
<1> QED BY <1>1, <1>2, <1>3

RegistryTool == Reference \X ToolName
OfferedTool == RegistryTool \cup (Platform \X {"propose_memory", "query", "tool"})
UsedReference == UNION {Uses[a] : a \in Agent}
ResolutionRow == [registry : SUBSET RegistryTool, left : SUBSET UsedReference,
                  servers : SUBSET Reference, allowed : SUBSET RegistryTool,
                  unavailable : SUBSET RegistryTool]
SetupRow == [pc : {"route", "registry", "credentials", "attach", "assemble", "ready", "failed"},
             agent : Agent, route : {"none", "default", "known", "unknown", "fallback"},
             of : [Agent -> ResolutionRow], owner : [Reference -> Agent \cup {"none"}],
             servers : SUBSET (Reference \cup Platform), allowed : SUBSET OfferedTool,
             builtins : SUBSET {"coordination", "files"}, degraded : SUBSET RegistryTool]

ToolTypes ==
  /\ world \in [registry : SUBSET RegistryTool, credentials : SUBSET Reference]
  /\ directory \in [Agent -> [kind : DirectoryKind, tools : SUBSET RegistryTool]]
  /\ host \in Hosts
  /\ setup \in SetupRow

(* What an Agent may use was published with it, and nothing of that is       *)
(* missing that had its credential.                                          *)
JoinedAs(a, mine) ==
  /\ mine.allowed \subseteq Own(a)
  /\ HasDirectory(a) => directory[a].tools \subseteq mine.allowed \cup mine.unavailable

ToolsOf(a, mine) ==
  /\ \A t \in mine.allowed : t[1] \in mine.servers
  /\ mine.allowed \cup mine.registry \subseteq Uses[a] \X ToolName

ToolInv ==
  /\ ToolTypes
  /\ setup.pc \notin {"route", "failed"} /\ host.override # "none" => setup.route = host.override
  /\ \A a \in Agent : ToolsOf(a, setup.of[a])
  /\ \A t \in setup.allowed :
       /\ t[1] \in setup.servers
       /\ \/ t[1] \in Platform \/ t \in Own("lead")
          \/ setup.pc \in {"assemble", "ready", "failed"} /\ t \in setup.of["child"].allowed
  /\ setup.agent = "child" =>
       /\ JoinedAs("lead", setup.of["lead"]) /\ setup.of["lead"].allowed \subseteq setup.allowed
       /\ \A r \in setup.of["lead"].servers : setup.owner[r] = "lead"
  /\ setup.pc \in {"assemble", "ready"} =>
       /\ setup.agent = "child" /\ JoinedAs("child", setup.of["child"])
       /\ setup.of["lead"].servers \cap setup.of["child"].servers = {}

LEMMA OwnStays ==
  ASSUME UNCHANGED directory
  PROVE  \A a \in Agent : /\ Own(a)' = Own(a) /\ HasDirectory(a)' = HasDirectory(a)
                          /\ Own("lead")' = Own("lead")
BY DEF Own, HasDirectory

LEMMA NoResolutionType ==
  NoResolution \in ResolutionRow /\ NoResolution.allowed = {} /\ NoResolution.registry = {}
BY DEF NoResolution, ResolutionRow

LEMMA ToolInitInv == ToolSetupInit => ToolInv
<1> SUFFICES ASSUME ToolSetupInit PROVE ToolInv
  OBVIOUS
<1>1. world \in [registry : SUBSET RegistryTool, credentials : SUBSET Reference]
  <2>1. PICK names \in SUBSET ToolName, c \in SUBSET Reference :
          world = [registry |-> Reference \X names, credentials |-> c]
    BY DEF ToolSetupInit
  <2>2. Reference \X names \subseteq RegistryTool
    BY DEF RegistryTool
  <2> QED BY <2>1, <2>2
<1>2. directory \in [Agent -> [kind : DirectoryKind, tools : SUBSET RegistryTool]]
  BY <1>1 DEF ToolSetupInit
<1> DEFINE none == [a \in Agent |-> NoResolution]
           free == [r \in Reference |-> "none"]
<1>3. /\ none \in [Agent -> ResolutionRow]
      /\ \A a \in Agent : none[a].allowed = {} /\ none[a].registry = {}
  BY NoResolutionType
<1>4. free \in [Reference -> Agent \cup {"none"}]
  OBVIOUS
<1>5. setup = [pc |-> "route", agent |-> "lead", route |-> "none", of |-> none, owner |-> free,
               servers |-> {}, allowed |-> {}, builtins |-> {}, degraded |-> {}]
  BY DEF ToolSetupInit
<1> HIDE DEF none, free
<1>6. /\ setup \in SetupRow /\ setup.pc = "route" /\ setup.agent = "lead" /\ setup.allowed = {}
      /\ setup.of = none
  BY <1>3, <1>4, <1>5 DEF SetupRow, Agent
<1>7. host \in Hosts
  BY DEF ToolSetupInit
<1> QED BY <1>1, <1>2, <1>3, <1>6, <1>7 DEF ToolInv, ToolTypes, ToolsOf

LEMMA WorldChangesInv ==
  ASSUME ToolInv, NEW r \in Reference,
         (\E names \in SUBSET ToolName : Rediscover(r, names)) \/ Configure(r) \/ DeleteCredential(r)
  PROVE  ToolInv'
<1>1. UNCHANGED <<directory, host, setup>>
  BY DEF Rediscover, Configure, DeleteCredential, Changes
<1>2. world' \in [registry : SUBSET RegistryTool, credentials : SUBSET Reference]
  <2>1. ASSUME NEW names \in SUBSET ToolName, Rediscover(r, names)
        PROVE  world' \in [registry : SUBSET RegistryTool, credentials : SUBSET Reference]
    <3>1. {<<r, n>> : n \in names} \subseteq RegistryTool
      BY DEF RegistryTool
    <3> QED BY <2>1, <3>1 DEF Rediscover, ToolInv, ToolTypes
  <2>2. CASE Configure(r) \/ DeleteCredential(r)
    BY <2>2 DEF Configure, DeleteCredential, ToolInv, ToolTypes
  <2> QED BY <2>1, <2>2
<1> QED BY <1>1, <1>2, OwnStays DEF ToolInv, ToolTypes, ToolsOf, JoinedAs, Agent

LEMMA FailInv ==
  ASSUME ToolInv, Fail PROVE ToolInv'
<1>1. setup \in SetupRow /\ setup' = [setup EXCEPT !.pc = "failed"] /\ UNCHANGED <<world, directory, host>>
  BY DEF Fail, SetupGoes, ToolInv, ToolTypes
<1>2. /\ setup' \in SetupRow /\ setup'.pc = "failed" /\ setup'.agent = setup.agent
      /\ setup'.of = setup.of /\ setup'.owner = setup.owner /\ setup'.allowed = setup.allowed
      /\ setup'.servers = setup.servers
  BY <1>1 DEF SetupRow
<1> QED BY <1>1, <1>2, OwnStays DEF ToolInv, ToolTypes, ToolsOf, JoinedAs, Agent

LEMMA SelectRouteInv ==
  ASSUME ToolInv, NEW fit \in BOOLEAN, NEW fallback \in {"none", "unconfigured", "unfit", "fit"},
         SelectRoute(fit, fallback)
  PROVE  ToolInv'
<1> DEFINE chosen == Routed(host.override, fit, fallback)
<1>1. setup.pc = "route" /\ setup \in SetupRow /\ host \in Hosts
  BY DEF SelectRoute, SetupAt, ToolInv, ToolTypes
<1>2. host.override \in {"none", "known", "unknown"}
  BY <1>1 DEF Hosts
<1>3. /\ chosen \in {"none", "default", "known", "unknown", "fallback"}
      /\ host.override # "none" /\ chosen # "none" => chosen = host.override
  BY <1>2 DEF Routed, ConfigForRoute
<1>4. Fail \/ (chosen # "none" /\ SetupGoes([setup EXCEPT !.pc = "registry", !.route = chosen]))
  BY DEF SelectRoute
<1> HIDE DEF chosen
<1>5. CASE chosen # "none" /\ SetupGoes([setup EXCEPT !.pc = "registry", !.route = chosen])
  <2> DEFINE u == [setup EXCEPT !.pc = "registry"]
             v == [u EXCEPT !.route = chosen]
  <2>1. setup' = v /\ UNCHANGED <<world, directory, host>>
    BY <1>5 DEF SetupGoes
  <2>2. /\ u \in SetupRow /\ u.pc = "registry" /\ u.agent = setup.agent /\ u.of = setup.of
        /\ u.owner = setup.owner /\ u.allowed = setup.allowed /\ u.servers = setup.servers
    BY <1>1 DEF SetupRow
  <2> HIDE DEF u
  <2>3. /\ v \in SetupRow /\ v.pc = "registry" /\ v.agent = setup.agent /\ v.of = setup.of
        /\ v.owner = setup.owner /\ v.allowed = setup.allowed /\ v.servers = setup.servers
        /\ v.route = chosen
    BY <1>3, <2>2 DEF SetupRow
  <2> HIDE DEF v
  <2> QED BY <1>1, <1>3, <1>5, <2>1, <2>3, OwnStays
          DEF ToolInv, ToolTypes, ToolsOf, JoinedAs, Agent
<1> QED BY <1>4, <1>5, FailInv

(* What a step of one Agent's resolution leaves.                            *)
LEMMA ResolutionSteps ==
  ASSUME ToolInv, NEW a \in Agent, NEW mine \in ResolutionRow, ToolsOf(a, mine),
         setup.pc \in {"registry", "credentials"}, setup.agent = a,
         SetupGoes([setup EXCEPT !.pc = "credentials", !.of[a] = mine])
  PROVE  ToolInv'
<1>1. setup \in SetupRow
  BY DEF ToolInv, ToolTypes
<1> DEFINE u == [setup EXCEPT !.pc = "credentials"]
           v == [u EXCEPT !.of[a] = mine]
<1>2. setup' = v /\ UNCHANGED <<world, directory, host>>
  BY DEF SetupGoes
<1>3. /\ u \in SetupRow /\ u.pc = "credentials" /\ u.agent = a /\ u.of = setup.of
      /\ u.owner = setup.owner /\ u.allowed = setup.allowed /\ u.servers = setup.servers
      /\ u.route = setup.route
  BY <1>1 DEF SetupRow
<1> HIDE DEF u
<1>4. /\ v \in SetupRow /\ v.pc = "credentials" /\ v.agent = a
      /\ v.of[a] = mine /\ \A b \in Agent : b # a => v.of[b] = setup.of[b]
      /\ v.owner = setup.owner /\ v.allowed = setup.allowed /\ v.servers = setup.servers
      /\ v.route = setup.route
  BY <1>3 DEF SetupRow
<1> HIDE DEF v
<1>5. ToolTypes'
  BY <1>2, <1>4 DEF ToolInv, ToolTypes
<1>6. \A b \in Agent : ToolsOf(b, setup'.of[b])
  BY <1>2, <1>4 DEF ToolInv
<1>7. \A b \in Agent : ToolsOf(b, setup.of[b])'
  BY <1>6 DEF ToolsOf
<1>8. setup'.agent = "child" => setup'.of["lead"] = setup.of["lead"]
  BY <1>2, <1>4 DEF Agent
<1> QED BY <1>2, <1>4, <1>5, <1>7, <1>8, OwnStays DEF ToolInv, JoinedAs, Agent

LEMMA ReadRegistryInv == ASSUME ToolInv, NEW a \in Agent, ReadRegistry(a) PROVE ToolInv'
<1> DEFINE registered == {t \in world.registry : t[1] \in Uses[a]}
           v == [NoResolution EXCEPT !.registry = registered]
           mine == [v EXCEPT !.left = Uses[a]]
<1>1. setup.pc = "registry" /\ setup.agent = a
  BY DEF ReadRegistry, SetupAt
<1>2. Fail \/ SetupGoes([setup EXCEPT !.pc = "credentials", !.of[a] = mine])
  BY DEF ReadRegistry
<1>3. v \in ResolutionRow /\ v.allowed = {} /\ v.registry = registered
  BY NoResolutionType DEF ResolutionRow, ToolInv, ToolTypes
<1>8. registered \subseteq Uses[a] \X ToolName
  BY DEF ToolInv, ToolTypes, RegistryTool
<1> HIDE DEF v, registered
<1>4. Uses[a] \subseteq UsedReference
  BY DEF UsedReference
<1>5. mine \in ResolutionRow /\ mine.allowed = {} /\ mine.registry = registered
  BY <1>3, <1>4 DEF ResolutionRow
<1>6. ToolsOf(a, mine)
  BY <1>5, <1>8 DEF ToolsOf
<1> HIDE DEF mine
<1>7. CASE SetupGoes([setup EXCEPT !.pc = "credentials", !.of[a] = mine])
  BY <1>1, <1>5, <1>6, <1>7, ResolutionSteps
<1> QED BY <1>2, <1>7, FailInv

LEMMA ResolveCredentialInv ==
  ASSUME ToolInv, NEW a \in Agent, NEW r \in Reference, ResolveCredential(a, r) PROVE ToolInv'
<1> DEFINE mine == setup.of[a]
           granted == {t \in mine.registry : t[1] = r}
           less == [mine EXCEPT !.left = @ \ {r}]
           more == [less EXCEPT !.servers = @ \cup {r}]
           served == [more EXCEPT !.allowed = @ \cup granted]
           without == [less EXCEPT !.unavailable = @ \cup granted]
           next == IF r \in world.credentials THEN served ELSE without
<1>1. setup.pc = "credentials" /\ setup.agent = a /\ setup \in SetupRow
  BY DEF ResolveCredential, SetupAt, ToolInv, ToolTypes
<1>2. SetupGoes([setup EXCEPT !.of[a] = next])
  BY DEF ResolveCredential
<1>3. mine \in ResolutionRow /\ ToolsOf(a, mine)
  BY <1>1 DEF SetupRow, ToolInv
<1>4. /\ granted \subseteq RegistryTool /\ granted \subseteq mine.registry
      /\ \A t \in granted : t[1] = r
  BY <1>3 DEF ResolutionRow
<1> HIDE DEF mine, granted
<1>5. /\ less \in ResolutionRow /\ less.allowed = mine.allowed /\ less.servers = mine.servers
      /\ less.registry = mine.registry
  BY <1>3 DEF ResolutionRow
<1> HIDE DEF less
<1>6. /\ more \in ResolutionRow /\ more.allowed = mine.allowed /\ more.servers = mine.servers \cup {r}
      /\ more.registry = mine.registry
  BY <1>5 DEF ResolutionRow
<1> HIDE DEF more
<1>7. /\ served \in ResolutionRow /\ served.allowed = mine.allowed \cup granted
      /\ served.servers = mine.servers \cup {r} /\ served.registry = mine.registry
  BY <1>4, <1>6 DEF ResolutionRow
<1>8. /\ without \in ResolutionRow /\ without.allowed = mine.allowed
      /\ without.servers = mine.servers /\ without.registry = mine.registry
  BY <1>4, <1>5 DEF ResolutionRow
<1> HIDE DEF served, without
<1>9. next \in ResolutionRow /\ ToolsOf(a, next)
  BY <1>3, <1>4, <1>7, <1>8 DEF ToolsOf
<1> HIDE DEF next
<1>10. [setup EXCEPT !.pc = "credentials"] = setup
  BY <1>1 DEF SetupRow
<1>11. SetupGoes([setup EXCEPT !.pc = "credentials", !.of[a] = next])
  BY <1>2, <1>10
<1> QED BY <1>1, <1>9, <1>11, ResolutionSteps

LEMMA EnforcedIsJoined ==
  ASSUME ToolInv, NEW a \in Agent, NEW mine \in ResolutionRow, ToolsOf(a, mine), ~NotAsPublished(a, mine)
  PROVE  LET enforced == [Enforced(a, mine) EXCEPT !.registry = {}]
         IN /\ enforced \in ResolutionRow /\ ToolsOf(a, enforced) /\ JoinedAs(a, enforced)
            /\ enforced.servers = Enforced(a, mine).servers
            /\ enforced.allowed = Enforced(a, mine).allowed
            /\ enforced.unavailable = Enforced(a, mine).unavailable
<1> DEFINE u == Enforced(a, mine)
           v == [u EXCEPT !.registry = {}]
           kept == IF HasDirectory(a) THEN mine.allowed \cap directory[a].tools ELSE mine.allowed
<1>1. /\ u \in ResolutionRow /\ u.servers = mine.servers /\ u.allowed = kept
      /\ u.unavailable = mine.unavailable
  BY DEF Enforced, ResolutionRow, HasDirectory
<1> HIDE DEF u
<1>2. /\ v \in ResolutionRow /\ v.servers = u.servers /\ v.allowed = u.allowed
      /\ v.unavailable = u.unavailable /\ v.registry = {}
  BY <1>1 DEF ResolutionRow
<1> HIDE DEF v
<1>3. ToolsOf(a, v)
  BY <1>1, <1>2 DEF ToolsOf
<1>4. JoinedAs(a, v)
  BY <1>1, <1>2, <1>3 DEF ToolsOf, JoinedAs, NotAsPublished, Own
<1> QED BY <1>2, <1>3, <1>4 DEF u, v

LEMMA JoinToolsInv == ASSUME ToolInv, NEW a \in Agent, JoinTools(a) PROVE ToolInv'
<1> DEFINE mine == Enforced(a, setup.of[a])
           pc == IF a = "lead" THEN "attach" ELSE "assemble"
           owners == [r \in Reference |-> IF r \in mine.servers THEN a ELSE setup.owner[r]]
           gone == IF a = "lead" THEN mine.unavailable ELSE setup.degraded
           bare == [mine EXCEPT !.registry = {}]
           u1 == [setup EXCEPT !.pc = pc]
           u2 == [u1 EXCEPT !.agent = "child"]
           u3 == [u2 EXCEPT !.of[a] = bare]
           u4 == [u3 EXCEPT !.servers = @ \cup mine.servers]
           u5 == [u4 EXCEPT !.allowed = @ \cup mine.allowed]
           u6 == [u5 EXCEPT !.owner = owners]
           u7 == [u6 EXCEPT !.degraded = gone]
<1>1. setup.pc = "credentials" /\ setup.agent = a /\ setup \in SetupRow
  BY DEF JoinTools, SetupAt, ToolInv, ToolTypes
<1>2. \/ Fail
      \/ /\ ~NotAsPublished(a, setup.of[a]) /\ ~Conflict(a, mine)
         /\ setup' = u7 /\ UNCHANGED <<world, directory, host>>
  BY DEF JoinTools, SetupGoes
<1>3. CASE /\ ~NotAsPublished(a, setup.of[a]) /\ ~Conflict(a, mine)
           /\ setup' = u7 /\ UNCHANGED <<world, directory, host>>
  <2>1. setup.of[a] \in ResolutionRow /\ ToolsOf(a, setup.of[a])
    BY <1>1 DEF SetupRow, ToolInv
  <2>2. /\ bare \in ResolutionRow /\ ToolsOf(a, bare) /\ JoinedAs(a, bare)
        /\ bare.servers = mine.servers /\ bare.allowed = mine.allowed
        /\ bare.unavailable = mine.unavailable
    BY <1>3, <2>1, EnforcedIsJoined
  <2>3. \A r \in bare.servers : setup.owner[r] \in {"none", a}
    BY <1>3, <2>2 DEF Conflict
  <2>4. /\ mine.servers \subseteq Reference /\ mine.allowed \subseteq RegistryTool
        /\ mine.unavailable \subseteq RegistryTool
    BY <2>2 DEF ResolutionRow
  <2> HIDE DEF mine, bare
  <2>5. owners \in [Reference -> Agent \cup {"none"}] /\ gone \in SUBSET RegistryTool
    BY <1>1, <2>4 DEF SetupRow
  <2>6. \A r \in Reference : owners[r] = IF r \in mine.servers THEN a ELSE setup.owner[r]
    OBVIOUS
  <2>7. pc \in {"attach", "assemble"} /\ (pc = "assemble" <=> a = "child") /\ "child" \in Agent
    BY DEF Agent
  <2> HIDE DEF owners, gone, pc
  <2>8. /\ u1 \in SetupRow /\ u1.pc = pc /\ u1.of = setup.of /\ u1.allowed = setup.allowed
        /\ u1.servers = setup.servers /\ u1.route = setup.route
    BY <1>1, <2>7 DEF SetupRow
  <2> HIDE DEF u1
  <2>9. /\ u2 \in SetupRow /\ u2.pc = pc /\ u2.of = setup.of /\ u2.allowed = setup.allowed
        /\ u2.servers = setup.servers /\ u2.route = setup.route /\ u2.agent = "child"
    BY <2>7, <2>8 DEF SetupRow
  <2> HIDE DEF u2
  <2>10. /\ u3 \in SetupRow /\ u3.pc = pc /\ u3.allowed = setup.allowed
         /\ u3.servers = setup.servers /\ u3.route = setup.route /\ u3.agent = "child"
         /\ u3.of[a] = bare /\ \A b \in Agent : b # a => u3.of[b] = setup.of[b]
    BY <2>2, <2>9 DEF SetupRow
  <2> HIDE DEF u3
  <2>11. /\ u4 \in SetupRow /\ u4.pc = pc /\ u4.allowed = setup.allowed
         /\ u4.servers = setup.servers \cup mine.servers /\ u4.route = setup.route
         /\ u4.agent = "child" /\ u4.of = u3.of
    BY <2>4, <2>10 DEF SetupRow
  <2> HIDE DEF u4
  <2>12. /\ u5 \in SetupRow /\ u5.pc = pc /\ u5.allowed = setup.allowed \cup mine.allowed
         /\ u5.servers = setup.servers \cup mine.servers /\ u5.route = setup.route
         /\ u5.agent = "child" /\ u5.of = u3.of
    BY <2>4, <2>11 DEF SetupRow, OfferedTool
  <2> HIDE DEF u5
  <2>13. /\ u6 \in SetupRow /\ u6.pc = pc /\ u6.allowed = setup.allowed \cup mine.allowed
         /\ u6.servers = setup.servers \cup mine.servers /\ u6.route = setup.route
         /\ u6.agent = "child" /\ u6.of = u3.of /\ u6.owner = owners
    BY <2>5, <2>12 DEF SetupRow
  <2> HIDE DEF u6
  <2>14. /\ u7 \in SetupRow /\ u7.pc = pc /\ u7.allowed = setup.allowed \cup mine.allowed
         /\ u7.servers = setup.servers \cup mine.servers /\ u7.route = setup.route
         /\ u7.agent = "child" /\ u7.of = u3.of /\ u7.owner = owners
    BY <2>5, <2>13 DEF SetupRow
  <2> HIDE DEF u7
  <2>15. ToolTypes'
    BY <1>3, <2>14 DEF ToolInv, ToolTypes
  <2>16. \A b \in Agent : ToolsOf(b, setup'.of[b])
    BY <1>3, <2>2, <2>10, <2>14 DEF ToolInv
  <2>17. \A t \in setup'.allowed : t[1] \in setup'.servers
    BY <1>3, <2>2, <2>14 DEF ToolInv, ToolsOf
  <2>20. \A t \in setup.allowed : t[1] \in Platform \/ t \in Own("lead")
    BY <1>1 DEF ToolInv
  <2>21. /\ Own("lead")' = Own("lead")
         /\ \A b \in Agent : Own(b)' = Own(b) /\ HasDirectory(b)' = HasDirectory(b)
    BY <1>3, OwnStays, <2>7
  <2>18. CASE a = "lead"
    <3>1. setup'.of["lead"] = bare /\ setup'.pc = "attach"
      BY <1>3, <2>7, <2>10, <2>14, <2>18
    <3>2. \A r \in bare.servers : setup'.owner[r] = "lead"
      BY <1>3, <2>2, <2>4, <2>6, <2>14, <2>18
    <3>3. \A t \in setup'.allowed : t[1] \in Platform \/ t \in Own("lead")'
      BY <1>3, <2>2, <2>14, <2>18, <2>20, <2>21 DEF JoinedAs
    <3>4. JoinedAs("lead", setup.of["lead"])' /\ setup'.of["lead"].allowed \subseteq setup'.allowed
      BY <1>3, <2>2, <2>14, <2>18, <2>21, <3>1 DEF JoinedAs
    <3> QED BY <1>1, <1>3, <2>2, <2>14, <2>15, <2>16, <2>17, <2>18, <3>1, <3>2, <3>3, <3>4
            DEF ToolInv, ToolsOf
  <2>19. CASE a = "child"
    <3>1. setup'.of["child"] = bare /\ setup'.of["lead"] = setup.of["lead"]
      BY <1>3, <2>10, <2>14, <2>19 DEF Agent
    <3>2. \A r \in setup.of["lead"].servers : setup.owner[r] = "lead" /\ r \in Reference
      BY <1>1, <2>19 DEF ToolInv, SetupRow, ResolutionRow, Agent
    <3>3. setup.of["lead"].servers \cap bare.servers = {}
      BY <2>3, <2>19, <3>2
    <3>4. \A r \in setup.of["lead"].servers : setup'.owner[r] = "lead"
      BY <1>3, <2>2, <2>6, <2>14, <3>2, <3>3
    <3>5. setup'.pc = "assemble"
      BY <1>3, <2>7, <2>14, <2>19
    <3>6. \A t \in setup'.allowed :
            t[1] \in Platform \/ t \in Own("lead")' \/ t \in setup'.of["child"].allowed
      BY <1>3, <2>2, <2>14, <2>20, <2>21, <3>1
    <3>7. /\ JoinedAs("lead", setup.of["lead"])' /\ JoinedAs("child", setup.of["child"])'
          /\ setup'.of["lead"].allowed \subseteq setup'.allowed
      BY <1>1, <1>3, <2>2, <2>14, <2>19, <2>21, <3>1 DEF ToolInv, JoinedAs, Agent
    <3> QED BY <1>1, <1>3, <2>2, <2>14, <2>15, <2>16, <2>17, <2>19, <3>1, <3>3, <3>4, <3>5, <3>6, <3>7
            DEF ToolInv, ToolsOf
  <2> QED BY <2>18, <2>19 DEF Agent
<1> QED BY <1>2, <1>3, FailInv

LEMMA AttachRemoteInv ==
  ASSUME ToolInv, NEW knowledge \in BOOLEAN, AttachRemote(knowledge) PROVE ToolInv'
<1> DEFINE memory == {"harness-memory"} \cup (IF knowledge THEN {"harness-knowledge"} ELSE {})
           tools == {<<"harness-memory", "propose_memory">>} \cup
                      (IF knowledge THEN {<<"harness-knowledge", "query">>} ELSE {})
           u1 == [setup EXCEPT !.pc = "registry"]
           u2 == [u1 EXCEPT !.degraded = {}]
           u3 == [u2 EXCEPT !.servers = @ \cup memory]
           u4 == [u3 EXCEPT !.allowed = @ \cup tools]
<1>1. /\ setup.pc = "attach" /\ setup \in SetupRow /\ UNCHANGED <<world, directory, host>>
      /\ setup' = IF ~host.remote THEN u1 ELSE
                    [setup EXCEPT !.pc = "registry", !.degraded = {},
                      !.servers = @ \cup {"harness-memory"} \cup
                        (IF knowledge THEN {"harness-knowledge"} ELSE {}),
                      !.allowed = @ \cup {<<"harness-memory", "propose_memory">>} \cup
                        (IF knowledge THEN {<<"harness-knowledge", "query">>} ELSE {})]
  BY DEF AttachRemote, SetupAt, SetupGoes, ToolInv, ToolTypes
<1>2. /\ memory \subseteq Platform /\ tools \subseteq Platform \X {"propose_memory", "query", "tool"}
      /\ \A t \in tools : t[1] \in memory
  BY DEF Platform
<1>3. /\ u1 \in SetupRow /\ u1.pc = "registry" /\ u1.of = setup.of /\ u1.allowed = setup.allowed
      /\ u1.servers = setup.servers /\ u1.route = setup.route /\ u1.agent = setup.agent
      /\ u1.owner = setup.owner
  BY <1>1 DEF SetupRow
<1>4. setup' \in {u1, u4}
  <2>1. [u2 EXCEPT !.servers = setup.servers \cup memory, !.allowed = setup.allowed \cup tools]
          = [setup EXCEPT !.pc = "registry", !.degraded = {}, !.servers = setup.servers \cup memory,
                          !.allowed = setup.allowed \cup tools]
    OBVIOUS
  <2>2. u2.servers = setup.servers /\ u3.allowed = setup.allowed
    BY <1>1 DEF SetupRow
  <2>3. u4 = [u2 EXCEPT !.servers = setup.servers \cup memory, !.allowed = setup.allowed \cup tools]
    BY <2>2
  <2> QED BY <1>1, <2>1, <2>3
<1> HIDE DEF memory, tools, u1
<1>5. /\ u2 \in SetupRow /\ u2.pc = "registry" /\ u2.of = setup.of /\ u2.allowed = setup.allowed
      /\ u2.servers = setup.servers /\ u2.route = setup.route /\ u2.agent = setup.agent
      /\ u2.owner = setup.owner
  BY <1>3 DEF SetupRow
<1> HIDE DEF u2
<1>6. /\ u3 \in SetupRow /\ u3.pc = "registry" /\ u3.of = setup.of /\ u3.allowed = setup.allowed
      /\ u3.servers = setup.servers \cup memory /\ u3.route = setup.route
      /\ u3.agent = setup.agent /\ u3.owner = setup.owner
  BY <1>2, <1>5 DEF SetupRow
<1> HIDE DEF u3
<1>7. /\ u4 \in SetupRow /\ u4.pc = "registry" /\ u4.of = setup.of
      /\ u4.allowed = setup.allowed \cup tools
      /\ u4.servers = setup.servers \cup memory /\ u4.route = setup.route
      /\ u4.agent = setup.agent /\ u4.owner = setup.owner
  BY <1>2, <1>6 DEF SetupRow, OfferedTool
<1> HIDE DEF u4
<1>8. PICK next \in {u1, u4} : setup' = next
  BY <1>4
<1>9. /\ \A t \in next.allowed : t[1] \in next.servers /\ (t[1] \in Platform \/ t \in Own("lead"))
      /\ setup.allowed \subseteq next.allowed
  BY <1>1, <1>2, <1>3, <1>7, <1>8 DEF ToolInv
<1>10. /\ next \in SetupRow /\ next.pc = "registry" /\ next.of = setup.of /\ next.route = setup.route
       /\ next.agent = setup.agent /\ next.owner = setup.owner
  BY <1>3, <1>7, <1>8
<1>11. setup.pc = "attach" /\ UNCHANGED <<world, directory, host>>
  BY <1>1
<1> QED BY <1>8, <1>9, <1>10, <1>11, OwnStays DEF ToolInv, ToolTypes, ToolsOf, JoinedAs, Agent

LEMMA AssembleOptionsInv ==
  ASSUME ToolInv, NEW proxied \in BOOLEAN, NEW knowledge \in BOOLEAN,
         AssembleOptions(proxied, knowledge)
  PROVE  ToolInv'
<1> DEFINE proxy == IF proxied THEN {"sandbox"} ELSE {}
           inside == IF host.remote THEN {}
                    ELSE {"harness-memory", "harness-artifacts"} \cup
                           (IF knowledge THEN {"harness-knowledge"} ELSE {})
           tools == {<<s, "tool">> : s \in proxy \cup inside}
           kept == IF proxied THEN {"coordination"} ELSE {"coordination", "files"}
           u1 == [setup EXCEPT !.pc = "ready"]
           u2 == [u1 EXCEPT !.servers = setup.servers \cup proxy \cup inside]
           u3 == [u2 EXCEPT !.allowed = setup.allowed \cup tools]
           u4 == [u3 EXCEPT !.builtins = kept]
<1>1. setup.pc = "assemble" /\ setup \in SetupRow
  BY DEF AssembleOptions, SetupAt, ToolInv, ToolTypes
<1>2. Fail \/ (setup' = u4 /\ UNCHANGED <<world, directory, host>>)
  BY DEF AssembleOptions, SetupGoes
<1>3. CASE setup' = u4 /\ UNCHANGED <<world, directory, host>>
  <2>1. /\ proxy \cup inside \subseteq Platform
        /\ tools \subseteq Platform \X {"propose_memory", "query", "tool"}
        /\ \A t \in tools : t[1] \in proxy \cup inside
    BY DEF Platform
  <2>2. kept \subseteq {"coordination", "files"}
    OBVIOUS
  <2> HIDE DEF proxy, inside, tools, kept
  <2>3. /\ u1 \in SetupRow /\ u1.pc = "ready" /\ u1.of = setup.of /\ u1.allowed = setup.allowed
        /\ u1.servers = setup.servers /\ u1.route = setup.route /\ u1.agent = setup.agent
        /\ u1.owner = setup.owner
    BY <1>1 DEF SetupRow
  <2> HIDE DEF u1
  <2>4. /\ u2 \in SetupRow /\ u2.pc = "ready" /\ u2.of = setup.of /\ u2.allowed = setup.allowed
        /\ u2.servers = setup.servers \cup proxy \cup inside
        /\ u2.route = setup.route /\ u2.agent = setup.agent /\ u2.owner = setup.owner
    BY <1>1, <2>1, <2>3 DEF SetupRow
  <2> HIDE DEF u2
  <2>5. /\ u3 \in SetupRow /\ u3.pc = "ready" /\ u3.of = setup.of
        /\ u3.allowed = setup.allowed \cup tools
        /\ u3.servers = setup.servers \cup proxy \cup inside
        /\ u3.route = setup.route /\ u3.agent = setup.agent /\ u3.owner = setup.owner
    BY <1>1, <2>1, <2>4 DEF SetupRow, OfferedTool
  <2> HIDE DEF u3
  <2>6. /\ u4 \in SetupRow /\ u4.pc = "ready" /\ u4.of = setup.of
        /\ u4.allowed = setup.allowed \cup tools
        /\ u4.servers = setup.servers \cup proxy \cup inside
        /\ u4.route = setup.route /\ u4.agent = setup.agent /\ u4.owner = setup.owner
    BY <2>2, <2>5 DEF SetupRow
  <2> HIDE DEF u4
  <2>7. /\ \A t \in setup'.allowed :
             /\ t[1] \in setup'.servers
             /\ t[1] \in Platform \/ t \in Own("lead") \/ t \in setup'.of["child"].allowed
        /\ setup.allowed \subseteq setup'.allowed
    BY <1>1, <1>3, <2>1, <2>6 DEF ToolInv
  <2> QED BY <1>1, <1>3, <2>6, <2>7, OwnStays DEF ToolInv, ToolTypes, ToolsOf, JoinedAs, Agent
<1> QED BY <1>2, <1>3, FailInv

LEMMA ToolStepInv == ToolInv /\ [ToolSetupNext]_toolVars => ToolInv'
<1> SUFFICES ASSUME ToolInv, [ToolSetupNext]_toolVars PROVE ToolInv'
  OBVIOUS
<1>1. ASSUME NEW r \in Reference,
             (\E names \in SUBSET ToolName : Rediscover(r, names)) \/ Configure(r) \/ DeleteCredential(r)
      PROVE  ToolInv'
  BY <1>1, WorldChangesInv
<1>2. ASSUME NEW a \in Agent,
             ReadRegistry(a) \/ JoinTools(a) \/ \E r \in Reference : ResolveCredential(a, r)
      PROVE  ToolInv'
  BY <1>2, ReadRegistryInv, JoinToolsInv, ResolveCredentialInv
<1>3. ASSUME NEW fit \in BOOLEAN, NEW fallback \in {"none", "unconfigured", "unfit", "fit"},
             SelectRoute(fit, fallback)
      PROVE  ToolInv'
  BY <1>3, SelectRouteInv
<1>4. ASSUME NEW knowledge \in BOOLEAN,
             AttachRemote(knowledge) \/ \E proxied \in BOOLEAN : AssembleOptions(proxied, knowledge)
      PROVE  ToolInv'
  BY <1>4, AttachRemoteInv, AssembleOptionsInv
<1>5. CASE UNCHANGED toolVars
  BY <1>5, OwnStays DEF toolVars, ToolInv, ToolTypes, ToolsOf, JoinedAs, Agent
<1> QED BY <1>1, <1>2, <1>3, <1>4, <1>5 DEF ToolSetupNext

(* enforce_published_tool_directory and _options: whatever changes in the    *)
(* catalogue and among the credentials while a Run is prepared, it starts    *)
(* with a Subagent that may call only the tools it was published with, a     *)
(* Lead that may call those as well as its own and the platform's, each on a *)
(* connected server of one Agent, and on the route the task asked for.       *)
THEOREM RunsGetPublishedTools == ServicesSpec => []ToolsAsPublished
<1>1. ServicesInit => ToolInv
  BY ToolsPart, ToolInitInv
<1>2. ToolInv /\ [ServicesNext]_servicesVars => ToolInv'
  BY ToolsPart, ToolStepInv
<1>3. ToolInv => ToolsAsPublished
  BY DEF ToolInv, JoinedAs, ToolsAsPublished, SetupAt, Agent, MayCall
<1> QED BY <1>1, <1>2, <1>3, PTL DEF ServicesSpec

-----------------------------------------------------------------------------
(* The files of a session's Runs.                                            *)

LEMMA FilesPart ==
  /\ ServicesInit => FilesInit
  /\ [ServicesNext]_servicesVars => [FilesNext]_fileVars
<1>1. ServicesInit => FilesInit
  BY DEF ServicesInit
<1>2. ServicesNext => FilesNext \/ UNCHANGED fileVars
  BY DEF ServicesNext, Only
<1>3. UNCHANGED servicesVars => UNCHANGED fileVars
  BY DEF servicesVars
<1> QED BY <1>1, <1>2, <1>3

FileContent == Nat \X Nat
FileTree == [Output -> FileContent]
InputRow == [status : {"none", "pending", "ready", "failed"}, object : BOOLEAN]
ArtifactRow == [run : Nat, file : Output, content : FileContent,
                status : {"none", "pending", "ready", "failed"}, object : BOOLEAN,
                quota : {"reserved", "committed", "released"}]
SnapshotRow == [files : FileTree, object : BOOLEAN, row : BOOLEAN,
                quota : {"reserved", "committed", "released"}]
ExecutionRow == [pc : {"idle", "work", "publish", "archive", "store", "index", "bill", "settle"},
                 ok : BOOLEAN, staged : BOOLEAN, disk : FileTree, base : FileTree, writes : Nat,
                 row : Nat, step : {"none", "add", "put", "update", "commit", "announce"},
                 back : {"none", "work", "publish"}]
EndedRow == [ok : BOOLEAN, left : FileTree, base : FileTree]

FileTypes ==
  /\ input \in InputRow
  /\ artifacts \in Seq(ArtifactRow) /\ snapshots \in Seq(SnapshotRow) /\ ended \in Seq(EndedRow)
  /\ ready \subseteq [run : Nat, file : Output, row : Nat]
  /\ exec \in ExecutionRow
  /\ mishaps \in Nat

InputHolds ==
  /\ input.status = "ready" => input.object
  /\ exec.staged => input.status = "ready"

(* A row, and the row of an upload that is at a step.                        *)
ArtifactHolds(mine) ==
  /\ mine.status = "ready" => mine.object
  /\ mine.quota = "committed" => mine.status = "ready"
  /\ mine.quota = "released" => mine.status \in {"none", "failed"}

AtStep(mine, step) ==
  /\ mine.quota = "reserved"
  /\ step = "add" => mine.status = "none"
  /\ step \in {"put", "update"} => mine.status = "pending"
  /\ step = "update" => mine.object
  /\ step = "commit" => mine.status = "ready"

UploadHolds ==
  /\ \A e \in ready : e.row \in DOMAIN artifacts /\ artifacts[e.row].status = "ready"
  /\ \A i \in DOMAIN artifacts : ArtifactHolds(artifacts[i])
  /\ exec.step # "none" =>
       /\ exec.row \in DOMAIN artifacts /\ exec.back \in {"work", "publish"}
       /\ exec.pc \in {"work", "publish"}
       /\ exec.step # "announce" => AtStep(artifacts[exec.row], exec.step)
       /\ exec.step = "announce" => artifacts[exec.row].status = "ready"

SnapshotHolds(mine) ==
  /\ mine.row => mine.object
  /\ mine.quota = "committed" => mine.row
  /\ mine.quota = "released" => ~mine.row

ArchiveHolds ==
  /\ \A i \in DOMAIN snapshots : SnapshotHolds(snapshots[i])
  /\ exec.pc \in {"store", "index", "bill"} =>
       /\ Len(snapshots) \in DOMAIN snapshots /\ Snapshot.quota = "reserved"
       /\ exec.pc \in {"store", "index"} => ~Snapshot.row /\ Snapshot.files = exec.disk
       /\ exec.pc = "index" => Snapshot.object
       /\ exec.pc = "bill" => Snapshot.row

(* What was restored is in a snapshot, and an execution that ends well has    *)
(* announced what it did not leave as restored.                              *)
KeptBy(f) == \E e \in ready : e.run = ThisRun /\ e.file = f
Ending == {"archive", "store", "index", "bill", "settle"}

OutputHolds(f) ==
  /\ exec.base[f] # NoFile =>
       \E i \in DOMAIN snapshots : snapshots[i].row /\ snapshots[i].files[f] = exec.base[f]
  /\ exec.ok /\ exec.pc \in Ending /\ exec.disk[f] \notin {NoFile, exec.base[f]} => KeptBy(f)

FilesInv ==
  /\ FileTypes /\ InputHolds /\ UploadHolds /\ ArchiveHolds
  /\ \A f \in Output : OutputHolds(f)
  /\ OutputsAnnounced

LEMMA RowReplaced ==
  ASSUME NEW S, NEW seq \in Seq(S), NEW i \in DOMAIN seq, NEW e \in S
  PROVE  LET new == [seq EXCEPT ![i] = e]
         IN /\ new \in Seq(S) /\ DOMAIN new = DOMAIN seq /\ Len(new) = Len(seq)
            /\ new[i] = e /\ \A j \in DOMAIN seq : j # i => new[j] = seq[j]
OBVIOUS

LEMMA RowAppended ==
  ASSUME NEW S, NEW seq \in Seq(S), NEW e \in S
  PROVE  LET new == Append(seq, e)
         IN /\ new \in Seq(S) /\ Len(new) = Len(seq) + 1 /\ Len(seq) \in Nat
            /\ Len(new) \in DOMAIN new /\ new[Len(new)] = e
            /\ DOMAIN seq \subseteq DOMAIN new
            /\ \A j \in DOMAIN seq : new[j] = seq[j]
            /\ \A j \in DOMAIN new : j \in DOMAIN seq \/ j = Len(new)
OBVIOUS

LEMMA NoExecType ==
  /\ Empty \in FileTree /\ \A f \in Output : Empty[f] = NoFile
  /\ NoExec \in ExecutionRow /\ NoExec.pc = "idle" /\ NoExec.step = "none" /\ ~NoExec.staged
  /\ NoExec.disk = Empty /\ NoExec.base = Empty
<1>1. NoFile \in FileContent
  BY DEF NoFile, FileContent
<1>2. Empty \in FileTree /\ \A f \in Output : Empty[f] = NoFile
  BY <1>1 DEF Empty, FileTree
<1> QED BY <1>2 DEF NoExec, ExecutionRow

LEMMA ThisRunType == ended \in Seq(EndedRow) => ThisRun \in Nat /\ ThisRun # 0
BY DEF ThisRun

LEMMA FilesInitInv == FilesInit => FilesInv
<1> SUFFICES ASSUME FilesInit PROVE FilesInv
  OBVIOUS
<1>1. /\ input.status = "none" /\ input \in InputRow
      /\ exec = NoExec /\ ready = {} /\ mishaps \in Nat
      /\ artifacts = << >> /\ snapshots = << >> /\ ended = << >>
  BY DEF FilesInit, InputRow
<1>2. << >> \in Seq(ArtifactRow) /\ << >> \in Seq(SnapshotRow) /\ << >> \in Seq(EndedRow)
  OBVIOUS
<1>3. FileTypes
  BY <1>1, <1>2, NoExecType DEF FileTypes
<1>5. \A f \in Output : OutputHolds(f)
  BY <1>1, NoExecType DEF OutputHolds, Ending
<1>6. InputHolds /\ UploadHolds /\ ArchiveHolds /\ OutputsAnnounced
  BY <1>1, NoExecType DEF InputHolds, UploadHolds, ArchiveHolds, OutputsAnnounced
<1> QED BY <1>3, <1>5, <1>6 DEF FilesInv

(* Indexed snapshots stay, and so does what was announced.                    *)
SnapshotsStay ==
  \A i \in DOMAIN snapshots :
    /\ i \in DOMAIN snapshots' /\ snapshots'[i].files = snapshots[i].files
    /\ snapshots[i].row => snapshots'[i].row

LEMMA KeptStays ==
  ASSUME FilesInv, UNCHANGED ended, ready \subseteq ready', SnapshotsStay
  PROVE  /\ ThisRun' = ThisRun /\ OutputsAnnounced'
         /\ \A f \in Output : KeptBy(f) => KeptBy(f)'
         /\ \A f \in Output : exec.base[f] # NoFile =>
              \E i \in DOMAIN snapshots' : snapshots'[i].row /\ snapshots'[i].files[f] = exec.base[f]
<1>1. ThisRun' = ThisRun /\ \A f \in Output : KeptBy(f) => KeptBy(f)'
  BY DEF KeptBy, ThisRun
<1>2. \A f \in Output : exec.base[f] # NoFile =>
        \E i \in DOMAIN snapshots' : snapshots'[i].row /\ snapshots'[i].files[f] = exec.base[f]
  BY DEF FilesInv, OutputHolds, SnapshotsStay
<1>3. \A f, c : InSnapshot(f, c) => InSnapshot(f, c)'
  BY DEF InSnapshot, SnapshotsStay
<1>4. OutputsAnnounced'
  BY <1>3 DEF FilesInv, OutputsAnnounced
<1> QED BY <1>1, <1>2, <1>4

(* A step of the execution itself.                                           *)
LEMMA ExecMoves ==
  ASSUME FilesInv, UNCHANGED <<input, artifacts, ready, snapshots, ended>>, mishaps' \in Nat,
         exec' \in ExecutionRow, exec'.step = "none", exec'.pc \notin {"store", "index", "bill"},
         exec'.staged => input.status = "ready",
         \A f \in Output :
           /\ exec'.base[f] # NoFile =>
                \E i \in DOMAIN snapshots : snapshots[i].row /\ snapshots[i].files[f] = exec'.base[f]
           /\ exec'.ok /\ exec'.pc \in {"archive", "settle"}
                /\ exec'.disk[f] \notin {NoFile, exec'.base[f]} => KeptBy(f)
  PROVE  FilesInv'
<1>1. ThisRun' = ThisRun /\ OutputsAnnounced' /\ \A f \in Output : KeptBy(f) => KeptBy(f)'
  BY KeptStays DEF SnapshotsStay
<1>2. FileTypes'
  BY DEF FilesInv, FileTypes
<1>3. InputHolds' /\ UploadHolds' /\ ArchiveHolds'
  BY DEF FilesInv, InputHolds, UploadHolds, ArchiveHolds
<1>4. ASSUME NEW f \in Output PROVE OutputHolds(f)'
  BY <1>1 DEF FilesInv, OutputHolds, Ending
<1> QED BY <1>1, <1>2, <1>3, <1>4 DEF FilesInv

LEMMA MishapsAreCounted == ASSUME FilesInv, Mishap \/ UNCHANGED mishaps PROVE mishaps' \in Nat
BY DEF Mishap, FilesInv, FileTypes

LEMMA InputStepsInv == ASSUME FilesInv, UploadInput \/ StoreInput \/ ReadyInput PROVE FilesInv'
<1>1. UNCHANGED <<artifacts, ready, snapshots, exec, ended>> /\ input \in InputRow
  BY DEF UploadInput, StoreInput, ReadyInput, FilesInv, FileTypes
<1>2. input' \in InputRow
  BY <1>1 DEF UploadInput, StoreInput, ReadyInput, InputRow
<1>7. mishaps' \in Nat
  BY MishapsAreCounted DEF UploadInput, StoreInput, ReadyInput
<1>3. FileTypes'
  BY <1>1, <1>2, <1>7 DEF FilesInv, FileTypes
<1>4. InputHolds'
  BY <1>1 DEF UploadInput, StoreInput, ReadyInput, InputRow, FilesInv, InputHolds
<1>5. UploadHolds' /\ ArchiveHolds' /\ OutputsAnnounced'
  BY <1>1 DEF FilesInv, UploadHolds, ArchiveHolds, Snapshot, OutputsAnnounced, InSnapshot
<1>6. \A f \in Output : OutputHolds(f)'
  BY <1>1 DEF FilesInv, OutputHolds, KeptBy, ThisRun
<1> QED BY <1>3, <1>4, <1>5, <1>6 DEF FilesInv

LEMMA RestoredHolds ==
  ASSUME FilesInv
  PROVE  /\ Restored \in FileTree
         /\ \A f \in Output : Restored[f] # NoFile =>
              \E i \in DOMAIN snapshots : snapshots[i].row /\ snapshots[i].files[f] = Restored[f]
<1>2. CASE Latest = 0
  BY <1>2, NoExecType DEF Restored
<1>3. CASE Latest # 0
  <2> DEFINE indexed == {i \in DOMAIN snapshots : snapshots[i].row}
  <2>1. indexed # {} /\ Latest = CHOOSE i \in indexed : \A j \in indexed : j <= i
    BY <1>3 DEF Latest
  <2>2. PICK n \in Nat : DOMAIN snapshots = 1 .. n
    BY DEF FilesInv, FileTypes
  <2>3. \E i \in indexed : \A j \in indexed : j <= i
    <3>1. indexed \subseteq 0 .. n
      BY <2>2
    <3> QED BY <2>1, <3>1, LargestOf
  <2>4. Latest \in indexed
    BY <2>1, <2>3
  <2>5. Latest \in DOMAIN snapshots /\ snapshots[Latest].row
    BY <2>4
  <2>6. snapshots[Latest] \in SnapshotRow
    BY <2>5 DEF FilesInv, FileTypes
  <2> QED BY <1>3, <2>5, <2>6 DEF Restored, SnapshotRow
<1> QED BY <1>2, <1>3

LEMMA StartRunInv == ASSUME FilesInv, StartRun PROVE FilesInv'
<1> DEFINE found == Restored
           u1 == [NoExec EXCEPT !.pc = "work"]
           u2 == [u1 EXCEPT !.disk = found]
           u3 == [u2 EXCEPT !.base = found]
           u4 == [u3 EXCEPT !.staged = input.status = "ready"]
           u5 == [u4 EXCEPT !.writes = exec.writes]
<1>1. /\ exec \in ExecutionRow /\ exec' = u5 /\ UNCHANGED <<input, artifacts, ready, snapshots, ended, mishaps>>
      /\ mishaps \in Nat
  BY DEF StartRun, StoreRests, FilesInv, FileTypes
<1>2. /\ found \in FileTree
      /\ \A f \in Output : found[f] # NoFile =>
           \E i \in DOMAIN snapshots : snapshots[i].row /\ snapshots[i].files[f] = found[f]
  BY RestoredHolds
<1> HIDE DEF found
<1>3. u1 \in ExecutionRow /\ u1.pc = "work" /\ u1.step = "none"
  BY NoExecType DEF ExecutionRow
<1> HIDE DEF u1
<1>4. u2 \in ExecutionRow /\ u2.pc = "work" /\ u2.step = "none" /\ u2.disk = found
  BY <1>2, <1>3 DEF ExecutionRow
<1> HIDE DEF u2
<1>5. u3 \in ExecutionRow /\ u3.pc = "work" /\ u3.step = "none" /\ u3.disk = found /\ u3.base = found
  BY <1>2, <1>4 DEF ExecutionRow
<1> HIDE DEF u3
<1>6. /\ u4 \in ExecutionRow /\ u4.pc = "work" /\ u4.step = "none" /\ u4.disk = found /\ u4.base = found
      /\ u4.staged => input.status = "ready"
  BY <1>5 DEF ExecutionRow
<1> HIDE DEF u4
<1>7. /\ u5 \in ExecutionRow /\ u5.pc = "work" /\ u5.step = "none" /\ u5.disk = found /\ u5.base = found
      /\ u5.staged => input.status = "ready"
  BY <1>1, <1>6 DEF ExecutionRow
<1> HIDE DEF u5
<1> QED BY <1>1, <1>2, <1>7, ExecMoves

LEMMA StartFailsInv == ASSUME FilesInv, StartFails PROVE FilesInv'
<1> DEFINE u1 == [NoExec EXCEPT !.pc = "settle"]
           u2 == [u1 EXCEPT !.ok = FALSE]
<1>1. /\ exec \in ExecutionRow /\ exec' = u2 /\ UNCHANGED <<input, artifacts, ready, snapshots, ended>>
      /\ mishaps' \in Nat
  BY DEF StartFails, StoreRests, Mishap, FilesInv, FileTypes
<1>2. u1 \in ExecutionRow /\ u1.pc = "settle" /\ u1.step = "none" /\ u1.disk = Empty /\ u1.base = Empty
      /\ ~u1.staged
  BY NoExecType DEF ExecutionRow
<1> HIDE DEF u1
<1>3. u2 \in ExecutionRow /\ u2.pc = "settle" /\ u2.step = "none" /\ u2.disk = Empty /\ u2.base = Empty
      /\ ~u2.staged /\ ~u2.ok
  BY <1>2 DEF ExecutionRow
<1> HIDE DEF u2
<1> QED BY <1>1, <1>3, NoExecType, ExecMoves

LEMMA CrashRunInv == ASSUME FilesInv, CrashRun PROVE FilesInv'
<1> DEFINE u1 == [NoExec EXCEPT !.writes = exec.writes]
<1>1. /\ exec \in ExecutionRow /\ exec' = u1 /\ UNCHANGED <<input, artifacts, ready, snapshots, ended>>
      /\ mishaps' \in Nat
  BY DEF CrashRun, StoreRests, Mishap, FilesInv, FileTypes
<1>2. u1 \in ExecutionRow /\ u1.pc = "idle" /\ u1.step = "none" /\ u1.disk = Empty /\ u1.base = Empty
      /\ ~u1.staged
  BY <1>1, NoExecType DEF ExecutionRow
<1> HIDE DEF u1
<1> QED BY <1>1, <1>2, NoExecType, ExecMoves

LEMMA WriteFileInv == ASSUME FilesInv, NEW f \in Output, WriteFile(f) PROVE FilesInv'
<1> DEFINE text == <<ThisRun, exec.writes + 1>>
           tree == [exec.disk EXCEPT ![f] = text]
           u == [exec EXCEPT !.disk = tree]
           v == [u EXCEPT !.writes = exec.writes + 1]
<1>1. /\ exec \in ExecutionRow /\ exec.pc = "work" /\ exec.step = "none"
      /\ UNCHANGED <<input, artifacts, ready, snapshots, ended, mishaps>> /\ mishaps \in Nat
      /\ ThisRun \in Nat
  BY ThisRunType DEF WriteFile, ExecAt, StoreRests, FilesInv, FileTypes
<1>2. exec' = v
  BY DEF WriteFile
<1>3. text \in FileContent
  BY <1>1 DEF FileContent, ExecutionRow
<1> HIDE DEF text
<1>4. tree \in FileTree
  BY <1>1, <1>3 DEF ExecutionRow, FileTree
<1> HIDE DEF tree
<1>5. /\ u \in ExecutionRow /\ u.pc = "work" /\ u.step = "none" /\ u.base = exec.base
      /\ u.disk = tree /\ u.staged = exec.staged
  BY <1>1, <1>4 DEF ExecutionRow
<1> HIDE DEF u
<1>6. /\ v \in ExecutionRow /\ v.pc = "work" /\ v.step = "none" /\ v.base = exec.base
      /\ v.disk = tree /\ v.staged = exec.staged
  BY <1>1, <1>5 DEF ExecutionRow
<1> HIDE DEF v
<1>7. ASSUME NEW g \in Output, exec'.base[g] # NoFile
      PROVE  \E i \in DOMAIN snapshots : snapshots[i].row /\ snapshots[i].files[g] = exec'.base[g]
  BY <1>2, <1>6, <1>7 DEF FilesInv, OutputHolds
<1>8. exec'.staged => input.status = "ready"
  BY <1>2, <1>6 DEF FilesInv, InputHolds
<1> QED BY <1>1, <1>2, <1>6, <1>7, <1>8, ExecMoves

LEMMA RunProceedsInv ==
  ASSUME FilesInv, (\E ok \in BOOLEAN : RuntimeEnds(ok)) \/ OutputsPublished \/ CollectFilesFails
  PROVE  FilesInv'
<1>1. /\ exec \in ExecutionRow /\ exec.step = "none"
      /\ UNCHANGED <<input, artifacts, ready, snapshots, ended>> /\ mishaps' \in Nat
  <2>1. exec.step = "none" /\ UNCHANGED <<input, artifacts, ready, snapshots, ended>>
        /\ (Mishap \/ UNCHANGED mishaps)
    BY DEF RuntimeEnds, OutputsPublished, CollectFilesFails, ExecAt, StoreRests
  <2> QED BY <2>1, MishapsAreCounted DEF FilesInv, FileTypes
<1>2. PICK pc \in {"publish", "archive", "settle"}, ok \in BOOLEAN :
        /\ exec' = [exec EXCEPT !.ok = ok, !.pc = pc]
        /\ pc = "archive" => Candidates = {}
        /\ pc = "settle" => ~ok
  <2>1. CASE \E ok \in BOOLEAN : RuntimeEnds(ok)
    BY <2>1 DEF RuntimeEnds
  <2>2. CASE OutputsPublished
    <3>1. exec' = [exec EXCEPT !.ok = exec.ok, !.pc = "archive"] /\ exec.ok \in BOOLEAN
      BY <1>1, <2>2 DEF OutputsPublished, ExecutionRow
    <3> QED BY <2>2, <3>1 DEF OutputsPublished
  <2>3. CASE CollectFilesFails
    BY <2>3 DEF CollectFilesFails
  <2> QED BY <2>1, <2>2, <2>3
<1> DEFINE u == [exec EXCEPT !.ok = ok]
           v == [u EXCEPT !.pc = pc]
<1>3. exec' = v
  BY <1>2
<1>4. /\ u \in ExecutionRow /\ u.step = "none" /\ u.base = exec.base
      /\ u.disk = exec.disk /\ u.staged = exec.staged /\ u.ok = ok
  BY <1>1 DEF ExecutionRow
<1> HIDE DEF u
<1>5. /\ v \in ExecutionRow /\ v.step = "none" /\ v.base = exec.base /\ v.pc = pc
      /\ v.disk = exec.disk /\ v.staged = exec.staged /\ v.ok = ok
  BY <1>4 DEF ExecutionRow
<1> HIDE DEF v
<1>6. exec'.staged => input.status = "ready"
  BY <1>3, <1>5 DEF FilesInv, InputHolds
<1>8. ASSUME NEW f \in Output
      PROVE  /\ exec'.base[f] # NoFile =>
                  \E i \in DOMAIN snapshots : snapshots[i].row /\ snapshots[i].files[f] = exec'.base[f]
             /\ exec'.ok /\ exec'.pc \in {"archive", "settle"}
                  /\ exec'.disk[f] \notin {NoFile, exec'.base[f]} => KeptBy(f)
  <2>1. OutputHolds(f)
    BY DEF FilesInv
  <2>2. ASSUME pc = "archive", exec.disk[f] \notin {NoFile, exec.base[f]} PROVE KeptBy(f)
    <3>1. f \in PublishedPaths
      BY <1>2, <2>2 DEF Candidates
    <3> QED BY <3>1 DEF PublishedPaths, KeptBy
  <2> QED BY <1>2, <1>3, <1>5, <2>1, <2>2 DEF OutputHolds
<1>9. exec' \in ExecutionRow /\ exec'.step = "none" /\ exec'.pc \notin {"store", "index", "bill"}
  BY <1>3, <1>5
<1> QED BY <1>1, <1>6, <1>8, <1>9, ExecMoves

(* A step of an upload.                                                      *)
LEMMA UploadMoves ==
  ASSUME FilesInv, UNCHANGED <<input, snapshots, ended>>, mishaps' \in Nat,
         artifacts' \in Seq(ArtifactRow), ready \subseteq ready',
         ready' \subseteq [run : Nat, file : Output, row : Nat],
         exec' \in ExecutionRow, exec'.disk = exec.disk, exec'.base = exec.base,
         exec'.staged = exec.staged,
         exec'.pc \in {"work", "publish"} \/ (exec'.pc = "archive" /\ ~exec'.ok),
         UploadHolds'
  PROVE  FilesInv'
<1>1. ThisRun' = ThisRun /\ OutputsAnnounced' /\ \A f \in Output : KeptBy(f) => KeptBy(f)'
  BY KeptStays DEF SnapshotsStay
<1>2. FileTypes'
  BY DEF FilesInv, FileTypes
<1>3. InputHolds' /\ ArchiveHolds'
  BY DEF FilesInv, InputHolds, ArchiveHolds
<1>4. ASSUME NEW f \in Output PROVE OutputHolds(f)'
  BY <1>1 DEF FilesInv, OutputHolds, Ending
<1> QED BY <1>1, <1>2, <1>3, <1>4 DEF FilesInv

(* The row of the upload is written.                                         *)
LEMMA RowIsSet ==
  ASSUME FilesInv, exec.step # "none", NEW new \in ArtifactRow, SetRow(new), ArtifactHolds(new),
         artifacts[exec.row].status = "ready" => new.status = "ready"
  PROVE  /\ artifacts' \in Seq(ArtifactRow) /\ DOMAIN artifacts' = DOMAIN artifacts
         /\ artifacts'[exec.row] = new /\ exec.row \in DOMAIN artifacts
         /\ \A e \in ready : e.row \in DOMAIN artifacts' /\ artifacts'[e.row].status = "ready"
         /\ \A i \in DOMAIN artifacts' : ArtifactHolds(artifacts'[i])
<1>1. exec.row \in DOMAIN artifacts /\ artifacts \in Seq(ArtifactRow)
  BY DEF FilesInv, FileTypes, UploadHolds
<1>2. /\ artifacts' \in Seq(ArtifactRow) /\ DOMAIN artifacts' = DOMAIN artifacts
      /\ artifacts'[exec.row] = new
      /\ \A j \in DOMAIN artifacts : j # exec.row => artifacts'[j] = artifacts[j]
  BY <1>1, RowReplaced DEF SetRow
<1> QED BY <1>1, <1>2 DEF FilesInv, UploadHolds

LEMMA BeginUploadInv ==
  ASSUME FilesInv, NEW f \in Output, NEW back \in {"work", "publish"}, BeginUpload(f, back),
         exec.pc \in {"work", "publish"}, UNCHANGED <<ready, mishaps>>
  PROVE  FilesInv'
<1> DEFINE new == [run |-> ThisRun, file |-> f, content |-> exec.disk[f],
                   status |-> "none", object |-> FALSE, quota |-> "reserved"]
           u1 == [exec EXCEPT !.step = "add"]
           u2 == [u1 EXCEPT !.row = Len(artifacts')]
           u3 == [u2 EXCEPT !.back = back]
<1>1. /\ exec \in ExecutionRow /\ artifacts \in Seq(ArtifactRow) /\ ThisRun \in Nat
      /\ mishaps \in Nat /\ ready \subseteq [run : Nat, file : Output, row : Nat]
  BY ThisRunType DEF FilesInv, FileTypes
<1>2. artifacts' = Append(artifacts, new) /\ exec' = u3 /\ UNCHANGED <<input, snapshots, ended>>
  BY DEF BeginUpload, UploadRest
<1>3. new \in ArtifactRow /\ ArtifactHolds(new) /\ AtStep(new, "add")
  BY <1>1 DEF ArtifactRow, ExecutionRow, FileTree, ArtifactHolds, AtStep
<1> HIDE DEF new
<1>4. /\ artifacts' \in Seq(ArtifactRow) /\ Len(artifacts') \in Nat
      /\ Len(artifacts') \in DOMAIN artifacts' /\ artifacts'[Len(artifacts')] = new
      /\ DOMAIN artifacts \subseteq DOMAIN artifacts'
      /\ \A j \in DOMAIN artifacts : artifacts'[j] = artifacts[j]
      /\ \A j \in DOMAIN artifacts' : j \in DOMAIN artifacts \/ j = Len(artifacts')
  BY <1>1, <1>2, <1>3, RowAppended
<1>5. /\ u1 \in ExecutionRow /\ u1.step = "add" /\ u1.disk = exec.disk /\ u1.base = exec.base
      /\ u1.staged = exec.staged /\ u1.pc = exec.pc
  BY <1>1 DEF ExecutionRow
<1> HIDE DEF u1
<1>6. PICK n \in Nat : n = Len(artifacts')
  BY <1>4
<1>7. /\ u2 \in ExecutionRow /\ u2.step = "add" /\ u2.disk = exec.disk /\ u2.base = exec.base
      /\ u2.staged = exec.staged /\ u2.pc = exec.pc /\ u2.row = n
  BY <1>5, <1>6 DEF ExecutionRow
<1> HIDE DEF u2
<1>8. /\ u3 \in ExecutionRow /\ u3.step = "add" /\ u3.disk = exec.disk /\ u3.base = exec.base
      /\ u3.staged = exec.staged /\ u3.pc = exec.pc /\ u3.row = n
      /\ u3.back = back
  BY <1>7 DEF ExecutionRow
<1> HIDE DEF u3
<1>9. exec' \in ExecutionRow /\ exec'.step = "add" /\ exec'.pc = exec.pc /\ exec'.row = n /\ exec'.back = back
  BY <1>2, <1>8
<1>10. \A e \in ready : e.row \in DOMAIN artifacts' /\ artifacts'[e.row].status = "ready"
  BY <1>4 DEF FilesInv, UploadHolds
<1>11. \A i \in DOMAIN artifacts' : ArtifactHolds(artifacts'[i])
  BY <1>3, <1>4 DEF FilesInv, UploadHolds
<1>12. UploadHolds'
  BY <1>3, <1>4, <1>6, <1>9, <1>10, <1>11 DEF UploadHolds
<1> QED BY <1>1, <1>2, <1>4, <1>8, <1>12, UploadMoves

LEMMA PublishInv ==
  ASSUME FilesInv, NEW f \in Output, PublishTool(f) \/ PublishOutput(f) PROVE FilesInv'
<1>1. CASE PublishTool(f)
  BY <1>1, BeginUploadInv DEF PublishTool, ExecAt, BeginUpload
<1>2. CASE PublishOutput(f)
  BY <1>2, BeginUploadInv DEF PublishOutput, ExecAt, BeginUpload
<1> QED BY <1>1, <1>2

(* A step of an upload that goes well.                                       *)
LEMMA StepGoes ==
  ASSUME FilesInv, exec.step # "none", NEW new \in ArtifactRow, SetRow(new), ArtifactHolds(new),
         artifacts[exec.row].status = "ready" => new.status = "ready",
         NEW to \in {"put", "update", "commit", "announce"}, exec' = [exec EXCEPT !.step = to],
         to # "announce" => AtStep(new, to), to = "announce" => new.status = "ready",
         UploadRest, UNCHANGED <<ready, mishaps>>
  PROVE  FilesInv'
<1>1. /\ exec \in ExecutionRow /\ exec.pc \in {"work", "publish"} /\ exec.back \in {"work", "publish"}
      /\ mishaps \in Nat /\ ready \subseteq [run : Nat, file : Output, row : Nat]
  BY DEF FilesInv, FileTypes, UploadHolds
<1>2. /\ artifacts' \in Seq(ArtifactRow) /\ DOMAIN artifacts' = DOMAIN artifacts
      /\ artifacts'[exec.row] = new /\ exec.row \in DOMAIN artifacts
      /\ \A e \in ready : e.row \in DOMAIN artifacts' /\ artifacts'[e.row].status = "ready"
      /\ \A i \in DOMAIN artifacts' : ArtifactHolds(artifacts'[i])
  BY RowIsSet
<1>3. /\ exec' \in ExecutionRow /\ exec'.step = to /\ exec'.disk = exec.disk /\ exec'.base = exec.base
      /\ exec'.staged = exec.staged /\ exec'.pc = exec.pc
      /\ exec'.row = exec.row /\ exec'.back = exec.back
  BY <1>1 DEF ExecutionRow
<1>4. UploadHolds'
  BY <1>1, <1>2, <1>3 DEF UploadHolds
<1> QED BY <1>1, <1>2, <1>3, <1>4, UploadMoves DEF UploadRest

LEMMA UploadStepsInv ==
  ASSUME FilesInv, AddPending \/ PutObject \/ UpdateReady \/ CommitBytes PROVE FilesInv'
<1>1. exec.step \in {"add", "put", "update", "commit"} /\ UploadRest /\ UNCHANGED <<ready, mishaps>>
  BY DEF AddPending, PutObject, UpdateReady, CommitBytes, UploadAt
<1>2. /\ Row \in ArtifactRow /\ ArtifactHolds(Row) /\ AtStep(Row, exec.step)
  BY <1>1 DEF FilesInv, FileTypes, UploadHolds, Row
<1>3. PICK mine \in ArtifactRow : mine = Row
  BY <1>2
<1>4. CASE AddPending
  <2> DEFINE new == [mine EXCEPT !.status = "pending"]
  <2>1. SetRow(new) /\ exec' = [exec EXCEPT !.step = "put"] /\ exec.step = "add"
    BY <1>3, <1>4 DEF AddPending, UploadAt
  <2>2. mine.status = "none" /\ mine.quota = "reserved"
    BY <1>2, <1>3, <2>1 DEF AtStep
  <2>3. new \in ArtifactRow /\ ArtifactHolds(new) /\ AtStep(new, "put")
    BY <2>2 DEF ArtifactRow, ArtifactHolds, AtStep
  <2> HIDE DEF new
  <2> QED BY <1>1, <1>3, <2>1, <2>2, <2>3, StepGoes DEF Row
<1>5. CASE PutObject
  <2> DEFINE new == [mine EXCEPT !.object = TRUE]
  <2>1. SetRow(new) /\ exec' = [exec EXCEPT !.step = "update"] /\ exec.step = "put"
    BY <1>3, <1>5 DEF PutObject, UploadAt
  <2>2. mine.status = "pending" /\ mine.quota = "reserved"
    BY <1>2, <1>3, <2>1 DEF AtStep
  <2>3. new \in ArtifactRow /\ ArtifactHolds(new) /\ AtStep(new, "update")
    BY <2>2 DEF ArtifactRow, ArtifactHolds, AtStep
  <2> HIDE DEF new
  <2> QED BY <1>1, <1>3, <2>1, <2>2, <2>3, StepGoes DEF Row
<1>6. CASE UpdateReady
  <2> DEFINE new == [mine EXCEPT !.status = "ready"]
  <2>1. SetRow(new) /\ exec' = [exec EXCEPT !.step = "commit"] /\ exec.step = "update"
    BY <1>3, <1>6 DEF UpdateReady, UploadAt
  <2>2. mine.object /\ mine.quota = "reserved"
    BY <1>2, <1>3, <2>1 DEF AtStep
  <2>3. new \in ArtifactRow /\ ArtifactHolds(new) /\ AtStep(new, "commit") /\ new.status = "ready"
    BY <2>2 DEF ArtifactRow, ArtifactHolds, AtStep
  <2> HIDE DEF new
  <2> QED BY <1>1, <1>3, <2>1, <2>2, <2>3, StepGoes DEF Row
<1>7. CASE CommitBytes
  <2> DEFINE new == [mine EXCEPT !.quota = "committed"]
  <2>1. SetRow(new) /\ exec' = [exec EXCEPT !.step = "announce"] /\ exec.step = "commit"
    BY <1>3, <1>7 DEF CommitBytes, UploadAt
  <2>2. mine.status = "ready" /\ mine.object
    BY <1>2, <1>3, <2>1 DEF AtStep, ArtifactHolds
  <2>3. new \in ArtifactRow /\ ArtifactHolds(new) /\ new.status = "ready"
    BY <2>2 DEF ArtifactRow, ArtifactHolds
  <2> HIDE DEF new
  <2> QED BY <1>1, <1>3, <2>1, <2>2, <2>3, StepGoes DEF Row
<1> QED BY <1>4, <1>5, <1>6, <1>7

LEMMA AnnounceInv == ASSUME FilesInv, Announce PROVE FilesInv'
<1> DEFINE told == [run |-> ThisRun, file |-> Row.file, row |-> exec.row]
           u1 == [exec EXCEPT !.step = "none"]
           u2 == [u1 EXCEPT !.row = 0]
           u3 == [u2 EXCEPT !.pc = exec.back]
<1>1. /\ exec.step = "announce" /\ exec \in ExecutionRow /\ ThisRun \in Nat /\ mishaps \in Nat
      /\ exec.row \in DOMAIN artifacts /\ exec.back \in {"work", "publish"}
      /\ Row.status = "ready" /\ Row \in ArtifactRow /\ artifacts \in Seq(ArtifactRow)
      /\ ready \subseteq [run : Nat, file : Output, row : Nat]
  BY ThisRunType DEF Announce, UploadAt, FilesInv, FileTypes, UploadHolds, Row
<1>2. /\ ready' = ready \cup {told} /\ exec' = u3
      /\ UNCHANGED <<input, snapshots, ended, artifacts, mishaps>>
  BY DEF Announce, UploadRest
<1>3. told \in [run : Nat, file : Output, row : Nat]
  BY <1>1 DEF ArtifactRow, ExecutionRow
<1>4. told.row = exec.row
  OBVIOUS
<1> HIDE DEF told
<1>5. /\ u1 \in ExecutionRow /\ u1.step = "none" /\ u1.disk = exec.disk /\ u1.base = exec.base
      /\ u1.staged = exec.staged
  BY <1>1 DEF ExecutionRow
<1> HIDE DEF u1
<1>6. /\ u2 \in ExecutionRow /\ u2.step = "none" /\ u2.disk = exec.disk /\ u2.base = exec.base
      /\ u2.staged = exec.staged
  BY <1>5 DEF ExecutionRow
<1> HIDE DEF u2
<1>7. /\ u3 \in ExecutionRow /\ u3.step = "none" /\ u3.disk = exec.disk /\ u3.base = exec.base
      /\ u3.staged = exec.staged /\ u3.pc \in {"work", "publish"}
  BY <1>1, <1>6 DEF ExecutionRow
<1> HIDE DEF u3
<1>8. \A e \in ready' : e.row \in DOMAIN artifacts /\ artifacts[e.row].status = "ready"
  BY <1>1, <1>2, <1>4 DEF FilesInv, UploadHolds, Row
<1>9. UploadHolds'
  BY <1>2, <1>7, <1>8 DEF FilesInv, UploadHolds
<1> QED BY <1>1, <1>2, <1>3, <1>7, <1>9, UploadMoves

LEMMA FailedRowHolds ==
  ASSUME NEW mine \in ArtifactRow, NEW step \in {"add", "put", "update", "commit", "announce"},
         ArtifactHolds(mine), step # "announce" => AtStep(mine, step)
  PROVE  LET new == FailedRow(mine, step)
         IN new \in ArtifactRow /\ ArtifactHolds(new) /\ (mine.status = "ready" => new.status = "ready")
<1>1. CASE step = "add"
  <2> DEFINE freed == [mine EXCEPT !.quota = "released"]
  <2>1. FailedRow(mine, step) = freed
    BY <1>1 DEF FailedRow
  <2>2. mine.status = "none"
    BY <1>1 DEF AtStep
  <2>3. freed \in ArtifactRow /\ freed.status = "none" /\ freed.quota = "released"
    BY <2>2 DEF ArtifactRow
  <2> HIDE DEF freed
  <2> QED BY <2>1, <2>2, <2>3 DEF ArtifactHolds
<1>2. CASE step = "put"
  <2> DEFINE lost == [mine EXCEPT !.status = "failed"]
             freed == [lost EXCEPT !.quota = "released"]
  <2>1. FailedRow(mine, step) = freed
    BY <1>2 DEF FailedRow
  <2>2. mine.status = "pending"
    BY <1>2 DEF AtStep
  <2>3. lost \in ArtifactRow /\ lost.status = "failed"
    BY DEF ArtifactRow
  <2> HIDE DEF lost
  <2>4. freed \in ArtifactRow /\ freed.status = "failed" /\ freed.quota = "released"
    BY <2>3 DEF ArtifactRow
  <2> HIDE DEF freed
  <2> QED BY <2>1, <2>2, <2>4 DEF ArtifactHolds
<1>3. CASE step \notin {"add", "put"}
  <2>1. FailedRow(mine, step) = mine
    BY <1>3 DEF FailedRow
  <2> QED BY <2>1
<1> QED BY <1>1, <1>2, <1>3

LEMMA UploadFailsInv == ASSUME FilesInv, UploadFails PROVE FilesInv'
<1> DEFINE ok == exec.ok /\ exec.back = "work"
           pc == IF exec.back = "work" THEN "work" ELSE IF exec.ok THEN "publish" ELSE "archive"
           new == FailedRow(Row, exec.step)
           u1 == [exec EXCEPT !.step = "none"]
           u2 == [u1 EXCEPT !.row = 0]
           u3 == [u2 EXCEPT !.ok = ok]
           u4 == [u3 EXCEPT !.pc = pc]
<1>1. /\ exec.step \in {"add", "put", "update", "commit", "announce"} /\ exec \in ExecutionRow
      /\ exec.row \in DOMAIN artifacts /\ exec.back \in {"work", "publish"}
      /\ artifacts \in Seq(ArtifactRow) /\ mishaps' \in Nat
      /\ ready \subseteq [run : Nat, file : Output, row : Nat]
  BY MishapsAreCounted DEF UploadFails, FilesInv, FileTypes, UploadHolds
<1>2. SetRow(new) /\ UNCHANGED <<input, snapshots, ended, ready>>
  BY DEF UploadFails, UploadRest
<1>3. PICK mine \in ArtifactRow : mine = Row
  BY <1>1 DEF Row
<1>4. /\ ArtifactHolds(mine)
      /\ exec.step # "announce" => AtStep(mine, exec.step)
  BY <1>1, <1>3 DEF FilesInv, UploadHolds, Row
<1>5. new \in ArtifactRow /\ ArtifactHolds(new) /\ (mine.status = "ready" => new.status = "ready")
  <2>1. new = FailedRow(mine, exec.step)
    BY <1>3
  <2> HIDE DEF new
  <2>2. PICK step \in {"add", "put", "update", "commit", "announce"} : step = exec.step
    BY <1>1
  <2> QED BY <1>4, <2>1, <2>2, FailedRowHolds
<1>6. exec' = u4
  <2>1. exec' = [exec EXCEPT !.step = "none", !.row = 0, !.ok = exec.ok /\ exec.back = "work", !.pc = pc]
    BY DEF UploadFails
  <2> QED BY <2>1
<1> HIDE DEF new
<1>7. /\ artifacts' \in Seq(ArtifactRow) /\ DOMAIN artifacts' = DOMAIN artifacts
      /\ \A e \in ready : e.row \in DOMAIN artifacts' /\ artifacts'[e.row].status = "ready"
      /\ \A i \in DOMAIN artifacts' : ArtifactHolds(artifacts'[i])
  BY <1>1, <1>2, <1>3, <1>5, RowIsSet DEF Row
<1>8. /\ ok \in BOOLEAN /\ pc \in {"work", "publish", "archive"} /\ (pc = "archive" => ok = FALSE)
  BY <1>1
<1> HIDE DEF ok, pc
<1>9. /\ u1 \in ExecutionRow /\ u1.step = "none" /\ u1.disk = exec.disk /\ u1.base = exec.base
      /\ u1.staged = exec.staged
  BY <1>1 DEF ExecutionRow
<1> HIDE DEF u1
<1>10. /\ u2 \in ExecutionRow /\ u2.step = "none" /\ u2.disk = exec.disk /\ u2.base = exec.base
       /\ u2.staged = exec.staged
  BY <1>9 DEF ExecutionRow
<1> HIDE DEF u2
<1>11. /\ u3 \in ExecutionRow /\ u3.step = "none" /\ u3.disk = exec.disk /\ u3.base = exec.base
       /\ u3.staged = exec.staged /\ u3.ok = ok
  BY <1>8, <1>10 DEF ExecutionRow
<1> HIDE DEF u3
<1>12. /\ u4 \in ExecutionRow /\ u4.step = "none" /\ u4.disk = exec.disk /\ u4.base = exec.base
       /\ u4.staged = exec.staged /\ u4.ok = ok /\ u4.pc = pc
  BY <1>8, <1>11 DEF ExecutionRow
<1> HIDE DEF u4
<1>13. UploadHolds'
  BY <1>2, <1>6, <1>7, <1>12 DEF UploadHolds
<1>14. /\ exec' \in ExecutionRow /\ exec'.disk = exec.disk /\ exec'.base = exec.base
       /\ exec'.staged = exec.staged
       /\ exec'.pc \in {"work", "publish"} \/ (exec'.pc = "archive" /\ ~exec'.ok)
  BY <1>6, <1>8, <1>12
<1>15. ready' = ready /\ UNCHANGED <<input, snapshots, ended>>
  BY <1>2
<1> QED BY <1>1, <1>7, <1>13, <1>14, <1>15, UploadMoves

(* A step of the archive.                                                    *)
LEMMA ArchiveMoves ==
  ASSUME FilesInv, exec.step = "none", exec.pc \in Ending, ArchiveRest, mishaps' \in Nat,
         exec' \in ExecutionRow, exec'.step = "none", exec'.pc \in Ending,
         exec'.disk = exec.disk, exec'.base = exec.base, exec'.staged = exec.staged,
         exec'.ok = exec.ok, snapshots' \in Seq(SnapshotRow), ArchiveHolds', SnapshotsStay
  PROVE  FilesInv'
<1>1. UNCHANGED <<input, artifacts, ready, ended>>
  BY DEF ArchiveRest
<1>2. /\ ThisRun' = ThisRun /\ OutputsAnnounced'
      /\ \A f \in Output : KeptBy(f) => KeptBy(f)'
      /\ \A f \in Output : exec.base[f] # NoFile =>
           \E i \in DOMAIN snapshots' : snapshots'[i].row /\ snapshots'[i].files[f] = exec.base[f]
  BY <1>1, KeptStays
<1>3. FileTypes'
  BY <1>1 DEF FilesInv, FileTypes
<1>4. InputHolds' /\ UploadHolds'
  BY <1>1 DEF FilesInv, InputHolds, UploadHolds
<1>5. ASSUME NEW f \in Output PROVE OutputHolds(f)'
  BY <1>2 DEF FilesInv, OutputHolds
<1> QED BY <1>2, <1>3, <1>4, <1>5 DEF FilesInv

LEMMA PackInv == ASSUME FilesInv, Pack PROVE FilesInv'
<1> DEFINE new == [files |-> exec.disk, object |-> FALSE, row |-> FALSE, quota |-> "reserved"]
<1>1. /\ exec \in ExecutionRow /\ snapshots \in Seq(SnapshotRow) /\ mishaps' \in Nat
      /\ exec.pc = "archive" /\ exec.step = "none" /\ ArchiveRest
  BY DEF Pack, ExecAt, FilesInv, FileTypes
<1>2. snapshots' = Append(snapshots, new) /\ exec' = [exec EXCEPT !.pc = "store"]
  BY DEF Pack
<1>3. /\ new \in SnapshotRow /\ SnapshotHolds(new) /\ new.files = exec.disk /\ ~new.row
      /\ new.quota = "reserved"
  BY <1>1 DEF SnapshotRow, ExecutionRow, SnapshotHolds
<1> HIDE DEF new
<1>4. /\ snapshots' \in Seq(SnapshotRow) /\ Len(snapshots') \in DOMAIN snapshots'
      /\ snapshots'[Len(snapshots')] = new
      /\ \A j \in DOMAIN snapshots : j \in DOMAIN snapshots' /\ snapshots'[j] = snapshots[j]
      /\ \A j \in DOMAIN snapshots' : j \in DOMAIN snapshots \/ j = Len(snapshots')
  BY <1>1, <1>2, <1>3, RowAppended
<1>5. /\ exec' \in ExecutionRow /\ exec'.step = "none" /\ exec'.pc = "store" /\ exec'.disk = exec.disk
      /\ exec'.base = exec.base /\ exec'.staged = exec.staged /\ exec'.ok = exec.ok
  BY <1>1, <1>2 DEF ExecutionRow
<1>6. Snapshot' = new
  BY <1>4 DEF Snapshot
<1>7. \A i \in DOMAIN snapshots' : SnapshotHolds(snapshots'[i])
  BY <1>3, <1>4 DEF FilesInv, ArchiveHolds
<1>8. ArchiveHolds'
  BY <1>3, <1>4, <1>5, <1>6, <1>7 DEF ArchiveHolds
<1>9. SnapshotsStay
  BY <1>4 DEF SnapshotsStay
<1>10. exec.pc \in Ending /\ exec'.pc \in Ending
  BY <1>1, <1>5 DEF Ending
<1> QED BY <1>1, <1>4, <1>5, <1>8, <1>9, <1>10, ArchiveMoves

(* The last snapshot is written.                                             *)
LEMMA SnapshotIsSet ==
  ASSUME FilesInv, Len(snapshots) \in DOMAIN snapshots, NEW new \in SnapshotRow, SetSnapshot(new),
         SnapshotHolds(new), new.files = Snapshot.files, Snapshot.row => new.row
  PROVE  /\ snapshots' \in Seq(SnapshotRow) /\ Len(snapshots') \in DOMAIN snapshots'
         /\ Snapshot' = new /\ DOMAIN snapshots' = DOMAIN snapshots
         /\ \A i \in DOMAIN snapshots' : SnapshotHolds(snapshots'[i])
         /\ SnapshotsStay
<1>1. snapshots \in Seq(SnapshotRow)
  BY DEF FilesInv, FileTypes
<1>2. /\ snapshots' \in Seq(SnapshotRow) /\ DOMAIN snapshots' = DOMAIN snapshots
      /\ Len(snapshots') = Len(snapshots) /\ snapshots'[Len(snapshots)] = new
      /\ \A j \in DOMAIN snapshots : j # Len(snapshots) => snapshots'[j] = snapshots[j]
  BY <1>1, RowReplaced DEF SetSnapshot
<1>3. Snapshot' = new
  BY <1>2 DEF Snapshot
<1>4. \A i \in DOMAIN snapshots' : SnapshotHolds(snapshots'[i])
  BY <1>2 DEF FilesInv, ArchiveHolds
<1>5. SnapshotsStay
  BY <1>2 DEF SnapshotsStay, Snapshot
<1> QED BY <1>2, <1>3, <1>4, <1>5

LEMMA ArchiveStepsInv ==
  ASSUME FilesInv, StoreSnapshot \/ IndexSnapshot \/ BillSnapshot PROVE FilesInv'
<1>1. /\ exec \in ExecutionRow /\ snapshots \in Seq(SnapshotRow) /\ mishaps' \in Nat
      /\ exec.step = "none" /\ ArchiveRest /\ exec.pc \in {"store", "index", "bill"}
      /\ Len(snapshots) \in DOMAIN snapshots
  BY DEF StoreSnapshot, IndexSnapshot, BillSnapshot, ExecAt, FilesInv, FileTypes, ArchiveHolds
<1>2. PICK mine \in SnapshotRow : mine = Snapshot
  BY <1>1 DEF Snapshot
<1>3. /\ SnapshotHolds(mine) /\ mine.quota = "reserved"
      /\ exec.pc \in {"store", "index"} => ~mine.row /\ mine.files = exec.disk
      /\ exec.pc = "index" => mine.object
      /\ exec.pc = "bill" => mine.row
  BY <1>1, <1>2 DEF FilesInv, ArchiveHolds, Snapshot
<1>4. exec.pc \in Ending
  BY <1>1 DEF Ending
<1>6. CASE StoreSnapshot
  <2> DEFINE new == [mine EXCEPT !.object = TRUE]
  <2>1. SetSnapshot(new) /\ exec' = [exec EXCEPT !.pc = "index"] /\ exec.pc = "store"
    BY <1>2, <1>6 DEF StoreSnapshot, ExecAt
  <2>2. /\ new \in SnapshotRow /\ SnapshotHolds(new) /\ new.files = mine.files /\ ~new.row
        /\ new.object /\ new.quota = "reserved"
    BY <1>3, <2>1 DEF SnapshotRow, SnapshotHolds
  <2> HIDE DEF new
  <2>3. /\ snapshots' \in Seq(SnapshotRow) /\ Len(snapshots') \in DOMAIN snapshots'
        /\ Snapshot' = new /\ DOMAIN snapshots' = DOMAIN snapshots
        /\ \A i \in DOMAIN snapshots' : SnapshotHolds(snapshots'[i])
        /\ SnapshotsStay
    BY <1>1, <1>2, <1>3, <2>1, <2>2, SnapshotIsSet
  <2>4. /\ exec' \in ExecutionRow /\ exec'.step = "none" /\ exec'.pc = "index" /\ exec'.disk = exec.disk
        /\ exec'.base = exec.base /\ exec'.staged = exec.staged /\ exec'.ok = exec.ok
    BY <1>1, <2>1 DEF ExecutionRow
  <2>5. ArchiveHolds'
    BY <1>3, <2>1, <2>2, <2>3, <2>4 DEF ArchiveHolds
  <2>8. exec'.pc \in Ending
    BY <2>4 DEF Ending
  <2> QED BY <1>1, <1>4, <2>3, <2>4, <2>5, <2>8, ArchiveMoves
<1>7. CASE IndexSnapshot
  <2> DEFINE new == [mine EXCEPT !.row = TRUE]
             v == [exec EXCEPT !.pc = "bill"]
  <2>1. SetSnapshot(new) /\ exec' = v /\ exec.pc = "index"
    BY <1>2, <1>7 DEF IndexSnapshot, ExecAt
  <2>2. /\ new \in SnapshotRow /\ SnapshotHolds(new) /\ new.files = exec.disk /\ new.row
        /\ new.quota = "reserved"
    BY <1>3, <2>1 DEF SnapshotRow, SnapshotHolds
  <2>9. new.files = mine.files
    BY <1>3, <2>1, <2>2
  <2> HIDE DEF new
  <2>3. /\ snapshots' \in Seq(SnapshotRow) /\ Len(snapshots') \in DOMAIN snapshots'
        /\ Snapshot' = new /\ DOMAIN snapshots' = DOMAIN snapshots
        /\ \A i \in DOMAIN snapshots' : SnapshotHolds(snapshots'[i])
        /\ SnapshotsStay
    BY <1>1, <1>2, <2>1, <2>2, <2>9, SnapshotIsSet
  <2>4. /\ v \in ExecutionRow /\ v.step = "none" /\ v.pc = "bill" /\ v.disk = exec.disk
        /\ v.base = exec.base /\ v.staged = exec.staged /\ v.ok = exec.ok
    BY <1>1 DEF ExecutionRow
  <2> HIDE DEF v
  <2>5. ArchiveHolds'
    BY <2>1, <2>2, <2>3, <2>4 DEF ArchiveHolds
  <2>8. exec'.pc \in Ending
    BY <2>1, <2>4 DEF Ending
  <2> QED BY <1>1, <1>4, <2>1, <2>3, <2>4, <2>5, <2>8, ArchiveMoves
<1>8. CASE BillSnapshot
  <2> DEFINE new == [mine EXCEPT !.quota = "committed"]
  <2>1. SetSnapshot(new) /\ exec' = [exec EXCEPT !.pc = "settle"] /\ exec.pc = "bill"
    BY <1>2, <1>8 DEF BillSnapshot, ExecAt
  <2>2. /\ new \in SnapshotRow /\ SnapshotHolds(new) /\ new.files = mine.files /\ new.row = mine.row
    BY <1>3, <2>1 DEF SnapshotRow, SnapshotHolds
  <2> HIDE DEF new
  <2>3. /\ snapshots' \in Seq(SnapshotRow) /\ Len(snapshots') \in DOMAIN snapshots'
        /\ Snapshot' = new /\ DOMAIN snapshots' = DOMAIN snapshots
        /\ \A i \in DOMAIN snapshots' : SnapshotHolds(snapshots'[i])
        /\ SnapshotsStay
    BY <1>1, <1>2, <2>1, <2>2, SnapshotIsSet
  <2>4. /\ exec' \in ExecutionRow /\ exec'.step = "none" /\ exec'.pc = "settle" /\ exec'.disk = exec.disk
        /\ exec'.base = exec.base /\ exec'.staged = exec.staged /\ exec'.ok = exec.ok
    BY <1>1, <2>1 DEF ExecutionRow
  <2>5. ArchiveHolds'
    BY <2>3, <2>4 DEF ArchiveHolds
  <2>8. exec'.pc \in Ending
    BY <2>4 DEF Ending
  <2> QED BY <1>1, <1>4, <2>3, <2>4, <2>5, <2>8, ArchiveMoves
<1> QED BY <1>6, <1>7, <1>8

LEMMA ArchiveFailsInv == ASSUME FilesInv, ArchiveFails PROVE FilesInv'
<1>1. /\ exec \in ExecutionRow /\ snapshots \in Seq(SnapshotRow) /\ mishaps' \in Nat
      /\ exec.step = "none" /\ ArchiveRest /\ exec.pc \in Ending
      /\ exec' = [exec EXCEPT !.pc = "settle"]
  BY MishapsAreCounted DEF ArchiveFails, FilesInv, FileTypes, Ending
<1>2. /\ exec' \in ExecutionRow /\ exec'.step = "none" /\ exec'.pc = "settle" /\ exec'.disk = exec.disk
      /\ exec'.base = exec.base /\ exec'.staged = exec.staged /\ exec'.ok = exec.ok
  BY <1>1 DEF ExecutionRow
<1>3. exec'.pc \in Ending
  BY <1>2 DEF Ending
<1>4. CASE exec.pc \in {"store", "index"}
  <2>1. PICK mine \in SnapshotRow : mine = Snapshot
    BY <1>1, <1>4 DEF Snapshot, FilesInv, ArchiveHolds
  <2> DEFINE new == [mine EXCEPT !.quota = "released"]
  <2>2. SetSnapshot(new) /\ Len(snapshots) \in DOMAIN snapshots /\ ~mine.row
    BY <1>4, <2>1 DEF ArchiveFails, FilesInv, ArchiveHolds
  <2>3. new \in SnapshotRow /\ SnapshotHolds(new) /\ new.files = mine.files /\ ~new.row
    BY <2>2 DEF SnapshotRow, SnapshotHolds
  <2> HIDE DEF new
  <2>4. /\ snapshots' \in Seq(SnapshotRow) /\ Len(snapshots') \in DOMAIN snapshots'
        /\ Snapshot' = new /\ DOMAIN snapshots' = DOMAIN snapshots
        /\ \A i \in DOMAIN snapshots' : SnapshotHolds(snapshots'[i])
        /\ SnapshotsStay
    BY <2>1, <2>2, <2>3, SnapshotIsSet
  <2>6. ArchiveHolds'
    BY <1>2, <2>4 DEF ArchiveHolds
  <2> QED BY <1>1, <1>2, <1>3, <2>4, <2>6, ArchiveMoves
<1>5. CASE exec.pc \notin {"store", "index"}
  <2>1. UNCHANGED snapshots
    BY <1>5 DEF ArchiveFails
  <2>2. ArchiveHolds'
    BY <1>2, <2>1 DEF FilesInv, ArchiveHolds
  <2>3. SnapshotsStay
    BY <2>1 DEF SnapshotsStay
  <2> QED BY <1>1, <1>2, <1>3, <2>1, <2>2, <2>3, ArchiveMoves
<1> QED BY <1>4, <1>5

LEMMA SettleRunInv == ASSUME FilesInv, SettleRun PROVE FilesInv'
<1> DEFINE new == [ok |-> exec.ok, left |-> exec.disk, base |-> exec.base]
<1>1. /\ exec \in ExecutionRow /\ exec.pc = "settle" /\ ended \in Seq(EndedRow) /\ mishaps \in Nat
      /\ UNCHANGED <<input, artifacts, ready, snapshots, mishaps>> /\ exec' = NoExec
      /\ ended' = Append(ended, new)
  BY DEF SettleRun, ExecAt, FilesInv, FileTypes
<1>2. new \in EndedRow
  BY <1>1 DEF EndedRow, ExecutionRow
<1>3. /\ ended' \in Seq(EndedRow) /\ Len(ended') = Len(ended) + 1 /\ Len(ended) \in Nat
      /\ ended'[Len(ended')] = new
      /\ \A j \in DOMAIN ended : ended'[j] = ended[j]
      /\ \A j \in DOMAIN ended' : j \in DOMAIN ended \/ j = Len(ended')
  BY <1>1, <1>2, RowAppended
<1>4. ThisRun \in Nat /\ ThisRun = Len(ended') /\ ThisRun' = ThisRun + 1
  BY <1>3 DEF ThisRun
<1>5. FileTypes'
  BY <1>1, <1>3, NoExecType DEF FilesInv, FileTypes
<1>6. InputHolds' /\ UploadHolds' /\ ArchiveHolds'
  BY <1>1, NoExecType DEF FilesInv, InputHolds, UploadHolds, ArchiveHolds
<1>7. ASSUME NEW f \in Output PROVE OutputHolds(f)'
  BY <1>1, NoExecType DEF OutputHolds, Ending
<1>8. OutputsAnnounced'
  <2>1. ASSUME exec.ok, NEW f \in Output, exec.disk[f] # NoFile
        PROVE  \/ \E e \in ready : e.run = ThisRun /\ e.file = f
               \/ exec.disk[f] = exec.base[f] /\ InSnapshot(f, exec.disk[f])
    <3>1. OutputHolds(f) /\ exec.pc \in Ending
      BY <1>1 DEF FilesInv, Ending
    <3> QED BY <2>1, <3>1 DEF OutputHolds, KeptBy, InSnapshot
  <2>3. ASSUME NEW r \in DOMAIN ended', NEW f \in Output, ended'[r].ok, ended'[r].left[f] # NoFile
        PROVE  \/ \E e \in ready' : e.run = r /\ e.file = f
               \/ ended'[r].left[f] = ended'[r].base[f]
                  /\ \E i \in DOMAIN snapshots : snapshots[i].row /\ snapshots[i].files[f] = ended'[r].left[f]
    <3>1. CASE r \in DOMAIN ended
      BY <1>1, <1>3, <2>3, <3>1 DEF FilesInv, OutputsAnnounced, InSnapshot
    <3>2. CASE r = Len(ended')
      <4>1. ended'[r] = new /\ r = ThisRun
        BY <1>3, <1>4, <3>2
      <4> QED BY <1>1, <2>1, <2>3, <4>1 DEF InSnapshot
    <3> QED BY <1>3, <3>1, <3>2
  <2> QED BY <1>1, <2>3 DEF OutputsAnnounced, InSnapshot
<1> QED BY <1>5, <1>6, <1>7, <1>8 DEF FilesInv

LEMMA FilesStepInv == FilesInv /\ [FilesNext]_fileVars => FilesInv'
<1> SUFFICES ASSUME FilesInv, [FilesNext]_fileVars PROVE FilesInv'
  OBVIOUS
<1>1. CASE UploadInput \/ StoreInput \/ ReadyInput
  BY <1>1, InputStepsInv
<1>2. CASE StartRun \/ StartFails \/ CrashRun
  BY <1>2, StartRunInv, StartFailsInv, CrashRunInv
<1>3. CASE \E f \in Output : WriteFile(f) \/ PublishTool(f) \/ PublishOutput(f)
  BY <1>3, WriteFileInv, PublishInv
<1>4. CASE (\E ok \in BOOLEAN : RuntimeEnds(ok)) \/ OutputsPublished \/ CollectFilesFails
  BY <1>4, RunProceedsInv
<1>5. CASE AddPending \/ PutObject \/ UpdateReady \/ CommitBytes \/ Announce \/ UploadFails
  BY <1>5, UploadStepsInv, AnnounceInv, UploadFailsInv
<1>6. CASE Pack \/ StoreSnapshot \/ IndexSnapshot \/ BillSnapshot \/ ArchiveFails \/ SettleRun
  BY <1>6, PackInv, ArchiveStepsInv, ArchiveFailsInv, SettleRunInv
<1>7. CASE UNCHANGED fileVars
  <2>2. UNCHANGED <<input, artifacts, ready, snapshots, exec, ended, mishaps>>
    BY <1>7 DEF fileVars
  <2>3. FileTypes' /\ InputHolds' /\ UploadHolds' /\ ArchiveHolds' /\ OutputsAnnounced'
    BY <2>2 DEF FilesInv, FileTypes, InputHolds, UploadHolds, ArchiveHolds, Snapshot, OutputsAnnounced,
               InSnapshot
  <2>4. \A f \in Output : OutputHolds(f)'
    BY <2>2 DEF FilesInv, OutputHolds, KeptBy, ThisRun
  <2> QED BY <2>3, <2>4 DEF FilesInv
<1> QED BY <1>1, <1>2, <1>3, <1>4, <1>5, <1>6, <1>7 DEF FilesNext

(* ArtifactService, WorkspaceService and RunOrchestrator.execute: whichever  *)
(* step of a Run fails and however often its worker crashes, what is offered *)
(* is in the object store, bytes are charged for what is there and given back *)
(* only for what no row offers, and a Run that succeeded has announced every *)
(* output it leaves, unless it left it as restored from a snapshot.          *)
THEOREM OutputsAreKept == ServicesSpec => []OutputsKept
<1>1. ServicesInit => FilesInv
  BY FilesPart, FilesInitInv
<1>2. FilesInv /\ [ServicesNext]_servicesVars => FilesInv'
  BY FilesPart, FilesStepInv
<1>3. FilesInv => OutputsKept
  BY DEF FilesInv, InputHolds, UploadHolds, ArtifactHolds, ArchiveHolds, SnapshotHolds, OutputsKept,
         FilesAccounted
<1> QED BY <1>1, <1>2, <1>3, PTL DEF ServicesSpec

-----------------------------------------------------------------------------
(* The release workflow.                                                     *)

LEMMA ReleasePart ==
  /\ ServicesInit => ReleaseInit
  /\ [ServicesNext]_servicesVars => [ReleaseNext]_releaseVars
<1>1. ServicesInit => ReleaseInit
  BY DEF ServicesInit
<1>2. ServicesNext => ReleaseNext \/ UNCHANGED releaseVars
  BY DEF ServicesNext, Only
<1>3. UNCHANGED servicesVars => UNCHANGED releaseVars
  BY DEF servicesVars
<1> QED BY <1>1, <1>2, <1>3

Deployed == {Vacant, "old", "release", "other"}
PlaceRow == [revision : Nat, routes : SUBSET Deployed, healthy : Deployed]
OrderRow == [status : {"none", "queued", "succeeded", "failed"}, to : Deployed,
             previous : Deployed, expected : Nat, part : BOOLEAN]
Posting == {"idle", "check", "post", "wait"}
Undoing == {"undo", "restore", "rewait"}
AttemptRow == [pc : Posting \cup Undoing \cup Ends, at : Nat, entries : Nat, answered : Nat,
               lost : SUBSET Bundle, read : Nat, part : BOOLEAN]

Known(order) == order.status # "none"
Done(order) == order.status = "succeeded"

(* An Agent's environment and its three Deployments: what was there before  *)
(* the release was never the release; once the rollback is applied a        *)
(* promotion that is still queued has an old revision.                      *)
PlaceHolds(env, promotion, rollback, manual) ==
  /\ Known(promotion) => /\ promotion.to = "release" /\ promotion.previous # "release"
                         /\ promotion.expected <= env.revision
  /\ Known(rollback) => /\ Known(promotion) /\ rollback.to = promotion.previous
                        /\ ~rollback.part
  /\ Known(manual) => manual.to = "other" /\ ~manual.part
  /\ ~Known(promotion) => env.healthy # "release" /\ "release" \notin env.routes
  /\ Done(rollback) => /\ "release" \notin env.routes
                       /\ promotion.status = "queued" => promotion.expected < env.revision
  /\ Done(promotion) => "release" \in env.routes \/ Known(rollback) \/ Known(manual)

BundleHolds(b) ==
  PlaceHolds(place[b], orders[<<"release", b>>], orders[<<"rollback", b>>], orders[<<"manual", b>>])

Undone(b) == orders[<<"release", b>>].previous # Vacant => Done(orders[<<"rollback", b>>])

(* An execution: every Agent it has an entry for has its Deployment; what   *)
(* it went past is deployed, or undone.                                     *)
AttemptHolds(mine) ==
  /\ mine.entries = mine.answered /\ mine.entries <= Bundles
  /\ \A b \in 1 .. mine.entries : Known(orders[<<"release", b>>])
  /\ mine.pc \in Posting => /\ mine.at \in Bundle
                            /\ mine.at = mine.entries + IF mine.pc = "wait" THEN 0 ELSE 1
                            /\ \A b \in Bundle : b < mine.at => Done(orders[<<"release", b>>])
  /\ mine.pc = "promoted" => \A b \in Bundle : Done(orders[<<"release", b>>])
  /\ mine.pc \in Undoing => /\ mine.at \in 1 .. mine.entries
                            /\ \A b \in mine.at + 1 .. mine.entries : Undone(b)
  /\ mine.pc = "restored" => \A b \in 1 .. mine.entries : Undone(b)

PlacesHold ==
  /\ place \in [Bundle -> PlaceRow]
  /\ orders \in [OrderKind \X Bundle -> OrderRow]
  /\ \A key \in OrderKind \X Bundle : Known(orders[key]) \/ orders[key] = NoOrder
  /\ \A b \in Bundle : BundleHolds(b)

ReleaseInv ==
  /\ PlacesHold
  /\ attempts \in [Attempt -> AttemptRow]
  /\ \A a \in Attempt : AttemptHolds(attempts[a])

(* Deployments are neither taken back nor changed once they have succeeded.  *)
OrdersGrow ==
  \A key \in OrderKind \X Bundle :
    /\ Known(orders[key]) => Known(orders'[key]) /\ orders'[key].previous = orders[key].previous
    /\ Done(orders[key]) => Done(orders'[key])

LEMMA ReleaseInitInv == ReleaseInit => ReleaseInv
<1> SUFFICES ASSUME ReleaseInit PROVE ReleaseInv
  OBVIOUS
<1>1. /\ place \in [Bundle -> PlaceRow]
      /\ \A b \in Bundle : place[b].healthy # "release" /\ "release" \notin place[b].routes
  BY DEF ReleaseInit, PlaceRow, Deployed, Vacant
<1>2. NoOrder \in OrderRow /\ NoOrder.status = "none"
  BY DEF NoOrder, OrderRow, Deployed, Vacant
<1>3. /\ orders \in [OrderKind \X Bundle -> OrderRow]
      /\ \A key \in OrderKind \X Bundle : orders[key] = NoOrder /\ ~Known(orders[key]) /\ ~Done(orders[key])
  BY <1>2 DEF ReleaseInit, Known, Done
<1>4. ASSUME NEW b \in Bundle PROVE BundleHolds(b)
  <2>1. \A way \in OrderKind : <<way, b>> \in OrderKind \X Bundle
    OBVIOUS
  <2>2. \A way \in OrderKind : ~Known(orders[<<way, b>>]) /\ ~Done(orders[<<way, b>>])
    BY <1>3, <2>1
  <2>3. {"release", "rollback", "manual"} = OrderKind
    BY DEF OrderKind
  <2> QED BY <1>1, <2>2, <2>3 DEF BundleHolds, PlaceHolds
<1>5. /\ Unstarted \in AttemptRow /\ Unstarted.pc = "idle" /\ Unstarted.at = 1
      /\ Unstarted.entries = 0 /\ Unstarted.answered = 0
  BY DEF Unstarted, AttemptRow, Posting
<1>6. AttemptHolds(Unstarted)
  BY <1>5, ReleaseAssumption DEF AttemptHolds, Posting, Undoing, Bundle
<1>7. attempts \in [Attempt -> AttemptRow] /\ \A a \in Attempt : attempts[a] = Unstarted
  BY <1>5 DEF ReleaseInit
<1> QED BY <1>1, <1>3, <1>4, <1>6, <1>7 DEF ReleaseInv, PlacesHold

LEMMA AttemptKeeps ==
  ASSUME OrdersGrow, NEW mine \in AttemptRow, AttemptHolds(mine)
  PROVE  AttemptHolds(mine)'
<1>1. /\ \A b \in Bundle : <<"release", b>> \in OrderKind \X Bundle
      /\ \A b \in Bundle : <<"rollback", b>> \in OrderKind \X Bundle
  BY DEF OrderKind
<1>2. \A b \in 1 .. mine.entries : b \in Bundle
  BY ReleaseAssumption DEF AttemptHolds, AttemptRow, Bundle
<1>3. \A b \in Bundle : Known(orders[<<"release", b>>]) =>
                          Known(orders'[<<"release", b>>]) /\ (Undone(b) => Undone(b)')
  BY <1>1 DEF OrdersGrow, Undone
<1>4. \A b \in Bundle : Done(orders[<<"release", b>>]) => Done(orders'[<<"release", b>>])
  BY <1>1 DEF OrdersGrow
<1>5. \A b \in 1 .. mine.entries : Known(orders[<<"release", b>>]) /\ Known(orders'[<<"release", b>>])
  BY <1>2, <1>3 DEF AttemptHolds
<1>6. \A b \in 1 .. mine.entries : Undone(b) => Undone(b)'
  BY <1>2, <1>3, <1>5
<1>7. mine.pc \in Undoing => /\ mine.at \in 1 .. mine.entries
                             /\ \A b \in mine.at + 1 .. mine.entries : Undone(b)'
  BY <1>6 DEF AttemptHolds, AttemptRow
<1>8. mine.pc = "restored" => \A b \in 1 .. mine.entries : Undone(b)'
  BY <1>6 DEF AttemptHolds
<1> QED BY <1>4, <1>5, <1>7, <1>8 DEF AttemptHolds

LEMMA AttemptMoves ==
  ASSUME ReleaseInv, PlacesHold', OrdersGrow, NEW a \in Attempt, NEW next \in AttemptRow,
         Becomes(a, next), AttemptHolds(next)'
  PROVE  ReleaseInv'
<1>1. attempts' \in [Attempt -> AttemptRow]
  BY DEF ReleaseInv, Becomes
<1>2. ASSUME NEW c \in Attempt PROVE AttemptHolds(attempts[c])'
  <2>1. PICK mine \in AttemptRow : mine = attempts[c] /\ AttemptHolds(mine)
    BY DEF ReleaseInv
  <2>2. AttemptHolds(mine)'
    BY <2>1, AttemptKeeps
  <2>3. c # a => attempts'[c] = mine
    BY <2>1 DEF ReleaseInv, Becomes
  <2>4. c = a => attempts'[c] = next
    BY DEF ReleaseInv, Becomes
  <2> QED BY <2>2, <2>3, <2>4 DEF AttemptHolds
<1> QED BY <1>1, <1>2 DEF ReleaseInv

LEMMA AttemptsRest ==
  ASSUME ReleaseInv, PlacesHold', OrdersGrow, UNCHANGED attempts
  PROVE  ReleaseInv'
<1>2. ASSUME NEW c \in Attempt PROVE AttemptHolds(attempts[c])'
  <2>1. PICK mine \in AttemptRow : mine = attempts[c] /\ AttemptHolds(mine)
    BY DEF ReleaseInv
  <2>2. AttemptHolds(mine)'
    BY <2>1, AttemptKeeps
  <2> QED BY <2>1, <2>2 DEF AttemptHolds
<1> QED BY <1>2 DEF ReleaseInv

LEMMA OrdersRest ==
  ASSUME ReleaseInv, UNCHANGED <<place, orders>>
  PROVE  PlacesHold' /\ OrdersGrow
<1>1. OrdersGrow
  BY DEF OrdersGrow
<1>2. \A b \in Bundle : BundleHolds(b)'
  BY DEF ReleaseInv, PlacesHold, BundleHolds
<1> QED BY <1>1, <1>2 DEF ReleaseInv, PlacesHold

(* The Deployments and the place of one Agent change: the others' are kept.  *)
LEMMA BundleMoves ==
  ASSUME PlacesHold, NEW b \in Bundle, NEW way \in OrderKind, NEW order \in OrderRow,
         Known(order), NEW env \in PlaceRow,
         place' = [place EXCEPT ![b] = env], orders' = [orders EXCEPT ![<<way, b>>] = order],
         BundleHolds(b)'
  PROVE  PlacesHold'
<1>1. place' \in [Bundle -> PlaceRow] /\ orders' \in [OrderKind \X Bundle -> OrderRow]
  BY DEF PlacesHold
<1>2. \A key \in OrderKind \X Bundle : Known(orders'[key]) \/ orders'[key] = NoOrder
  BY DEF PlacesHold
<1>3. ASSUME NEW c \in Bundle, c # b PROVE BundleHolds(c)'
  <2>1. place'[c] = place[c]
    BY <1>3 DEF PlacesHold
  <2>2. /\ orders'[<<"release", c>>] = orders[<<"release", c>>]
        /\ orders'[<<"rollback", c>>] = orders[<<"rollback", c>>]
        /\ orders'[<<"manual", c>>] = orders[<<"manual", c>>]
    BY <1>3 DEF PlacesHold, OrderKind
  <2> QED BY <2>1, <2>2 DEF PlacesHold, BundleHolds
<1> QED BY <1>1, <1>2, <1>3 DEF PlacesHold

(* What is asked of the Deployment of each kind when it is stored.           *)
Askable(way, b, to, part) ==
  /\ way = "release" => to = "release"
  /\ way = "rollback" => /\ Known(orders[<<"release", b>>]) /\ ~part
                         /\ to = orders[<<"release", b>>].previous
  /\ way = "manual" => to = "other" /\ ~part

LEMMA OrderPlaced ==
  ASSUME PlacesHold, UNCHANGED place, NEW b \in Bundle, NEW way \in OrderKind,
         orders[<<way, b>>] = NoOrder, NEW to \in Deployed, NEW expected, NEW part \in BOOLEAN,
         Orders(<<way, b>>, to, expected, part), Askable(way, b, to, part)
  PROVE  PlacesHold' /\ OrdersGrow /\ Known(orders'[<<way, b>>])
<1> DEFINE order == [status |-> "queued", to |-> to, previous |-> place[b].healthy,
                     expected |-> expected, part |-> part]
<1>1. place[b] \in PlaceRow /\ place'[b] = place[b] /\ place' = [place EXCEPT ![b] = place[b]]
  BY DEF PlacesHold
<1>2. orders' = [orders EXCEPT ![<<way, b>>] = order] /\ expected = place[b].revision
  BY DEF Orders
<1>3. order \in OrderRow /\ Known(order) /\ ~Done(order)
  BY <1>1, <1>2 DEF OrderRow, PlaceRow, Known, Done
<1>4. /\ order.status = "queued" /\ order.to = to /\ order.previous = place[b].healthy
      /\ order.expected = place[b].revision /\ order.part = part
  BY <1>2
<1> HIDE DEF order
<1>5. NoOrder.status = "none"
  BY DEF NoOrder
<1>6. OrdersGrow
  <2> SUFFICES ASSUME NEW key \in OrderKind \X Bundle
               PROVE  /\ Known(orders[key]) => Known(orders'[key]) /\ orders'[key].previous = orders[key].previous
                      /\ Done(orders[key]) => Done(orders'[key])
    BY DEF OrdersGrow
  <2>1. CASE key = <<way, b>>
    BY <1>5, <2>1 DEF Known, Done
  <2>2. CASE key # <<way, b>>
    BY <1>2, <2>2 DEF PlacesHold
  <2> QED BY <2>1, <2>2
<1>7. \A other \in OrderKind : orders'[<<other, b>>] = IF other = way THEN order ELSE orders[<<other, b>>]
  BY <1>2 DEF PlacesHold
<1>8. BundleHolds(b)'
  <2> DEFINE p == orders[<<"release", b>>]
             q == orders[<<"rollback", b>>]
             m == orders[<<"manual", b>>]
             env == place[b]
  <2>1. PlaceHolds(env, p, q, m)
    BY DEF PlacesHold, BundleHolds
  <2>2. p \in OrderRow /\ q \in OrderRow /\ m \in OrderRow
    BY DEF PlacesHold, OrderKind
  <2>3. CASE way = "release"
    <3>1. /\ orders'[<<"release", b>>] = order /\ orders'[<<"rollback", b>>] = q
          /\ orders'[<<"manual", b>>] = m
      BY <1>7, <2>3 DEF OrderKind
    <3>2. ~Known(p)
      BY <1>5, <2>3 DEF Known
    <3>3. ~Known(q) /\ ~Done(q) /\ env.healthy # "release"
      BY <2>1, <3>2 DEF PlaceHolds, Known, Done
    <3>4. PlaceHolds(env, order, q, m)
      BY <1>1, <1>3, <1>4, <2>1, <2>3, <3>3 DEF PlaceHolds, Askable, PlaceRow
    <3> QED BY <1>1, <3>1, <3>4 DEF BundleHolds
  <2>4. CASE way = "rollback"
    <3>1. /\ orders'[<<"release", b>>] = p /\ orders'[<<"rollback", b>>] = order
          /\ orders'[<<"manual", b>>] = m
      BY <1>7, <2>4 DEF OrderKind
    <3>2. PlaceHolds(env, p, order, m)
      BY <1>3, <1>4, <2>1, <2>4 DEF PlaceHolds, Askable
    <3> QED BY <1>1, <3>1, <3>2 DEF BundleHolds
  <2>5. CASE way = "manual"
    <3>1. /\ orders'[<<"release", b>>] = p /\ orders'[<<"rollback", b>>] = q
          /\ orders'[<<"manual", b>>] = order
      BY <1>7, <2>5 DEF OrderKind
    <3>2. PlaceHolds(env, p, q, order)
      BY <1>3, <1>4, <2>1, <2>5 DEF PlaceHolds, Askable
    <3> QED BY <1>1, <3>1, <3>2 DEF BundleHolds
  <2> QED BY <2>3, <2>4, <2>5 DEF OrderKind
<1>9. PlacesHold'
  BY <1>1, <1>2, <1>3, <1>8, BundleMoves
<1> QED BY <1>3, <1>6, <1>7, <1>9

(* The controller ends a Deployment.  One that is applied leaves the routes  *)
(* of its kind; a queued promotion is not applied over a rollback.           *)
Applied(order, env, status, routes, next, o) ==
  /\ order.status = "queued" /\ status \in {"succeeded", "failed"} /\ routes \in BOOLEAN
  /\ status = "succeeded" => routes
  /\ ~routes => next = env
  /\ routes => /\ env.revision = order.expected
               /\ next.revision = env.revision + 1
               /\ next.routes = RoutesAfter(order, env)
               /\ next.healthy = IF order.part THEN env.healthy ELSE order.to
  /\ o = [order EXCEPT !.status = status]

LEMMA ReconcileHolds ==
  ASSUME NEW env \in PlaceRow, NEW p \in OrderRow, NEW q \in OrderRow, NEW m \in OrderRow,
         PlaceHolds(env, p, q, m), NEW status, NEW routes, NEW way \in OrderKind,
         NEW order \in OrderRow, NEW next \in PlaceRow, NEW o \in OrderRow,
         order = IF way = "release" THEN p ELSE IF way = "rollback" THEN q ELSE m,
         Applied(order, env, status, routes, next, o)
  PROVE  PlaceHolds(next, IF way = "release" THEN o ELSE p, IF way = "rollback" THEN o ELSE q,
                    IF way = "manual" THEN o ELSE m)
<1>1. /\ o.status = status /\ o.to = order.to /\ o.previous = order.previous
      /\ o.expected = order.expected /\ o.part = order.part
  BY DEF OrderRow, Applied
<1>0. /\ order.status = "queued" /\ status \in {"succeeded", "failed"} /\ routes \in BOOLEAN
      /\ status = "succeeded" => routes
      /\ ~routes => next = env
      /\ routes => /\ env.revision = order.expected
                   /\ next.revision = env.revision + 1
                   /\ next.routes = RoutesAfter(order, env)
                   /\ next.healthy = IF order.part THEN env.healthy ELSE order.to
  BY DEF Applied
<1>2. Known(order) /\ ~Done(order) /\ Known(o) /\ (Done(o) <=> status = "succeeded")
  BY <1>0, <1>1 DEF Known, Done
<1>3. env.revision \in Nat /\ p.expected \in Nat
  BY <1>0 DEF PlaceRow, OrderRow
<1>4. CASE way = "release"
  <2>1. order = p /\ p.to = "release" /\ p.previous # "release" /\ p.expected <= env.revision
    BY <1>0, <1>2, <1>4 DEF PlaceHolds
  <2>2. Done(q) => ~routes
    BY <1>0, <1>3, <1>4, <2>1 DEF PlaceHolds
  <2>3. routes => "release" \in next.routes
    BY <1>0, <2>1 DEF RoutesAfter
  <2>4. next.revision >= env.revision
    BY <1>0, <1>3
  <2>5. o.status # "queued"
    BY <1>0, <1>1
  <2>6. Done(q) => "release" \notin next.routes
    BY <1>0, <2>2 DEF PlaceHolds
  <2>7. Done(o) => "release" \in next.routes
    BY <1>0, <1>2, <2>3
  <2>8. Known(p) /\ p.expected <= next.revision
    BY <1>0, <1>2, <1>3, <2>1, <2>4 DEF PlaceRow
  <2> QED BY <1>0, <1>1, <1>2, <1>4, <2>1, <2>5, <2>6, <2>7, <2>8 DEF PlaceHolds
<1>5. CASE way = "rollback"
  <2>1. order = q /\ Known(p) /\ q.to = p.previous /\ ~q.part /\ p.previous # "release" /\ p.expected <= env.revision
    BY <1>0, <1>2, <1>5 DEF PlaceHolds
  <2>2. routes => /\ "release" \notin next.routes /\ p.expected < next.revision
    BY <1>0, <1>3, <2>1 DEF RoutesAfter
  <2>3. p.expected <= next.revision
    BY <1>0, <1>3, <2>1, <2>2 DEF PlaceRow
  <2> QED BY <1>0, <1>1, <1>2, <1>5, <2>1, <2>2, <2>3 DEF PlaceHolds
<1>6. CASE way = "manual"
  <2>1. order = m /\ m.to = "other" /\ ~m.part
    BY <1>0, <1>2, <1>6 DEF PlaceHolds, OrderKind
  <2>2. routes => "release" \notin next.routes /\ next.healthy # "release" /\ next.revision = env.revision + 1
    BY <1>0, <2>1 DEF RoutesAfter
  <2>3. Known(p) => p.expected <= next.revision
    BY <1>0, <1>3, <2>2 DEF PlaceHolds
  <2>4. Done(q) => "release" \notin next.routes /\ (p.status = "queued" => p.expected < next.revision)
    BY <1>0, <1>3, <2>2 DEF PlaceHolds
  <2>5. ~Known(p) => next.healthy # "release" /\ "release" \notin next.routes
    BY <1>0, <2>2 DEF PlaceHolds
  <2> QED BY <1>0, <1>1, <1>2, <1>6, <2>1, <2>3, <2>4, <2>5 DEF PlaceHolds
<1> QED BY <1>0, <1>4, <1>5, <1>6 DEF OrderKind

LEMMA ReconcileInv ==
  ASSUME ReleaseInv, NEW way \in OrderKind, NEW b \in Bundle, Reconcile(<<way, b>>)
  PROVE  ReleaseInv'
<1> DEFINE env == place[b]
           p == orders[<<"release", b>>]
           q == orders[<<"rollback", b>>]
           m == orders[<<"manual", b>>]
           order == orders[<<way, b>>]
<1>1. /\ order.status = "queued" /\ UNCHANGED attempts
      /\ \E routes \in BOOLEAN, status \in {"succeeded", "failed"} :
           /\ routes => env.revision = order.expected /\ (order.part => env.healthy # Vacant)
           /\ status = "succeeded" => routes
           /\ orders' = [orders EXCEPT ![<<way, b>>].status = status]
           /\ place' = IF routes
                THEN [place EXCEPT ![b] =
                        [revision |-> env.revision + 1, routes |-> RoutesAfter(order, env),
                         healthy |-> IF order.part THEN env.healthy ELSE order.to]]
                ELSE place
  BY DEF Reconcile, Current
<1>2. PICK routes \in BOOLEAN, status \in {"succeeded", "failed"} :
           /\ routes => env.revision = order.expected
           /\ status = "succeeded" => routes
           /\ orders' = [orders EXCEPT ![<<way, b>>].status = status]
           /\ place' = IF routes
                THEN [place EXCEPT ![b] =
                        [revision |-> env.revision + 1, routes |-> RoutesAfter(order, env),
                         healthy |-> IF order.part THEN env.healthy ELSE order.to]]
                ELSE place
  BY <1>1
<1>3. /\ env \in PlaceRow /\ p \in OrderRow /\ q \in OrderRow /\ m \in OrderRow /\ order \in OrderRow
      /\ PlaceHolds(env, p, q, m)
  BY DEF ReleaseInv, PlacesHold, BundleHolds, OrderKind
<1>4. order = IF way = "release" THEN p ELSE IF way = "rollback" THEN q ELSE m
  BY DEF OrderKind
<1> DEFINE set == [revision |-> env.revision + 1, routes |-> RoutesAfter(order, env),
                   healthy |-> IF order.part THEN env.healthy ELSE order.to]
           next == IF routes THEN set ELSE env
           o == [order EXCEPT !.status = status]
<1>5. place' = [place EXCEPT ![b] = next] /\ place'[b] = next
  BY <1>2, <1>3 DEF ReleaseInv, PlacesHold
<1>6. orders' = [orders EXCEPT ![<<way, b>>] = o] /\ orders'[<<way, b>>] = o
  BY <1>2 DEF ReleaseInv, PlacesHold
<1>7. set \in PlaceRow
  BY <1>3 DEF PlaceRow, OrderRow, RoutesAfter
<1>8. next \in PlaceRow
  BY <1>3, <1>7
<1>9. /\ o \in OrderRow /\ o.status = status /\ o.previous = order.previous /\ Known(o)
  BY <1>3 DEF OrderRow, Known
<1>10. PlaceHolds(next, IF way = "release" THEN o ELSE p, IF way = "rollback" THEN o ELSE q,
                  IF way = "manual" THEN o ELSE m)
  <2>1. ~routes => next = env
    OBVIOUS
  <2>2. routes => /\ next.revision = env.revision + 1
                  /\ next.routes = RoutesAfter(order, env)
                  /\ next.healthy = IF order.part THEN env.healthy ELSE order.to
    OBVIOUS
  <2>3. o = [order EXCEPT !.status = status]
    OBVIOUS
  <2> HIDE DEF next, o, set, order, env, p, q, m
  <2>4. Applied(order, env, status, routes, next, o)
    BY <1>1, <1>2, <2>1, <2>2, <2>3 DEF Applied
  <2> QED BY <1>3, <1>4, <1>8, <1>9, <2>4, ReconcileHolds
<1> HIDE DEF o, next, set
<1>11. /\ orders'[<<"release", b>>] = IF way = "release" THEN o ELSE p
       /\ orders'[<<"rollback", b>>] = IF way = "rollback" THEN o ELSE q
       /\ orders'[<<"manual", b>>] = IF way = "manual" THEN o ELSE m
  BY <1>6 DEF ReleaseInv, PlacesHold, OrderKind
<1>12. BundleHolds(b)'
  BY <1>5, <1>10, <1>11 DEF BundleHolds
<1>13. PlacesHold'
  BY <1>5, <1>6, <1>8, <1>9, <1>12, BundleMoves DEF ReleaseInv
<1>14. OrdersGrow
  <2> SUFFICES ASSUME NEW key \in OrderKind \X Bundle
               PROVE  /\ Known(orders[key]) => Known(orders'[key]) /\ orders'[key].previous = orders[key].previous
                      /\ Done(orders[key]) => Done(orders'[key])
    BY DEF OrdersGrow
  <2>1. CASE key = <<way, b>>
    BY <1>1, <1>6, <1>9, <2>1 DEF Known, Done
  <2>2. CASE key # <<way, b>>
    BY <1>6, <2>2 DEF ReleaseInv, PlacesHold
  <2> QED BY <2>1, <2>2
<1> QED BY <1>1, <1>13, <1>14, AttemptsRest

LEMMA AttemptIs ==
  ASSUME ReleaseInv, NEW a \in Attempt
  PROVE  attempts[a] \in AttemptRow /\ AttemptHolds(attempts[a])
BY DEF ReleaseInv

(* From the promotion to the way back: the entries are undone.               *)
LEMMA RaisedInv ==
  ASSUME ReleaseInv, PlacesHold', OrdersGrow, NEW a \in Attempt, NEW mine \in AttemptRow,
         AttemptHolds(mine)', Becomes(a, Undoes(mine))
  PROVE  ReleaseInv'
<1> DEFINE pc == IF mine.entries = 0 THEN "raised" ELSE "undo"
           u == [mine EXCEPT !.pc = pc]
           next == [u EXCEPT !.at = mine.entries]
<1>3. Becomes(a, next)
  BY DEF Undoes
<1>4. pc \in {"raised", "undo"} /\ (mine.entries = 0 <=> pc = "raised")
  OBVIOUS
<1> HIDE DEF pc
<1>5. u \in AttemptRow /\ u.pc = pc /\ u.entries = mine.entries /\ u.answered = mine.answered
  BY <1>4 DEF AttemptRow, Undoing, Ends
<1> HIDE DEF u
<1>6. /\ next \in AttemptRow /\ next.pc = pc /\ next.entries = mine.entries
      /\ next.answered = mine.answered /\ next.at = mine.entries
  BY <1>5 DEF AttemptRow
<1> HIDE DEF next
<1>7. AttemptHolds(next)'
  <2>1. /\ mine.entries = mine.answered /\ mine.entries <= Bundles
        /\ \A b \in 1 .. mine.entries : Known(orders'[<<"release", b>>])
    BY DEF AttemptHolds
  <2>2. next.pc \notin Posting /\ next.pc # "promoted" /\ next.pc # "restored"
    BY <1>4, <1>6 DEF Posting
  <2>3. next.pc \in Undoing => /\ next.at \in 1 .. next.entries
                              /\ next.at + 1 .. next.entries = {}
    BY <1>4, <1>6 DEF Undoing, AttemptRow
  <2> QED BY <1>6, <2>1, <2>2, <2>3 DEF AttemptHolds
<1> QED BY <1>3, <1>6, <1>7, AttemptMoves

LEMMA RaisesInv ==
  ASSUME ReleaseInv, PlacesHold', OrdersGrow, NEW a \in Attempt, Raises(a)
  PROVE  ReleaseInv'
<1>1. PICK mine \in AttemptRow : mine = attempts[a] /\ AttemptHolds(mine)
  BY DEF ReleaseInv
<1>2. AttemptHolds(mine)'
  BY <1>1, AttemptKeeps
<1>3. Becomes(a, Undoes(mine))
  BY <1>1 DEF Raises
<1> QED BY <1>2, <1>3, RaisedInv

(* On the way back an execution stays at an Agent, or is stuck.              *)
LEMMA StillUndoing ==
  ASSUME ReleaseInv, PlacesHold', OrdersGrow, NEW a \in Attempt, NEW next \in AttemptRow,
         Becomes(a, next), attempts[a].pc \in Undoing, next.pc \in Undoing \cup {"stuck"},
         next.at = attempts[a].at, next.entries = attempts[a].entries,
         next.answered = attempts[a].answered
  PROVE  ReleaseInv'
<1>1. PICK mine \in AttemptRow : mine = attempts[a] /\ AttemptHolds(mine)
  BY DEF ReleaseInv
<1>2. AttemptHolds(mine)'
  BY <1>1, AttemptKeeps
<1>3. AttemptHolds(next)'
  BY <1>1, <1>2 DEF AttemptHolds, Posting, Undoing
<1> QED BY <1>3, AttemptMoves

LEMMA GoesInv ==
  ASSUME ReleaseInv, PlacesHold', OrdersGrow, NEW a \in Attempt, attempts[a].pc \in Undoing,
         NEW pc \in Undoing \cup {"stuck"}, AttemptGoes(a, pc)
  PROVE  ReleaseInv'
<1> DEFINE next == [attempts[a] EXCEPT !.pc = pc]
<1>1. attempts[a] \in AttemptRow /\ Becomes(a, next)
  BY AttemptIs DEF AttemptGoes
<1>2. /\ next \in AttemptRow /\ next.pc = pc /\ next.at = attempts[a].at
      /\ next.entries = attempts[a].entries /\ next.answered = attempts[a].answered
  BY <1>1 DEF AttemptRow, Ends
<1> HIDE DEF next
<1> QED BY <1>1, <1>2, StillUndoing

LEMMA StartPromotionInv ==
  ASSUME ReleaseInv, NEW a \in Attempt, StartPromotion(a) PROVE ReleaseInv'
<1>1. PICK mine \in AttemptRow : mine = attempts[a] /\ AttemptHolds(mine)
  BY DEF ReleaseInv
<1>2. PlacesHold' /\ OrdersGrow
  BY OrdersRest DEF StartPromotion
<1>3. AttemptHolds(mine)'
  BY <1>1, <1>2, AttemptKeeps
<1>4. PICK part \in BOOLEAN : Becomes(a, [mine EXCEPT !.pc = "check", !.part = part])
  BY <1>1 DEF StartPromotion
<1> DEFINE u == [mine EXCEPT !.pc = "check"]
           next == [u EXCEPT !.part = part]
<1>5. Becomes(a, next)
  BY <1>4
<1>6. u \in AttemptRow /\ u.pc = "check" /\ u.entries = mine.entries /\ u.answered = mine.answered /\ u.at = mine.at
  BY DEF AttemptRow, Posting
<1> HIDE DEF u
<1>7. /\ next \in AttemptRow /\ next.pc = "check" /\ next.entries = mine.entries
      /\ next.answered = mine.answered /\ next.at = mine.at
  BY <1>6 DEF AttemptRow
<1> HIDE DEF next
<1>8. mine.pc = "idle"
  BY <1>1 DEF StartPromotion, AttemptAt
<1>9. AttemptHolds(next)'
  BY <1>3, <1>7, <1>8 DEF AttemptHolds, Posting, Undoing
<1> QED BY <1>2, <1>5, <1>7, <1>9, AttemptMoves

LEMMA CheckBundleInv ==
  ASSUME ReleaseInv, NEW a \in Attempt, CheckBundle(a) PROVE ReleaseInv'
<1>1. PICK mine \in AttemptRow : mine = attempts[a] /\ AttemptHolds(mine)
  BY DEF ReleaseInv
<1>2. PlacesHold' /\ OrdersGrow
  BY OrdersRest DEF CheckBundle
<1>3. AttemptHolds(mine)'
  BY <1>1, <1>2, AttemptKeeps
<1>4. mine.pc = "check"
  BY <1>1 DEF CheckBundle, AttemptAt
<1>5. CASE Raises(a)
  BY <1>2, <1>5, RaisesInv
<1>6. CASE Becomes(a, [mine EXCEPT !.pc = "post", !.read = place[mine.at].revision])
  <2> DEFINE n == place[mine.at].revision
             u == [mine EXCEPT !.pc = "post"]
             next == [u EXCEPT !.read = n]
  <2>1. Becomes(a, next)
    BY <1>6
  <2>2. n \in Nat
    BY <1>1, <1>4 DEF AttemptHolds, Posting, ReleaseInv, PlacesHold, PlaceRow
  <2> HIDE DEF n
  <2>3. u \in AttemptRow /\ u.pc = "post" /\ u.entries = mine.entries /\ u.answered = mine.answered /\ u.at = mine.at
    BY DEF AttemptRow, Posting
  <2> HIDE DEF u
  <2>4. /\ next \in AttemptRow /\ next.pc = "post" /\ next.entries = mine.entries
        /\ next.answered = mine.answered /\ next.at = mine.at
    BY <2>2, <2>3 DEF AttemptRow
  <2> HIDE DEF next
  <2>5. PICK posted \in AttemptRow :
          /\ Becomes(a, posted) /\ posted.pc = "post" /\ posted.entries = mine.entries
          /\ posted.answered = mine.answered /\ posted.at = mine.at
    BY <2>1, <2>4
  <2>6. AttemptHolds(posted)'
    BY <1>3, <1>4, <2>5 DEF AttemptHolds, Posting, Undoing
  <2> QED BY <1>2, <2>5, <2>6, AttemptMoves
<1> QED BY <1>1, <1>5, <1>6 DEF CheckBundle

(* The requests that may store a Deployment.                                 *)
LEMMA PromotionStored ==
  ASSUME ReleaseInv, NEW a \in Attempt, attempts[a].at \in Bundle, UNCHANGED place,
         orders[ReleaseOf(a)] = NoOrder,
         Orders(ReleaseOf(a), "release", attempts[a].read, attempts[a].part)
  PROVE  PlacesHold' /\ OrdersGrow /\ Known(orders'[ReleaseOf(a)])
<1> DEFINE b == attempts[a].at
           n == attempts[a].read
           part == attempts[a].part
<1>1. part \in BOOLEAN
  BY AttemptIs DEF AttemptRow
<1>2. Askable("release", b, "release", part)
  BY DEF Askable
<1>3. /\ orders[<<"release", b>>] = NoOrder /\ Orders(<<"release", b>>, "release", n, part)
      /\ ReleaseOf(a) = <<"release", b>>
  BY DEF ReleaseOf
<1>4. "release" \in OrderKind /\ "release" \in Deployed
  BY DEF OrderKind, Deployed
<1> HIDE DEF b, n, part
<1>5. b \in Bundle
  BY DEF b
<1> QED BY <1>1, <1>2, <1>3, <1>4, <1>5, OrderPlaced DEF ReleaseInv

LEMMA RollbackStored ==
  ASSUME ReleaseInv, NEW a \in Attempt, attempts[a].pc \in Undoing, UNCHANGED place,
         orders[RollbackOf(a)] = NoOrder,
         Orders(RollbackOf(a), orders[ReleaseOf(a)].previous, attempts[a].read, FALSE)
  PROVE  PlacesHold' /\ OrdersGrow
<1> DEFINE b == attempts[a].at
           n == attempts[a].read
           to == orders[<<"release", b>>].previous
<1>1. b \in Bundle /\ Known(orders[<<"release", b>>])
  BY AttemptIs, ReleaseAssumption DEF AttemptRow, AttemptHolds, Bundle
<1>2. to \in Deployed
  BY <1>1 DEF ReleaseInv, PlacesHold, OrderRow, OrderKind
<1>3. Askable("rollback", b, to, FALSE)
  BY <1>1 DEF Askable
<1>4. /\ orders[<<"rollback", b>>] = NoOrder /\ Orders(<<"rollback", b>>, to, n, FALSE)
  BY DEF RollbackOf, ReleaseOf
<1>5. "rollback" \in OrderKind
  BY DEF OrderKind
<1> HIDE DEF b, n, to
<1> QED BY <1>1, <1>2, <1>3, <1>4, <1>5, OrderPlaced DEF ReleaseInv

(* The Agent before the one that is undone or has nothing to undo.           *)
LEMMA UndoNextInv ==
  ASSUME ReleaseInv, UNCHANGED <<place, orders>>, NEW a \in Attempt, attempts[a].pc \in Undoing,
         Undone(attempts[a].at), UndoNext(a)
  PROVE  ReleaseInv'
<1>1. PICK mine \in AttemptRow : mine = attempts[a] /\ AttemptHolds(mine)
  BY DEF ReleaseInv
<1>2. PlacesHold' /\ OrdersGrow
  BY OrdersRest
<1>3. AttemptHolds(mine)' /\ Undone(mine.at)'
  BY <1>1, <1>2, AttemptKeeps DEF Undone
<1>4. mine.at \in 1 .. mine.entries /\ mine.at \in Nat /\ mine.entries \in Nat /\ mine.pc \in Undoing
  BY <1>1 DEF AttemptHolds, AttemptRow
<1>5. \A b \in mine.at .. mine.entries : Undone(b)'
  <2> SUFFICES ASSUME NEW b \in mine.at .. mine.entries PROVE Undone(b)'
    OBVIOUS
  <2>1. CASE b = mine.at
    BY <1>3, <2>1
  <2>2. CASE b # mine.at
    <3>1. b \in mine.at + 1 .. mine.entries
      BY <1>4, <2>2
    <3> QED BY <1>3, <1>4, <3>1 DEF AttemptHolds
  <2> QED BY <2>1, <2>2
<1>6. CASE mine.at = 1
  <2> DEFINE next == [mine EXCEPT !.pc = "restored"]
  <2>1. Becomes(a, next)
    BY <1>1, <1>6 DEF UndoNext, AttemptGoes
  <2>2. next \in AttemptRow /\ next.pc = "restored" /\ next.entries = mine.entries /\ next.answered = mine.answered
    BY DEF AttemptRow, Ends
  <2> HIDE DEF next
  <2>3. AttemptHolds(next)'
    BY <1>3, <1>5, <1>6, <2>2 DEF AttemptHolds, Posting, Undoing
  <2> QED BY <1>2, <2>1, <2>2, <2>3, AttemptMoves
<1>7. CASE mine.at # 1
  <2> DEFINE u == [mine EXCEPT !.pc = "undo"]
             next == [u EXCEPT !.at = mine.at - 1]
  <2>1. Becomes(a, next)
    BY <1>1, <1>7 DEF UndoNext
  <2>2. u \in AttemptRow /\ u.pc = "undo" /\ u.entries = mine.entries /\ u.answered = mine.answered
    BY DEF AttemptRow, Undoing
  <2> HIDE DEF u
  <2>3. /\ next \in AttemptRow /\ next.pc = "undo" /\ next.entries = mine.entries
        /\ next.answered = mine.answered /\ next.at = mine.at - 1
    BY <1>4, <1>7, <2>2 DEF AttemptRow
  <2> HIDE DEF next
  <2>4. next.at \in 1 .. next.entries /\ next.at + 1 .. next.entries = mine.at .. mine.entries
    BY <1>4, <1>7, <2>3
  <2>5. \A b \in next.at + 1 .. next.entries : Undone(b)'
    BY <1>5, <2>4
  <2>6. AttemptHolds(next)'
    BY <1>3, <2>3, <2>4, <2>5 DEF AttemptHolds, Posting, Undoing
  <2> QED BY <1>2, <2>1, <2>3, <2>6, AttemptMoves
<1> QED BY <1>6, <1>7

LEMMA EnteredInv ==
  ASSUME ReleaseInv, PlacesHold', OrdersGrow, NEW a \in Attempt, AttemptAt(a, "post"),
         Known(orders'[ReleaseOf(a)]), Becomes(a, Entered(a))
  PROVE  ReleaseInv'
<1>1. PICK mine \in AttemptRow : mine = attempts[a] /\ AttemptHolds(mine)
  BY DEF ReleaseInv
<1>2. AttemptHolds(mine)'
  BY <1>1, AttemptKeeps
<1>3. /\ mine.pc = "post" /\ mine.entries \in Nat /\ mine.at \in Bundle
      /\ mine.at = mine.entries + 1 /\ mine.answered = mine.entries
  BY <1>1 DEF AttemptAt, AttemptHolds, AttemptRow, Posting
<1>4. Known(orders'[<<"release", mine.at>>])
  BY <1>1 DEF ReleaseOf
<1> DEFINE u == [mine EXCEPT !.pc = "wait"]
           w == [u EXCEPT !.answered = mine.answered + 1]
           next == [w EXCEPT !.entries = mine.entries + 1]
<1>5. Becomes(a, next)
  BY <1>1 DEF Entered, AttemptRow
<1>6. u \in AttemptRow /\ u.pc = "wait" /\ u.at = mine.at
  BY DEF AttemptRow, Posting
<1> HIDE DEF u
<1>7. w \in AttemptRow /\ w.pc = "wait" /\ w.at = mine.at /\ w.answered = mine.answered + 1
  BY <1>3, <1>6 DEF AttemptRow
<1> HIDE DEF w
<1>8. /\ next \in AttemptRow /\ next.pc = "wait" /\ next.at = mine.at
      /\ next.answered = mine.answered + 1 /\ next.entries = mine.entries + 1
  BY <1>3, <1>7 DEF AttemptRow
<1> HIDE DEF next
<1>9. \A b \in 1 .. next.entries : Known(orders'[<<"release", b>>])
  <2> SUFFICES ASSUME NEW b \in 1 .. mine.entries + 1 PROVE Known(orders'[<<"release", b>>])
    BY <1>8
  <2>1. CASE b = mine.at
    BY <1>4, <2>1
  <2>2. CASE b # mine.at
    <3>1. b \in 1 .. mine.entries
      BY <1>3, <2>2
    <3> QED BY <1>2, <3>1 DEF AttemptHolds
  <2> QED BY <2>1, <2>2
<1>10. next.entries <= Bundles /\ next.entries = next.answered /\ next.at = next.entries
  BY <1>3, <1>8, ReleaseAssumption DEF Bundle
<1>11. \A b \in Bundle : b < next.at => Done(orders'[<<"release", b>>])
  BY <1>2, <1>3, <1>8 DEF AttemptHolds, Posting
<1>12. /\ next.pc \in Posting /\ next.pc \notin Undoing /\ next.pc # "promoted" /\ next.pc # "restored"
       /\ next.at \in Bundle /\ next.at = next.entries + 0
  BY <1>3, <1>8 DEF Posting, Undoing
<1>13. AttemptHolds(next)'
  BY <1>8, <1>9, <1>10, <1>11, <1>12 DEF AttemptHolds
<1> QED BY <1>5, <1>8, <1>13, AttemptMoves

LEMMA PostPromotionInv ==
  ASSUME ReleaseInv, NEW a \in Attempt, PostPromotion(a) PROVE ReleaseInv'
<1>1. /\ AttemptAt(a, "post") /\ UNCHANGED place /\ attempts[a].at \in Bundle
      /\ ReleaseOf(a) \in OrderKind \X Bundle
  BY AttemptIs DEF PostPromotion, AttemptAt, AttemptHolds, Posting, ReleaseOf, OrderKind
<1>2. CASE /\ orders[ReleaseOf(a)] = NoOrder
           /\ Orders(ReleaseOf(a), "release", attempts[a].read, attempts[a].part)
           /\ Becomes(a, Entered(a))
  <2>1. PlacesHold' /\ OrdersGrow /\ Known(orders'[ReleaseOf(a)])
    BY <1>1, <1>2, PromotionStored
  <2> QED BY <1>1, <1>2, <2>1, EnteredInv
<1>3. CASE orders[ReleaseOf(a)] # NoOrder /\ Becomes(a, Entered(a)) /\ UNCHANGED orders
  <2>1. PlacesHold' /\ OrdersGrow
    BY <1>1, <1>3, OrdersRest
  <2>2. Known(orders'[ReleaseOf(a)])
    BY <1>1, <1>3 DEF ReleaseInv, PlacesHold
  <2> QED BY <1>1, <1>3, <2>1, <2>2, EnteredInv
<1>4. CASE Raises(a) /\ UNCHANGED orders
  <2>1. PlacesHold' /\ OrdersGrow
    BY <1>1, <1>4, OrdersRest
  <2> QED BY <1>4, <2>1, RaisesInv
<1> QED BY <1>2, <1>3, <1>4 DEF PostPromotion

LEMMA WaitForPromotionInv ==
  ASSUME ReleaseInv, NEW a \in Attempt, WaitForPromotion(a) PROVE ReleaseInv'
<1>1. PICK mine \in AttemptRow : mine = attempts[a] /\ AttemptHolds(mine)
  BY DEF ReleaseInv
<1>2. PlacesHold' /\ OrdersGrow
  BY OrdersRest DEF WaitForPromotion
<1>3. AttemptHolds(mine)'
  BY <1>1, <1>2, AttemptKeeps
<1>4. /\ mine.pc = "wait" /\ mine.at \in Bundle /\ mine.at = mine.entries /\ mine.at \in Nat
      /\ mine.entries = mine.answered /\ UNCHANGED orders
  BY <1>1 DEF WaitForPromotion, AttemptAt, AttemptHolds, AttemptRow, Posting
<1>5. CASE Raises(a)
  BY <1>2, <1>5, RaisesInv
<1>6. ASSUME orders[ReleaseOf(a)].status = "succeeded"
      PROVE  \A b \in Bundle : b < mine.at + 1 => Done(orders'[<<"release", b>>])
  <2>1. Done(orders'[<<"release", mine.at>>])
    BY <1>1, <1>4, <1>6 DEF ReleaseOf, Done
  <2>2. \A b \in Bundle : b < mine.at => Done(orders'[<<"release", b>>])
    BY <1>3, <1>4 DEF AttemptHolds, Posting
  <2>3. \A b \in Bundle : b < mine.at + 1 => b < mine.at \/ b = mine.at
    BY <1>4 DEF Bundle
  <2> QED BY <2>1, <2>2, <2>3
<1>7. CASE mine.at = Bundles /\ orders[ReleaseOf(a)].status = "succeeded" /\ AttemptGoes(a, "promoted")
  <2> DEFINE next == [mine EXCEPT !.pc = "promoted"]
  <2>1. Becomes(a, next)
    BY <1>1, <1>7 DEF AttemptGoes
  <2>2. next \in AttemptRow /\ next.pc = "promoted" /\ next.entries = mine.entries /\ next.answered = mine.answered
    BY DEF AttemptRow, Ends
  <2> HIDE DEF next
  <2>3. \A b \in Bundle : Done(orders'[<<"release", b>>])
    <3>1. \A b \in Bundle : b < mine.at + 1
      BY <1>7, ReleaseAssumption DEF Bundle
    <3> QED BY <1>6, <1>7, <3>1
  <2>4. AttemptHolds(next)'
    BY <1>3, <2>2, <2>3 DEF AttemptHolds, Posting, Undoing
  <2> QED BY <1>2, <2>1, <2>2, <2>4, AttemptMoves
<1>8. CASE /\ mine.at # Bundles /\ orders[ReleaseOf(a)].status = "succeeded"
           /\ Becomes(a, [mine EXCEPT !.pc = "check", !.at = mine.at + 1])
  <2> DEFINE u == [mine EXCEPT !.pc = "check"]
             next == [u EXCEPT !.at = mine.at + 1]
  <2>1. Becomes(a, next)
    BY <1>8
  <2>2. u \in AttemptRow /\ u.pc = "check" /\ u.entries = mine.entries /\ u.answered = mine.answered
    BY DEF AttemptRow, Posting
  <2> HIDE DEF u
  <2>3. /\ next \in AttemptRow /\ next.pc = "check" /\ next.entries = mine.entries
        /\ next.answered = mine.answered /\ next.at = mine.at + 1
    BY <1>4, <2>2 DEF AttemptRow
  <2> HIDE DEF next
  <2>4. next.at \in Bundle /\ next.at = next.entries + 1
    BY <1>4, <1>8, <2>3, ReleaseAssumption DEF Bundle
  <2>5. \A b \in Bundle : b < next.at => Done(orders'[<<"release", b>>])
    BY <1>6, <1>8, <2>3
  <2>6. AttemptHolds(next)'
    BY <1>3, <2>3, <2>4, <2>5 DEF AttemptHolds, Posting, Undoing
  <2> QED BY <1>2, <2>1, <2>3, <2>6, AttemptMoves
<1>9. [attempts[a] EXCEPT !.pc = "check", !.at = @ + 1] = [mine EXCEPT !.pc = "check", !.at = mine.at + 1]
  BY <1>1 DEF AttemptRow
<1> QED BY <1>1, <1>5, <1>7, <1>8, <1>9 DEF WaitForPromotion

LEMMA UndoBundleInv ==
  ASSUME ReleaseInv, NEW a \in Attempt, UndoBundle(a) PROVE ReleaseInv'
<1>1. /\ attempts[a] \in AttemptRow /\ AttemptHolds(attempts[a]) /\ attempts[a].pc \in Undoing
      /\ UNCHANGED <<place, orders>>
  BY AttemptIs DEF UndoBundle, AttemptAt, Undoing
<1>2. PlacesHold' /\ OrdersGrow
  BY <1>1, OrdersRest
<1>3. CASE orders[ReleaseOf(a)].previous = Vacant /\ UndoNext(a)
  <2>1. Undone(attempts[a].at)
    BY <1>3 DEF ReleaseOf, Undone
  <2> QED BY <1>1, <1>3, <2>1, UndoNextInv
<1>4. CASE Becomes(a, [attempts[a] EXCEPT !.pc = "restore", !.read = place[attempts[a].at].revision])
  <2> DEFINE n == place[attempts[a].at].revision
             u == [attempts[a] EXCEPT !.pc = "restore"]
             next == [u EXCEPT !.read = n]
  <2>1. Becomes(a, next)
    BY <1>4
  <2>2. attempts[a].at \in Bundle
    BY <1>1, ReleaseAssumption DEF AttemptHolds, AttemptRow, Bundle
  <2>3. n \in Nat
    BY <2>2 DEF ReleaseInv, PlacesHold, PlaceRow
  <2> HIDE DEF n
  <2>4. /\ u \in AttemptRow /\ u.pc = "restore" /\ u.entries = attempts[a].entries
        /\ u.answered = attempts[a].answered /\ u.at = attempts[a].at
    BY <1>1 DEF AttemptRow, Undoing
  <2> HIDE DEF u
  <2>5. /\ next \in AttemptRow /\ next.pc = "restore" /\ next.entries = attempts[a].entries
        /\ next.answered = attempts[a].answered /\ next.at = attempts[a].at
    BY <2>3, <2>4 DEF AttemptRow
  <2> HIDE DEF next
  <2>6. next.pc \in Undoing \cup {"stuck"}
    BY <2>5 DEF Undoing
  <2> QED BY <1>1, <1>2, <2>1, <2>5, <2>6, StillUndoing
<1> QED BY <1>3, <1>4 DEF UndoBundle

LEMMA PostRollbackInv ==
  ASSUME ReleaseInv, NEW a \in Attempt, PostRollback(a) PROVE ReleaseInv'
<1>1. /\ attempts[a].pc \in Undoing /\ UNCHANGED place
      /\ "rewait" \in Undoing \cup {"stuck"} /\ "stuck" \in Undoing \cup {"stuck"}
  BY DEF PostRollback, AttemptAt, Undoing
<1>2. CASE /\ orders[RollbackOf(a)] = NoOrder /\ AttemptGoes(a, "rewait")
           /\ Orders(RollbackOf(a), orders[ReleaseOf(a)].previous, attempts[a].read, FALSE)
  <2>1. PlacesHold' /\ OrdersGrow
    BY <1>1, <1>2, RollbackStored
  <2> QED BY <1>1, <1>2, <2>1, GoesInv
<1>3. CASE UNCHANGED orders /\ (AttemptGoes(a, "rewait") \/ AttemptGoes(a, "stuck"))
  <2>1. PlacesHold' /\ OrdersGrow
    BY <1>1, <1>3, OrdersRest
  <2> QED BY <1>1, <1>3, <2>1, GoesInv
<1> QED BY <1>2, <1>3 DEF PostRollback

LEMMA WaitForRollbackInv ==
  ASSUME ReleaseInv, NEW a \in Attempt, WaitForRollback(a) PROVE ReleaseInv'
<1>1. attempts[a].pc \in Undoing /\ UNCHANGED <<place, orders>> /\ "stuck" \in Undoing \cup {"stuck"}
  BY DEF WaitForRollback, AttemptAt, Undoing
<1>2. PlacesHold' /\ OrdersGrow
  BY <1>1, OrdersRest
<1>3. CASE orders[RollbackOf(a)].status = "succeeded" /\ UndoNext(a)
  <2>1. Undone(attempts[a].at)
    BY <1>3 DEF RollbackOf, Undone, Done
  <2> QED BY <1>1, <1>3, <2>1, UndoNextInv
<1>4. CASE AttemptGoes(a, "stuck")
  BY <1>1, <1>2, <1>4, GoesInv
<1> QED BY <1>3, <1>4 DEF WaitForRollback

LEMMA CallFailsInv ==
  ASSUME ReleaseInv, NEW a \in Attempt, CallFails(a) PROVE ReleaseInv'
<1>1. UNCHANGED place
  BY DEF CallFails
<1>2. CASE Raises(a) /\ UNCHANGED orders
  <2>1. PlacesHold' /\ OrdersGrow
    BY <1>1, <1>2, OrdersRest
  <2> QED BY <1>2, <2>1, RaisesInv
<1>3. CASE attempts[a].pc \in Undoing /\ AttemptGoes(a, "stuck") /\ UNCHANGED orders
  <2>1. PlacesHold' /\ OrdersGrow
    BY <1>1, <1>3, OrdersRest
  <2>2. "stuck" \in Undoing \cup {"stuck"}
    OBVIOUS
  <2> QED BY <1>3, <2>1, <2>2, GoesInv
<1>4. CASE /\ attempts[a].pc = "post" /\ orders[ReleaseOf(a)] = NoOrder
           /\ Orders(ReleaseOf(a), "release", attempts[a].read, attempts[a].part)
           /\ Becomes(a, Undoes([attempts[a] EXCEPT !.lost = @ \cup {attempts[a].at}]))
  <2>1. PICK mine \in AttemptRow : mine = attempts[a] /\ AttemptHolds(mine)
    BY DEF ReleaseInv
  <2>2. mine.at \in Bundle
    BY <1>4, <2>1 DEF AttemptHolds, Posting
  <2>3. PlacesHold' /\ OrdersGrow
    BY <1>1, <1>4, <2>1, <2>2, PromotionStored
  <2> DEFINE heard == [mine EXCEPT !.lost = mine.lost \cup {mine.at}]
  <2>4. /\ heard \in AttemptRow /\ heard.entries = mine.entries /\ heard.pc = mine.pc
        /\ heard.answered = mine.answered /\ heard.at = mine.at
    BY <2>2 DEF AttemptRow
  <2>5. Becomes(a, Undoes(heard))
    BY <1>4, <2>1 DEF AttemptRow
  <2> HIDE DEF heard
  <2>6. AttemptHolds(mine)'
    BY <2>1, <2>3, AttemptKeeps
  <2>7. AttemptHolds(heard)'
    BY <2>4, <2>6 DEF AttemptHolds
  <2> QED BY <2>3, <2>4, <2>5, <2>7, RaisedInv
<1>5. CASE /\ attempts[a].pc = "restore" /\ orders[RollbackOf(a)] = NoOrder
           /\ Orders(RollbackOf(a), orders[ReleaseOf(a)].previous, attempts[a].read, FALSE)
           /\ AttemptGoes(a, "stuck")
  <2>1. attempts[a].pc \in Undoing /\ "stuck" \in Undoing \cup {"stuck"}
    BY <1>5 DEF Undoing
  <2>2. PlacesHold' /\ OrdersGrow
    BY <1>1, <1>5, <2>1, RollbackStored
  <2> QED BY <1>5, <2>1, <2>2, GoesInv
<1> QED BY <1>2, <1>3, <1>4, <1>5 DEF CallFails, Undoing

LEMMA DeployByHandInv ==
  ASSUME ReleaseInv, NEW b \in Bundle, DeployByHand(b) PROVE ReleaseInv'
<1> DEFINE n == place[b].revision
<1>1. /\ orders[<<"manual", b>>] = NoOrder /\ UNCHANGED <<place, attempts>>
      /\ Orders(<<"manual", b>>, "other", n, FALSE)
  BY DEF DeployByHand
<1>2. Askable("manual", b, "other", FALSE) /\ "manual" \in OrderKind /\ "other" \in Deployed
  BY DEF Askable, OrderKind, Deployed
<1> HIDE DEF n
<1>3. PlacesHold' /\ OrdersGrow
  BY <1>1, <1>2, OrderPlaced DEF ReleaseInv
<1> QED BY <1>1, <1>3, AttemptsRest

LEMMA ReleaseStepInv == ReleaseInv /\ [ReleaseNext]_releaseVars => ReleaseInv'
<1> SUFFICES ASSUME ReleaseInv, [ReleaseNext]_releaseVars PROVE ReleaseInv'
  OBVIOUS
<1>1. CASE UNCHANGED releaseVars
  <2>1. UNCHANGED <<place, orders>> /\ UNCHANGED attempts
    BY <1>1 DEF releaseVars
  <2> QED BY <2>1, OrdersRest, AttemptsRest
<1>2. ASSUME NEW a \in Attempt,
             \/ StartPromotion(a) \/ CheckBundle(a) \/ PostPromotion(a) \/ WaitForPromotion(a)
             \/ UndoBundle(a) \/ PostRollback(a) \/ WaitForRollback(a) \/ CallFails(a)
      PROVE  ReleaseInv'
  BY <1>2, StartPromotionInv, CheckBundleInv, PostPromotionInv, WaitForPromotionInv,
     UndoBundleInv, PostRollbackInv, WaitForRollbackInv, CallFailsInv
<1>3. ASSUME NEW key \in OrderKind \X Bundle, Reconcile(key) PROVE ReleaseInv'
  <2>1. PICK way \in OrderKind, b \in Bundle : key = <<way, b>>
    OBVIOUS
  <2> QED BY <1>3, <2>1, ReconcileInv
<1>4. ASSUME NEW b \in Bundle, DeployByHand(b) PROVE ReleaseInv'
  BY <1>4, DeployByHandInv
<1> QED BY <1>1, <1>2, <1>3, <1>4 DEF ReleaseNext

(* A promotion that is stored was answered to an execution, or its answer is *)
(* lost to one.                                                              *)
Told(b) == \E a \in Attempt : b <= attempts[a].answered \/ b \in attempts[a].lost
Heard == \A b \in Bundle : Known(orders[<<"release", b>>]) => Told(b)

(* An execution forgets neither.                                             *)
Remembers(mine, next) == next.answered \in Nat /\ mine.answered <= next.answered
                         /\ mine.lost \subseteq next.lost

LEMMA ToldStays ==
  ASSUME ReleaseInv, NEW a \in Attempt, NEW next, Becomes(a, next),
         Remembers(attempts[a], next), NEW b \in Bundle,
         Told(b) \/ b <= next.answered \/ b \in next.lost
  PROVE  Told(b)'
<1>1. attempts'[a] = next /\ \A c \in Attempt : c # a => attempts'[c] = attempts[c]
  BY DEF Becomes, ReleaseInv
<1>2. CASE b <= next.answered \/ b \in next.lost
  BY <1>1, <1>2 DEF Told
<1>3. CASE Told(b)
  <2>1. PICK c \in Attempt : b <= attempts[c].answered \/ b \in attempts[c].lost
    BY <1>3 DEF Told
  <2>2. CASE c = a
    <3>1. attempts[a].answered \in Nat /\ b \in Nat /\ next.answered \in Nat
      BY AttemptIs DEF AttemptRow, Bundle, Remembers
    <3>2. b <= next.answered \/ b \in next.lost
      BY <2>1, <2>2, <3>1 DEF Remembers
    <3> QED BY <1>2, <3>2
  <2>3. CASE c # a
    BY <1>1, <2>1, <2>3 DEF Told
  <2> QED BY <2>2, <2>3
<1> QED BY <1>2, <1>3

(* The steps that store no promotion of the release.                         *)
LEMMA HeardStays ==
  ASSUME ReleaseInv, Heard, NEW a \in Attempt, NEW next, Becomes(a, next),
         Remembers(attempts[a], next),
         \A b \in Bundle : Known(orders'[<<"release", b>>]) =>
                             \/ Known(orders[<<"release", b>>])
                             \/ b <= next.answered \/ b \in next.lost
  PROVE  Heard'
<1> SUFFICES ASSUME NEW b \in Bundle, Known(orders'[<<"release", b>>]) PROVE Told(b)'
  BY DEF Heard
<1>1. Told(b) \/ b <= next.answered \/ b \in next.lost
  BY DEF Heard
<1> QED BY <1>1, ToldStays

LEMMA HeardGoes ==
  ASSUME ReleaseInv, Heard, NEW a \in Attempt, NEW pc, AttemptGoes(a, pc),
         \A b \in Bundle : Known(orders'[<<"release", b>>]) => Known(orders[<<"release", b>>])
  PROVE  Heard'
<1> DEFINE next == [attempts[a] EXCEPT !.pc = pc]
<1>1. Becomes(a, next)
  BY DEF AttemptGoes
<1>2. Remembers(attempts[a], next)
  BY AttemptIs DEF AttemptRow, Remembers
<1> HIDE DEF next
<1> QED BY <1>1, <1>2, HeardStays

LEMMA HeardRaises ==
  ASSUME ReleaseInv, Heard, NEW a \in Attempt, Raises(a), UNCHANGED orders
  PROVE  Heard'
<1> DEFINE next == Undoes(attempts[a])
<1>1. Becomes(a, next)
  BY DEF Raises
<1>2. Remembers(attempts[a], next)
  BY AttemptIs DEF AttemptRow, Remembers, Undoes
<1> HIDE DEF next
<1> QED BY <1>1, <1>2, HeardStays

LEMMA HeardUndoNext ==
  ASSUME ReleaseInv, Heard, NEW a \in Attempt, UndoNext(a), UNCHANGED orders
  PROVE  Heard'
<1>1. CASE AttemptGoes(a, "restored")
  BY <1>1, HeardGoes
<1> DEFINE next == [attempts[a] EXCEPT !.pc = "undo", !.at = @ - 1]
<1>2. CASE Becomes(a, next)
  <2>1. Remembers(attempts[a], next)
    BY AttemptIs DEF AttemptRow, Remembers
  <2> HIDE DEF next
  <2> QED BY <1>2, <2>1, HeardStays
<1> QED BY <1>1, <1>2 DEF UndoNext

(* A rollback or a version deployed by hand is no promotion.                 *)
LEMMA NoPromotion ==
  ASSUME ReleaseInv, NEW way \in {"rollback", "manual"}, NEW c, NEW to, NEW n, NEW part,
         Orders(<<way, c>>, to, n, part)
  PROVE  \A b \in Bundle : Known(orders'[<<"release", b>>]) => Known(orders[<<"release", b>>])
<1>1. \A b \in Bundle : <<"release", b>> \in OrderKind \X Bundle /\ <<"release", b>> # <<way, c>>
  BY DEF OrderKind
<1>2. \A b \in Bundle : orders'[<<"release", b>>] = orders[<<"release", b>>]
  BY <1>1 DEF Orders, ReleaseInv, PlacesHold
<1> QED BY <1>2

LEMMA HeardStarts ==
  ASSUME ReleaseInv, Heard, NEW a \in Attempt,
         StartPromotion(a) \/ CheckBundle(a) \/ WaitForPromotion(a) \/ UndoBundle(a)
                           \/ WaitForRollback(a)
  PROVE  Heard'
<1>1. UNCHANGED orders
  BY DEF StartPromotion, CheckBundle, WaitForPromotion, UndoBundle, WaitForRollback
<1>2. /\ attempts[a] \in AttemptRow
      /\ \A b \in Bundle : Known(orders'[<<"release", b>>]) => Known(orders[<<"release", b>>])
  BY <1>1, AttemptIs
<1>3. CASE Raises(a)
  BY <1>1, <1>3, HeardRaises
<1>4. CASE UndoNext(a)
  BY <1>1, <1>4, HeardUndoNext
<1>5. ASSUME NEW pc, AttemptGoes(a, pc) PROVE Heard'
  BY <1>2, <1>5, HeardGoes
<1>6. ASSUME NEW part \in BOOLEAN, Becomes(a, [attempts[a] EXCEPT !.pc = "check", !.part = part])
      PROVE  Heard'
  <2>1. Remembers(attempts[a], [attempts[a] EXCEPT !.pc = "check", !.part = part])
    BY <1>2 DEF AttemptRow, Remembers
  <2> QED BY <1>2, <1>6, <2>1, HeardStays
<1>7. ASSUME NEW pc, NEW n, Becomes(a, [attempts[a] EXCEPT !.pc = pc, !.read = n]) PROVE Heard'
  <2>1. Remembers(attempts[a], [attempts[a] EXCEPT !.pc = pc, !.read = n])
    BY <1>2 DEF AttemptRow, Remembers
  <2> QED BY <1>2, <1>7, <2>1, HeardStays
<1>8. CASE Becomes(a, [attempts[a] EXCEPT !.pc = "check", !.at = @ + 1])
  <2>1. Remembers(attempts[a], [attempts[a] EXCEPT !.pc = "check", !.at = @ + 1])
    BY <1>2 DEF AttemptRow, Remembers
  <2> QED BY <1>2, <1>8, <2>1, HeardStays
<1>9. StartPromotion(a) => Heard'
  BY <1>6 DEF StartPromotion
<1>10. CheckBundle(a) => Heard'
  BY <1>3, <1>7 DEF CheckBundle
<1>11. WaitForPromotion(a) => Heard'
  BY <1>3, <1>5, <1>8 DEF WaitForPromotion
<1>12. UndoBundle(a) => Heard'
  BY <1>4, <1>7 DEF UndoBundle
<1>13. WaitForRollback(a) => Heard'
  BY <1>4, <1>5 DEF WaitForRollback
<1> QED BY <1>9, <1>10, <1>11, <1>12, <1>13

(* The request that stores the promotion: its answer is heard, or lost.      *)
LEMMA HeardStored ==
  ASSUME ReleaseInv, Heard, NEW a \in Attempt, attempts[a].pc = "post", NEW n, NEW part, NEW next,
         Orders(ReleaseOf(a), "release", n, part) \/ UNCHANGED orders,
         Becomes(a, next), Remembers(attempts[a], next),
         attempts[a].at <= next.answered \/ attempts[a].at \in next.lost
  PROVE  Heard'
<1>1. \A b \in Bundle : <<"release", b>> \in OrderKind \X Bundle
  BY DEF OrderKind
<1>2. \A b \in Bundle : b # attempts[a].at => orders'[<<"release", b>>] = orders[<<"release", b>>]
  BY <1>1 DEF Orders, ReleaseOf, ReleaseInv, PlacesHold
<1>3. \A b \in Bundle : Known(orders'[<<"release", b>>]) =>
                            \/ Known(orders[<<"release", b>>])
                            \/ b <= next.answered \/ b \in next.lost
  BY <1>2
<1> QED BY <1>3, HeardStays

LEMMA HeardPosts ==
  ASSUME ReleaseInv, Heard, NEW a \in Attempt, PostPromotion(a)
  PROVE  Heard'
<1>1. PICK mine \in AttemptRow : mine = attempts[a] /\ AttemptHolds(mine)
  BY DEF ReleaseInv
<1>2. mine.pc = "post"
  BY <1>1 DEF PostPromotion, AttemptAt
<1>3. mine.at = mine.answered + 1 /\ mine.answered \in Nat
  BY <1>1, <1>2 DEF AttemptHolds, Posting, AttemptRow
<1>4. CASE Raises(a) /\ UNCHANGED orders
  BY <1>4, HeardRaises
<1>5. CASE /\ Becomes(a, Entered(a))
           /\ \/ Orders(ReleaseOf(a), "release", attempts[a].read, attempts[a].part)
              \/ UNCHANGED orders
  <2> DEFINE next == Entered(a)
  <2>1. next.answered = mine.answered + 1 /\ next.lost = mine.lost
    BY <1>1 DEF Entered, AttemptRow
  <2> HIDE DEF next
  <2>2. Remembers(attempts[a], next) /\ attempts[a].at <= next.answered
    BY <1>1, <1>3, <2>1 DEF Remembers
  <2>3. Becomes(a, next)
    BY <1>5 DEF next
  <2> QED BY <1>1, <1>2, <1>5, <2>2, <2>3, HeardStored
<1> QED BY <1>4, <1>5 DEF PostPromotion

LEMMA HeardFails ==
  ASSUME ReleaseInv, Heard, NEW a \in Attempt, CallFails(a)
  PROVE  Heard'
<1>1. PICK mine \in AttemptRow : mine = attempts[a] /\ AttemptHolds(mine)
  BY DEF ReleaseInv
<1>2. CASE Raises(a) /\ UNCHANGED orders
  BY <1>2, HeardRaises
<1>3. CASE AttemptGoes(a, "stuck") /\ UNCHANGED orders
  BY <1>3, HeardGoes
<1>4. CASE /\ Orders(RollbackOf(a), orders[ReleaseOf(a)].previous, attempts[a].read, FALSE)
           /\ AttemptGoes(a, "stuck")
  <2>1. \A b \in Bundle : Known(orders'[<<"release", b>>]) => Known(orders[<<"release", b>>])
    BY <1>4, NoPromotion DEF RollbackOf
  <2> QED BY <1>4, <2>1, HeardGoes
<1>5. CASE /\ attempts[a].pc = "post"
           /\ Orders(ReleaseOf(a), "release", attempts[a].read, attempts[a].part)
           /\ Becomes(a, Undoes([attempts[a] EXCEPT !.lost = @ \cup {attempts[a].at}]))
  <2> DEFINE heard == [mine EXCEPT !.lost = mine.lost \cup {mine.at}]
             next == Undoes(heard)
  <2>1. heard.lost = mine.lost \cup {mine.at} /\ heard.answered = mine.answered /\ mine.answered \in Nat
    BY DEF AttemptRow
  <2>2. Becomes(a, next)
    BY <1>1, <1>5 DEF AttemptRow
  <2>3. next.lost = heard.lost /\ next.answered = heard.answered
    BY DEF Undoes, AttemptRow
  <2> HIDE DEF heard, next
  <2>4. Remembers(attempts[a], next) /\ attempts[a].at \in next.lost
    BY <1>1, <2>1, <2>3 DEF Remembers
  <2> QED BY <1>5, <2>2, <2>4, HeardStored
<1> QED BY <1>2, <1>3, <1>4, <1>5 DEF CallFails

LEMMA HeardInit == ReleaseInit => Heard
<1> SUFFICES ASSUME ReleaseInit, NEW b \in Bundle PROVE ~Known(orders[<<"release", b>>])
  BY DEF Heard
<1> QED BY DEF ReleaseInit, OrderKind, NoOrder, Known

LEMMA HeardStep == ReleaseInv /\ Heard /\ [ReleaseNext]_releaseVars => Heard'
<1> SUFFICES ASSUME ReleaseInv, Heard, [ReleaseNext]_releaseVars PROVE Heard'
  OBVIOUS
<1>1. ASSUME UNCHANGED attempts,
             \A b \in Bundle : Known(orders'[<<"release", b>>]) => Known(orders[<<"release", b>>])
      PROVE  Heard'
  BY <1>1 DEF Heard, Told
<1>2. CASE UNCHANGED releaseVars
  BY <1>1, <1>2 DEF releaseVars
<1>3. ASSUME NEW a \in Attempt, PostRollback(a) PROVE Heard'
  <2>1. CASE Orders(RollbackOf(a), orders[ReleaseOf(a)].previous, attempts[a].read, FALSE)
             /\ AttemptGoes(a, "rewait")
    <3>1. \A b \in Bundle : Known(orders'[<<"release", b>>]) => Known(orders[<<"release", b>>])
      BY <2>1, NoPromotion DEF RollbackOf
    <3> QED BY <2>1, <3>1, HeardGoes
  <2>2. CASE UNCHANGED orders /\ (AttemptGoes(a, "rewait") \/ AttemptGoes(a, "stuck"))
    BY <2>2, HeardGoes
  <2> QED BY <1>3, <2>1, <2>2 DEF PostRollback
<1>4. ASSUME NEW a \in Attempt,
             \/ StartPromotion(a) \/ CheckBundle(a) \/ PostPromotion(a) \/ WaitForPromotion(a)
             \/ UndoBundle(a) \/ PostRollback(a) \/ WaitForRollback(a) \/ CallFails(a)
      PROVE  Heard'
  BY <1>3, <1>4, HeardStarts, HeardPosts, HeardFails
<1>5. ASSUME NEW key \in OrderKind \X Bundle, Reconcile(key) PROVE Heard'
  <2>1. /\ UNCHANGED attempts /\ orders[key].status = "queued"
        /\ \E status \in {"succeeded", "failed"} : orders' = [orders EXCEPT ![key].status = status]
    BY <1>5 DEF Reconcile
  <2>2. ASSUME NEW b \in Bundle, Known(orders'[<<"release", b>>]) PROVE Known(orders[<<"release", b>>])
    <3>1. CASE key = <<"release", b>>
      BY <2>1, <3>1 DEF Known
    <3>2. CASE key # <<"release", b>>
      BY <2>1, <2>2, <3>2 DEF ReleaseInv, PlacesHold, OrderKind
    <3> QED BY <3>1, <3>2
  <2> QED BY <1>1, <2>1, <2>2
<1>6. ASSUME NEW b \in Bundle, DeployByHand(b) PROVE Heard'
  <2>1. /\ UNCHANGED attempts
        /\ Orders(<<"manual", b>>, "other", place[b].revision, FALSE)
    BY <1>6 DEF DeployByHand
  <2>2. \A c \in Bundle : Known(orders'[<<"release", c>>]) => Known(orders[<<"release", c>>])
    BY <2>1, NoPromotion
  <2> QED BY <1>1, <2>1, <2>2
<1> QED BY <1>2, <1>4, <1>5, <1>6 DEF ReleaseNext

LEMMA WholeHolds == ReleaseInv /\ Heard => ReleaseWhole
<1> SUFFICES ASSUME ReleaseInv, Heard PROVE ReleaseWhole
  OBVIOUS
<1>0. \A b \in Bundle : BundleHolds(b)
  BY DEF ReleaseInv, PlacesHold
<1>1. ASSUME NEW a \in Attempt
      PROVE  /\ AttemptAt(a, "restored") =>
                  \A b \in 1 .. attempts[a].answered :
                    orders[<<"release", b>>].previous # Vacant => "release" \notin place[b].routes
             /\ AttemptAt(a, "promoted") =>
                  \A b \in Bundle :
                    \/ "release" \in place[b].routes
                    \/ \E way \in {"rollback", "manual"} : orders[<<way, b>>] # NoOrder
  <2>1. PICK mine \in AttemptRow : mine = attempts[a] /\ AttemptHolds(mine)
    BY DEF ReleaseInv
  <2>3. mine.entries = mine.answered /\ \A b \in 1 .. mine.entries : b \in Bundle
    BY <2>1, ReleaseAssumption DEF AttemptHolds, AttemptRow, Bundle
  <2>4. ASSUME AttemptAt(a, "restored"), NEW b \in 1 .. attempts[a].answered,
               orders[<<"release", b>>].previous # Vacant
        PROVE  "release" \notin place[b].routes
    <3>1. b \in Bundle /\ Undone(b)
      BY <2>1, <2>3, <2>4 DEF AttemptAt, AttemptHolds
    <3> QED BY <1>0, <2>4, <3>1 DEF Undone, BundleHolds, PlaceHolds
  <2>5. NoOrder.status = "none"
    BY DEF NoOrder
  <2>6. ASSUME AttemptAt(a, "promoted"), NEW b \in Bundle
        PROVE  \/ "release" \in place[b].routes
               \/ \E way \in {"rollback", "manual"} : orders[<<way, b>>] # NoOrder
    <3>1. Done(orders[<<"release", b>>])
      BY <2>1, <2>6 DEF AttemptAt, AttemptHolds
    <3> QED BY <1>0, <2>5, <3>1 DEF BundleHolds, PlaceHolds, Known
  <2> QED BY <2>4, <2>6
<1>2. ASSUME NEW b \in Bundle, "release" \in place[b].routes
      PROVE  \E a \in Attempt : b <= attempts[a].answered \/ b \in attempts[a].lost
  <2>1. Known(orders[<<"release", b>>])
    BY <1>0, <1>2 DEF BundleHolds, PlaceHolds
  <2> QED BY <2>1 DEF Heard, Told
<1> QED BY <1>1, <1>2 DEF ReleaseWhole

(* However often the workflow is repeated, waits time out and versions are   *)
(* deployed by hand: an execution that failed and could roll back leaves no  *)
(* Agent with an earlier version on the release if its POST was answered; an *)
(* Agent that is on the release was answered about to some execution, or its *)
(* answer was lost on the way, and that Agent may stay there; an execution   *)
(* that succeeded has every Agent on the release, or rolled back or deployed *)
(* by hand (promotion.py:279).                                               *)
THEOREM ReleasesAreWhole == ServicesSpec => []ReleaseWhole
BY WholeHolds, HeardInit, HeardStep, ReleasePart, ReleaseInitInv, ReleaseStepInv, PTL DEF ServicesSpec

(* Both: what is deployed has passed its gates, and a release is deployed as *)
(* a whole or taken back, as far as an execution was answered               *)
(* (deployments/service.py, promotion.py).                                   *)
THEOREM PromotionsAreGatedAndWhole == ServicesSpec => []PromotionsHold
BY PromotionsPassGates, ReleasesAreWhole, PTL DEF PromotionsHold
===============================================================================
