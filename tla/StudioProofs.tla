------------------------------ MODULE StudioProofs -----------------------------
(***************************************************************************)
(* Proofs about what a person edits in Services and is told: drafts and     *)
(* their publication, the capability catalog, the memories of a user, the   *)
(* preflight that lets a preview be ready, the suites that evaluate a       *)
(* version, and the tasks an A2A client follows.                            *)
(***************************************************************************)
EXTENDS ServicesProofs

-----------------------------------------------------------------------------
(* Agent Studio.                                                             *)

LEMMA StudioPart ==
  /\ ServicesInit => StudioInit
  /\ [ServicesNext]_servicesVars => [StudioNext]_studioVars
<1>1. ServicesInit => StudioInit
  BY DEF ServicesInit
<1>2. ServicesNext => StudioNext \/ UNCHANGED studioVars
  BY DEF ServicesNext, Only
<1>3. UNCHANGED servicesVars => UNCHANGED studioVars
  BY DEF servicesVars
<1> QED BY <1>1, <1>2, <1>3

AnySpec == DraftSpec \cup {NoSpec}
StudioRow == [revision : Nat, version : Nat, spec : AnySpec, mark : [version : Nat, spec : AnySpec]]
WindowRow == [pc : {"idle", "editing", "saving", "checking", "publishing", "marking"},
              expected : Nat, shown : Skill \cup {"none"}, next : StudioRow]

(* A row that is marked as released shows what is registered.               *)
Shows(d) ==
  d.mark.version # 0 =>
    /\ d.mark.version \in Version /\ d.mark.spec \in DraftSpec
    /\ registry[d.mark.version] = d.mark.spec
    /\ d.version = d.mark.version => d.spec = d.mark.spec

Publishable(d) == d.version \in Version /\ d.spec \in DraftSpec

(* The draft, and what a window has read of it or is about to write.        *)
DraftRow(d) == d \in StudioRow /\ Shows(d) /\ (d.revision # 0 => Publishable(d))

WindowHolds(j) ==
  /\ j.pc \in {"saving", "checking", "publishing", "marking"} =>
       Shows(j.next) /\ Publishable(j.next)
  /\ j.pc = "marking" => registry[j.next.version] = j.next.spec

StudioInv ==
  /\ DraftRow(draft)
  /\ registry \in [Version -> AnySpec]
  /\ window \in [Window -> WindowRow]
  /\ \A w \in Window : /\ WindowHolds(window[w])
                       /\ window[w].pc = "editing" => draft.revision # 0

LEMMA SpecsAre == NoSpec \notin DraftSpec /\ DraftSpec # {} /\ 1 \in Version
<1> USE StudioAssumption
<1>1. NoSpec \notin DraftSpec
  BY DEF NoSpec, DraftSpec
<1>2. \A text \in Text, skill \in Skill : [text |-> text, skill |-> skill] \in DraftSpec
  BY DEF DraftSpec
<1>3. PICK text \in Text, skill \in Skill : TRUE
  BY DEF StudioAssumption
<1>4. 1 \in Version
  BY SMT DEF Version
<1> QED BY <1>1, <1>2, <1>3, <1>4

LEMMA NoDraftIs ==
  /\ NoDraft \in StudioRow /\ NoDraft.revision = 0 /\ NoDraft.mark.version = 0
  /\ NoEdit \in WindowRow /\ NoEdit.pc = "idle"
<1>1. NoDraft \in StudioRow /\ NoDraft.revision = 0 /\ NoDraft.mark.version = 0
  BY DEF NoDraft, Unmarked, StudioRow, AnySpec
<1> QED BY <1>1 DEF NoEdit, WindowRow

LEMMA StudioInitInv == StudioInit => StudioInv
BY NoDraftIs DEF StudioInit, StudioInv, DraftRow, Shows, WindowHolds, AnySpec

(* Registered versions are immutable.                                       *)
RegistryGrows ==
  /\ registry' \in [Version -> AnySpec]
  /\ \A v \in Version : registry[v] # NoSpec => registry'[v] = registry[v]

LEMMA ShownStays ==
  ASSUME RegistryGrows, NEW d, Shows(d)
  PROVE  Shows(d)'
BY SpecsAre DEF RegistryGrows, Shows

LEMMA HeldStays ==
  ASSUME RegistryGrows, NEW j, WindowHolds(j)
  PROVE  WindowHolds(j)'
<1>1. Shows(j.next) => Shows(j.next)'
  BY SpecsAre DEF RegistryGrows, Shows
<1> QED BY <1>1, SpecsAre DEF WindowHolds, RegistryGrows, Publishable

(* Every step may write the draft, and one window moves.                    *)
DraftMoves == DraftRow(draft)' /\ (draft.revision # 0 => draft'.revision # 0)

LEMMA WindowsKeep ==
  ASSUME StudioInv, RegistryGrows, DraftMoves, UNCHANGED window
  PROVE  StudioInv'
<1>1. ASSUME NEW w \in Window PROVE WindowHolds(window[w])'
  <2>1. PICK j : j = window[w]
    OBVIOUS
  <2>2. WindowHolds(j)'
    BY <2>1, HeldStays DEF StudioInv
  <2> QED BY <2>1, <2>2 DEF WindowHolds, Shows, Publishable
<1> QED BY <1>1 DEF StudioInv, RegistryGrows, DraftMoves

LEMMA WindowMoves ==
  ASSUME StudioInv, RegistryGrows, DraftMoves, NEW w \in Window, NEW j \in WindowRow,
         window' = [window EXCEPT ![w] = j], WindowHolds(j)', j.pc = "editing" => draft'.revision # 0
  PROVE  StudioInv'
<1>1. /\ window' \in [Window -> WindowRow] /\ window'[w] = j
      /\ \A v \in Window : v # w => window'[v] = window[v]
  BY DEF StudioInv
<1>2. ASSUME NEW v \in Window, v # w PROVE WindowHolds(window[v])'
  <2>1. PICK k : k = window[v]
    OBVIOUS
  <2>2. WindowHolds(k)'
    BY <2>1, HeldStays DEF StudioInv
  <2> QED BY <1>1, <1>2, <2>1, <2>2 DEF WindowHolds, Shows, Publishable
<1>3. WindowHolds(window[w])'
  BY <1>1 DEF WindowHolds, Shows, Publishable
<1> QED BY <1>1, <1>2, <1>3 DEF StudioInv, RegistryGrows, DraftMoves

LEMMA WindowCloses ==
  ASSUME StudioInv, RegistryGrows, DraftMoves, NEW w \in Window, Closes(w)
  PROVE  StudioInv'
<1>1. PICK j \in WindowRow : j = NoEdit
  BY NoDraftIs
<1>2. WindowHolds(j)' /\ j.pc # "editing"
  BY <1>1, NoDraftIs DEF WindowHolds
<1> QED BY <1>1, <1>2, WindowMoves DEF Closes

LEMMA StudioStays ==
  ASSUME StudioInv
  PROVE  /\ UNCHANGED registry => RegistryGrows
         /\ UNCHANGED <<draft, registry>> => DraftMoves
BY DEF StudioInv, RegistryGrows, DraftMoves, DraftRow, Shows, Publishable

LEMMA CreatesInv ==
  ASSUME StudioInv, CreateDraft \/ ImportBundle
  PROVE  StudioInv'
<1>1. PICK spec \in DraftSpec : draft' = NewDraft(spec)
  BY SpecsAre DEF CreateDraft, ImportBundle, Template
<1> DEFINE u == [NoDraft EXCEPT !.revision = 1]
           v == [u EXCEPT !.version = 1]
           d == [v EXCEPT !.spec = spec]
<1>2. draft' = d
  BY <1>1 DEF NewDraft
<1>3. u \in StudioRow /\ u.revision = 1 /\ u.mark.version = 0
  BY NoDraftIs DEF StudioRow
<1> HIDE DEF u
<1>4. v \in StudioRow /\ v.revision = 1 /\ v.version = 1 /\ v.mark.version = 0
  BY <1>3 DEF StudioRow
<1> HIDE DEF v
<1>5. d \in StudioRow /\ d.revision = 1 /\ d.version = 1 /\ d.spec = spec /\ d.mark.version = 0
  BY <1>4 DEF StudioRow, AnySpec
<1> HIDE DEF d
<1>6. DraftMoves
  BY <1>2, <1>5, SpecsAre DEF DraftMoves, DraftRow, Shows, Publishable
<1> QED BY <1>6, StudioStays, WindowsKeep DEF CreateDraft, ImportBundle

LEMMA OpenEditorInv ==
  ASSUME StudioInv, NEW w \in Window, OpenEditor(w)
  PROVE  StudioInv'
<1>1. /\ window' = [window EXCEPT ![w] = [NoEdit EXCEPT !.pc = "editing", !.shown = draft.spec.skill,
                                                        !.expected = draft.revision]]
      /\ draft.revision > 0 /\ UNCHANGED <<draft, registry>>
  BY DEF OpenEditor
<1>2. draft.revision \in Nat /\ draft.spec.skill \in Skill /\ draft.revision # 0
  BY <1>1 DEF StudioInv, DraftRow, StudioRow, Publishable, DraftSpec
<1> DEFINE u == [NoEdit EXCEPT !.pc = "editing"]
           v == [u EXCEPT !.shown = draft.spec.skill]
           j == [v EXCEPT !.expected = draft.revision]
<1>3. u \in WindowRow /\ u.pc = "editing"
  BY NoDraftIs DEF WindowRow
<1>4. window' = [window EXCEPT ![w] = j]
  BY <1>1
<1> HIDE DEF u
<1>5. v \in WindowRow /\ v.pc = "editing"
  BY <1>2, <1>3 DEF WindowRow
<1> HIDE DEF v
<1>6. j \in WindowRow /\ j.pc = "editing"
  BY <1>2, <1>5 DEF WindowRow
<1> HIDE DEF j
<1>7. PICK k \in WindowRow : k = j
  BY <1>6
<1>8. WindowHolds(k)'
  BY <1>6, <1>7 DEF WindowHolds
<1> QED BY <1>1, <1>2, <1>4, <1>7, <1>8, StudioStays, WindowMoves

(* _auto_version_modified_release: what is not released content is under    *)
(* another version than the released one.                                   *)
LEMMA VersionFresh ==
  ASSUME NEW current \in StudioRow, Shows(current), NEW version \in Nat, NEW spec,
         AutoVersion(current, version, spec) = current.mark.version, current.mark.version # 0
  PROVE  spec = current.mark.spec
<1>1. current.mark.version \in Nat
  BY DEF StudioRow
<1>2. current.mark.version = version
  BY <1>1 DEF AutoVersion
<1>3. [version |-> version, spec |-> spec]
        = [version |-> current.version, spec |-> current.spec]
  BY <1>1, <1>2 DEF AutoVersion
<1>4. version = current.version /\ spec = current.spec
  BY <1>3
<1> QED BY <1>2, <1>4 DEF Shows

LEMMA EditedInv ==
  ASSUME StudioInv, NEW w \in Window, UNCHANGED <<draft, registry>>, NEW version \in Nat,
         NEW spec \in DraftSpec, Edited(w, draft, version, spec)
  PROVE  StudioInv'
<1>1. PICK v \in Version : v = AutoVersion(draft, version, spec)
  BY DEF Edited
<1>2. draft \in StudioRow /\ Shows(draft) /\ window \in [Window -> WindowRow] /\ v \in Nat
  BY StudioAssumption DEF StudioInv, DraftRow, Version
<1> DEFINE a == [draft EXCEPT !.revision = @ + 1]
           b == [a EXCEPT !.version = v]
           d == [b EXCEPT !.spec = spec]
           f == [window[w] EXCEPT !.pc = "saving"]
           g == [f EXCEPT !.shown = "none"]
           j == [g EXCEPT !.next = d]
<1>3. window' = [[[window EXCEPT ![w].pc = "saving"] EXCEPT ![w].shown = "none"] EXCEPT ![w].next = d]
  BY <1>1 DEF Edited
<1>4. a \in StudioRow /\ a.mark = draft.mark
  BY <1>2 DEF StudioRow
<1> HIDE DEF a
<1>5. b \in StudioRow /\ b.mark = draft.mark /\ b.version = v
  BY <1>2, <1>4 DEF StudioRow
<1> HIDE DEF b
<1>6. d \in StudioRow /\ d.mark = draft.mark /\ d.version = v /\ d.spec = spec
  BY <1>5 DEF StudioRow, AnySpec
<1> HIDE DEF d
<1>7. window' = [window EXCEPT ![w] = j]
  BY <1>2, <1>3
<1>8. f \in WindowRow /\ f.pc = "saving"
  BY <1>2 DEF WindowRow
<1> HIDE DEF f
<1>9. g \in WindowRow /\ g.pc = "saving"
  BY <1>8 DEF WindowRow
<1> HIDE DEF g
<1>10. j \in WindowRow /\ j.pc = "saving" /\ j.next = d
  BY <1>6, <1>9 DEF WindowRow
<1> HIDE DEF j
<1>11. PICK k \in WindowRow : k = j
  BY <1>10
<1>12. d.mark.version # 0 /\ d.version = d.mark.version => d.spec = d.mark.spec
  BY <1>1, <1>2, <1>6, VersionFresh
<1>13. WindowHolds(k)'
  BY <1>2, <1>6, <1>10, <1>11, <1>12 DEF WindowHolds, Shows, Publishable
<1> QED BY <1>7, <1>10, <1>11, <1>13, StudioStays, WindowMoves

LEMMA EditingInv ==
  ASSUME StudioInv, NEW w \in Window, SaveRead(w) \/ InstallSkill(w)
  PROVE  StudioInv'
<1>1. UNCHANGED <<draft, registry>> /\ window[w].pc = "editing" /\ draft.revision # 0
  BY DEF SaveRead, InstallSkill, StudioInv
<1>2. draft.spec \in DraftSpec /\ draft.version \in Nat /\ Version \subseteq Nat
  BY <1>1, StudioAssumption DEF StudioInv, DraftRow, StudioRow, Publishable, Version
<1>3. CASE SaveRead(w)
  <2>1. PICK text \in Text, version \in Version, skill \in Skill :
          Edited(w, draft, version, [text |-> text, skill |-> skill]) \/ Closes(w)
    BY <1>3 DEF SaveRead
  <2>2. [text |-> text, skill |-> skill] \in DraftSpec
    BY DEF DraftSpec
  <2> QED BY <1>1, <1>2, <2>1, <2>2, EditedInv, WindowCloses, StudioStays
<1>4. CASE InstallSkill(w)
  <2>1. PICK skill \in Skill : Edited(w, draft, draft.version, [draft.spec EXCEPT !.skill = skill])
    BY <1>4 DEF InstallSkill
  <2>2. [draft.spec EXCEPT !.skill = skill] \in DraftSpec
    BY <1>2 DEF DraftSpec
  <2> QED BY <1>1, <1>2, <2>1, <2>2, EditedInv
<1> QED BY <1>3, <1>4

(* The row is written at the expected revision, one further.                *)
LEMMA ReplaceInv ==
  ASSUME StudioInv, NEW w \in Window, UNCHANGED registry, NEW d \in StudioRow, NEW e \in Nat,
         Shows(d), Publishable(d), ReplaceDraft(w, d, e)
  PROVE  StudioInv'
<1>1. RegistryGrows /\ Closes(w)
  BY StudioStays DEF ReplaceDraft
<1>2. CASE draft' = draft
  BY <1>1, <1>2, StudioStays, WindowCloses
<1>3. CASE draft' = d /\ d.revision = e + 1
  <2>1. DraftMoves
    BY <1>3 DEF DraftMoves, DraftRow, Shows, Publishable
  <2> QED BY <1>1, <2>1, WindowCloses
<1> QED BY <1>2, <1>3 DEF ReplaceDraft

LEMMA SaveWriteInv ==
  ASSUME StudioInv, NEW w \in Window, SaveWrite(w)
  PROVE  StudioInv'
<1>1. window[w] \in WindowRow /\ WindowHolds(window[w])
  BY DEF StudioInv
<1>2. /\ window[w].pc = "saving" /\ UNCHANGED registry
      /\ ReplaceDraft(w, window[w].next, window[w].expected)
  BY DEF SaveWrite
<1>3. window[w].next \in StudioRow /\ window[w].expected \in Nat
  BY <1>1 DEF WindowRow
<1>4. Shows(window[w].next) /\ Publishable(window[w].next)
  BY <1>1, <1>2 DEF WindowHolds
<1> QED BY <1>2, <1>3, <1>4, ReplaceInv

LEMMA PublishReadInv ==
  ASSUME StudioInv, NEW w \in Window, PublishRead(w)
  PROVE  StudioInv'
<1>1. /\ draft.revision # 0 /\ UNCHANGED <<draft, registry>>
      /\ \/ window' = [window EXCEPT ![w] = [NoEdit EXCEPT !.pc = "checking", !.next = draft]]
         \/ Closes(w)
  BY DEF PublishRead
<1>2. draft \in StudioRow /\ Shows(draft) /\ Publishable(draft)
  BY <1>1 DEF StudioInv, DraftRow
<1>3. CASE Closes(w)
  BY <1>1, <1>3, StudioStays, WindowCloses
<1>4. CASE window' = [window EXCEPT ![w] = [NoEdit EXCEPT !.pc = "checking", !.next = draft]]
  <2> DEFINE u == [NoEdit EXCEPT !.pc = "checking"]
             j == [u EXCEPT !.next = draft]
  <2>1. window' = [window EXCEPT ![w] = j]
    BY <1>4
  <2>2. u \in WindowRow /\ u.pc = "checking"
    BY NoDraftIs DEF WindowRow
  <2> HIDE DEF u
  <2>3. j \in WindowRow /\ j.pc = "checking" /\ j.next = draft
    BY <1>2, <2>2 DEF WindowRow
  <2> HIDE DEF j
  <2>4. PICK k \in WindowRow : k = j
    BY <2>3
  <2>5. WindowHolds(k)'
    BY <1>1, <1>2, <2>3, <2>4 DEF WindowHolds, Shows, Publishable
  <2> QED BY <1>1, <2>1, <2>3, <2>4, <2>5, StudioStays, WindowMoves
<1> QED BY <1>1, <1>3, <1>4

(* A window goes one step further with what it holds.                       *)
LEMMA WindowGoesOn ==
  ASSUME StudioInv, NEW w \in Window, RegistryGrows, UNCHANGED draft,
         window[w].pc \in {"checking", "publishing"}, NEW pc \in {"publishing", "marking"},
         pc = "marking" => registry'[window[w].next.version] = window[w].next.spec,
         window' = [window EXCEPT ![w].pc = pc]
  PROVE  StudioInv'
<1> DEFINE j == [window[w] EXCEPT !.pc = pc]
<1>1. window[w] \in WindowRow /\ WindowHolds(window[w]) /\ window \in [Window -> WindowRow]
  BY DEF StudioInv
<1>2. window' = [window EXCEPT ![w] = j]
  BY <1>1
<1>3. j \in WindowRow /\ j.pc = pc /\ j.next = window[w].next
  BY <1>1 DEF WindowRow
<1> HIDE DEF j
<1>4. PICK k \in WindowRow : k = j
  BY <1>3
<1>5. PICK d \in StudioRow : d = window[w].next
  BY <1>1 DEF WindowRow
<1>6. Shows(d)' /\ Publishable(d)
  BY <1>1, <1>5, ShownStays DEF WindowHolds
<1>7. WindowHolds(k)'
  BY <1>3, <1>4, <1>5, <1>6 DEF WindowHolds, Shows, Publishable
<1>8. DraftRow(draft)
  BY DEF StudioInv
<1>9. PICK e : e = draft
  OBVIOUS
<1>10. Shows(e)'
  BY <1>8, <1>9, ShownStays DEF DraftRow
<1>11. DraftMoves
  BY <1>8, <1>9, <1>10 DEF DraftMoves, DraftRow, Shows, Publishable
<1> QED BY <1>2, <1>3, <1>4, <1>7, <1>11, WindowMoves

LEMMA CheckDependenciesInv ==
  ASSUME StudioInv, NEW w \in Window, CheckDependencies(w)
  PROVE  StudioInv'
<1>1. CASE Closes(w)
  BY <1>1, StudioStays, WindowCloses DEF CheckDependencies
<1>2. CASE window' = [window EXCEPT ![w].pc = "publishing"]
  BY <1>2, StudioStays, WindowGoesOn DEF CheckDependencies
<1> QED BY <1>1, <1>2 DEF CheckDependencies

LEMMA RegisterInv ==
  ASSUME StudioInv, NEW w \in Window, PublishRegister(w)
  PROVE  StudioInv'
<1>1. PICK d : d = window[w].next
  OBVIOUS
<1>2. window[w].pc = "publishing" /\ UNCHANGED draft
  BY DEF PublishRegister
<1>3. d \in StudioRow /\ d.version \in Version /\ d.spec \in DraftSpec
  BY <1>1, <1>2 DEF StudioInv, WindowRow, WindowHolds, Publishable
<1>4. CASE Closes(w) /\ UNCHANGED registry
  BY <1>2, <1>4, StudioStays, WindowCloses
<1>5. CASE /\ registry[d.version] \in {NoSpec, d.spec}
           /\ registry' = [registry EXCEPT ![d.version] = d.spec]
           /\ window' = [window EXCEPT ![w].pc = "marking"]
  <2>1. RegistryGrows /\ registry'[d.version] = d.spec
    BY <1>3, <1>5 DEF StudioInv, RegistryGrows, AnySpec
  <2> QED BY <1>1, <1>2, <1>5, <2>1, WindowGoesOn
<1> QED BY <1>1, <1>4, <1>5 DEF PublishRegister

LEMMA MarkInv ==
  ASSUME StudioInv, NEW w \in Window, PublishMark(w)
  PROVE  StudioInv'
<1>1. window[w] \in WindowRow /\ WindowHolds(window[w]) /\ window[w].pc = "marking"
  BY DEF StudioInv, PublishMark
<1>2. PICK d \in StudioRow : d = window[w].next
  BY <1>1 DEF WindowRow
<1>3. d.version \in Version /\ d.spec \in DraftSpec /\ registry[d.version] = d.spec
  BY <1>1, <1>2 DEF WindowHolds, Publishable
<1> DEFINE released == [version |-> d.version, spec |-> d.spec]
           u == [d EXCEPT !.revision = @ + 1]
           e == [u EXCEPT !.mark = released]
<1>4. ReplaceDraft(w, e, d.revision) /\ UNCHANGED registry
  BY <1>2 DEF PublishMark
<1>5. d.version \in Nat /\ d.version # 0 /\ d.spec \in AnySpec /\ d.revision \in Nat
  BY <1>3, StudioAssumption DEF Version, AnySpec, StudioRow
<1>6. /\ released \in [version : Nat, spec : AnySpec]
      /\ released.version = d.version /\ released.spec = d.spec
  BY <1>5
<1> HIDE DEF released
<1>7. u \in StudioRow /\ u.version = d.version /\ u.spec = d.spec
  BY <1>5 DEF StudioRow
<1> HIDE DEF u
<1>8. e \in StudioRow /\ e.version = d.version /\ e.spec = d.spec /\ e.mark = released
  BY <1>6, <1>7 DEF StudioRow
<1> HIDE DEF e
<1>9. Shows(e) /\ Publishable(e)
  BY <1>3, <1>6, <1>8 DEF Shows, Publishable
<1> QED BY <1>4, <1>5, <1>8, <1>9, ReplaceInv

LEMMA BundleInv ==
  ASSUME StudioInv, PublishBundle
  PROVE  StudioInv'
<1>1. PICK v \in Version, spec \in DraftSpec :
        registry[v] = NoSpec /\ registry' = [registry EXCEPT ![v] = spec]
  BY DEF PublishBundle
<1>2. RegistryGrows
  BY <1>1 DEF StudioInv, RegistryGrows, AnySpec
<1>3. UNCHANGED <<draft, window>> /\ DraftRow(draft)
  BY DEF PublishBundle, StudioInv
<1>4. PICK d : d = draft
  OBVIOUS
<1>5. Shows(d)'
  BY <1>2, <1>3, <1>4, ShownStays DEF DraftRow
<1>6. DraftMoves
  BY <1>3, <1>4, <1>5 DEF DraftMoves, DraftRow, Shows, Publishable
<1> QED BY <1>2, <1>3, <1>6, WindowsKeep

LEMMA StudioStep == StudioInv /\ [StudioNext]_studioVars => StudioInv'
<1> SUFFICES ASSUME StudioInv, [StudioNext]_studioVars PROVE StudioInv'
  OBVIOUS
<1>1. CASE UNCHANGED studioVars
  BY <1>1, StudioStays, WindowsKeep DEF studioVars
<1>2. CASE CreateDraft \/ ImportBundle \/ PublishBundle
  BY <1>2, CreatesInv, BundleInv
<1>3. ASSUME NEW w \in Window, WindowLost(w) PROVE StudioInv'
  BY <1>3, StudioStays, WindowCloses DEF WindowLost
<1>4. ASSUME NEW w \in Window,
             OpenEditor(w) \/ SaveRead(w) \/ InstallSkill(w) \/ SaveWrite(w) \/ PublishRead(w)
      PROVE  StudioInv'
  BY <1>4, OpenEditorInv, EditingInv, SaveWriteInv, PublishReadInv
<1>5. ASSUME NEW w \in Window, CheckDependencies(w) \/ PublishRegister(w) \/ PublishMark(w)
      PROVE  StudioInv'
  BY <1>5, CheckDependenciesInv, RegisterInv, MarkInv
<1> QED BY <1>1, <1>2, <1>3, <1>4, <1>5 DEF StudioNext

(* Whatever its windows do in between, and however often a publication      *)
(* stops between the registry and the mark, a draft that shows itself as    *)
(* released holds what the registry has under that version                  *)
(* (studio/service.py, publish and _auto_version_modified_release).         *)
THEOREM DraftsAreReleasedAsShown == ServicesSpec => []ReleasedAsShown
<1>1. StudioInv => ReleasedAsShown
  BY DEF StudioInv, DraftRow, Shows, ReleasedAsShown
<1> QED BY <1>1, StudioPart, StudioInitInv, StudioStep, PTL DEF ServicesSpec

-----------------------------------------------------------------------------
(* Memories.                                                                 *)

LEMMA MemoryPart ==
  /\ ServicesInit => MemoryInit
  /\ [ServicesNext]_servicesVars => [MemoryNext]_memoryVars
<1>1. ServicesInit => MemoryInit
  BY DEF ServicesInit
<1>2. ServicesNext => MemoryNext \/ UNCHANGED memoryVars
  BY DEF ServicesNext, Only
<1>3. UNCHANGED servicesVars => UNCHANGED memoryVars
  BY DEF servicesVars
<1> QED BY <1>1, <1>2, <1>3

EntryRow == [status : {"absent", "pending", "active"} \cup Removed, version : Nat,
             text : Texts \cup {"erased"}, due : BOOLEAN]
EditorRow == [pc : {"idle", "add", "shown", "write", "consent", "retention"},
              op : {"none", "confirm", "reject", "update", "delete"}, memory : Memory,
              seen : EntryRow, read : EntryRow, policy : Nat]

(* A row without a version is no row, a removed one has lost its text.      *)
EntryIs(r) ==
  /\ r \in EntryRow
  /\ r.version = 0 => r = NoMemory
  /\ r.status = "absent" => r.version = 0
  /\ r.status \in Removed => r.text = "erased"

(* What was read of a row is what it is, unless its version has moved on.   *)
ReadOf(m, r) ==
  /\ r.version <= memories[m].version
  /\ r.version = memories[m].version => r.status = memories[m].status /\ r.text = memories[m].text

EditorHolds(j) ==
  /\ j.pc = "add" => /\ memories[j.memory] = NoMemory /\ EntryIs(j.read)
                     /\ j.read.version = 1 /\ j.read.status \in {"active", "pending"}
  /\ j.pc = "shown" => ReadOf(j.memory, j.seen) /\ j.seen.version # 0
  /\ j.pc = "write" => /\ ReadOf(j.memory, j.read) /\ EntryIs(j.read) /\ j.read.version # 0
                       /\ MayEdit(j.op, j.read.status) /\ j.seen.text = j.read.text
  /\ j.pc # "write" => j.op = "none"

(* What a reaper has listed.                                                *)
ReapHolds(m, r) == r \in EntryRow /\ ReadOf(m, r) /\ (r # NoMemory => r.status = "active" /\ r.version # 0)

MemoryInv ==
  /\ memories \in [Memory -> EntryRow]
  /\ \A m \in Memory : EntryIs(memories[m])
  /\ consent.version \in Nat /\ retention \in Nat
  /\ editor \in [Editor -> EditorRow]
  /\ \A q \in Editor : EditorHolds(editor[q])
  /\ \A p, q \in Editor : p # q /\ editor[p].pc = "add" /\ editor[q].pc = "add" =>
       editor[p].memory # editor[q].memory
  /\ reaping \in [Reaper -> [Memory -> EntryRow]]
  /\ \A w \in Reaper, m \in Memory : ReapHolds(m, reaping[w][m])

(* One row is written, or none: it goes to a later version, or keeps what   *)
(* it says; what is not there stays so, what is removed stays removed.      *)
EntriesMove ==
  \A m \in Memory :
    /\ EntryIs(memories'[m])
    /\ memories'[m].version >= memories[m].version
    /\ memories'[m].version = memories[m].version =>
         memories'[m].status = memories[m].status /\ memories'[m].text = memories[m].text
    /\ memories[m].status \in Removed => memories'[m].status \in Removed

LEMMA NoMemoryIs ==
  /\ NoMemory \in EntryRow /\ EntryIs(NoMemory) /\ NoMemory.version = 0 /\ NoMemory.status = "absent"
  /\ NoMemory.text = "erased"
  /\ Still \in EditorRow /\ Still.pc = "idle" /\ Still.op = "none"
<1>1. /\ NoMemory \in EntryRow /\ EntryIs(NoMemory) /\ NoMemory.version = 0
      /\ NoMemory.status = "absent" /\ NoMemory.text = "erased"
  BY DEF NoMemory, EntryRow, EntryIs, Removed
<1>2. (CHOOSE m \in Memory : TRUE) \in Memory
  BY MemoryAssumption
<1> QED BY <1>1, <1>2 DEF Still, EditorRow

LEMMA MemoryInitInv == MemoryInit => MemoryInv
<1> SUFFICES ASSUME MemoryInit PROVE MemoryInv
  OBVIOUS
<1>1. \A m \in Memory : memories[m] = NoMemory
  BY DEF MemoryInit
<1>2. memories \in [Memory -> EntryRow] /\ \A m \in Memory : EntryIs(memories[m])
  BY <1>1, NoMemoryIs DEF MemoryInit
<1>3. consent.version \in Nat /\ retention \in Nat
  BY DEF MemoryInit
<1>4. editor \in [Editor -> EditorRow] /\ \A q \in Editor : editor[q].pc = "idle" /\ editor[q].op = "none"
  BY NoMemoryIs DEF MemoryInit
<1>5. \A q \in Editor : EditorHolds(editor[q])
  BY <1>4 DEF EditorHolds
<1>6. \A w \in Reaper, m \in Memory : reaping[w][m] = NoMemory
  BY DEF MemoryInit
<1>7. \A m \in Memory : ReapHolds(m, NoMemory)
  BY <1>1, NoMemoryIs DEF ReapHolds, ReadOf
<1>8. reaping \in [Reaper -> [Memory -> EntryRow]]
  BY NoMemoryIs DEF MemoryInit
<1> QED BY <1>2, <1>3, <1>4, <1>5, <1>6, <1>7, <1>8 DEF MemoryInv

LEMMA ReadStays ==
  ASSUME MemoryInv, EntriesMove, NEW m \in Memory, NEW r \in EntryRow, ReadOf(m, r)
  PROVE  ReadOf(m, r)'
<1>1. /\ memories[m].version \in Nat /\ memories'[m].version \in Nat /\ r.version \in Nat
      /\ memories'[m].version >= memories[m].version
      /\ memories'[m].version = memories[m].version =>
           memories'[m].status = memories[m].status /\ memories'[m].text = memories[m].text
  BY DEF MemoryInv, EntriesMove, EntryIs, EntryRow
<1> QED BY <1>1 DEF ReadOf

LEMMA ListedStays ==
  ASSUME MemoryInv, EntriesMove, NEW m \in Memory, NEW r \in EntryRow, ReapHolds(m, r)
  PROVE  ReapHolds(m, r)'
BY ReadStays DEF ReapHolds

LEMMA EditorStays ==
  ASSUME MemoryInv, EntriesMove, NEW j \in EditorRow, EditorHolds(j),
         j.pc = "add" => memories'[j.memory] = NoMemory
  PROVE  EditorHolds(j)'
<1>1. j.memory \in Memory /\ j.seen \in EntryRow /\ j.read \in EntryRow
  BY DEF EditorRow
<1>2. ReadOf(j.memory, j.seen) => ReadOf(j.memory, j.seen)'
  BY <1>1, ReadStays
<1>3. ReadOf(j.memory, j.read) => ReadOf(j.memory, j.read)'
  BY <1>1, ReadStays
<1> QED BY <1>2, <1>3 DEF EditorHolds, EntryIs

PoliciesTyped == consent.version \in Nat /\ retention \in Nat

(* One editor moves, with what it may have written.                         *)
LEMMA EditorMoves ==
  ASSUME MemoryInv, EntriesMove, memories' \in [Memory -> EntryRow], NEW q \in Editor,
         NEW j \in EditorRow, editor' = [editor EXCEPT ![q] = j], EditorHolds(j)',
         \A p \in Editor : p # q /\ editor[p].pc = "add" =>
           /\ memories'[editor[p].memory] = NoMemory
           /\ j.pc = "add" => editor[p].memory # j.memory,
         UNCHANGED reaping, PoliciesTyped'
  PROVE  MemoryInv'
<1>1. /\ editor' \in [Editor -> EditorRow] /\ editor'[q] = j
      /\ \A p \in Editor : p # q => editor'[p] = editor[p]
  BY DEF MemoryInv
<1>2. ASSUME NEW p \in Editor PROVE EditorHolds(editor[p])'
  <2>1. PICK k \in EditorRow : k = editor'[p]
    BY <1>1
  <2>2. CASE p = q
    BY <1>1, <2>1, <2>2 DEF EditorHolds, ReadOf
  <2>3. CASE p # q
    <3>1. k = editor[p] /\ EditorHolds(k) /\ (k.pc = "add" => memories'[k.memory] = NoMemory)
      BY <1>1, <2>1, <2>3 DEF MemoryInv
    <3>2. EditorHolds(k)'
      BY <3>1, EditorStays
    <3> QED BY <2>1, <3>2 DEF EditorHolds, ReadOf
  <2> QED BY <2>2, <2>3
<1>3. ASSUME NEW w \in Reaper, NEW m \in Memory PROVE ReapHolds(m, reaping[w][m])'
  <2>1. PICK r \in EntryRow : r = reaping[w][m] /\ ReapHolds(m, r)
    BY DEF MemoryInv
  <2>2. ReapHolds(m, r)'
    BY <2>1, ListedStays
  <2> QED BY <2>1, <2>2 DEF ReapHolds, ReadOf
<1>4. \A p, o \in Editor : p # o /\ editor'[p].pc = "add" /\ editor'[o].pc = "add" =>
        editor'[p].memory # editor'[o].memory
  BY <1>1 DEF MemoryInv
<1>5. reaping' \in [Reaper -> [Memory -> EntryRow]]
  BY DEF MemoryInv
<1>6. \A m \in Memory : EntryIs(memories'[m])
  BY DEF EntriesMove
<1> QED BY <1>1, <1>2, <1>3, <1>4, <1>5, <1>6 DEF MemoryInv, PoliciesTyped, EntryIs

LEMMA EntriesStay ==
  ASSUME MemoryInv, UNCHANGED memories
  PROVE  /\ EntriesMove /\ memories' \in [Memory -> EntryRow]
         /\ \A p \in Editor : editor[p].pc = "add" => memories'[editor[p].memory] = NoMemory
<1>1. \A m \in Memory : EntryIs(memories[m]) /\ memories[m].version \in Nat
  BY DEF MemoryInv, EntryRow
<1>2. EntriesMove
  BY <1>1 DEF EntriesMove
<1>3. \A p \in Editor : editor[p].pc = "add" => memories[editor[p].memory] = NoMemory
  BY DEF MemoryInv, EditorHolds
<1> QED BY <1>2, <1>3 DEF MemoryInv

LEMMA EditorRests ==
  ASSUME MemoryInv, EntriesMove, memories' \in [Memory -> EntryRow], NEW q \in Editor,
         editor' = [editor EXCEPT ![q] = Still], UNCHANGED reaping, PoliciesTyped',
         \A p \in Editor : p # q /\ editor[p].pc = "add" => memories'[editor[p].memory] = NoMemory
  PROVE  MemoryInv'
<1>1. PICK j \in EditorRow : j = Still
  BY NoMemoryIs
<1>2. EditorHolds(j)'
  BY <1>1, NoMemoryIs DEF EditorHolds
<1> QED BY <1>1, <1>2, NoMemoryIs, EditorMoves

(* A row is written at the version it was read with.                        *)
LEMMA SetEntryMoves ==
  ASSUME MemoryInv, NEW m \in Memory, NEW r \in EntryRow, NEW n \in EntryRow, ReadOf(m, r),
         r.version # 0, SetEntry(m, r.version, n), EntryIs(n), n.version = r.version + 1,
         r.status \in Removed => n.status \in Removed
  PROVE  /\ EntriesMove /\ memories' \in [Memory -> EntryRow]
         /\ \A p \in Editor : editor[p].pc = "add" => memories'[editor[p].memory] = NoMemory
<1>1. CASE UNCHANGED memories
  BY <1>1, EntriesStay
<1>2. CASE memories[m].version = r.version /\ memories' = [memories EXCEPT ![m] = n]
  <2>1. /\ memories' \in [Memory -> EntryRow] /\ memories'[m] = n
        /\ \A k \in Memory : k # m => memories'[k] = memories[k]
    BY <1>2 DEF MemoryInv
  <2>2. \A k \in Memory : EntryIs(memories[k]) /\ memories[k].version \in Nat
    BY DEF MemoryInv, EntryRow
  <2>3. n.version > memories[m].version /\ (memories[m].status \in Removed => n.status \in Removed)
    BY <1>2, <2>2 DEF ReadOf
  <2>4. ASSUME NEW k \in Memory
        PROVE  /\ EntryIs(memories'[k]) /\ memories'[k].version >= memories[k].version
               /\ memories'[k].version = memories[k].version =>
                    memories'[k].status = memories[k].status /\ memories'[k].text = memories[k].text
               /\ memories[k].status \in Removed => memories'[k].status \in Removed
    <3>1. CASE k = m
      <4>1. n.version \in Nat /\ memories[m].version \in Nat /\ n.version # memories[m].version
        BY <2>2, <2>3 DEF EntryRow
      <4> QED BY <2>1, <2>3, <3>1, <4>1
    <3>2. CASE k # m
      BY <2>1, <2>2, <3>2
    <3> QED BY <3>1, <3>2
  <2>5. EntriesMove
    BY <2>4 DEF EntriesMove
  <2>6. ASSUME NEW p \in Editor, editor[p].pc = "add" PROVE memories'[editor[p].memory] = NoMemory
    <3>1. memories[editor[p].memory] = NoMemory /\ editor[p].memory \in Memory
      BY <2>6 DEF MemoryInv, EditorHolds, EditorRow
    <3> QED BY <1>2, <2>1, <3>1, NoMemoryIs
  <2> QED BY <2>1, <2>5, <2>6
<1> QED BY <1>1, <1>2 DEF SetEntry

(* What every step shows: a pending memory becomes active with what the     *)
(* user who confirms it was shown.                                          *)
Agreed ==
  \A m \in Memory :
    memories[m].status = "pending" /\ memories'[m].status = "active" =>
      \E q \in Editor : /\ editor[q].op = "confirm" /\ editor'[q] = Still
                        /\ editor[q].memory = m /\ editor[q].seen.text = memories'[m].text

MemoryGood == MemoryInv' /\ EntriesMove /\ Agreed

(* An editor takes a step of its own.                                       *)
LEMMA EditorSteps ==
  ASSUME MemoryInv, UNCHANGED <<memories, reaping>>, PoliciesTyped', NEW q \in Editor,
         NEW j \in EditorRow, editor' = [editor EXCEPT ![q] = j], EditorHolds(j),
         j.pc = "add" => \A p \in Editor : editor[p].pc = "add" => editor[p].memory # j.memory
  PROVE  MemoryGood
<1>1. EditorHolds(j)'
  BY DEF EditorHolds, ReadOf, EntryIs
<1>2. \A p \in Editor : p # q /\ editor[p].pc = "add" =>
        /\ memories'[editor[p].memory] = NoMemory
        /\ j.pc = "add" => editor[p].memory # j.memory
  BY EntriesStay
<1>3. MemoryInv'
  BY <1>1, <1>2, EntriesStay, EditorMoves
<1>4. Agreed
  BY DEF Agreed
<1> QED BY <1>3, <1>4, EntriesStay DEF MemoryGood

LEMMA EditorEnds ==
  ASSUME MemoryInv, UNCHANGED <<memories, reaping>>, PoliciesTyped', NEW q \in Editor,
         editor' = [editor EXCEPT ![q] = Still]
  PROVE  MemoryGood
<1>1. PICK j \in EditorRow : j = Still
  BY NoMemoryIs
<1>2. EditorHolds(j) /\ j.pc # "add"
  BY <1>1, NoMemoryIs DEF EditorHolds
<1> QED BY <1>1, <1>2, EditorSteps

(* A reaper takes a step, or time passes.                                   *)
LEMMA ReaperSteps ==
  ASSUME MemoryInv, EntriesMove, memories' \in [Memory -> EntryRow], UNCHANGED editor,
         \A p \in Editor : editor[p].pc = "add" => memories'[editor[p].memory] = NoMemory,
         reaping' \in [Reaper -> [Memory -> EntryRow]], PoliciesTyped',
         \A w \in Reaper, m \in Memory : reaping'[w][m] # reaping[w][m] => ReapHolds(m, reaping[w][m])'
  PROVE  MemoryInv'
<1>1. ASSUME NEW p \in Editor PROVE EditorHolds(editor[p])'
  <2>1. PICK k \in EditorRow : k = editor[p] /\ EditorHolds(k)
    BY DEF MemoryInv
  <2>2. EditorHolds(k)'
    BY <2>1, EditorStays
  <2> QED BY <2>1, <2>2 DEF EditorHolds, ReadOf
<1>2. ASSUME NEW w \in Reaper, NEW m \in Memory PROVE ReapHolds(m, reaping[w][m])'
  <2>1. CASE reaping'[w][m] # reaping[w][m]
    BY <2>1
  <2>2. CASE reaping'[w][m] = reaping[w][m]
    <3>1. PICK r \in EntryRow : r = reaping[w][m] /\ ReapHolds(m, r)
      BY DEF MemoryInv
    <3>2. ReapHolds(m, r)'
      BY <3>1, ListedStays
    <3> QED BY <2>2, <3>1, <3>2 DEF ReapHolds, ReadOf
  <2> QED BY <2>1, <2>2
<1>3. \A m \in Memory : EntryIs(memories'[m])
  BY DEF EntriesMove
<1>4. editor' \in [Editor -> EditorRow]
  BY DEF MemoryInv
<1>5. \A p, q \in Editor : p # q /\ editor'[p].pc = "add" /\ editor'[q].pc = "add" =>
        editor'[p].memory # editor'[q].memory
  BY DEF MemoryInv
<1> QED BY <1>1, <1>2, <1>3, <1>4, <1>5 DEF MemoryInv, PoliciesTyped, EntryIs

LEMMA ProposeGood ==
  ASSUME MemoryInv, NEW q \in Editor, Propose(q)
  PROVE  MemoryGood
<1>1. PICK m \in Memory, text \in Texts, status \in {"active", "pending"} :
        /\ memories[m] = NoMemory
        /\ \A p \in Editor : editor[p].pc = "add" => editor[p].memory # m
        /\ editor' = [editor EXCEPT ![q] = [Still EXCEPT !.pc = "add", !.memory = m,
             !.read = [status |-> status, version |-> 1, text |-> text, due |-> FALSE]]]
  BY DEF Propose
<1> DEFINE written == [status |-> status, version |-> 1, text |-> text, due |-> FALSE]
           u == [Still EXCEPT !.pc = "add"]
           v == [u EXCEPT !.memory = m]
           j == [v EXCEPT !.read = written]
<1>2. editor' = [editor EXCEPT ![q] = j]
  BY <1>1
<1>3. written \in EntryRow /\ EntryIs(written) /\ written.version = 1 /\ written.status \in {"active", "pending"}
  BY DEF EntryRow, EntryIs, Removed
<1> HIDE DEF written
<1>4. u \in EditorRow /\ u.pc = "add" /\ u.op = "none"
  BY NoMemoryIs DEF EditorRow
<1> HIDE DEF u
<1>5. v \in EditorRow /\ v.pc = "add" /\ v.op = "none" /\ v.memory = m
  BY <1>4 DEF EditorRow
<1> HIDE DEF v
<1>6. j \in EditorRow /\ j.pc = "add" /\ j.op = "none" /\ j.memory = m /\ j.read = written
  BY <1>3, <1>5 DEF EditorRow
<1> HIDE DEF j
<1>7. EditorHolds(j)
  BY <1>1, <1>3, <1>6 DEF EditorHolds
<1>8. UNCHANGED <<memories, reaping>> /\ PoliciesTyped'
  BY DEF Propose, MemoryInv, PoliciesTyped
<1>9. PICK k \in EditorRow : k = j
  BY <1>6
<1> QED BY <1>1, <1>2, <1>6, <1>7, <1>8, <1>9, EditorSteps

LEMMA AddEntryGood ==
  ASSUME MemoryInv, NEW q \in Editor, AddEntry(q)
  PROVE  MemoryGood
<1>1. PICK m \in Memory, written \in EntryRow : m = editor[q].memory /\ written = editor[q].read
  BY DEF MemoryInv, EditorRow
<1>2. /\ memories' = [memories EXCEPT ![m] = written] /\ editor' = [editor EXCEPT ![q] = Still]
      /\ UNCHANGED reaping /\ PoliciesTyped' /\ editor[q].pc = "add"
  BY <1>1 DEF AddEntry, PoliciesTyped, MemoryInv
<1>3. memories[m] = NoMemory /\ EntryIs(written) /\ written.version = 1
  BY <1>1, <1>2 DEF MemoryInv, EditorHolds
<1>4. /\ memories' \in [Memory -> EntryRow] /\ memories'[m] = written
      /\ \A k \in Memory : k # m => memories'[k] = memories[k]
  BY <1>2 DEF MemoryInv
<1>5. \A k \in Memory : EntryIs(memories[k]) /\ memories[k].version \in Nat
  BY DEF MemoryInv, EntryRow
<1>6. EntriesMove
  <2>1. NoMemory.version = 0 /\ NoMemory.status \notin Removed
    BY NoMemoryIs DEF Removed
  <2> QED BY <1>3, <1>4, <1>5, <2>1 DEF EntriesMove
<1>7. ASSUME NEW p \in Editor, p # q, editor[p].pc = "add"
      PROVE  memories'[editor[p].memory] = NoMemory
  <2>1. memories[editor[p].memory] = NoMemory /\ editor[p].memory \in Memory /\ editor[p].memory # m
    BY <1>1, <1>2, <1>7 DEF MemoryInv, EditorHolds, EditorRow
  <2> QED BY <1>4, <2>1
<1>8. MemoryInv'
  BY <1>2, <1>4, <1>6, <1>7, EditorRests
<1>9. Agreed
  BY <1>3, <1>4, NoMemoryIs DEF Agreed
<1> QED BY <1>6, <1>8, <1>9 DEF MemoryGood

LEMMA ListEntriesGood ==
  ASSUME MemoryInv, NEW q \in Editor, ListEntries(q)
  PROVE  MemoryGood
<1>1. PICK m \in Memory :
        /\ memories[m].status \in {"pending", "active"}
        /\ editor' = [editor EXCEPT ![q] = [Still EXCEPT !.pc = "shown", !.memory = m, !.seen = memories[m]]]
  BY DEF ListEntries
<1> DEFINE u == [Still EXCEPT !.pc = "shown"]
           v == [u EXCEPT !.memory = m]
           j == [v EXCEPT !.seen = memories[m]]
<1>2. editor' = [editor EXCEPT ![q] = j]
  BY <1>1
<1>3. memories[m] \in EntryRow /\ EntryIs(memories[m])
  BY DEF MemoryInv
<1>4. u \in EditorRow /\ u.pc = "shown" /\ u.op = "none"
  BY NoMemoryIs DEF EditorRow
<1> HIDE DEF u
<1>5. v \in EditorRow /\ v.pc = "shown" /\ v.op = "none" /\ v.memory = m
  BY <1>4 DEF EditorRow
<1> HIDE DEF v
<1>6. j \in EditorRow /\ j.pc = "shown" /\ j.op = "none" /\ j.memory = m /\ j.seen = memories[m]
  BY <1>3, <1>5 DEF EditorRow
<1> HIDE DEF j
<1>7. memories[m].version # 0 /\ ReadOf(m, memories[m])
  <2>1. memories[m].version \in Nat
    BY <1>3 DEF EntryRow
  <2>2. memories[m] # NoMemory
    BY <1>1, NoMemoryIs
  <2> QED BY <1>3, <2>1, <2>2 DEF EntryIs, ReadOf
<1>8. PICK k \in EditorRow : k = j
  BY <1>6
<1>9. EditorHolds(k)
  BY <1>6, <1>7, <1>8 DEF EditorHolds
<1>10. UNCHANGED <<memories, reaping>> /\ PoliciesTyped'
  BY DEF ListEntries, MemoryInv, PoliciesTyped
<1> QED BY <1>2, <1>6, <1>8, <1>9, <1>10, EditorSteps

LEMMA GetEntryGood ==
  ASSUME MemoryInv, NEW q \in Editor, GetEntry(q)
  PROVE  MemoryGood
<1>1. PICK m \in Memory : m = editor[q].memory
  BY DEF MemoryInv, EditorRow
<1>2. PICK op \in {"confirm", "reject", "update", "delete"} :
        \/ editor' = [editor EXCEPT ![q] = Still]
        \/ /\ memories[m].version = editor[q].seen.version /\ MayEdit(op, memories[m].status)
           /\ editor' = [editor EXCEPT ![q] = [@ EXCEPT !.pc = "write", !.op = op, !.read = memories[m]]]
  BY <1>1 DEF GetEntry
<1>3. UNCHANGED <<memories, reaping>> /\ PoliciesTyped' /\ editor[q].pc = "shown"
  BY DEF GetEntry, MemoryInv, PoliciesTyped
<1>4. CASE editor' = [editor EXCEPT ![q] = Still]
  BY <1>3, <1>4, EditorEnds
<1>5. CASE /\ memories[m].version = editor[q].seen.version /\ MayEdit(op, memories[m].status)
           /\ editor' = [editor EXCEPT ![q] = [@ EXCEPT !.pc = "write", !.op = op, !.read = memories[m]]]
  <2> DEFINE u == [editor[q] EXCEPT !.pc = "write"]
             v == [u EXCEPT !.op = op]
             j == [v EXCEPT !.read = memories[m]]
  <2>1. editor[q] \in EditorRow /\ EditorHolds(editor[q]) /\ editor \in [Editor -> EditorRow]
    BY DEF MemoryInv
  <2>2. editor' = [editor EXCEPT ![q] = j]
    BY <1>5, <2>1
  <2>3. memories[m].version = editor[q].seen.version /\ MayEdit(op, memories[m].status)
    BY <1>5
  <2>4. memories[m] \in EntryRow /\ EntryIs(memories[m]) /\ memories[m].version \in Nat
    BY DEF MemoryInv, EntryRow
  <2>5. editor[q].seen.version # 0 /\ editor[q].seen.text = memories[m].text
    BY <1>1, <1>3, <2>1, <2>3 DEF EditorHolds, ReadOf
  <2>6. u \in EditorRow /\ u.pc = "write" /\ u.memory = m /\ u.seen = editor[q].seen
    BY <1>1, <2>1 DEF EditorRow
  <2> HIDE DEF u
  <2>7. v \in EditorRow /\ v.pc = "write" /\ v.memory = m /\ v.seen = editor[q].seen /\ v.op = op
    BY <2>6 DEF EditorRow
  <2> HIDE DEF v
  <2>8. /\ j \in EditorRow /\ j.pc = "write" /\ j.memory = m /\ j.seen = editor[q].seen
        /\ j.op = op /\ j.read = memories[m]
    BY <2>4, <2>7 DEF EditorRow
  <2> HIDE DEF j
  <2>9. PICK k \in EditorRow : k = j
    BY <2>8
  <2>10. EditorHolds(k)
    BY <2>3, <2>4, <2>5, <2>8, <2>9 DEF EditorHolds, ReadOf
  <2> QED BY <1>3, <2>2, <2>8, <2>9, <2>10, EditorSteps
<1> QED BY <1>2, <1>4, <1>5

(* What an operation makes of the row it has read.                          *)
LEMMA EditedEntry ==
  ASSUME NEW r, EntryIs(r), r.version # 0, NEW text \in Texts
  PROVE  /\ \A n \in {Confirmed(r), Updated(r, text)} :
              n \in EntryRow /\ n.version = r.version + 1
         /\ \A n \in {Rejected(r), DeletedEntry(r), ExpiredEntry(r)} :
              EntryIs(n) /\ n.version = r.version + 1 /\ n.status \in Removed
         /\ Confirmed(r).text = r.text /\ Confirmed(r).status = "active"
         /\ Updated(r, text).status = r.status
<1>1. r \in EntryRow /\ r.version \in Nat
  BY DEF EntryIs, EntryRow
<1>2. DeletedEntry(r) \in EntryRow /\ EntryIs(DeletedEntry(r))
  BY <1>1 DEF DeletedEntry, EntryRow, EntryIs, Removed
<1>3. ASSUME NEW status \in Removed, NEW n, n = [r EXCEPT !.status = status, !.version = @ + 1, !.text = "erased"]
      PROVE  EntryIs(n) /\ n.version = r.version + 1 /\ n.status = status
  <2> DEFINE u == [r EXCEPT !.status = status]
             v == [u EXCEPT !.version = @ + 1]
             x == [v EXCEPT !.text = "erased"]
  <2>1. n = x
    BY <1>3
  <2>2. u \in EntryRow /\ u.status = status /\ u.version = r.version
    BY <1>1 DEF EntryRow
  <2> HIDE DEF u
  <2>3. v \in EntryRow /\ v.status = status /\ v.version = r.version + 1
    BY <1>1, <2>2 DEF EntryRow
  <2> HIDE DEF v
  <2>4. x \in EntryRow /\ x.status = status /\ x.version = r.version + 1 /\ x.text = "erased"
    BY <2>3 DEF EntryRow
  <2> HIDE DEF x
  <2> QED BY <1>1, <2>1, <2>4 DEF EntryIs, Removed
<1>4. /\ EntryIs(Rejected(r)) /\ Rejected(r).version = r.version + 1 /\ Rejected(r).status = "rejected"
      /\ EntryIs(ExpiredEntry(r)) /\ ExpiredEntry(r).version = r.version + 1
      /\ ExpiredEntry(r).status = "expired"
  BY <1>3 DEF Rejected, ExpiredEntry, Removed
<1>5. DeletedEntry(r).version = r.version + 1 /\ DeletedEntry(r).status = "deleted"
  BY DEF DeletedEntry
<1>6. /\ Confirmed(r) \in EntryRow /\ Confirmed(r).version = r.version + 1
      /\ Confirmed(r).text = r.text /\ Confirmed(r).status = "active"
  <2> DEFINE u == [r EXCEPT !.status = "active"]
             v == [u EXCEPT !.version = @ + 1]
             x == [v EXCEPT !.due = FALSE]
  <2>1. Confirmed(r) = x
    BY DEF Confirmed
  <2>2. u \in EntryRow /\ u.status = "active" /\ u.version = r.version /\ u.text = r.text
    BY <1>1 DEF EntryRow
  <2> HIDE DEF u
  <2>3. v \in EntryRow /\ v.status = "active" /\ v.version = r.version + 1 /\ v.text = r.text
    BY <1>1, <2>2 DEF EntryRow
  <2> HIDE DEF v
  <2>4. x \in EntryRow /\ x.status = "active" /\ x.version = r.version + 1 /\ x.text = r.text
    BY <2>3 DEF EntryRow
  <2> HIDE DEF x
  <2> QED BY <2>1, <2>4
<1>7. /\ Updated(r, text) \in EntryRow /\ Updated(r, text).version = r.version + 1
      /\ Updated(r, text).status = r.status
  <2> DEFINE u == [r EXCEPT !.version = @ + 1]
             x == [u EXCEPT !.text = text]
  <2>1. Updated(r, text) = x
    BY DEF Updated
  <2>2. u \in EntryRow /\ u.status = r.status /\ u.version = r.version + 1
    BY <1>1 DEF EntryRow
  <2> HIDE DEF u
  <2>3. x \in EntryRow /\ x.status = r.status /\ x.version = r.version + 1
    BY <2>2 DEF EntryRow
  <2> HIDE DEF x
  <2> QED BY <2>1, <2>3
<1> QED BY <1>2, <1>4, <1>5, <1>6, <1>7 DEF Removed

LEMMA EditWrites ==
  ASSUME MemoryInv, NEW q \in Editor, editor[q].pc = "write", NEW n \in EntryRow, EntryIs(n),
         SetEntry(editor[q].memory, editor[q].read.version, n),
         n.version = editor[q].read.version + 1,
         editor[q].read.status \in Removed => n.status \in Removed,
         editor[q].read.status = "pending" /\ n.status = "active" =>
           editor[q].op = "confirm" /\ n.text = editor[q].seen.text,
         editor' = [editor EXCEPT ![q] = Still], UNCHANGED <<consent, retention, reaping>>
  PROVE  MemoryGood
<1>1. PICK m \in Memory, r \in EntryRow : m = editor[q].memory /\ r = editor[q].read
  BY DEF MemoryInv, EditorRow
<1>2. ReadOf(m, r) /\ r.version # 0
  BY <1>1 DEF MemoryInv, EditorHolds
<1>3. /\ EntriesMove /\ memories' \in [Memory -> EntryRow]
      /\ \A p \in Editor : editor[p].pc = "add" => memories'[editor[p].memory] = NoMemory
  BY <1>1, <1>2, SetEntryMoves
<1>4. PoliciesTyped'
  BY DEF MemoryInv, PoliciesTyped
<1>5. MemoryInv'
  BY <1>3, <1>4, EditorRests
<1>6. editor'[q] = Still
  BY DEF MemoryInv
<1>7. Agreed
  <2>1. CASE UNCHANGED memories
    BY <2>1 DEF Agreed
  <2>2. CASE memories[m].version = r.version /\ memories' = [memories EXCEPT ![m] = n]
    <3>1. memories'[m] = n /\ \A k \in Memory : k # m => memories'[k] = memories[k]
      BY <2>2 DEF MemoryInv
    <3>2. memories[m].status = r.status
      BY <1>2, <2>2 DEF ReadOf
    <3> QED BY <1>1, <1>6, <3>1, <3>2 DEF Agreed
  <2> QED BY <1>1, <2>1, <2>2 DEF SetEntry
<1> QED BY <1>3, <1>5, <1>7 DEF MemoryGood

LEMMA EditGood ==
  ASSUME MemoryInv, NEW q \in Editor, Edit(q)
  PROVE  MemoryGood
<1>1. PICK m \in Memory, r \in EntryRow : m = editor[q].memory /\ r = editor[q].read
  BY DEF MemoryInv, EditorRow
<1>2. /\ editor[q].pc = "write" /\ editor' = [editor EXCEPT ![q] = Still]
      /\ UNCHANGED <<consent, retention, reaping>>
  BY DEF Edit
<1>3. /\ EntryIs(r) /\ r.version # 0 /\ MayEdit(editor[q].op, r.status)
      /\ editor[q].seen.text = r.text
  BY <1>1, <1>2 DEF MemoryInv, EditorHolds
<1>4. r.version \in Nat /\ r.version + 1 # 0
  BY DEF EntryRow
<1>5. PICK text \in Texts :
        \/ editor[q].op = "confirm" /\ SetEntry(m, r.version, Confirmed(r))
        \/ editor[q].op = "reject" /\ SetEntry(m, r.version, Rejected(r))
        \/ editor[q].op = "delete" /\ SetEntry(m, r.version, DeletedEntry(r))
        \/ editor[q].op = "update" /\ SetEntry(m, r.version, Updated(r, text))
  BY <1>1 DEF Edit, Texts
<1>6. CASE editor[q].op = "confirm" /\ SetEntry(m, r.version, Confirmed(r))
  <2>1. /\ Confirmed(r) \in EntryRow /\ Confirmed(r).version = r.version + 1
        /\ Confirmed(r).text = r.text /\ Confirmed(r).status = "active"
    BY <1>3, EditedEntry
  <2>2. EntryIs(Confirmed(r)) /\ r.status \notin Removed
    BY <1>3, <1>4, <1>6, <2>1 DEF EntryIs, MayEdit, Removed
  <2> QED BY <1>1, <1>2, <1>3, <1>6, <2>1, <2>2, EditWrites
<1>7. CASE editor[q].op = "update" /\ SetEntry(m, r.version, Updated(r, text))
  <2>1. /\ Updated(r, text) \in EntryRow /\ Updated(r, text).version = r.version + 1
        /\ Updated(r, text).status = r.status
    BY <1>3, EditedEntry
  <2>2. EntryIs(Updated(r, text)) /\ r.status \in {"pending", "active"}
    BY <1>3, <1>4, <1>7, <2>1 DEF EntryIs, MayEdit, Removed
  <2> QED BY <1>1, <1>2, <1>3, <1>7, <2>1, <2>2, EditWrites
<1>8. ASSUME NEW n, n \in {Rejected(r), DeletedEntry(r)}, SetEntry(m, r.version, n)
      PROVE  MemoryGood
  <2>1. EntryIs(n) /\ n.version = r.version + 1 /\ n.status \in Removed
    BY <1>3, <1>5, <1>8, EditedEntry
  <2>2. n \in EntryRow /\ n.status # "active"
    BY <2>1 DEF EntryIs, Removed
  <2> QED BY <1>1, <1>2, <1>8, <2>1, <2>2, EditWrites
<1> QED BY <1>5, <1>6, <1>7, <1>8

LEMMA PoliciesGood ==
  ASSUME MemoryInv, NEW q \in Editor, GetPolicy(q) \/ ReplaceConsent(q) \/ ReplaceRetention(q)
  PROVE  MemoryGood
<1>1. consent.version \in Nat /\ retention \in Nat
  BY DEF MemoryInv
<1>2. CASE ReplaceConsent(q) \/ ReplaceRetention(q)
  <2>1. /\ editor' = [editor EXCEPT ![q] = Still] /\ UNCHANGED <<memories, reaping>>
        /\ PoliciesTyped'
    BY <1>1, <1>2 DEF ReplaceConsent, ReplaceRetention, PoliciesTyped
  <2> QED BY <2>1, EditorEnds
<1>3. CASE GetPolicy(q)
  <2>1. PICK pc \in {"consent", "retention"}, version \in Nat :
          editor' = [editor EXCEPT ![q] = [Still EXCEPT !.pc = pc, !.policy = version]]
    BY <1>1, <1>3 DEF GetPolicy
  <2> DEFINE u == [Still EXCEPT !.pc = pc]
             j == [u EXCEPT !.policy = version]
  <2>2. editor' = [editor EXCEPT ![q] = j]
    BY <2>1
  <2>3. u \in EditorRow /\ u.pc = pc /\ u.op = "none"
    BY NoMemoryIs DEF EditorRow
  <2> HIDE DEF u
  <2>4. j \in EditorRow /\ j.pc = pc /\ j.op = "none"
    BY <2>3 DEF EditorRow
  <2> HIDE DEF j
  <2>5. EditorHolds(j)
    BY <2>4 DEF EditorHolds
  <2>6. PICK k \in EditorRow : k = j
    BY <2>4
  <2>7. UNCHANGED <<memories, reaping>> /\ PoliciesTyped'
    BY <1>1, <1>3 DEF GetPolicy, PoliciesTyped
  <2> QED BY <2>2, <2>4, <2>5, <2>6, <2>7, EditorSteps
<1> QED BY <1>2, <1>3

LEMMA ElapseGood ==
  ASSUME MemoryInv, NEW m \in Memory, Elapse(m)
  PROVE  MemoryGood
<1> DEFINE n == [memories[m] EXCEPT !.due = TRUE]
<1>1. /\ memories' = [memories EXCEPT ![m].due = TRUE] /\ memories[m].status = "active"
      /\ UNCHANGED <<consent, retention, editor, reaping>>
  BY DEF Elapse
<1>2. \A k \in Memory : EntryIs(memories[k]) /\ memories[k].version \in Nat /\ memories[k] \in EntryRow
  BY DEF MemoryInv, EntryRow
<1>3. /\ n \in EntryRow /\ n.status = memories[m].status /\ n.version = memories[m].version
      /\ n.text = memories[m].text
  BY <1>2 DEF EntryRow
<1>4. memories' = [memories EXCEPT ![m] = n]
  BY <1>1 DEF MemoryInv
<1> HIDE DEF n
<1>5. memories[m] # NoMemory
  BY <1>1, NoMemoryIs
<1>6. EntryIs(n)
  BY <1>1, <1>2, <1>3, <1>5 DEF EntryIs, Removed
<1>7. /\ memories' \in [Memory -> EntryRow] /\ memories'[m] = n
      /\ \A k \in Memory : k # m => memories'[k] = memories[k]
  BY <1>3, <1>4 DEF MemoryInv
<1>8. EntriesMove
  BY <1>2, <1>3, <1>6, <1>7 DEF EntriesMove
<1>9. ASSUME NEW p \in Editor, editor[p].pc = "add" PROVE memories'[editor[p].memory] = NoMemory
  <2>1. memories[editor[p].memory] = NoMemory /\ editor[p].memory \in Memory
    BY <1>9 DEF MemoryInv, EditorHolds, EditorRow
  <2> QED BY <1>5, <1>7, <2>1
<1>10. reaping' \in [Reaper -> [Memory -> EntryRow]] /\ PoliciesTyped'
  BY <1>1 DEF MemoryInv, PoliciesTyped
<1>11. MemoryInv'
  BY <1>1, <1>7, <1>8, <1>9, <1>10, ReaperSteps
<1>12. Agreed
  BY <1>1, <1>7 DEF Agreed
<1> QED BY <1>8, <1>11, <1>12 DEF MemoryGood

LEMMA ListExpiredGood ==
  ASSUME MemoryInv, NEW w \in Reaper, ListExpired(w)
  PROVE  MemoryGood
<1>1. /\ reaping' = [reaping EXCEPT ![w] = [m \in Memory |->
           IF memories[m].status = "active" /\ memories[m].due THEN memories[m] ELSE NoMemory]]
      /\ UNCHANGED <<memories, consent, retention, editor>>
  BY DEF ListExpired
<1>2. \A m \in Memory : memories[m] \in EntryRow /\ EntryIs(memories[m]) /\ memories[m].version \in Nat
  BY DEF MemoryInv, EntryRow
<1>3. /\ reaping' \in [Reaper -> [Memory -> EntryRow]]
      /\ \A v \in Reaper : v # w => reaping'[v] = reaping[v]
      /\ \A m \in Memory : \/ reaping'[w][m] = memories[m] /\ memories[m].status = "active"
                           \/ reaping'[w][m] = NoMemory
  BY <1>1, <1>2, NoMemoryIs DEF MemoryInv
<1>4. ASSUME NEW v \in Reaper, NEW m \in Memory, reaping'[v][m] # reaping[v][m]
      PROVE  ReapHolds(m, reaping[v][m])'
  <2>1. v = w
    BY <1>3, <1>4
  <2>2. CASE reaping'[w][m] = memories[m] /\ memories[m].status = "active"
    <3>1. memories[m].version # 0
      BY <1>2, <2>2, NoMemoryIs DEF EntryIs
    <3> QED BY <1>1, <1>2, <2>1, <2>2, <3>1 DEF ReapHolds, ReadOf
  <2>3. CASE reaping'[w][m] = NoMemory
    <3>1. memories[m].version = 0 => memories[m] = NoMemory
      BY <1>2 DEF EntryIs
    <3> QED BY <1>1, <1>2, <2>1, <2>3, <3>1, NoMemoryIs DEF ReapHolds, ReadOf
  <2> QED BY <1>3, <2>2, <2>3
<1>5. PoliciesTyped'
  BY <1>1 DEF MemoryInv, PoliciesTyped
<1>6. MemoryInv'
  BY <1>1, <1>3, <1>4, <1>5, EntriesStay, ReaperSteps
<1>7. Agreed
  BY <1>1 DEF Agreed
<1> QED BY <1>1, <1>6, <1>7, EntriesStay DEF MemoryGood

LEMMA ReapEntryGood ==
  ASSUME MemoryInv, NEW w \in Reaper, ReapEntry(w)
  PROVE  MemoryGood
<1>1. PICK m \in Memory :
        /\ reaping[w][m] # NoMemory
        /\ SetEntry(m, reaping[w][m].version, ExpiredEntry(reaping[w][m]))
        /\ reaping' = [reaping EXCEPT ![w][m] = NoMemory]
        /\ UNCHANGED <<consent, retention, editor>>
  BY DEF ReapEntry
<1>2. reaping[w][m] # NoMemory /\ UNCHANGED <<consent, retention, editor>>
  BY <1>1
<1>3. PICK r \in EntryRow : r = reaping[w][m] /\ ReapHolds(m, r)
  BY DEF MemoryInv
<1>4. r.status = "active" /\ r.version # 0 /\ ReadOf(m, r)
  BY <1>2, <1>3 DEF ReapHolds
<1>5. EntryIs(r)
  BY <1>4 DEF EntryIs, Removed
<1>6. PICK n : n = ExpiredEntry(r)
  OBVIOUS
<1>7. EntryIs(n) /\ n.version = r.version + 1 /\ n.status \in Removed
  <2>1. PICK text \in Texts : TRUE
    BY DEF Texts
  <2> QED BY <1>4, <1>5, <1>6, EditedEntry
<1>8. SetEntry(m, r.version, n)
  BY <1>1, <1>3, <1>6
<1>9. n \in EntryRow
  BY <1>7 DEF EntryIs
<1>10. /\ EntriesMove /\ memories' \in [Memory -> EntryRow]
       /\ \A p \in Editor : editor[p].pc = "add" => memories'[editor[p].memory] = NoMemory
  BY <1>4, <1>7, <1>8, <1>9, SetEntryMoves
<1>11. /\ reaping' \in [Reaper -> [Memory -> EntryRow]]
       /\ \A v \in Reaper, k \in Memory : reaping'[v][k] # reaping[v][k] => reaping'[v][k] = NoMemory
  BY <1>1, NoMemoryIs DEF MemoryInv
<1>12. ASSUME NEW v \in Reaper, NEW k \in Memory, reaping'[v][k] # reaping[v][k]
       PROVE  ReapHolds(k, reaping[v][k])'
  <2>1. reaping'[v][k] = NoMemory /\ EntryIs(memories'[k])
    BY <1>10, <1>11, <1>12 DEF EntriesMove
  <2>2. memories'[k].version \in Nat /\ (memories'[k].version = 0 => memories'[k] = NoMemory)
    BY <2>1 DEF EntryIs, EntryRow
  <2> QED BY <2>1, <2>2, NoMemoryIs DEF ReapHolds, ReadOf
<1>13. PoliciesTyped'
  BY <1>2 DEF MemoryInv, PoliciesTyped
<1>14. MemoryInv'
  BY <1>2, <1>10, <1>11, <1>12, <1>13, ReaperSteps
<1>15. Agreed
  <2>1. CASE UNCHANGED memories
    BY <2>1 DEF Agreed
  <2>2. CASE memories' = [memories EXCEPT ![m] = n]
    BY <1>7, <2>2 DEF MemoryInv, Agreed, Removed
  <2> QED BY <1>8, <2>1, <2>2 DEF SetEntry
<1> QED BY <1>10, <1>14, <1>15 DEF MemoryGood

LEMMA MemoryStep == MemoryInv /\ [MemoryNext]_memoryVars => MemoryGood
<1> SUFFICES ASSUME MemoryInv, [MemoryNext]_memoryVars PROVE MemoryGood
  OBVIOUS
<1>1. CASE UNCHANGED memoryVars
  <2>1. /\ UNCHANGED <<memories, consent, retention, editor, reaping>>
        /\ reaping' \in [Reaper -> [Memory -> EntryRow]] /\ PoliciesTyped'
    BY <1>1 DEF memoryVars, MemoryInv, PoliciesTyped
  <2>2. MemoryInv'
    BY <2>1, EntriesStay, ReaperSteps
  <2>3. Agreed
    BY <2>1 DEF Agreed
  <2> QED BY <2>1, <2>2, <2>3, EntriesStay DEF MemoryGood
<1>2. ASSUME NEW q \in Editor, Propose(q) \/ AddEntry(q) \/ ListEntries(q) \/ GetEntry(q) \/ Edit(q)
      PROVE  MemoryGood
  BY <1>2, ProposeGood, AddEntryGood, ListEntriesGood, GetEntryGood, EditGood
<1>3. ASSUME NEW q \in Editor, GetPolicy(q) \/ ReplaceConsent(q) \/ ReplaceRetention(q)
      PROVE  MemoryGood
  BY <1>3, PoliciesGood
<1>4. ASSUME NEW m \in Memory, Elapse(m) PROVE MemoryGood
  BY <1>4, ElapseGood
<1>5. ASSUME NEW w \in Reaper, ListExpired(w) \/ ReapEntry(w) PROVE MemoryGood
  BY <1>5, ListExpiredGood, ReapEntryGood
<1> QED BY <1>1, <1>2, <1>3, <1>4, <1>5 DEF MemoryNext

(* However confirmations, edits and reapers overlap, a proposed memory      *)
(* becomes active only as the user was shown it, and what is removed is     *)
(* erased and stays so (memory_bank/service.py).                            *)
THEOREM MemoriesAreConfirmed == ServicesSpec => MemoriesAsConfirmed
<1> DEFINE Kept ==
      \A m \in Memory :
       /\ memories[m].status \in Removed =>
            memories'[m].status \in Removed /\ memories'[m].text = "erased"
       /\ memories[m].status = "pending" /\ memories'[m].status = "active" =>
            \E q \in Editor : /\ editor[q].op = "confirm" /\ editor'[q] = Still
                              /\ editor[q].memory = m
                              /\ editor[q].seen.text = memories'[m].text
<1>1. MemoryGood => MemoryInv' /\ Kept
  BY DEF MemoryGood, EntriesMove, EntryIs, Agreed
<1>2. MemoryInv /\ [MemoryNext]_memoryVars => [Kept]_memoryVars
  BY <1>1, MemoryStep
<1>3. MemoryInv /\ [MemoryNext]_memoryVars => MemoryInv'
  BY <1>1, MemoryStep
<1> QED BY <1>2, <1>3, MemoryPart, MemoryInitInv, PTL DEF ServicesSpec, MemoriesAsConfirmed

-----------------------------------------------------------------------------
(* The capability catalog.                                                   *)

LEMMA CatalogPart ==
  /\ ServicesInit => CatalogInit
  /\ [ServicesNext]_servicesVars => [CatalogNext]_catalogVars
<1>1. ServicesInit => CatalogInit
  BY DEF ServicesInit
<1>2. ServicesNext => CatalogNext \/ UNCHANGED catalogVars
  BY DEF ServicesNext, Only
<1>3. UNCHANGED servicesVars => UNCHANGED catalogVars
  BY DEF servicesVars
<1> QED BY <1>1, <1>2, <1>3

CatalogRow == [revision : Nat, by : {"system", "admin"}, old : BOOLEAN, unscoped : BOOLEAN,
               entries : [Entry -> Nat]]
ClerkRow == [pc : {"idle", "look", "first", "impact", "second", "write"}, expected : Nat,
             entry : Entry, current : CatalogRow, basis : CatalogRow]

(* A row of a revision is the row of that revision.                         *)
CatalogRead(r) ==
  /\ r.revision <= catalog.revision
  /\ r.revision = catalog.revision => r = catalog

(* What a request has read, and since when it goes by it.                   *)
ClerkHolds(j) ==
  /\ CatalogRead(j.current)
  /\ j.expected <= catalog.revision
  /\ j.pc \in {"impact", "second", "write"} => CatalogRead(j.basis) /\ j.basis.revision >= j.expected

CatalogInv ==
  /\ catalog \in CatalogRow
  /\ catalog.revision = 0 => catalog = NoCatalog
  /\ clerk \in [Clerk \cup Visitor -> ClerkRow]
  /\ \A c \in Clerk \cup Visitor : ClerkHolds(clerk[c])

(* A row goes to a later revision that keeps what changed before.           *)
LaterRow(r) ==
  /\ r \in CatalogRow /\ r.revision > catalog.revision
  /\ \A e \in Entry : r.entries[e] >= catalog.entries[e]
  /\ catalog.old \/ ~r.old

CatalogMoves == UNCHANGED catalog \/ LaterRow(catalog')

LEMMA NoCatalogIs ==
  /\ NoCatalog \in CatalogRow /\ NoCatalog.revision = 0 /\ ~NoCatalog.old
  /\ AtDesk \in ClerkRow /\ AtDesk.pc = "idle" /\ AtDesk.current = NoCatalog /\ AtDesk.expected = 0
<1>1. NoCatalog \in CatalogRow /\ NoCatalog.revision = 0 /\ ~NoCatalog.old
  BY DEF NoCatalog, CatalogRow
<1>2. (CHOOSE e \in Entry : TRUE) \in Entry
  BY CatalogAssumption
<1> QED BY <1>1, <1>2 DEF AtDesk, ClerkRow

LEMMA CatalogStays ==
  ASSUME CatalogInv, CatalogMoves, NEW r \in CatalogRow, CatalogRead(r)
  PROVE  CatalogRead(r)'
<1>1. catalog \in CatalogRow /\ catalog.revision \in Nat /\ r.revision \in Nat
  BY DEF CatalogInv, CatalogRow
<1>2. CASE UNCHANGED catalog
  BY <1>2 DEF CatalogRead
<1>3. CASE LaterRow(catalog')
  <2>1. catalog'.revision \in Nat /\ catalog'.revision > catalog.revision
    BY <1>3 DEF LaterRow, CatalogRow
  <2> QED BY <1>1, <2>1 DEF CatalogRead
<1> QED BY <1>2, <1>3 DEF CatalogMoves

LEMMA ClerkStays ==
  ASSUME CatalogInv, CatalogMoves, NEW j \in ClerkRow, ClerkHolds(j)
  PROVE  ClerkHolds(j)'
<1>1. j.current \in CatalogRow /\ j.basis \in CatalogRow /\ j.expected \in Nat
  BY DEF ClerkRow
<1>2. CatalogRead(j.current)'
  BY <1>1, CatalogStays DEF ClerkHolds
<1>3. CatalogRead(j.basis) => CatalogRead(j.basis)'
  BY <1>1, CatalogStays
<1>4. catalog.revision \in Nat /\ catalog'.revision \in Nat /\ catalog'.revision >= catalog.revision
  BY DEF CatalogInv, CatalogMoves, LaterRow, CatalogRow
<1>5. (j.expected <= catalog.revision)'
  BY <1>1, <1>4 DEF ClerkHolds
<1> QED BY <1>2, <1>3, <1>5 DEF ClerkHolds

(* One request moves.                                                       *)
LEMMA ClerkMoves ==
  ASSUME CatalogInv, CatalogMoves, NEW c \in Clerk \cup Visitor, NEW j \in ClerkRow,
         clerk' = [clerk EXCEPT ![c] = j], ClerkHolds(j)'
  PROVE  CatalogInv'
<1>1. /\ clerk' \in [Clerk \cup Visitor -> ClerkRow] /\ clerk'[c] = j
      /\ \A d \in Clerk \cup Visitor : d # c => clerk'[d] = clerk[d]
  BY DEF CatalogInv
<1>2. catalog' \in CatalogRow /\ (catalog'.revision = 0 => catalog' = NoCatalog)
  <2>1. catalog.revision \in Nat
    BY DEF CatalogInv, CatalogRow
  <2>2. LaterRow(catalog') => catalog'.revision # 0 /\ catalog' \in CatalogRow
    BY <2>1 DEF LaterRow, CatalogRow
  <2> QED BY <2>2 DEF CatalogInv, CatalogMoves
<1>3. ASSUME NEW d \in Clerk \cup Visitor PROVE ClerkHolds(clerk[d])'
  <2>1. PICK k \in ClerkRow : k = clerk'[d]
    BY <1>1
  <2>2. CASE d = c
    BY <1>1, <2>1, <2>2 DEF ClerkHolds, CatalogRead
  <2>3. CASE d # c
    <3>1. k = clerk[d] /\ ClerkHolds(k)
      BY <1>1, <2>1, <2>3 DEF CatalogInv
    <3>2. ClerkHolds(k)'
      BY <3>1, ClerkStays
    <3> QED BY <2>1, <3>2 DEF ClerkHolds, CatalogRead
  <2> QED BY <2>2, <2>3
<1> QED BY <1>1, <1>2, <1>3 DEF CatalogInv

LEMMA CatalogInitInv == CatalogInit => CatalogInv
<1> SUFFICES ASSUME CatalogInit PROVE CatalogInv
  OBVIOUS
<1>1. catalog \in CatalogRow /\ (catalog.revision = 0 => catalog = NoCatalog)
  <2> DEFINE seeds == NoCatalog.entries
  <2>1. seeds \in [Entry -> Nat]
    BY NoCatalogIs DEF CatalogRow
  <2>2. catalog = NoCatalog \/
        catalog \in [revision : {1}, by : {"system", "admin"}, old : {TRUE}, unscoped : BOOLEAN,
                    entries : {seeds}]
    BY DEF CatalogInit
  <2> HIDE DEF seeds
  <2>3. ASSUME catalog \in [revision : {1}, by : {"system", "admin"}, old : {TRUE},
                           unscoped : BOOLEAN, entries : {seeds}]
        PROVE  catalog \in CatalogRow /\ catalog.revision # 0
    <3>1. PICK by \in {"system", "admin"}, b \in BOOLEAN :
            catalog = [revision |-> 1, by |-> by, old |-> TRUE, unscoped |-> b, entries |-> seeds]
      BY <2>3
    <3> QED BY <2>1, <3>1 DEF CatalogRow
  <2> QED BY <2>2, <2>3, NoCatalogIs
<1>2. clerk \in [Clerk \cup Visitor -> ClerkRow] /\ \A c \in Clerk \cup Visitor : clerk[c] = AtDesk
  BY NoCatalogIs DEF CatalogInit
<1>3. CatalogRead(NoCatalog) /\ catalog.revision \in Nat
  BY <1>1, NoCatalogIs DEF CatalogRead, CatalogRow
<1>4. ClerkHolds(AtDesk)
  BY <1>3, NoCatalogIs DEF ClerkHolds
<1> QED BY <1>1, <1>2, <1>4 DEF CatalogInv

LEMMA SeededIs ==
  ASSUME CatalogInv
  PROVE  Seeded = catalog \/ LaterRow(Seeded)
<1>1. CASE catalog.revision # 0
  BY <1>1 DEF Seeded
<1>2. CASE catalog.revision = 0
  <2> DEFINE r == [NoCatalog EXCEPT !.revision = 1]
  <2>1. catalog = NoCatalog /\ Seeded = r
    BY <1>2 DEF CatalogInv, Seeded
  <2>2. r \in CatalogRow /\ r.revision = 1 /\ r.entries = NoCatalog.entries /\ r.old = NoCatalog.old
    BY NoCatalogIs DEF CatalogRow
  <2> HIDE DEF r
  <2>3. \A e \in Entry : r.entries[e] >= NoCatalog.entries[e]
    BY <2>2 DEF CatalogRow
  <2> QED BY <2>1, <2>2, <2>3, NoCatalogIs DEF LaterRow
<1> QED BY <1>1, <1>2

LEMMA UpgradeIs ==
  ASSUME CatalogInv
  PROVE  LaterRow(Upgrade(catalog))
<1> DEFINE b == catalog.old /\ ~Managed(catalog)
           t == [catalog EXCEPT !.revision = @ + 1]
           u == [t EXCEPT !.by = "system"]
           v == [u EXCEPT !.unscoped = FALSE]
           r == [v EXCEPT !.old = b]
<1>1. Upgrade(catalog) = r
  BY DEF Upgrade
<1>2. b \in BOOLEAN /\ (b => catalog.old)
  OBVIOUS
<1>3. /\ t \in CatalogRow /\ t.revision = catalog.revision + 1 /\ t.entries = catalog.entries
      /\ catalog.revision \in Nat /\ catalog.entries \in [Entry -> Nat]
  BY DEF CatalogInv, CatalogRow
<1> HIDE DEF b, t
<1>4. u \in CatalogRow /\ u.revision = catalog.revision + 1 /\ u.entries = catalog.entries
  BY <1>3 DEF CatalogRow
<1> HIDE DEF u
<1>5. v \in CatalogRow /\ v.revision = catalog.revision + 1 /\ v.entries = catalog.entries
  BY <1>4 DEF CatalogRow
<1> HIDE DEF v
<1>6. r \in CatalogRow /\ r.revision = catalog.revision + 1 /\ r.entries = catalog.entries /\ r.old = b
  BY <1>2, <1>5 DEF CatalogRow
<1> HIDE DEF r
<1> QED BY <1>1, <1>2, <1>3, <1>6 DEF LaterRow

(* A read that is over: the request goes on with what it has read.          *)
LEMMA HasInv ==
  ASSUME CatalogInv, CatalogMoves, NEW c \in Clerk \cup Visitor, Reads(clerk[c].pc),
         Has(c, catalog')
  PROVE  CatalogInv'
<1>1. PICK r \in CatalogRow : r = catalog'
  BY DEF CatalogInv, CatalogMoves, LaterRow
<1>2. PICK pc \in {"idle", "impact", "second", "write"} : pc = After[clerk[c].pc]
  <2>1. /\ After["look"] = "idle" /\ After["first"] = "impact"
        /\ After["impact"] = "second" /\ After["second"] = "write"
    BY DEF After
  <2> QED BY <2>1 DEF Reads
<1>3. /\ clerk[c] \in ClerkRow /\ ClerkHolds(clerk[c])
      /\ clerk \in [Clerk \cup Visitor -> ClerkRow]
  BY DEF CatalogInv
<1>4. CASE pc = "idle"
  <2>1. clerk' = [clerk EXCEPT ![c] = AtDesk]
    BY <1>2, <1>4 DEF Has
  <2>2. PICK j \in ClerkRow : j = AtDesk
    BY NoCatalogIs
  <2>3. CatalogRead(NoCatalog)
    BY NoCatalogIs DEF CatalogInv, CatalogRead, CatalogRow
  <2>4. ClerkHolds(j)
    <3>1. catalog.revision \in Nat
      BY DEF CatalogInv, CatalogRow
    <3> QED BY <2>2, <2>3, <3>1, NoCatalogIs DEF ClerkHolds
  <2> QED BY <2>1, <2>2, <2>4, ClerkStays, ClerkMoves
<1>5. CASE pc # "idle"
  <2> DEFINE current == IF pc = "write" THEN r ELSE NoCatalog
             basis == IF clerk[c].pc = "first" THEN r ELSE clerk[c].basis
             u == [clerk[c] EXCEPT !.pc = pc]
             v == [u EXCEPT !.current = current]
             j == [v EXCEPT !.basis = basis]
  <2>1. clerk' = [clerk EXCEPT ![c] = j]
    BY <1>1, <1>2, <1>3, <1>5 DEF Has
  <2>2. /\ current \in CatalogRow /\ basis \in CatalogRow
        /\ current = r \/ current = NoCatalog
        /\ basis = r \/ (clerk[c].pc \in {"impact", "second"} /\ basis = clerk[c].basis)
    <3>1. clerk[c].basis \in CatalogRow /\ clerk[c].pc # "look"
      BY <1>2, <1>3, <1>5 DEF ClerkRow, After
    <3> QED BY <3>1, NoCatalogIs DEF Reads
  <2> HIDE DEF current, basis
  <2>3. u \in ClerkRow /\ u.pc = pc /\ u.expected = clerk[c].expected
    BY <1>3 DEF ClerkRow
  <2> HIDE DEF u
  <2>4. v \in ClerkRow /\ v.pc = pc /\ v.expected = clerk[c].expected /\ v.current = current
    BY <2>2, <2>3 DEF ClerkRow
  <2> HIDE DEF v
  <2>5. /\ j \in ClerkRow /\ j.pc = pc /\ j.expected = clerk[c].expected /\ j.current = current
        /\ j.basis = basis
    BY <2>2, <2>4 DEF ClerkRow
  <2> HIDE DEF j
  <2>6. PICK k \in ClerkRow : k = j
    BY <2>5
  <2>7. PICK o \in ClerkRow : o = clerk[c]
    BY <1>3
  <2>8. ClerkHolds(o)'
    BY <1>3, <2>7, ClerkStays
  <2>9. r.revision \in Nat /\ CatalogRead(r)'
    BY <1>1 DEF CatalogRead, CatalogRow
  <2>10. CatalogRead(NoCatalog)'
    <3>1. PICK n \in CatalogRow : n = NoCatalog /\ CatalogRead(n)
      BY NoCatalogIs DEF CatalogInv, CatalogRead, CatalogRow
    <3>2. CatalogRead(n)'
      BY <3>1, CatalogStays
    <3> QED BY <3>1, <3>2 DEF CatalogRead
  <2>11. ClerkHolds(k)'
    <3>1. k.current = r \/ k.current = NoCatalog
      BY <2>2, <2>5, <2>6
    <3>2. (k.expected <= catalog.revision)'
      BY <2>5, <2>6, <2>7, <2>8 DEF ClerkHolds
    <3>3. k.basis = r \/ (o.pc \in {"impact", "second"} /\ k.basis = o.basis)
      BY <2>2, <2>5, <2>6, <2>7
    <3>4. CatalogRead(k.current)'
      BY <2>9, <2>10, <3>1 DEF CatalogRead
    <3>5. CatalogRead(k.basis)' /\ k.basis.revision >= k.expected
      BY <1>1, <2>5, <2>6, <2>7, <2>8, <2>9, <3>2, <3>3 DEF ClerkHolds, CatalogRead
    <3> QED BY <3>2, <3>4, <3>5 DEF ClerkHolds
  <2> QED BY <2>1, <2>5, <2>6, <2>11, ClerkMoves
<1> QED BY <1>4, <1>5

LEMMA GetInv ==
  ASSUME CatalogInv, NEW c \in Clerk \cup Visitor, Get(c)
  PROVE  CatalogMoves /\ CatalogInv'
<1>1. Reads(clerk[c].pc) /\ catalog' = Seeded
  BY DEF Get
<1>2. CatalogMoves
  BY <1>1, SeededIs DEF CatalogMoves
<1>3. CASE Has(c, Seeded)
  BY <1>1, <1>2, <1>3, HasInv
<1>4. CASE clerk' = [clerk EXCEPT ![c].current = Seeded]
  <2> DEFINE j == [clerk[c] EXCEPT !.current = catalog']
  <2>1. PICK o \in ClerkRow : o = clerk[c] /\ ClerkHolds(o)
    BY DEF CatalogInv
  <2>2. clerk' = [clerk EXCEPT ![c] = j]
    BY <1>1, <1>4 DEF CatalogInv
  <2>3. catalog' \in CatalogRow
    BY <1>2 DEF CatalogInv, CatalogMoves, LaterRow
  <2>4. /\ j \in ClerkRow /\ j.current = catalog' /\ j.pc = o.pc /\ j.expected = o.expected
        /\ j.basis = o.basis
    BY <2>1, <2>3 DEF ClerkRow
  <2> HIDE DEF j
  <2>5. PICK k \in ClerkRow : k = j
    BY <2>4
  <2>6. ClerkHolds(o)'
    BY <1>2, <2>1, ClerkStays
  <2>7. CatalogRead(k.current)'
    BY <2>3, <2>4, <2>5 DEF CatalogRead, CatalogRow
  <2>8. ClerkHolds(k)'
    BY <2>4, <2>5, <2>6, <2>7 DEF ClerkHolds
  <2> QED BY <1>2, <2>2, <2>4, <2>5, <2>8, ClerkMoves
<1> QED BY <1>2, <1>3, <1>4 DEF Get

LEMMA GetUpgradeInv ==
  ASSUME CatalogInv, NEW c \in Clerk \cup Visitor, GetUpgrade(c)
  PROVE  CatalogMoves /\ CatalogInv'
<1>1. /\ Reads(clerk[c].pc) /\ Has(c, catalog')
      /\ UNCHANGED catalog \/ (catalog.revision = clerk[c].current.revision /\ catalog' = Upgrade(clerk[c].current))
  BY DEF GetUpgrade
<1>2. CatalogRead(clerk[c].current)
  BY DEF CatalogInv, ClerkHolds
<1>3. CatalogMoves
  BY <1>1, <1>2, UpgradeIs DEF CatalogRead, CatalogMoves
<1> QED BY <1>1, <1>3, HasInv

LEMMA AsksInv ==
  ASSUME CatalogInv, NEW c \in Clerk \cup Visitor, Look(c) \/ \E e \in Entry : Ask(c, e)
  PROVE  CatalogMoves /\ CatalogInv'
<1>1. CatalogMoves
  BY DEF Look, Ask, CatalogMoves
<1>2. PICK o \in ClerkRow : o = clerk[c] /\ ClerkHolds(o)
  BY DEF CatalogInv
<1>3. CASE Look(c)
  <2> DEFINE j == [clerk[c] EXCEPT !.pc = "look"]
  <2>1. clerk' = [clerk EXCEPT ![c] = j]
    BY <1>3 DEF Look, CatalogInv
  <2>2. j \in ClerkRow /\ j.pc = "look" /\ j.expected = o.expected /\ j.current = o.current
    BY <1>2 DEF ClerkRow
  <2> HIDE DEF j
  <2>3. PICK k \in ClerkRow : k = j
    BY <2>2
  <2>4. ClerkHolds(k)
    BY <1>2, <2>2, <2>3 DEF ClerkHolds
  <2> QED BY <1>1, <2>1, <2>2, <2>3, <2>4, ClerkStays, ClerkMoves
<1>4. CASE \E e \in Entry : Ask(c, e)
  <2>1. PICK e \in Entry :
          clerk' = [clerk EXCEPT ![c] = [@ EXCEPT !.pc = "first", !.entry = e, !.expected = catalog.revision]]
    BY <1>4 DEF Ask
  <2> DEFINE u == [clerk[c] EXCEPT !.pc = "first"]
             v == [u EXCEPT !.entry = e]
             j == [v EXCEPT !.expected = catalog.revision]
  <2>2. clerk' = [clerk EXCEPT ![c] = j]
    BY <2>1 DEF CatalogInv
  <2>3. catalog.revision \in Nat
    BY DEF CatalogInv, CatalogRow
  <2>4. u \in ClerkRow /\ u.pc = "first" /\ u.current = o.current
    BY <1>2 DEF ClerkRow
  <2> HIDE DEF u
  <2>5. v \in ClerkRow /\ v.pc = "first" /\ v.current = o.current
    BY <2>4 DEF ClerkRow
  <2> HIDE DEF v
  <2>6. j \in ClerkRow /\ j.pc = "first" /\ j.current = o.current /\ j.expected = catalog.revision
    BY <2>3, <2>5 DEF ClerkRow
  <2> HIDE DEF j
  <2>7. PICK k \in ClerkRow : k = j
    BY <2>6
  <2>8. ClerkHolds(k)
    BY <1>2, <2>3, <2>6, <2>7 DEF ClerkHolds
  <2> QED BY <1>1, <2>2, <2>6, <2>7, <2>8, ClerkStays, ClerkMoves
<1> QED BY <1>3, <1>4

LEMMA ReplaceCatalogInv ==
  ASSUME CatalogInv, NEW c \in Clerk \cup Visitor, ReplaceCatalog(c)
  PROVE  CatalogMoves /\ CatalogInv'
<1>1. PICK s \in ClerkRow : s = clerk[c] /\ ClerkHolds(s)
  BY DEF CatalogInv
<1> DEFINE written == [s.basis EXCEPT !.by = "admin", !.entries[s.entry] = @ + 1]
<1>2. /\ s.pc = "write" /\ catalog' = ReplaceRow(written, s.expected, s.current)
      /\ clerk' = [clerk EXCEPT ![c] = AtDesk]
  BY <1>1 DEF ReplaceCatalog
<1>3. ASSUME UNCHANGED catalog PROVE CatalogMoves
  BY <1>3 DEF CatalogMoves
<1>4. ASSUME s.current.revision = s.expected, catalog.revision = s.expected,
             catalog' = [written EXCEPT !.revision = s.current.revision + 1]
      PROVE  CatalogMoves
  <2> DEFINE t == [s.basis EXCEPT !.by = "admin"]
             u == [t EXCEPT !.entries[s.entry] = @ + 1]
             v == [u EXCEPT !.revision = s.current.revision + 1]
  <2>1. catalog' = v
    BY <1>4
  <2>2. s.basis \in CatalogRow /\ s.entry \in Entry
    BY DEF ClerkRow
  <2>3. s.current.revision = catalog.revision /\ s.expected = catalog.revision
    BY <1>4
  <2>4. s.pc = "write"
    BY <1>2
  <2>5. s.basis = catalog /\ catalog.revision \in Nat
    BY <1>1, <2>2, <2>3, <2>4 DEF ClerkHolds, CatalogRead, CatalogInv, CatalogRow
  <2>6. t \in CatalogRow /\ t.entries = catalog.entries /\ t.old = catalog.old
    BY <2>2, <2>5 DEF CatalogRow
  <2> HIDE DEF t
  <2>7. /\ u \in CatalogRow /\ u.old = catalog.old
        /\ \A e \in Entry : u.entries[e] >= catalog.entries[e]
    BY <2>2, <2>6 DEF CatalogRow
  <2> HIDE DEF u
  <2>8. /\ v \in CatalogRow /\ v.old = catalog.old /\ v.entries = u.entries
        /\ v.revision = catalog.revision + 1
    BY <2>3, <2>5, <2>7 DEF CatalogRow
  <2> HIDE DEF v
  <2>9. catalog.old \/ ~v.old
    BY <2>8
  <2>10. LaterRow(v)
    BY <2>5, <2>7, <2>8, <2>9 DEF LaterRow
  <2> QED BY <2>1, <2>10 DEF CatalogMoves
<1>5. CatalogMoves
  BY <1>2, <1>3, <1>4 DEF ReplaceRow
<1>6. PICK j \in ClerkRow : j = AtDesk
  BY NoCatalogIs
<1>7. ClerkHolds(j)
  BY <1>6, NoCatalogIs DEF ClerkHolds, CatalogInv, CatalogRead, CatalogRow
<1> QED BY <1>2, <1>5, <1>6, <1>7, ClerkStays, ClerkMoves

LEMMA CatalogStep == CatalogInv /\ [CatalogNext]_catalogVars => CatalogMoves /\ CatalogInv'
<1> SUFFICES ASSUME CatalogInv, [CatalogNext]_catalogVars PROVE CatalogMoves /\ CatalogInv'
  OBVIOUS
<1>1. CASE UNCHANGED catalogVars
  BY <1>1 DEF catalogVars, CatalogMoves, CatalogInv, ClerkHolds, CatalogRead
<1>2. ASSUME NEW c \in Clerk \cup Visitor, Get(c) \/ GetUpgrade(c) \/ ReplaceCatalog(c)
      PROVE  CatalogMoves /\ CatalogInv'
  BY <1>2, GetInv, GetUpgradeInv, ReplaceCatalogInv
<1>3. ASSUME NEW c \in Clerk \cup Visitor, Look(c) \/ \E e \in Entry : Ask(c, e)
      PROVE  CatalogMoves /\ CatalogInv'
  BY <1>3, AsksInv
<1> QED BY <1>1, <1>2, <1>3 DEF CatalogNext

(* A change is written to the catalog of the first of three reads, which is *)
(* the catalog that is there whenever the revision still is the one the     *)
(* owner saw (studio/catalog_service.py).                                   *)
THEOREM CatalogKeepsEdits == ServicesSpec => CatalogEditsKept
<1> DEFINE Kept == /\ \A e \in Entry : catalog'.entries[e] >= catalog.entries[e]
                   /\ catalog.old \/ ~catalog'.old
<1>1. ASSUME CatalogInv, CatalogMoves PROVE Kept
  BY <1>1 DEF CatalogInv, CatalogMoves, LaterRow, CatalogRow
<1>2. CatalogInv /\ [CatalogNext]_catalogVars => [Kept]_catalogVars
  BY <1>1, CatalogStep
<1>3. CatalogInv /\ [CatalogNext]_catalogVars => CatalogInv'
  BY CatalogStep
<1> QED BY <1>2, <1>3, CatalogPart, CatalogInitInv, PTL DEF ServicesSpec, CatalogEditsKept

-----------------------------------------------------------------------------
(* The package of a draft.                                                   *)

LEMMA PackagePart ==
  /\ ServicesInit => PackageInit
  /\ [ServicesNext]_servicesVars => [PackageNext]_packageVars
<1>1. ServicesInit => PackageInit
  BY DEF ServicesInit
<1>2. ServicesNext => PackageNext \/ UNCHANGED packageVars
  BY DEF ServicesNext, Only
<1>3. UNCHANGED servicesVars => UNCHANGED packageVars
  BY DEF servicesVars
<1> QED BY <1>1, <1>2, <1>3

OfferRow == [revision : Nat, route : {"off", "plain", "search"}, server : {"unknown", "off", "on"},
             profiles : [Profile -> {"off", "closed", "open"}]]

(* What an archive of Studio holds, if the catalog it was compiled with is    *)
(* still the one of today.                                                   *)
CompiledOf(pack, o) ==
  /\ pack.design \in PackagedSpec
  /\ \E u \in OfferRow : pack.files = Materialized(pack.design, u)
  /\ pack.under = o.revision =>
       Compiles(pack.design, o) /\ pack.files = Materialized(pack.design, o)

(* Revisions name catalogs: no two that an export or import reads share one. *)
PackageInv ==
  /\ offer \in OfferRow /\ browsing \in OfferRow
  /\ offer.revision >= 1
  /\ browsing.revision <= offer.revision
  /\ browsing # NoOffer /\ browsing.revision = offer.revision => browsing = offer
  /\ parcel.under \in Nat /\ parcel.under <= offer.revision
  /\ parcel.maker = "studio" => CompiledOf(parcel, offer)
  /\ AsExported

LEMMA PackageInitInv == PackageInit => PackageInv
<1> SUFFICES ASSUME PackageInit PROVE PackageInv
  OBVIOUS
<1>1. offer \in OfferRow /\ browsing \in OfferRow
  BY DEF PackageInit, OfferRow, FullOffer, NoOffer
<1>2. offer.revision = 1 /\ browsing.revision = 0
  BY DEF PackageInit, FullOffer, NoOffer
<1>3. parcel.under = 0 /\ parcel.maker = "nobody" /\ reimport.of.maker = "nobody"
  BY DEF PackageInit, NoParcel, NoImport
<1> QED BY <1>1, <1>2, <1>3 DEF PackageInv, AsExported

(* Rendering what was rendered changes nothing.                              *)
LEMMA RenderedIs ==
  ASSUME NEW agent \in PackagedAgent
  PROVE  /\ Rendered(agent) \in PackagedAgent
         /\ Rendered(agent).plain = agent.plain
         /\ Rendered(Rendered(agent)) = Rendered(agent)
         /\ agent.plain => [Rendered(agent) EXCEPT !.plain = TRUE] = Rendered(agent)
<1> DEFINE required == agent.search \/ agent.exposure = "on_demand"
<1>1. required \in BOOLEAN
  BY DEF PackagedAgent
<1>2. Rendered(agent) = [agent EXCEPT !.search = required]
  BY DEF Rendered
<1>3. /\ Rendered(agent) \in PackagedAgent
      /\ Rendered(agent).plain = agent.plain /\ Rendered(agent).search = required
      /\ Rendered(agent).exposure = agent.exposure
  BY <1>1, <1>2 DEF PackagedAgent
<1>4. (Rendered(agent).search \/ Rendered(agent).exposure = "on_demand") = Rendered(agent).search
  BY <1>1, <1>3
<1>5. Rendered(Rendered(agent)) = Rendered(agent)
  BY <1>3, <1>4 DEF Rendered, PackagedAgent
<1>6. agent.plain => [Rendered(agent) EXCEPT !.plain = TRUE] = Rendered(agent)
  BY <1>3 DEF PackagedAgent
<1> QED BY <1>3, <1>5, <1>6

(* What the parser makes of an archive of Studio.                            *)
LEMMA ParsedIs ==
  ASSUME NEW pack, pack.maker = "studio", pack.design \in PackagedSpec,
         NEW u \in OfferRow, pack.files = Materialized(pack.design, u)
  PROVE  /\ ParsedSpec(pack) = [agent |-> [Rendered(pack.design.agent) EXCEPT !.plain = TRUE],
                                   profile |-> pack.design.profile]
         /\ Lossless(pack) /\ Intact(pack)
<1> USE ProfileAssumption
<1>1. /\ pack.files.agent = Rendered(pack.design.agent)
      /\ pack.files.profile = pack.design.profile
  BY DEF Materialized
<1>2. pack.design.profile \in Profile /\ pack.design.profile # "none"
  BY DEF PackagedSpec
<1> QED BY <1>1, <1>2 DEF ParsedSpec, BundleSpec, Lossless, Intact

(* A kept archive is the draft it was made of.                               *)
LEMMA KeptAsMade ==
  ASSUME NEW pack, pack.maker = "studio", pack.design \in PackagedSpec,
         NEW u \in OfferRow, pack.files = Materialized(pack.design, u),
         NEW o \in OfferRow, Verified(pack, o)
  PROVE  ParsedSpec(pack) = [agent |-> Rendered(pack.design.agent),
                                profile |-> pack.design.profile]
<1> DEFINE agent == pack.design.agent
<1> DEFINE parsed == [Rendered(agent) EXCEPT !.plain = TRUE]
<1>1. agent \in PackagedAgent
  BY DEF PackagedSpec
<1>2. Rendered(agent) \in PackagedAgent /\ Rendered(agent).plain = agent.plain
  BY <1>1, RenderedIs
<1>3. parsed \in PackagedAgent /\ parsed.plain = TRUE
  BY <1>2 DEF PackagedAgent
<1>4. ParsedSpec(pack) = [agent |-> parsed, profile |-> pack.design.profile]
  BY ParsedIs
<1>5. Materialized(ParsedSpec(pack), o).agent = Rendered(parsed)
  BY <1>4 DEF Materialized
<1>6. pack.files.agent = Rendered(agent)
  BY DEF Materialized
<1>7. Rendered(parsed) = Rendered(agent)
  BY <1>5, <1>6 DEF Verified, PackageHash
<1>8. Rendered(parsed).plain = TRUE
  BY <1>3, RenderedIs
<1>9. agent.plain = TRUE
  BY <1>2, <1>7, <1>8
<1>10. parsed = Rendered(agent)
  BY <1>1, <1>9, RenderedIs
<1> QED BY <1>4, <1>10

(* Under the catalog it was compiled with, a plain archive is kept.          *)
LEMMA PlainIsKept ==
  ASSUME NEW pack, pack.maker = "studio", pack.design \in PackagedSpec,
         NEW o \in OfferRow, Compiles(pack.design, o),
         pack.files = Materialized(pack.design, o), pack.design.agent.plain
  PROVE  Parses(pack) /\ Verified(pack, o) /\ ~LoadFails(ParsedSpec(pack), o)
<1> DEFINE agent == pack.design.agent
           spec == [agent |-> Rendered(agent), profile |-> pack.design.profile]
<1>1. agent \in PackagedAgent
  BY DEF PackagedSpec
<1>2. ParsedSpec(pack) = spec /\ Intact(pack)
  BY <1>1, ParsedIs, RenderedIs
<1>3. PackagePasses(pack.files)
  BY DEF Compiles
<1>4. /\ Rendered(agent).exposure = agent.exposure /\ Rendered(agent).server = agent.server
      /\ Rendered(agent).operator = agent.operator
      /\ Rendered(agent).search = (agent.search \/ agent.exposure = "on_demand")
  BY <1>1 DEF Rendered, PackagedAgent
<1>5. spec.agent = Rendered(agent) /\ spec.profile = pack.design.profile
  OBVIOUS
<1>6. DirectoryOf(spec.agent, o) = DirectoryOf(agent, o)
  BY <1>4, <1>5 DEF DirectoryOf
<1>7. Materialized(spec, o) = Materialized(pack.design, o)
  BY <1>1, <1>5, <1>6, RenderedIs DEF Materialized
<1>8. RouteServes(spec.agent, o)
  BY <1>4, <1>5 DEF Compiles, CatalogServes, RouteServes
<1>9. ToolsServe(spec.agent, o)
  BY <1>4, <1>5 DEF Compiles, CatalogServes, ToolsServe
<1>10. ProfileServes(spec, o)
  BY <1>4, <1>5 DEF Compiles, CatalogServes, ProfileServes
<1>11. Compiles(spec, o)
  BY <1>7, <1>8, <1>9, <1>10 DEF Compiles, CatalogServes
<1>12. ~LoadFails(spec, o)
  BY <1>3, <1>7 DEF LoadFails, PackagePasses
<1> QED BY <1>2, <1>3, <1>7, <1>11, <1>12 DEF Parses, Verified, PackageHash

LEMMA OfferChangesInv == PackageInv /\ OfferChanges => PackageInv'
<1> SUFFICES ASSUME PackageInv, OfferChanges PROVE PackageInv'
  OBVIOUS
<1>1. offer \in OfferRow /\ offer.revision \in Nat
  BY DEF PackageInv, OfferRow
<1> DEFINE later == [offer EXCEPT !.revision = offer.revision + 1]
<1>6. /\ later \in OfferRow /\ later.revision = offer.revision + 1
      /\ later.profiles = offer.profiles
  BY <1>1 DEF OfferRow
<1>7. \E q \in {"route", "server", "profiles"} : \E y :
        /\ offer' = [later EXCEPT ![q] = y]
        /\ y \in IF q = "route" THEN {"off", "plain", "search"}
                 ELSE IF q = "server" THEN {"unknown", "off", "on"}
                 ELSE [Profile -> {"off", "closed", "open"}]
  <2>1. CASE \E r \in {"off", "plain", "search"} :
               offer' = [offer EXCEPT !.revision = @ + 1, !.route = r]
    BY <2>1
  <2>2. CASE \E s \in {"unknown", "off", "on"} :
               offer' = [offer EXCEPT !.revision = @ + 1, !.server = s]
    BY <2>2
  <2>3. CASE \E p \in Profile, x \in {"off", "closed", "open"} :
               offer' = [offer EXCEPT !.revision = @ + 1, !.profiles[p] = x]
    <3>1. PICK p \in Profile, x \in {"off", "closed", "open"} :
               offer' = [later EXCEPT !.profiles = [later.profiles EXCEPT ![p] = x]]
      BY <2>3
    <3>2. [later.profiles EXCEPT ![p] = x] \in [Profile -> {"off", "closed", "open"}]
      BY <1>6 DEF OfferRow
    <3> QED BY <3>1, <3>2
  <2> QED BY <2>1, <2>2, <2>3 DEF OfferChanges
<1>2. offer' \in OfferRow /\ offer'.revision = offer.revision + 1
  <2> HIDE DEF later
  <2> QED BY <1>6, <1>7 DEF OfferRow
<1>3. UNCHANGED <<browsing, parcel, reimport>>
  BY DEF OfferChanges
<1>4. browsing.revision \in Nat
  BY DEF PackageInv, OfferRow
<1>5. parcel.maker = "studio" => CompiledOf(parcel, offer)'
  BY <1>1, <1>2, <1>3 DEF PackageInv, CompiledOf
<1> QED BY <1>1, <1>2, <1>3, <1>4, <1>5 DEF PackageInv, AsExported

LEMMA BrowseOfferInv == PackageInv /\ BrowseOffer => PackageInv'
<1> SUFFICES ASSUME PackageInv, BrowseOffer PROVE PackageInv'
  OBVIOUS
<1>1. browsing' = offer /\ UNCHANGED <<offer, parcel, reimport>>
  BY DEF BrowseOffer
<1>2. parcel.maker = "studio" => CompiledOf(parcel, offer)'
  BY <1>1 DEF PackageInv, CompiledOf
<1> QED BY <1>1, <1>2 DEF PackageInv, AsExported, OfferRow

LEMMA ExportDraftInv == PackageInv /\ ExportDraft => PackageInv'
<1> SUFFICES ASSUME PackageInv, ExportDraft PROVE PackageInv'
  OBVIOUS
<1>1. browsing # NoOffer /\ browsing' = NoOffer /\ UNCHANGED <<offer, reimport>>
  BY DEF ExportDraft
<1>2. NoOffer \in OfferRow /\ NoOffer.revision = 0
  BY DEF NoOffer, OfferRow
<1>3. PICK spec \in PackagedSpec :
        parcel' = IF Compiles(spec, browsing)
                  THEN [maker |-> "studio", design |-> spec, under |-> browsing.revision,
                        files |-> Materialized(spec, browsing)]
                  ELSE parcel
  BY DEF ExportDraft
<1>4. offer.revision \in Nat /\ browsing.revision \in Nat
  BY DEF PackageInv, OfferRow
<1>5. /\ parcel'.under \in Nat /\ parcel'.under <= offer.revision
      /\ parcel'.maker = "studio" => CompiledOf(parcel', offer)
  <2>1. CASE Compiles(spec, browsing)
    <3>1. /\ parcel'.design = spec /\ parcel'.under = browsing.revision
          /\ parcel'.files = Materialized(spec, browsing)
      BY <1>3, <2>1
    <3>2. browsing \in OfferRow /\ (browsing.revision = offer.revision => browsing = offer)
      BY <1>1 DEF PackageInv
    <3>3. CompiledOf(parcel', offer)
      BY <2>1, <3>1, <3>2 DEF CompiledOf
    <3> QED BY <1>4, <3>1, <3>3 DEF PackageInv
  <2>2. CASE ~Compiles(spec, browsing)
    BY <1>3, <2>2 DEF PackageInv
  <2> QED BY <2>1, <2>2
<1> QED BY <1>1, <1>2, <1>4, <1>5 DEF PackageInv, AsExported, CompiledOf

LEMMA OtherArchivesInv == PackageInv /\ (HandMade \/ FromNexau \/ Damage) => PackageInv'
<1> SUFFICES ASSUME PackageInv, HandMade \/ FromNexau \/ Damage PROVE PackageInv'
  OBVIOUS
<1>1. UNCHANGED <<offer, browsing, reimport>>
  BY DEF HandMade, FromNexau, Damage
<1>2. parcel'.maker # "studio" /\ parcel'.under \in Nat /\ parcel'.under <= offer.revision
  <2>1. CASE HandMade
    <3>1. PICK files : parcel' = [NoParcel EXCEPT !.maker = "hand", !.files = files]
      BY <2>1 DEF HandMade
    <3> QED BY <3>1 DEF NoParcel, PackageInv, OfferRow
  <2>2. CASE FromNexau
    <3>1. PICK files : parcel' = [NoParcel EXCEPT !.maker = "nexau", !.files = files]
      BY <2>2 DEF FromNexau
    <3> QED BY <3>1 DEF NoParcel, PackageInv, OfferRow
  <2>3. CASE Damage
    <3>1. parcel' = [parcel EXCEPT !.maker = "damaged"]
      BY <2>3 DEF Damage
    <3>2. parcel'.maker \in {"damaged", parcel.maker} /\ parcel'.under = parcel.under
      BY <3>1
    <3> QED BY <2>3, <3>1, <3>2 DEF Damage, PackageInv
  <2> QED BY <2>1, <2>2, <2>3
<1> QED BY <1>1, <1>2 DEF PackageInv, AsExported

LEMMA ImportArchiveInv == PackageInv /\ ImportArchive => PackageInv'
<1> SUFFICES ASSUME PackageInv, ImportArchive PROVE PackageInv'
  OBVIOUS
<1> DEFINE kept == /\ Parses(parcel) /\ ~LoadFails(ParsedSpec(parcel), offer)
                   /\ Lossless(parcel) => Verified(parcel, offer)
<1>1. /\ reimport'.result = IF kept THEN "kept" ELSE "refused"
      /\ reimport'.of = parcel /\ reimport'.at = offer.revision
      /\ reimport'.spec = IF kept THEN ParsedSpec(parcel) ELSE NoDesign
  BY DEF ImportArchive
<1>2. parcel' = NoParcel /\ UNCHANGED <<offer, browsing>>
  BY DEF ImportArchive
<1>3. parcel'.maker = "nobody" /\ parcel'.under = 0
  BY <1>2 DEF NoParcel
<1>4. offer \in OfferRow
  BY DEF PackageInv
<1>5. ASSUME parcel.maker = "studio"
      PROVE  /\ kept => ParsedSpec(parcel) = [agent |-> Rendered(parcel.design.agent),
                                              profile |-> parcel.design.profile]
             /\ ~kept => offer.revision # parcel.under \/ ~parcel.design.agent.plain
  <2>1. CompiledOf(parcel, offer)
    BY <1>5 DEF PackageInv
  <2>2. parcel.design \in PackagedSpec
    BY <2>1 DEF CompiledOf
  <2>3. PICK u \in OfferRow : parcel.files = Materialized(parcel.design, u)
    BY <2>1 DEF CompiledOf
  <2>4. Lossless(parcel)
    BY <1>5, <2>2, <2>3, ParsedIs
  <2>5. kept => ParsedSpec(parcel) = [agent |-> Rendered(parcel.design.agent),
                                      profile |-> parcel.design.profile]
    BY <1>4, <1>5, <2>2, <2>3, <2>4, KeptAsMade
  <2>6. offer.revision = parcel.under /\ parcel.design.agent.plain => kept
    BY <1>4, <1>5, <2>1, <2>2, PlainIsKept DEF CompiledOf
  <2> QED BY <2>5, <2>6
<1>6. parcel.maker = "damaged" => ~kept
  BY DEF Parses, Intact
<1>7. AsExported'
  <2>1. reimport'.of.maker = parcel.maker /\ reimport'.of.design = parcel.design
        /\ reimport'.of.under = parcel.under
    BY <1>1
  <2>2. /\ reimport'.result = "kept" => kept
        /\ reimport'.result = "refused" => ~kept
    BY <1>1
  <2>3. parcel.maker = "studio" /\ kept =>
          reimport'.spec = [agent |-> [reimport'.of.design.agent EXCEPT
                                         !.search = @ \/ reimport'.of.design.agent.exposure = "on_demand"],
                            profile |-> reimport'.of.design.profile]
    BY <1>1, <1>5, <2>1 DEF Rendered
  <2>4. parcel.maker = "damaged" => reimport'.result = "refused"
    BY <1>1, <1>6
  <2> QED BY <1>1, <1>5, <2>1, <2>2, <2>3, <2>4 DEF AsExported
<1> QED BY <1>2, <1>3, <1>4, <1>7 DEF PackageInv, OfferRow

LEMMA PackageStep == PackageInv /\ [PackageNext]_packageVars => PackageInv'
<1> SUFFICES ASSUME PackageInv, [PackageNext]_packageVars PROVE PackageInv'
  OBVIOUS
<1>1. CASE UNCHANGED packageVars
  BY <1>1 DEF packageVars, PackageInv, CompiledOf, AsExported
<1> QED BY <1>1, OfferChangesInv, BrowseOfferInv, ExportDraftInv, OtherArchivesInv,
           ImportArchiveInv DEF PackageNext

(* A draft that leaves in an archive comes back as it was, or not at all; it *)
(* is refused under an unchanged catalog only for the order of its Skills or *)
(* what reading normalises.                                                  *)
THEOREM ArchivesComeBackAsMade == ServicesSpec => CopiesAsExported
<1>1. PackageInv' => AsExported'
  BY DEF PackageInv
<1>2. PackageInv /\ [PackageNext]_packageVars => [AsExported']_packageVars
  BY <1>1, PackageStep
<1> QED BY <1>2, PackagePart, PackageInitInv, PackageStep, PTL DEF ServicesSpec, CopiesAsExported

(* No row that several requests read and write back loses a confirmed       *)
(* change: memories, knowledge sources, the catalog; and archives come back *)
(* as the drafts they were made of.                                         *)
THEOREM NoEditIsLost == ServicesSpec => NoEditLost
BY MemoriesAreConfirmed, SyncsAreHarmless, CatalogKeepsEdits, ArchivesComeBackAsMade, PTL
   DEF NoEditLost

-----------------------------------------------------------------------------
(* Preflights of a preview.                                                  *)

LEMMA PreflightPart ==
  /\ ServicesInit => PreflightInit
  /\ [ServicesNext]_servicesVars => [PreflightNext]_preflightVars
<1>1. ServicesInit => PreflightInit
  BY DEF ServicesInit
<1>2. ServicesNext => PreflightNext \/ UNCHANGED preflightVars
  BY DEF ServicesNext, Only
<1>3. UNCHANGED servicesVars => UNCHANGED preflightVars
  BY DEF servicesVars
<1> QED BY <1>1, <1>2, <1>3

CheckStage == 1 .. CleanupStage
PreviewRow == [status : {"provisioning", "cancelling", "ready", "failed", "cancelled", "expired"},
               token : Nat, result : BOOLEAN]
FlightRow == [pc : {"check", "running", "clean", "read", "write", "returned"}, stage : CheckStage,
              verdict : {"passed", "failed", "cancelled", "timed_out", "raised"},
              attempt : Nat, seen : Nat]
CheckedUpTo(n) == \A s \in 1 .. n : checks[s] = "passed"

PreflightTypes ==
  /\ row \in PreviewRow /\ flight \in FlightRow
  /\ checks \in [CheckStage -> {"none", "passed", "failed", "cancelled", "timed_out"}]
  /\ events \in [started : SUBSET CheckStage, completed : SUBSET CheckStage]
  /\ box \in [made : BOOLEAN, handle : BOOLEAN, orphan : BOOLEAN]

(* Checks go on only while all before have passed; the open one is the one  *)
(* that runs.                                                               *)
FlightHolds ==
  /\ flight.pc \in {"check", "running"} =>
       flight.verdict = "passed" /\ flight.stage <= Stages /\ CheckedUpTo(flight.stage - 1)
  /\ events.started = events.completed \cup (IF flight.pc = "running" THEN {flight.stage} ELSE {})
  /\ flight.pc = "clean" /\ flight.verdict = "passed" => CheckedUpTo(Stages)
  /\ flight.pc \in {"read", "write", "returned"} =>
       /\ flight.verdict = "passed" => CheckedUpTo(CleanupStage)
       /\ box.made => checks[CleanupStage] = "failed"

(* What the row has of it.                                                  *)
PreviewHolds ==
  /\ row.result => flight.pc = "returned" /\ flight.verdict # "raised"
  /\ flight.verdict = "raised" => flight.pc \in {"clean", "returned"}
  /\ flight.verdict = "cancelled" => row.status \notin {"provisioning", "ready"}
  /\ row.status = "ready" => row.result /\ flight.pc = "returned" /\ CheckedUpTo(CleanupStage)

PreflightInv == PreflightTypes /\ FlightHolds /\ PreviewHolds

LEMMA StagesAre ==
  /\ Stages \in Nat /\ CleanupStage = Stages + 1 /\ CleanupStage \in CheckStage /\ 1 \in CheckStage
  /\ \A s \in CheckStage : s \in Nat /\ (s <= Stages => s + 1 \in CheckStage) /\ (s > Stages => s = CleanupStage)
<1>1. Stages \in Nat /\ CleanupStage = Stages + 1 /\ 1 <= Stages
  BY StagesAssumption DEF CleanupStage
<1> QED BY <1>1 DEF CheckStage

LEMMA PreflightInitInv == PreflightInit => PreflightInv
<1> SUFFICES ASSUME PreflightInit PROVE PreflightInv
  OBVIOUS
<1>1. row \in PreviewRow /\ row.status = "provisioning" /\ ~row.result
  BY DEF PreflightInit, PreviewRow
<1>2. /\ flight \in FlightRow /\ flight.pc = "check" /\ flight.stage = 1 /\ flight.verdict = "passed"
  BY StagesAre DEF PreflightInit, FlightRow
<1>3. PreflightTypes /\ events.started = events.completed
  BY <1>1, <1>2 DEF PreflightInit, PreflightTypes, CheckStage
<1>4. CheckedUpTo(flight.stage - 1) /\ flight.stage <= Stages
  BY <1>2, StagesAssumption DEF CheckedUpTo
<1> QED BY <1>1, <1>2, <1>3, <1>4 DEF PreflightInv, FlightHolds, PreviewHolds

(* A check that runs completes with a status and a verdict.                 *)
LEMMA CompletesInv ==
  ASSUME PreflightInv, flight.pc = "running", UNCHANGED row,
         NEW status \in {"passed", "failed", "cancelled", "timed_out"},
         NEW verdict \in {"passed", "failed", "cancelled", "timed_out"},
         Completes(flight.stage, status, verdict), status = "passed" <=> verdict = "passed",
         verdict = "cancelled" => Cancelling,
         box' \in [made : BOOLEAN, handle : BOOLEAN, orphan : BOOLEAN]
  PROVE  PreflightInv'
<1>1. PICK s \in CheckStage : s = flight.stage /\ s <= Stages /\ s \in Nat
  BY StagesAre DEF PreflightInv, PreflightTypes, FlightRow, FlightHolds
<1>2. PICK goes \in CheckStage : goes = IF status = "passed" THEN s + 1 ELSE CleanupStage
  BY <1>1, StagesAre
<1>3. PICK pc \in {"check", "clean"} : pc = IF status = "passed" /\ s < Stages THEN "check" ELSE "clean"
  OBVIOUS
<1> DEFINE u == [flight EXCEPT !.verdict = verdict]
           v == [u EXCEPT !.stage = goes]
           j == [v EXCEPT !.pc = pc]
<1>4. flight' = j
  BY <1>1, <1>2, <1>3 DEF Completes
<1>5. u \in FlightRow /\ u.verdict = verdict
  BY DEF PreflightInv, PreflightTypes, FlightRow
<1> HIDE DEF u
<1>6. v \in FlightRow /\ v.verdict = verdict /\ v.stage = goes
  BY <1>5 DEF FlightRow
<1> HIDE DEF v
<1>7. j \in FlightRow /\ j.verdict = verdict /\ j.stage = goes /\ j.pc = pc
  BY <1>6 DEF FlightRow
<1> HIDE DEF j
<1>8. /\ checks' = [checks EXCEPT ![s] = status]
      /\ events' = [events EXCEPT !.completed = @ \cup {s}]
  BY <1>1 DEF Completes
<1>9. /\ checks' \in [CheckStage -> {"none", "passed", "failed", "cancelled", "timed_out"}]
      /\ checks'[s] = status /\ \A t \in CheckStage : t # s => checks'[t] = checks[t]
  BY <1>8 DEF PreflightInv, PreflightTypes
<1>10. /\ events' \in [started : SUBSET CheckStage, completed : SUBSET CheckStage]
       /\ events'.started = events.started /\ events'.completed = events.completed \cup {s}
  BY <1>8 DEF PreflightInv, PreflightTypes
<1>11. events'.started = events'.completed
  BY <1>1, <1>10 DEF PreflightInv, FlightHolds
<1>12. CheckedUpTo(s - 1)
  BY <1>1 DEF PreflightInv, FlightHolds
<1>13. status = "passed" => CheckedUpTo(s)'
  <2> SUFFICES ASSUME status = "passed", NEW t \in 1 .. s PROVE checks'[t] = "passed"
    BY DEF CheckedUpTo
  <2>1. t \in CheckStage
    BY <1>1, StagesAre DEF CheckStage
  <2>2. CASE t = s
    BY <1>9, <2>2
  <2>3. CASE t # s
    <3>1. t \in 1 .. s - 1
      BY <1>1, <2>3
    <3> QED BY <1>9, <1>12, <2>1, <2>3, <3>1 DEF CheckedUpTo
  <2> QED BY <2>2, <2>3
<1>14. pc = "check" => goes - 1 = s /\ goes <= Stages /\ status = "passed" /\ verdict = "passed"
  <2>1. flight.verdict = "passed"
    BY DEF PreflightInv, FlightHolds
  <2> QED BY <1>1, <1>2, <1>3, StagesAre
<1>15. pc = "clean" /\ verdict = "passed" => CheckedUpTo(Stages)'
  <2>1. pc = "clean" /\ verdict = "passed" => status = "passed" /\ s = Stages
    BY <1>1, <1>3, StagesAre
  <2> QED BY <1>13, <2>1
<1>16. PreflightTypes'
  BY <1>4, <1>7, <1>9, <1>10 DEF PreflightInv, PreflightTypes, FlightRow, PreviewRow
<1>17. /\ flight'.pc = pc /\ flight'.stage = goes /\ flight'.verdict = verdict
       /\ pc \in {"check", "clean"}
  BY <1>4, <1>7
<1>18. FlightHolds'
  <2>1. pc = "check" => CheckedUpTo(flight.stage - 1)'
    <3> SUFFICES ASSUME pc = "check" PROVE CheckedUpTo(flight.stage - 1)'
      OBVIOUS
    <3>1. flight'.stage - 1 = s /\ CheckedUpTo(s)'
      BY <1>13, <1>14, <1>17
    <3> QED BY <3>1 DEF CheckedUpTo
  <2>2. flight'.pc \in {"check", "running"} =>
          flight'.verdict = "passed" /\ flight'.stage <= Stages /\ CheckedUpTo(flight.stage - 1)'
    BY <1>14, <1>17, <2>1
  <2> QED BY <1>11, <1>15, <1>17, <2>2 DEF FlightHolds
<1>19. ~row.result /\ row.status # "ready" /\ UNCHANGED row
  BY DEF PreflightInv, PreviewHolds
<1>20. PreviewHolds'
  BY <1>17, <1>19 DEF PreviewHolds, Cancelling
<1> QED BY <1>16, <1>18, <1>20 DEF PreflightInv

(* A preflight that is cut short before or in a check goes on to the clean  *)
(* up with a verdict other than passed.                                     *)
LEMMA CutShortInv ==
  ASSUME PreflightInv, flight.pc = "check", UNCHANGED <<row, checks, events, box>>,
         NEW verdict \in {"cancelled", "timed_out", "raised"}, verdict = "cancelled" => Cancelling,
         flight' = [flight EXCEPT !.pc = "clean", !.stage = CleanupStage, !.verdict = verdict]
  PROVE  PreflightInv'
<1> DEFINE u == [flight EXCEPT !.pc = "clean"]
           v == [u EXCEPT !.stage = CleanupStage]
           j == [v EXCEPT !.verdict = verdict]
<1>1. flight' = j
  OBVIOUS
<1>2. u \in FlightRow /\ u.pc = "clean"
  BY DEF PreflightInv, PreflightTypes, FlightRow
<1> HIDE DEF u
<1>3. v \in FlightRow /\ v.pc = "clean"
  BY <1>2, StagesAre DEF FlightRow
<1> HIDE DEF v
<1>4. j \in FlightRow /\ j.pc = "clean" /\ j.verdict = verdict
  BY <1>3 DEF FlightRow
<1> HIDE DEF j
<1>5. flight' \in FlightRow /\ flight'.pc = "clean" /\ flight'.verdict = verdict
  BY <1>1, <1>4
<1>6. PreflightTypes'
  BY <1>5 DEF PreflightInv, PreflightTypes, FlightRow, PreviewRow
<1>7. events.started = events.completed
  BY DEF PreflightInv, FlightHolds
<1>8. FlightHolds'
  BY <1>5, <1>7 DEF FlightHolds
<1>9. ~row.result /\ row.status # "ready" /\ UNCHANGED row
  BY DEF PreflightInv, PreviewHolds
<1>10. PreviewHolds'
  BY <1>5, <1>9 DEF PreviewHolds, Cancelling
<1> QED BY <1>6, <1>8, <1>10 DEF PreflightInv

LEMMA BeginCheckInv == PreflightInv /\ BeginCheck => PreflightInv'
<1> SUFFICES ASSUME PreflightInv, BeginCheck PROVE PreflightInv'
  OBVIOUS
<1>1. flight.pc = "check" /\ UNCHANGED <<row, checks, box>>
  BY DEF BeginCheck, Flies
<1>2. CASE Cancelling
  <2>1. /\ flight' = [flight EXCEPT !.pc = "clean", !.stage = CleanupStage, !.verdict = "cancelled"]
        /\ UNCHANGED events
    BY <1>2 DEF BeginCheck
  <2>2. "cancelled" \in {"cancelled", "timed_out", "raised"}
    OBVIOUS
  <2> QED BY <1>1, <1>2, <2>1, <2>2, CutShortInv
<1>3. CASE ~Cancelling
  <2>1. /\ flight' = [flight EXCEPT !.pc = "running"]
        /\ events' = [events EXCEPT !.started = @ \cup {flight.stage}]
    BY <1>3 DEF BeginCheck
  <2>2. /\ flight' \in FlightRow /\ flight'.pc = "running" /\ flight'.stage = flight.stage
        /\ flight'.verdict = flight.verdict /\ flight.stage \in CheckStage
    BY <2>1 DEF PreflightInv, PreflightTypes, FlightRow
  <2>3. /\ events' \in [started : SUBSET CheckStage, completed : SUBSET CheckStage]
        /\ events'.started = events.started \cup {flight.stage}
        /\ events'.completed = events.completed
    BY <2>1, <2>2 DEF PreflightInv, PreflightTypes
  <2>4. PreflightTypes'
    BY <1>1, <2>2, <2>3 DEF PreflightInv, PreflightTypes, FlightRow, PreviewRow
  <2>5. FlightHolds'
    BY <1>1, <2>2, <2>3 DEF PreflightInv, FlightHolds, CheckedUpTo
  <2>6. PreviewHolds'
    BY <1>1, <2>2 DEF PreflightInv, PreviewHolds, FlightHolds
  <2> QED BY <2>4, <2>5, <2>6 DEF PreflightInv
<1> QED BY <1>2, <1>3

LEMMA BeginFailsInv == PreflightInv /\ BeginFails => PreflightInv'
<1> SUFFICES ASSUME PreflightInv, BeginFails PROVE PreflightInv'
  OBVIOUS
<1>1. /\ flight.pc = "check" /\ UNCHANGED <<row, checks, events, box>>
      /\ flight' = [flight EXCEPT !.pc = "clean", !.stage = CleanupStage, !.verdict = "raised"]
      /\ "raised" \in {"cancelled", "timed_out", "raised"}
  BY DEF BeginFails, Flies
<1> QED BY <1>1, CutShortInv

(* The sandbox after a check: made with a handle, left as an orphan, or as  *)
(* it was.                                                                  *)
LEMMA BoxKeepsType ==
  ASSUME box \in [made : BOOLEAN, handle : BOOLEAN, orphan : BOOLEAN],
         \/ box' = box
         \/ box' = [box EXCEPT !.made = TRUE, !.handle = TRUE]
         \/ box' = [box EXCEPT !.orphan = TRUE]
  PROVE  box' \in [made : BOOLEAN, handle : BOOLEAN, orphan : BOOLEAN]
<1>1. CASE box' = [box EXCEPT !.made = TRUE, !.handle = TRUE]
  BY <1>1
<1>2. CASE box' = [box EXCEPT !.orphan = TRUE]
  BY <1>2
<1> QED BY <1>1, <1>2

LEMMA CheckEndsInv ==
  ASSUME PreflightInv, CheckPasses \/ CheckFails \/ PollCancels \/ PollFails \/ Timeout,
         flight.pc = "running"
  PROVE  PreflightInv'
<1>1. UNCHANGED row /\ (box' = box \/ box' = [box EXCEPT !.made = TRUE, !.handle = TRUE]
                        \/ box' = [box EXCEPT !.orphan = TRUE])
  <2>1. CASE CheckPasses
    BY <2>1 DEF CheckPasses
  <2>2. CASE CheckFails
    BY <2>2 DEF CheckFails
  <2>3. CASE PollCancels
    BY <2>3 DEF PollCancels
  <2>4. CASE PollFails
    BY <2>4 DEF PollFails
  <2>5. CASE Timeout
    BY <2>5 DEF Timeout, TimesOut, Flies
  <2> QED BY <2>1, <2>2, <2>3, <2>4, <2>5
<1>2. box' \in [made : BOOLEAN, handle : BOOLEAN, orphan : BOOLEAN]
  BY <1>1, BoxKeepsType DEF PreflightInv, PreflightTypes
<1>3. flight.verdict = "passed"
  BY DEF PreflightInv, FlightHolds
<1>4. PICK status \in {"passed", "failed", "cancelled", "timed_out"} :
        Completes(flight.stage, status, status) /\ (status = "cancelled" => Cancelling)
  <2>1. CASE CheckPasses
    BY <1>3, <2>1 DEF CheckPasses
  <2>2. CASE CheckFails
    BY <2>2 DEF CheckFails
  <2>3. CASE PollCancels
    BY <2>3 DEF PollCancels
  <2>4. CASE PollFails
    BY <2>4 DEF PollFails
  <2>5. CASE Timeout
    BY <2>5 DEF Timeout, TimesOut, Flies
  <2> QED BY <2>1, <2>2, <2>3, <2>4, <2>5
<1> QED BY <1>1, <1>2, <1>4, CompletesInv

LEMMA TimeoutInv == PreflightInv /\ Timeout => PreflightInv'
<1> SUFFICES ASSUME PreflightInv, Timeout PROVE PreflightInv'
  OBVIOUS
<1>1. CASE flight.pc = "running"
  BY <1>1, CheckEndsInv
<1>2. CASE flight.pc # "running"
  <2>1. /\ flight.pc = "check" /\ UNCHANGED <<row, checks, events, box>>
        /\ flight' = [flight EXCEPT !.pc = "clean", !.stage = CleanupStage, !.verdict = "timed_out"]
        /\ "timed_out" \in {"cancelled", "timed_out", "raised"}
    BY <1>2 DEF Timeout, TimesOut, Flies
  <2> QED BY <2>1, CutShortInv
<1> QED BY <1>1, <1>2

LEMMA CleanUpInv == PreflightInv /\ CleanUp => PreflightInv'
<1> SUFFICES ASSUME PreflightInv, CleanUp PROVE PreflightInv'
  OBVIOUS
<1> DEFINE b == [made : BOOLEAN, handle : BOOLEAN, orphan : BOOLEAN]
<1>1. PICK ok \in BOOLEAN :
        /\ checks' = [checks EXCEPT ![CleanupStage] = IF ok THEN "passed" ELSE "failed"]
        /\ events' = [started |-> events.started \cup {CleanupStage},
                      completed |-> events.completed \cup {CleanupStage}]
        /\ flight' = [flight EXCEPT !.verdict = IF ok THEN @ ELSE "failed",
                                    !.pc = IF flight.verdict = "raised" THEN "returned" ELSE "read"]
        /\ box' = [box EXCEPT !.made = @ /\ ~ok]
  BY DEF CleanUp
<1>2. flight.pc = "clean" /\ UNCHANGED row
  BY DEF CleanUp, Flies
<1>3. PICK says \in {"passed", "failed"} : says = IF ok THEN "passed" ELSE "failed"
  OBVIOUS
<1>4. /\ checks' \in [CheckStage -> {"none", "passed", "failed", "cancelled", "timed_out"}]
      /\ checks'[CleanupStage] = says
      /\ \A t \in CheckStage : t # CleanupStage => checks'[t] = checks[t]
  <2>1. checks' = [checks EXCEPT ![CleanupStage] = says]
    BY <1>1, <1>3
  <2> QED BY <2>1, StagesAre DEF PreflightInv, PreflightTypes
<1>5. /\ events' \in [started : SUBSET CheckStage, completed : SUBSET CheckStage]
      /\ events'.started = events'.completed
  BY <1>1, <1>2, StagesAre DEF PreflightInv, PreflightTypes, FlightHolds
<1>6. PICK verdict \in {"passed", "failed", "cancelled", "timed_out", "raised"} :
        verdict = IF ok THEN flight.verdict ELSE "failed"
  BY DEF PreflightInv, PreflightTypes, FlightRow
<1>7. PICK pc \in {"read", "returned"} : pc = IF flight.verdict = "raised" THEN "returned" ELSE "read"
  OBVIOUS
<1>8. flight' \in FlightRow /\ flight'.verdict = verdict /\ flight'.pc = pc
  <2> DEFINE u == [flight EXCEPT !.verdict = verdict]
             v == [u EXCEPT !.pc = pc]
  <2>1. flight' = v
    BY <1>1, <1>6, <1>7
  <2>2. u \in FlightRow /\ u.verdict = verdict
    BY DEF PreflightInv, PreflightTypes, FlightRow
  <2> HIDE DEF u
  <2>3. v \in FlightRow /\ v.verdict = verdict /\ v.pc = pc
    BY <2>2 DEF FlightRow
  <2> HIDE DEF v
  <2> QED BY <2>1, <2>3
<1>9. box' \in b /\ (box'.made => ~ok)
  <2>1. PICK left \in BOOLEAN : left = (box.made /\ ~ok)
    OBVIOUS
  <2>2. box' = [box EXCEPT !.made = left]
    BY <1>1, <2>1
  <2>3. box' \in b /\ box'.made = left
    BY <2>2 DEF PreflightInv, PreflightTypes
  <2> QED BY <2>1, <2>3
<1>10. PreflightTypes'
  BY <1>2, <1>4, <1>5, <1>8, <1>9 DEF PreflightInv, PreflightTypes, FlightRow, PreviewRow
<1>11. verdict = "passed" => CheckedUpTo(CleanupStage)'
  <2> SUFFICES ASSUME verdict = "passed", NEW t \in 1 .. CleanupStage PROVE checks'[t] = "passed"
    BY DEF CheckedUpTo
  <2>1. ok /\ says = "passed" /\ CheckedUpTo(Stages) /\ t \in CheckStage
    BY <1>2, <1>3, <1>6 DEF PreflightInv, FlightHolds, CheckStage
  <2>2. t = CleanupStage \/ t \in 1 .. Stages
    BY <2>1, StagesAre
  <2> QED BY <1>4, <2>1, <2>2 DEF CheckedUpTo
<1>12. FlightHolds'
  BY <1>3, <1>4, <1>5, <1>8, <1>9, <1>11 DEF FlightHolds
<1>13. ~row.result /\ row.status # "ready"
  BY <1>2 DEF PreflightInv, PreviewHolds
<1>14. PreviewHolds'
  <2>1. verdict = "raised" => flight.verdict = "raised"
    BY <1>6
  <2>2. verdict = "cancelled" => flight.verdict = "cancelled"
    BY <1>6
  <2> QED BY <1>2, <1>7, <1>8, <1>13, <2>1, <2>2 DEF PreflightInv, PreviewHolds
<1> QED BY <1>10, <1>12, <1>14 DEF PreflightInv

LEMMA AttachReadInv == PreflightInv /\ AttachRead => PreflightInv'
<1> SUFFICES ASSUME PreflightInv, AttachRead PROVE PreflightInv'
  OBVIOUS
<1>1. flight.pc = "read" /\ UNCHANGED <<row, checks, events, box>> /\ row.token \in Nat
  BY DEF AttachRead, Flies, PreflightInv, PreflightTypes, PreviewRow
<1>2. /\ flight' \in FlightRow /\ flight'.verdict = flight.verdict
      /\ flight'.pc \in {"write", "returned"}
  <2>1. CASE flight' = [flight EXCEPT !.pc = "returned"]
    BY <2>1 DEF PreflightInv, PreflightTypes, FlightRow
  <2>2. CASE flight' = [flight EXCEPT !.pc = "write", !.seen = row.token]
    <3> DEFINE u == [flight EXCEPT !.pc = "write"]
               v == [u EXCEPT !.seen = row.token]
    <3>1. flight' = v
      BY <2>2
    <3>2. u \in FlightRow /\ u.verdict = flight.verdict /\ u.pc = "write"
      BY DEF PreflightInv, PreflightTypes, FlightRow
    <3> HIDE DEF u
    <3>3. v \in FlightRow /\ v.verdict = flight.verdict /\ v.pc = "write"
      BY <1>1, <3>2 DEF FlightRow
    <3> HIDE DEF v
    <3> QED BY <3>1, <3>3
  <2> QED BY <2>1, <2>2 DEF AttachRead
<1>3. PreflightTypes'
  BY <1>1, <1>2 DEF PreflightInv, PreflightTypes, FlightRow, PreviewRow
<1>4. FlightHolds'
  BY <1>1, <1>2 DEF PreflightInv, FlightHolds, CheckedUpTo
<1>5. PreviewHolds'
  BY <1>1, <1>2 DEF PreflightInv, PreviewHolds
<1> QED BY <1>3, <1>4, <1>5 DEF PreflightInv

LEMMA AttachWriteInv == PreflightInv /\ AttachWrite => PreflightInv'
<1> SUFFICES ASSUME PreflightInv, AttachWrite PROVE PreflightInv'
  OBVIOUS
<1>1. flight.pc = "write" /\ UNCHANGED <<checks, events, box>>
  BY DEF AttachWrite, Flies
<1>2. row \in PreviewRow /\ flight \in FlightRow
  BY DEF PreflightInv, PreflightTypes
<1>3. CASE row.token = flight.seen
  <2>1. /\ row' = [row EXCEPT !.result = TRUE, !.token = @ + 1]
        /\ flight' = [flight EXCEPT !.pc = "returned"]
    BY <1>3 DEF AttachWrite
  <2>2. row' \in PreviewRow /\ row'.result /\ row'.status = row.status
    <3> DEFINE u == [row EXCEPT !.result = TRUE]
               v == [u EXCEPT !.token = @ + 1]
    <3>1. row' = v
      BY <2>1
    <3>2. u \in PreviewRow /\ u.result /\ u.status = row.status
      BY <1>2 DEF PreviewRow
    <3> HIDE DEF u
    <3>3. v \in PreviewRow /\ v.result /\ v.status = row.status
      BY <3>2 DEF PreviewRow
    <3> HIDE DEF v
    <3> QED BY <3>1, <3>3
  <2>3. flight' \in FlightRow /\ flight'.verdict = flight.verdict /\ flight'.pc = "returned"
    BY <1>2, <2>1 DEF FlightRow
  <2>4. PreflightTypes'
    BY <1>1, <2>2, <2>3 DEF PreflightInv, PreflightTypes, FlightRow, PreviewRow
  <2>5. FlightHolds'
    BY <1>1, <2>3 DEF PreflightInv, FlightHolds, CheckedUpTo
  <2>6. PreviewHolds'
    BY <1>1, <2>2, <2>3 DEF PreflightInv, PreviewHolds
  <2> QED BY <2>4, <2>5, <2>6 DEF PreflightInv
<1>4. CASE row.token # flight.seen
  <2>1. flight' = [flight EXCEPT !.pc = "read", !.attempt = @ + 1] /\ UNCHANGED row
    BY <1>4 DEF AttachWrite
  <2>2. flight' \in FlightRow /\ flight'.verdict = flight.verdict /\ flight'.pc = "read"
    <3> DEFINE u == [flight EXCEPT !.pc = "read"]
               v == [u EXCEPT !.attempt = @ + 1]
    <3>1. flight' = v
      BY <2>1
    <3>2. u \in FlightRow /\ u.verdict = flight.verdict /\ u.pc = "read"
      BY <1>2 DEF FlightRow
    <3> HIDE DEF u
    <3>3. v \in FlightRow /\ v.verdict = flight.verdict /\ v.pc = "read"
      BY <3>2 DEF FlightRow
    <3> HIDE DEF v
    <3> QED BY <3>1, <3>3
  <2>3. PreflightTypes'
    BY <1>1, <2>1, <2>2 DEF PreflightInv, PreflightTypes, FlightRow, PreviewRow
  <2>4. FlightHolds'
    BY <1>1, <2>2 DEF PreflightInv, FlightHolds, CheckedUpTo
  <2>5. PreviewHolds'
    BY <1>1, <2>1, <2>2 DEF PreflightInv, PreviewHolds
  <2> QED BY <2>3, <2>4, <2>5 DEF PreflightInv
<1> QED BY <1>3, <1>4

(* A step of the preview itself moves only its row.                         *)
LEMMA RowMovesInv ==
  ASSUME PreflightInv, UNCHANGED <<flight, checks, events, box>>,
         row' \in PreviewRow, row'.result = row.result,
         flight.verdict = "cancelled" => row'.status \notin {"provisioning", "ready"},
         row'.status = "ready" => row.result /\ flight.pc = "returned" /\ CheckedUpTo(CleanupStage)
  PROVE  PreflightInv'
<1>1. PreflightTypes'
  BY DEF PreflightInv, PreflightTypes, FlightRow, PreviewRow
<1>2. FlightHolds'
  BY DEF PreflightInv, FlightHolds, CheckedUpTo
<1>3. PreviewHolds'
  BY DEF PreflightInv, PreviewHolds, CheckedUpTo
<1> QED BY <1>1, <1>2, <1>3 DEF PreflightInv

LEMMA PreviewMoves ==
  ASSUME row \in PreviewRow,
         NEW status \in {"cancelling", "ready", "failed", "cancelled", "expired"},
         \/ row' = [row EXCEPT !.status = status, !.token = @ + 1]
         \/ row' = [row EXCEPT !.token = @ + 1, !.status = status]
  PROVE  row' \in PreviewRow /\ row'.result = row.result /\ row'.status = status
<1> DEFINE u == [row EXCEPT !.status = status]
           v == [u EXCEPT !.token = @ + 1]
           x == [row EXCEPT !.token = @ + 1]
           y == [x EXCEPT !.status = status]
<1>1. row' = v \/ row' = y
  OBVIOUS
<1>2. u \in PreviewRow /\ u.status = status /\ u.result = row.result
  BY DEF PreviewRow
<1>3. x \in PreviewRow /\ x.result = row.result
  BY DEF PreviewRow
<1> HIDE DEF u, x
<1>4. v \in PreviewRow /\ v.status = status /\ v.result = row.result
  BY <1>2 DEF PreviewRow
<1>5. y \in PreviewRow /\ y.status = status /\ y.result = row.result
  BY <1>3 DEF PreviewRow
<1> HIDE DEF v, y
<1> QED BY <1>1, <1>4, <1>5

LEMMA AdvancePreviewInv == PreflightInv /\ AdvancePreview => PreflightInv'
<1> SUFFICES ASSUME PreflightInv, AdvancePreview PROVE PreflightInv'
  OBVIOUS
<1>1. flight.pc = "returned" /\ UNCHANGED <<flight, checks, events, box>>
  BY DEF AdvancePreview, Flies
<1>2. PICK status \in {"failed", "cancelled", "ready"} :
        status = IF flight.verdict \in {"failed", "timed_out"} \/ ~row.result THEN "failed"
                 ELSE IF Cancelling THEN "cancelled" ELSE "ready"
  OBVIOUS
<1>3. row' = [row EXCEPT !.token = @ + 1, !.status = status]
  BY <1>2 DEF AdvancePreview
<1>4. row' \in PreviewRow /\ row'.result = row.result /\ row'.status = status
  BY <1>3, PreviewMoves DEF PreflightInv, PreflightTypes
<1>5. row.status \in {"provisioning", "cancelling"}
  BY DEF AdvancePreview, PreviewOver, PreflightInv, PreflightTypes, PreviewRow
<1>6. status = "ready" => row.status = "provisioning" /\ row.result
                          /\ flight.verdict \notin {"failed", "timed_out"}
  BY <1>2, <1>5 DEF Cancelling
<1>7. flight.verdict \in {"passed", "failed", "cancelled", "timed_out", "raised"}
  BY DEF PreflightInv, PreflightTypes, FlightRow
<1>8. status = "ready" => flight.verdict = "passed"
  BY <1>6, <1>7 DEF PreflightInv, PreviewHolds
<1>9. status = "ready" => CheckedUpTo(CleanupStage)
  BY <1>1, <1>8 DEF PreflightInv, FlightHolds
<1> QED BY <1>1, <1>4, <1>6, <1>8, <1>9, RowMovesInv

LEMMA PreviewEndsInv == PreflightInv /\ (CancelPreview \/ ExpirePreview) => PreflightInv'
<1> SUFFICES ASSUME PreflightInv, CancelPreview \/ ExpirePreview PROVE PreflightInv'
  OBVIOUS
<1>1. UNCHANGED <<flight, checks, events, box>>
  BY DEF CancelPreview, ExpirePreview
<1>2. PICK status \in {"cancelling", "expired"} : row' = [row EXCEPT !.status = status, !.token = @ + 1]
  BY DEF CancelPreview, ExpirePreview
<1>3. row' \in PreviewRow /\ row'.result = row.result /\ row'.status = status
  BY <1>2, PreviewMoves DEF PreflightInv, PreflightTypes
<1> QED BY <1>1, <1>3, RowMovesInv

LEMMA PreflightStepInv == PreflightInv /\ [PreflightNext]_preflightVars => PreflightInv'
<1> SUFFICES ASSUME PreflightInv, [PreflightNext]_preflightVars PROVE PreflightInv'
  OBVIOUS
<1>1. CASE BeginCheck
  BY <1>1, BeginCheckInv
<1>2. CASE BeginFails
  BY <1>2, BeginFailsInv
<1>3. CASE CheckPasses \/ CheckFails \/ PollCancels \/ PollFails
  <2>1. flight.pc = "running"
    BY <1>3 DEF CheckPasses, CheckFails, PollCancels, PollFails, Flies
  <2> QED BY <1>3, <2>1, CheckEndsInv
<1>4. CASE Timeout
  BY <1>4, TimeoutInv
<1>5. CASE CleanUp
  BY <1>5, CleanUpInv
<1>6. CASE AttachRead
  BY <1>6, AttachReadInv
<1>7. CASE AttachWrite
  BY <1>7, AttachWriteInv
<1>8. CASE AdvancePreview
  BY <1>8, AdvancePreviewInv
<1>9. CASE CancelPreview \/ ExpirePreview
  BY <1>9, PreviewEndsInv
<1>10. CASE UNCHANGED preflightVars
  BY <1>10 DEF preflightVars, PreflightInv, PreflightTypes, FlightHolds, PreviewHolds,
              PreviewRow, FlightRow, CheckedUpTo
<1> QED BY <1>1, <1>2, <1>3, <1>4, <1>5, <1>6, <1>7, <1>8, <1>9, <1>10 DEF PreflightNext

(* LivePreflightRunner, _attach and the controller's step: a preview is     *)
(* ready only if every check and the cleanup passed and the result is       *)
(* stored; a preflight that returned closed every check it opened and left  *)
(* no sandbox with a handle unless its cleanup says so.                     *)
THEOREM ReadyPreviewsAreChecked == ServicesSpec => []ReadyMeansChecked
<1>1. ServicesInit => PreflightInv
  BY PreflightPart, PreflightInitInv
<1>2. PreflightInv /\ [ServicesNext]_servicesVars => PreflightInv'
  BY PreflightPart, PreflightStepInv
<1>3. PreflightInv => ReadyMeansChecked
  BY DEF PreflightInv, FlightHolds, PreviewHolds, ReadyMeansChecked, Flies, CheckedUpTo
<1> QED BY <1>1, <1>2, <1>3, PTL DEF ServicesSpec

-----------------------------------------------------------------------------
(* The evaluation suites of EvalSuite.                                       *)
LEMMA SuitePart ==
  /\ ServicesInit => SuiteInit
  /\ [ServicesNext]_servicesVars => [SuiteNext]_suiteVars
<1>1. ServicesInit => SuiteInit
  BY DEF ServicesInit
<1>2. ServicesNext => SuiteNext \/ UNCHANGED suiteVars
  BY DEF ServicesNext, Only
<1>3. UNCHANGED servicesVars => UNCHANGED suiteVars
  BY DEF servicesVars
<1> QED BY <1>1, <1>2, <1>3

(* The tally that PeakConcurrent makes along a log.                           *)
IsTally(trail, g, m) ==
  g = [n \in 0 .. m |-> IF n = 0 THEN [active |-> {}, peak |-> 0] ELSE Tallied(g[n - 1], trail[n])]

LEMMA TallyExists ==
  ASSUME NEW trail, NEW m \in Nat
  PROVE  \E g : IsTally(trail, g, m)
<1> DEFINE ns == {n \in Nat : \E g : IsTally(trail, g, n)}
<1>1. 0 \in ns
  <2> DEFINE g == [n \in 0 .. 0 |-> [active |-> {}, peak |-> 0]]
  <2>1. IsTally(trail, g, 0)
    BY DEF IsTally
  <2> QED BY <2>1
<1>2. ASSUME NEW n \in ns PROVE n + 1 \in ns
  <2>1. PICK g : IsTally(trail, g, n)
    OBVIOUS
  <2> DEFINE h == [i \in 0 .. n + 1 |-> IF i <= n THEN g[i] ELSE Tallied(g[n], trail[n + 1])]
  <2>2. ASSUME NEW i \in 0 .. n + 1
        PROVE  h[i] = IF i = 0 THEN [active |-> {}, peak |-> 0] ELSE Tallied(h[i - 1], trail[i])
    <3>1. CASE i = 0
      BY <2>1, <3>1 DEF IsTally
    <3>2. CASE i # 0 /\ i <= n
      <4>1. h[i] = g[i] /\ h[i - 1] = g[i - 1] /\ i \in 0 .. n
        BY <3>2
      <4>2. g[i] = Tallied(g[i - 1], trail[i])
        BY <2>1, <3>2, <4>1 DEF IsTally
      <4> QED BY <3>2, <4>1, <4>2
    <3>3. CASE i = n + 1
      <4>1. h[i] = Tallied(g[n], trail[n + 1]) /\ h[i - 1] = g[n] /\ i # 0
        BY <3>3
      <4> QED BY <3>3, <4>1
    <3> QED BY <3>1, <3>2, <3>3
  <2>3. IsTally(trail, h, n + 1)
    <3> HIDE DEF h
    <3>1. h = [i \in 0 .. n + 1 |-> h[i]]
      BY DEF h
    <3> QED BY <2>2, <3>1 DEF IsTally
  <2> QED BY <2>3
<1> HIDE DEF ns
<1>3. ns = Nat
  BY <1>1, <1>2, AllNumbers DEF ns
<1> QED BY <1>3 DEF ns

LEMMA PeakIsTally ==
  ASSUME NEW trail, Len(trail) \in Nat
  PROVE  \E g : IsTally(trail, g, Len(trail)) /\ PeakConcurrent(trail) = g[Len(trail)].peak
<1> DEFINE g == CHOOSE f : IsTally(trail, f, Len(trail))
<1>1. IsTally(trail, g, Len(trail))
  BY TallyExists
<1>2. PeakConcurrent(trail) = g[Len(trail)].peak
  BY DEF PeakConcurrent, IsTally
<1> QED BY <1>1, <1>2

(* One event more: the definition of what is active changes as the tally.    *)
LEMMA ActiveGrows ==
  ASSUME NEW trail \in Seq(Deed), NEW n \in Nat, n + 1 \in DOMAIN trail
  PROVE  ActiveAt(trail, n + 1) =
           IF trail[n + 1].type = "started" THEN ActiveAt(trail, n) \cup {trail[n + 1].name}
           ELSE IF trail[n + 1].type = "completed" THEN ActiveAt(trail, n) \ {trail[n + 1].name}
           ELSE ActiveAt(trail, n)
<1> DEFINE Starts(t, i) == trail[i] = [type |-> "started", name |-> t]
           StillOn(t, i, m) == \A j \in i .. m : trail[j] # [type |-> "completed", name |-> t]
           names == {trail[j].name : j \in DOMAIN trail}
           e == trail[n + 1]
<1>1. e \in Deed /\ e.name \in names /\ DOMAIN trail = 1 .. Len(trail) /\ Len(trail) \in Nat
  OBVIOUS
<1>2. e = [type |-> e.type, name |-> e.name]
  BY <1>1, SuiteAssumption
<1>3. \A m, t : t \in ActiveAt(trail, m) <=> t \in names /\ \E i \in 1 .. m : Starts(t, i) /\ StillOn(t, i, m)
  BY DEF ActiveAt
<1>4. ASSUME NEW t PROVE \A i \in 1 .. n : StillOn(t, i, n + 1) <=>
                            StillOn(t, i, n) /\ e # [type |-> "completed", name |-> t]
  <2> TAKE i \in 1 .. n
  <2>1. i .. n + 1 = (i .. n) \cup {n + 1}
    OBVIOUS
  <2> QED BY <2>1
<1>5. ASSUME NEW t PROVE StillOn(t, n + 1, n + 1) <=> e # [type |-> "completed", name |-> t]
  OBVIOUS
<1>6. 1 .. n + 1 = (1 .. n) \cup {n + 1}
  OBVIOUS
<1> HIDE DEF Starts, StillOn, names
<1>7. ASSUME NEW t
      PROVE  t \in ActiveAt(trail, n + 1) <=>
               \/ t \in names /\ Starts(t, n + 1) /\ e # [type |-> "completed", name |-> t]
               \/ t \in ActiveAt(trail, n) /\ e # [type |-> "completed", name |-> t]
  BY <1>3, <1>4, <1>5, <1>6
<1>8. CASE e.type = "started"
  <2>1. \A t : Starts(t, n + 1) <=> t = e.name
    BY <1>2, <1>8 DEF Starts
  <2>2. \A t : e # [type |-> "completed", name |-> t]
    BY <1>2, <1>8
  <2> QED BY <1>1, <1>7, <1>8, <2>1, <2>2
<1>9. CASE e.type = "completed"
  <2>1. \A t : ~Starts(t, n + 1)
    BY <1>2, <1>9 DEF Starts
  <2>2. \A t : e = [type |-> "completed", name |-> t] <=> t = e.name
    BY <1>2, <1>9
  <2> QED BY <1>7, <1>9, <2>1, <2>2
<1>10. CASE e.type \notin {"started", "completed"}
  <2>1. \A t : ~Starts(t, n + 1)
    BY <1>2, <1>10 DEF Starts
  <2>2. \A t : e # [type |-> "completed", name |-> t]
    BY <1>2, <1>10
  <2> QED BY <1>7, <1>10, <2>1, <2>2
<1> QED BY <1>8, <1>9, <1>10

(* What the tally has after n events.                                       *)
Counts(trail, g, n) ==
  /\ g[n].active = ActiveAt(trail, n) /\ IsFiniteSet(g[n].active)
  /\ g[n].peak \in Nat /\ Cardinality(g[n].active) <= g[n].peak

Steady(trail, g, n) ==
  n \in 0 .. Len(trail) => /\ Counts(trail, g, n)
                         /\ \A m \in 0 .. n : g[m].peak \in Nat /\ g[m].peak <= g[n].peak

LEMMA TallyStep ==
  ASSUME NEW trail \in Seq(Deed), NEW g, NEW n \in 0 .. Len(trail), n + 1 \in DOMAIN trail,
         Steady(trail, g, n), g[n + 1] = Tallied(g[n], trail[n + 1])
  PROVE  Steady(trail, g, n + 1)
<1>1. /\ g[n].active = ActiveAt(trail, n) /\ IsFiniteSet(g[n].active)
      /\ g[n].peak \in Nat /\ Cardinality(g[n].active) <= g[n].peak
      /\ \A m \in 0 .. n : g[m].peak \in Nat /\ g[m].peak <= g[n].peak
  BY DEF Steady, Counts
<1> DEFINE before == g[n].active
           name == trail[n + 1].name
           onNow == IF trail[n + 1].type = "started" THEN before \cup {name}
                     ELSE IF trail[n + 1].type = "completed" THEN before \ {name} ELSE before
<1>2. IsFiniteSet(before \cup {name}) /\ IsFiniteSet(before \ {name}) /\ IsFiniteSet(before)
  <2>1. IsFiniteSet(before)
    BY <1>1
  <2> HIDE DEF before, name
  <2>2. IsFiniteSet(before \cup {name})
    BY <2>1, FS_AddElement
  <2>3. IsFiniteSet(before \ {name})
    BY <2>1, FS_RemoveElement
  <2> QED BY <2>1, <2>2, <2>3
<1>3. onNow = ActiveAt(trail, n + 1) /\ IsFiniteSet(onNow)
  <2>1. n \in Nat /\ before = ActiveAt(trail, n)
    BY <1>1
  <2>2. onNow = ActiveAt(trail, n + 1)
    BY <2>1, ActiveGrows
  <2>3. IsFiniteSet(onNow)
    <3> HIDE DEF before, name
    <3> QED BY <1>2
  <2> QED BY <2>2, <2>3
<1>4. /\ g[n + 1].active = onNow
      /\ g[n + 1].peak = IF Cardinality(onNow) > g[n].peak THEN Cardinality(onNow) ELSE g[n].peak
  BY DEF Tallied
<1>5. Cardinality(onNow) \in Nat
  BY <1>3, FS_CardinalityType
<1> HIDE DEF onNow
<1>6. g[n + 1].peak \in Nat /\ g[n].peak <= g[n + 1].peak /\ Cardinality(onNow) <= g[n + 1].peak
  BY <1>1, <1>4, <1>5
<1>7. Counts(trail, g, n + 1)
  BY <1>3, <1>4, <1>6 DEF Counts
<1>8. ASSUME NEW m \in 0 .. n + 1 PROVE g[m].peak \in Nat /\ g[m].peak <= g[n + 1].peak
  <2>1. CASE m = n + 1
    BY <1>6, <2>1
  <2>2. CASE m \in 0 .. n
    BY <1>1, <1>6, <2>2
  <2> QED BY <2>1, <2>2
<1> QED BY <1>7, <1>8 DEF Steady

LEMMA TallyCounts ==
  ASSUME NEW trail \in Seq(Deed), NEW g, IsTally(trail, g, Len(trail))
  PROVE  \A n \in 0 .. Len(trail) : Steady(trail, g, n)
<1>1. g[0] = [active |-> {}, peak |-> 0]
  BY DEF IsTally
<1>2. ASSUME NEW n \in Nat, n + 1 \in 0 .. Len(trail) PROVE g[n + 1] = Tallied(g[n], trail[n + 1])
  <2>1. \A i \in 0 .. Len(trail) :
          g[i] = IF i = 0 THEN [active |-> {}, peak |-> 0] ELSE Tallied(g[i - 1], trail[i])
    BY DEF IsTally
  <2>2. n + 1 # 0 /\ (n + 1) - 1 = n
    OBVIOUS
  <2> QED BY <1>2, <2>1, <2>2
<1> HIDE DEF IsTally
<1> DEFINE ns == {n \in Nat : Steady(trail, g, n)}
<1>3. 0 \in ns
  <2>1. ActiveAt(trail, 0) = {}
    BY DEF ActiveAt
  <2>2. Counts(trail, g, 0)
    BY <1>1, <2>1, FS_EmptySet DEF Counts
  <2>3. \A m \in 0 .. 0 : g[m].peak \in Nat /\ g[m].peak <= g[0].peak
    BY <1>1
  <2> QED BY <2>2, <2>3 DEF Steady
<1>4. ASSUME NEW n \in ns PROVE n + 1 \in ns
  <2>1. CASE n + 1 \in 0 .. Len(trail)
    <3>1. n \in 0 .. Len(trail) /\ n + 1 \in DOMAIN trail
      BY <2>1
    <3> QED BY <1>2, <2>1, <3>1, TallyStep
  <2>2. CASE n + 1 \notin 0 .. Len(trail)
    BY <2>2 DEF Steady
  <2> QED BY <2>1, <2>2
<1> HIDE DEF ns
<1>5. ns = Nat
  BY <1>3, <1>4, AllNumbers DEF ns
<1> QED BY <1>5 DEF ns

(* The peak is no less than what was active after any of the events.         *)
LEMMA PeakBounds ==
  ASSUME NEW trail \in Seq(Deed)
  PROVE  /\ PeakConcurrent(trail) \in Nat
         /\ \A n \in DOMAIN trail : /\ Cardinality(ActiveAt(trail, n)) \in Nat
                                  /\ Cardinality(ActiveAt(trail, n)) <= PeakConcurrent(trail)
<1>1. Len(trail) \in Nat /\ DOMAIN trail = 1 .. Len(trail)
  OBVIOUS
<1>2. PICK g : IsTally(trail, g, Len(trail)) /\ PeakConcurrent(trail) = g[Len(trail)].peak
  BY <1>1, PeakIsTally
<1>3. \A n \in 0 .. Len(trail) : Steady(trail, g, n)
  BY <1>2, TallyCounts
<1>4. PeakConcurrent(trail) \in Nat
  BY <1>1, <1>2, <1>3 DEF Steady, Counts
<1>5. ASSUME NEW n \in DOMAIN trail
      PROVE  /\ Cardinality(ActiveAt(trail, n)) \in Nat
             /\ Cardinality(ActiveAt(trail, n)) <= PeakConcurrent(trail)
  <2>1. n \in 0 .. Len(trail) /\ Len(trail) \in 0 .. Len(trail) /\ Len(trail) \in Nat
    BY <1>1
  <2>2. /\ Counts(trail, g, n) /\ g[n].peak <= g[Len(trail)].peak /\ g[Len(trail)].peak \in Nat
    BY <1>3, <2>1 DEF Steady
  <2>3. Cardinality(ActiveAt(trail, n)) <= g[n].peak /\ g[n].peak \in Nat
        /\ Cardinality(ActiveAt(trail, n)) \in Nat
    BY <2>2, FS_CardinalityType DEF Counts
  <2>4. \A a, b, c \in Nat : a <= b /\ b <= c => a <= c
    OBVIOUS
  <2> QED BY <1>2, <2>2, <2>3, <2>4
<1> QED BY <1>4, <1>5

(* What the score accepts keeps to what the case expects.                    *)
LEMMA PassedKeepsTo ==
  ASSUME NEW trail \in Seq(Deed), turn \in CaseIndex, NEW status, NEW tardy,
         EvaluateRecordedRun(Expect[turn], status, trail, tardy)
  PROVE  KeepsTo(trail)
<1>1. Expect[turn].most \in Nat /\ Expect[turn].least \in Nat
  <2> DEFINE caseRow == [statuses : SUBSET STRING, required : SUBSET STRING, forbidden : SUBSET STRING,
                     least : Nat, most : Nat, approval : BOOLEAN]
  <2>1. \A x \in caseRow : x.most \in Nat /\ x.least \in Nat
    OBVIOUS
  <2>2. Expect \in Seq(caseRow)
    BY SuiteAssumption
  <2> HIDE DEF caseRow
  <2>3. Expect[turn] \in caseRow
    BY <2>2 DEF CaseIndex
  <2> QED BY <2>1, <2>3
<1>2. PeakConcurrent(trail) <= Expect[turn].most
  BY <1>1, PeakBounds DEF EvaluateRecordedRun
<1>3. ASSUME NEW n \in DOMAIN trail PROVE Cardinality(ActiveAt(trail, n)) <= Expect[turn].most
  <2>1. \A a, b, c \in Nat : a <= b /\ b <= c => a <= c
    OBVIOUS
  <2> QED BY <1>1, <1>2, <2>1, PeakBounds
<1>4. ASSUME NEW tool \in Expect[turn].required
      PROVE  \E n \in DOMAIN trail : trail[n] = [type |-> "tool", name |-> tool]
  <2>1. PICK n \in DOMAIN trail : trail[n].type = "tool" /\ trail[n].name = tool
    BY DEF EvaluateRecordedRun, LoggedTools
  <2>2. trail[n] \in Deed
    OBVIOUS
  <2> QED BY <2>1, <2>2, SuiteAssumption
<1> QED BY <1>3, <1>4 DEF KeepsTo

-----------------------------------------------------------------------------
SuiteResult == [case : Nat, passed : BOOLEAN, right : BOOLEAN]
ResultsOf(outcomes, k) == {n \in DOMAIN outcomes : outcomes[n].case = k}

SuiteTypes ==
  /\ turn \in Nat /\ 1 <= turn /\ (turn \in CaseIndex \/ turn = Len(Expect) + 1)
  /\ stage \in {"session", "upload", "create", "wait", "events", "score", "stop", "error"}
  /\ tried \in [CaseIndex -> RunState]
  /\ deeds \in Seq(Deed)
  /\ seen \in [status : RunState, log : Seq(Deed), known : BOOLEAN]
  /\ report \in Seq(SuiteResult)

RunOver == {"none", "cancelling", "ended"}

(* What the runner knows of the Run of the case, and what went on behind it   *)
SuiteRuns ==
  /\ \A k \in CaseIndex : k > turn => tried[k] = "none"
  /\ \A k \in CaseIndex : k < turn /\ k \notin strayed => tried[k] \in RunOver
  /\ stage # "session" => turn \in CaseIndex
  /\ turn \in CaseIndex /\ stage \in {"session", "upload", "create"} => tried[turn] = "none"
  /\ stage \in {"wait", "events", "score", "stop"} => seen.known
  /\ stage = "error" /\ ~seen.known /\ turn \notin strayed => tried[turn] = "none"
  /\ seen.status = "ended" => turn \in CaseIndex /\ tried[turn] = "ended"
  /\ stage = "score" /\ seen.status = "ended" => seen.log = deeds

InTurn(former, latter) ==
  former.case <= latter.case /\ (latter.passed => former.case # latter.case)

(* The results so far, and those of the case that is evaluated               *)
SuiteResults ==
  /\ \A n \in DOMAIN report : /\ report[n].case <= turn
                              /\ report[n].passed => report[n].right
                              /\ n > 1 => InTurn(report[n - 1], report[n])
  /\ stage \notin {"stop", "error"} => ResultsOf(report, turn) = {}
  /\ stage = "error" /\ turn \notin strayed => ResultsOf(report, turn) = {}
  /\ stage = "stop" => \E n : ResultsOf(report, turn) = {n}
  /\ \A k \in 1 .. turn - 1 : /\ ResultsOf(report, k) # {}
                              /\ k \notin strayed => \E n : ResultsOf(report, k) = {n}

SuiteInv == SuiteTypes /\ SuiteRuns /\ SuiteResults

LEMMA SuiteInitInv == SuiteInit => SuiteInv
<1> SUFFICES ASSUME SuiteInit PROVE SuiteInv
  OBVIOUS
<1>1. Len(Expect) \in Nat /\ CaseIndex = 1 .. Len(Expect)
  BY SuiteAssumption DEF CaseIndex
<1>2. SuiteTypes
  BY <1>1 DEF SuiteInit, SuiteTypes, NotSeen, RunState
<1>3. SuiteRuns
  BY <1>1 DEF SuiteInit, SuiteRuns, NotSeen
<1>4. DOMAIN report = {}
  BY DEF SuiteInit
<1>5. SuiteResults
  BY <1>4 DEF SuiteInit, SuiteResults, ResultsOf
<1> QED BY <1>2, <1>3, <1>5 DEF SuiteInv

(* A result more: whose it is, and that the order of the report is kept.     *)
LEMMA ResultAdded ==
  ASSUME SuiteInv, turn \in CaseIndex, NEW passed \in BOOLEAN, AddSuiteResult(passed),
         passed => (seen.status = "ended" => KeepsTo(deeds)),
         passed => ResultsOf(report, turn) = {}
  PROVE  /\ report' \in Seq(SuiteResult)
         /\ \A n \in DOMAIN report' : /\ report'[n].case <= turn
                                      /\ report'[n].passed => report'[n].right
                                      /\ n > 1 => InTurn(report'[n - 1], report'[n])
         /\ \A k : k # turn => ResultsOf(report', k) = ResultsOf(report, k)
         /\ ResultsOf(report', turn) # {}
         /\ ResultsOf(report, turn) = {} => \E n : ResultsOf(report', turn) = {n}
<1> DEFINE right == (seen.status = "ended" => KeepsTo(deeds))
           e == [case |-> turn, passed |-> passed, right |-> right]
           m == Len(report)
<1>1. report \in Seq(SuiteResult) /\ turn \in Nat /\ right \in BOOLEAN
  BY DEF SuiteInv, SuiteTypes
<1> HIDE DEF right
<1>2. e \in SuiteResult /\ e.case = turn /\ (e.passed => e.right) /\ e.passed = passed
  BY <1>1 DEF SuiteResult, right
<1>3. report' = Append(report, e)
  BY DEF AddSuiteResult, right
<1> HIDE DEF e
<1>4. /\ report' \in Seq(SuiteResult) /\ m \in Nat /\ DOMAIN report = 1 .. m
      /\ DOMAIN report' = 1 .. m + 1 /\ report'[m + 1] = e
      /\ \A n \in 1 .. m : report'[n] = report[n]
  BY <1>1, <1>2, <1>3
<1>5. \A n \in 1 .. m : report[n] \in SuiteResult
  BY <1>1, <1>4
<1> HIDE DEF m
<1>6. \A n \in 1 .. m : /\ report[n].case <= turn
                        /\ report[n].passed => report[n].right
                        /\ n > 1 => InTurn(report[n - 1], report[n])
  BY <1>4 DEF SuiteInv, SuiteResults
<1>7. ASSUME NEW n \in 1 .. m + 1
      PROVE  /\ report'[n].case <= turn
             /\ report'[n].passed => report'[n].right
             /\ n > 1 => InTurn(report'[n - 1], report'[n])
  <2>1. CASE n \in 1 .. m
    <3>1. report'[n] = report[n] /\ (n > 1 => n - 1 \in 1 .. m /\ report'[n - 1] = report[n - 1])
      BY <1>4, <2>1
    <3> QED BY <1>6, <2>1, <3>1
  <2>2. CASE n = m + 1
    <3>1. report'[n] = e
      BY <1>4, <2>2
    <3>2. n > 1 => n - 1 \in 1 .. m /\ report'[n - 1] = report[n - 1]
      BY <1>4, <2>2
    <3>3. passed => \A l \in 1 .. m : report[l].case # turn
      BY <1>4 DEF ResultsOf
    <3> QED BY <1>1, <1>2, <1>6, <3>1, <3>2, <3>3 DEF InTurn
  <2> QED BY <1>4, <2>1, <2>2
<1>8. \A k : k # turn => ResultsOf(report', k) = ResultsOf(report, k)
  BY <1>2, <1>4 DEF ResultsOf
<1>9. ResultsOf(report', turn) = ResultsOf(report, turn) \cup {m + 1}
  BY <1>2, <1>4 DEF ResultsOf
<1> QED BY <1>4, <1>7, <1>8, <1>9

LEMMA CaseIndexIs == Len(Expect) \in Nat /\ CaseIndex = 1 .. Len(Expect)
BY SuiteAssumption DEF CaseIndex

(* A result, and on to the next case.                                        *)
LEMMA FollowedInv ==
  ASSUME SuiteInv, turn \in CaseIndex, NEW passed \in BOOLEAN, AddSuiteResult(passed), Following,
         passed => (seen.status = "ended" => KeepsTo(deeds)),
         passed => ResultsOf(report, turn) = {},
         tried' \in [CaseIndex -> RunState],
         \A k \in CaseIndex : k # turn => tried'[k] = tried[k],
         strayed \subseteq strayed', strayed' \subseteq strayed \cup {turn},
         turn \notin strayed' => tried'[turn] \in RunOver /\ ResultsOf(report, turn) = {}
  PROVE  SuiteInv'
<1>1. /\ turn' = turn + 1 /\ stage' = "session" /\ seen' = NotSeen /\ deeds' = << >>
  BY DEF Following
<1>2. turn \in 1 .. Len(Expect) /\ turn' \in 1 .. Len(Expect) + 1 /\ turn' \in Nat
  BY <1>1, CaseIndexIs
<1>3. report' \in Seq(SuiteResult)
  BY ResultAdded
<1>4. SuiteTypes'
  BY <1>1, <1>2, <1>3, CaseIndexIs DEF SuiteTypes, NotSeen, RunState
<1>5. SuiteRuns'
  <2>1. \A k \in CaseIndex : k > turn => tried[k] = "none"
    BY DEF SuiteInv, SuiteRuns
  <2>2. \A k \in CaseIndex : k < turn /\ k \notin strayed => tried[k] \in RunOver
    BY DEF SuiteInv, SuiteRuns
  <2>3. \A k \in CaseIndex : k \in Nat
    BY CaseIndexIs
  <2>4. \A k \in CaseIndex : k > turn' => tried'[k] = "none"
    BY <1>1, <1>2, <2>1, <2>3
  <2>5. \A k \in CaseIndex : k < turn' /\ k \notin strayed' => tried'[k] \in RunOver
    BY <1>1, <1>2, <2>2, <2>3
  <2>6. turn' \in CaseIndex => tried'[turn'] = "none"
    BY <1>1, <1>2, <2>1
  <2> QED BY <1>1, <2>4, <2>5, <2>6 DEF SuiteRuns, NotSeen, RunOver
<1>6. SuiteResults'
  <2>1. \A n \in DOMAIN report' : /\ report'[n].case <= turn
                                  /\ report'[n].passed => report'[n].right
                                  /\ n > 1 => InTurn(report'[n - 1], report'[n])
    BY ResultAdded
  <2>2. \A n \in DOMAIN report' : report'[n].case \in Nat
    <3>1. \A n \in DOMAIN report' : report'[n] \in SuiteResult
      BY <1>3
    <3> QED BY <3>1 DEF SuiteResult
  <2>3. \A n \in DOMAIN report' : report'[n].case <= turn' /\ report'[n].case # turn'
    BY <1>1, <1>2, <2>1, <2>2
  <2>4. ResultsOf(report', turn') = {}
    BY <2>3 DEF ResultsOf
  <2>5. ASSUME NEW k \in 1 .. turn' - 1
        PROVE  /\ ResultsOf(report', k) # {}
               /\ k \notin strayed' => \E n : ResultsOf(report', k) = {n}
    <3>1. CASE k = turn
      BY <3>1, ResultAdded
    <3>2. CASE k # turn
      <4>1. k \in 1 .. turn - 1
        BY <1>1, <1>2, <3>2
      <4>2. ResultsOf(report', k) = ResultsOf(report, k)
        BY <3>2, ResultAdded
      <4> QED BY <4>1, <4>2 DEF SuiteInv, SuiteResults
    <3> QED BY <3>1, <3>2
  <2> QED BY <1>1, <2>1, <2>3, <2>4, <2>5 DEF SuiteResults
<1> QED BY <1>4, <1>5, <1>6 DEF SuiteInv

(* A step that leaves the results, and the case it is about, as they are.    *)
LEMMA SuiteResultsStay ==
  ASSUME SuiteInv, UNCHANGED <<turn, report>>, strayed \subseteq strayed',
         stage' \notin {"stop", "error"} => ResultsOf(report, turn) = {},
         stage' = "error" /\ turn \notin strayed' => ResultsOf(report, turn) = {},
         stage' = "stop" => stage = "stop"
  PROVE  SuiteResults'
<1>1. SuiteResults
  BY DEF SuiteInv
<1> QED BY <1>1 DEF SuiteResults

LEMMA SuiteCallsInv ==
  ASSUME SuiteInv, CreateEvalSession \/ UploadFixture \/ PollRun \/ FetchEvents \/ SuiteCallFails
  PROVE  SuiteInv'
<1>1. /\ stage \in {"session", "upload", "create", "wait", "events"} /\ turn \in CaseIndex
      /\ UNCHANGED <<turn, tried, deeds, report, strayed>>
      /\ stage' \in {"upload", "create", "wait", "events", "score", "error"}
  BY DEF CreateEvalSession, UploadFixture, PollRun, FetchEvents, SuiteCallFails, Called, RunOn
<1>2. \/ /\ UNCHANGED seen
         /\ \/ stage' = "error"
            \/ stage \in {"session", "upload", "create"} /\ stage' \in {"upload", "create"}
            \/ stage = "wait" /\ stage' = "wait"
      \/ stage = "wait" /\ stage' = "events" /\ seen' = [seen EXCEPT !.status = tried[turn]]
      \/ stage = "events" /\ stage' = "score" /\ seen' = [seen EXCEPT !.log = deeds]
  BY DEF CreateEvalSession, UploadFixture, PollRun, FetchEvents, SuiteCallFails, Called, RunOn
<1>3. SuiteTypes /\ SuiteRuns /\ ResultsOf(report, turn) = {}
  BY <1>1 DEF SuiteInv, SuiteResults
<1>4. SuiteTypes'
  BY <1>1, <1>2, <1>3 DEF SuiteTypes
<1>5. SuiteRuns'
  <2>1. /\ seen \in [status : RunState, log : Seq(Deed), known : BOOLEAN]
    BY <1>3 DEF SuiteTypes
  <2>2. /\ seen'.known = seen.known
        /\ \/ seen'.status = seen.status /\ (stage' = "score" => seen'.log = deeds)
           \/ seen'.status = tried[turn] /\ stage' = "events"
    BY <1>2, <2>1
  <2>3. stage' \in {"upload", "create"} => stage \in {"session", "upload", "create"}
    BY <1>2
  <2>4. stage' \in {"wait", "events", "score"} => stage \in {"wait", "events"}
    BY <1>2
  <2> QED BY <1>1, <1>3, <2>2, <2>3, <2>4 DEF SuiteRuns
<1>6. SuiteResults'
  BY <1>1, <1>3, SuiteResultsStay
<1> QED BY <1>4, <1>5, <1>6 DEF SuiteInv

LEMMA CreateEvalRunInv ==
  ASSUME SuiteInv, NEW lost \in BOOLEAN, CreateEvalRun(lost)
  PROVE  SuiteInv'
<1>1. /\ stage = "create" /\ turn \in CaseIndex /\ UNCHANGED <<turn, deeds, report>>
      /\ tried' = [tried EXCEPT ![turn] = "queued"]
      /\ strayed' = IF lost THEN strayed \cup {turn} ELSE strayed
      /\ stage' = IF lost THEN "error" ELSE "wait"
      /\ seen' = [seen EXCEPT !.known = ~lost]
  BY DEF CreateEvalRun, Called
<1>2. SuiteTypes /\ SuiteRuns /\ ResultsOf(report, turn) = {} /\ tried[turn] = "none"
  BY <1>1 DEF SuiteInv, SuiteResults, SuiteRuns
<1>3. SuiteTypes'
  BY <1>1, <1>2 DEF SuiteTypes, RunState
<1>4. seen'.known = ~lost /\ seen'.status = seen.status /\ seen.status # "ended"
  BY <1>1, <1>2 DEF SuiteTypes, SuiteRuns
<1>5. tried'[turn] = "queued" /\ \A k \in CaseIndex : k # turn => tried'[k] = tried[k]
  BY <1>1, <1>2 DEF SuiteTypes
<1>6. turn \in Nat /\ \A k \in CaseIndex : k \in Nat
  BY <1>1, CaseIndexIs
<1>7. SuiteRuns'
  <2>1. CASE lost
    <3>1. stage' = "error" /\ turn \in strayed' /\ strayed \subseteq strayed'
      BY <1>1, <2>1
    <3> QED BY <1>1, <1>2, <1>4, <1>5, <1>6, <3>1 DEF SuiteRuns
  <2>2. CASE ~lost
    <3>1. stage' = "wait" /\ strayed' = strayed /\ seen'.known
      BY <1>1, <1>4, <2>2
    <3> QED BY <1>1, <1>2, <1>4, <1>5, <1>6, <3>1 DEF SuiteRuns
  <2> QED BY <2>1, <2>2
<1>8. SuiteResults'
  BY <1>1, <1>2, SuiteResultsStay
<1> QED BY <1>3, <1>7, <1>8 DEF SuiteInv

LEMMA ScoreRunInv ==
  ASSUME SuiteInv, NEW tardy \in BOOLEAN, ScoreRun(tardy)
  PROVE  SuiteInv'
<1> DEFINE passed == EvaluateRecordedRun(Expect[turn], seen.status, seen.log, tardy)
<1>1. /\ stage = "score" /\ turn \in CaseIndex /\ UNCHANGED <<tried, strayed>>
      /\ AddSuiteResult(passed) /\ passed \in BOOLEAN
  BY DEF ScoreRun, Called, EvaluateRecordedRun
<1>2. SuiteTypes /\ SuiteRuns /\ SuiteResults /\ ResultsOf(report, turn) = {}
  BY <1>1 DEF SuiteInv, SuiteResults
<1>3. passed => (seen.status = "ended" => KeepsTo(deeds))
  <2>1. deeds \in Seq(Deed) /\ (seen.status = "ended" => seen.log = deeds)
    BY <1>1, <1>2 DEF SuiteTypes, SuiteRuns
  <2> QED BY <1>1, <2>1, PassedKeepsTo
<1> HIDE DEF passed
<1>4. CASE seen.status = "ended"
  <2>1. Following /\ tried[turn] \in RunOver
    BY <1>2, <1>4 DEF ScoreRun, SuiteRuns, RunOver
  <2>2. tried' \in [CaseIndex -> RunState]
    BY <1>1, <1>2 DEF SuiteTypes
  <2> QED BY <1>1, <1>2, <1>3, <2>1, <2>2, FollowedInv
<1>5. CASE seen.status # "ended"
  <2>1. stage' = "stop" /\ UNCHANGED <<turn, seen, deeds>>
    BY <1>5 DEF ScoreRun
  <2>2. SuiteTypes' /\ SuiteRuns'
    <3>1. report' \in Seq(SuiteResult)
      BY <1>1, <1>2, <1>3, ResultAdded
    <3> QED BY <1>1, <1>2, <2>1, <3>1 DEF SuiteTypes, SuiteRuns
  <2>3. SuiteResults'
    <3>1. \A k \in 1 .. turn - 1 : k # turn
      BY <1>2 DEF SuiteTypes
    <3> QED BY <1>1, <1>2, <1>3, <2>1, <3>1, ResultAdded DEF SuiteResults
  <2> QED BY <2>2, <2>3 DEF SuiteInv
<1> QED BY <1>4, <1>5

(* What a call that cancels leaves of the Run.                                *)
LEMMA CallCancelLeaves ==
  ASSUME SuiteTypes, turn \in CaseIndex, NEW fails \in BOOLEAN, CallCancel(fails)
  PROVE  /\ tried' \in [CaseIndex -> RunState]
         /\ \A k \in CaseIndex : k # turn => tried'[k] = tried[k]
         /\ tried[turn] = "ended" => tried'[turn] = "ended"
         /\ tried[turn] = "none" => tried'[turn] = "none"
         /\ ~fails => tried'[turn] \in RunOver
         /\ strayed' = IF fails THEN strayed \cup {turn} ELSE strayed
<1>1. tried \in [CaseIndex -> RunState]
  BY DEF SuiteTypes
<1>2. \/ tried' = [tried EXCEPT ![turn] = CancelRun(tried[turn])]
      \/ fails /\ tried' = tried
  BY DEF CallCancel
<1>3. /\ CancelRun(tried[turn]) \in RunState /\ CancelRun(tried[turn]) \in RunOver
      /\ tried[turn] \in {"ended", "none"} => CancelRun(tried[turn]) = tried[turn]
  BY <1>1 DEF CancelRun, RunState, RunOver
<1>4. strayed' = IF fails THEN strayed \cup {turn} ELSE strayed
  BY DEF CallCancel
<1> QED BY <1>1, <1>2, <1>3, <1>4

LEMMA StopScoredInv ==
  ASSUME SuiteInv, NEW fails \in BOOLEAN, StopScored(fails)
  PROVE  SuiteInv'
<1>1. stage = "stop" /\ turn \in CaseIndex /\ report' = report
  BY DEF StopScored, Called
<1>2. SuiteTypes /\ SuiteRuns /\ SuiteResults /\ \E n : ResultsOf(report, turn) = {n}
  BY <1>1 DEF SuiteInv, SuiteResults
<1>3. turn \in 1 .. Len(Expect) /\ turn \in Nat /\ CaseIndex = 1 .. Len(Expect) /\ Len(Expect) \in Nat
  BY <1>1, CaseIndexIs
<1>4. CASE fails
  <2>1. stage' = "error" /\ UNCHANGED <<turn, seen, deeds>> /\ CallCancel(fails)
    BY <1>4 DEF StopScored
  <2>4. /\ strayed' = strayed \cup {turn} /\ tried' \in [CaseIndex -> RunState]
        /\ \A k \in CaseIndex : k # turn => tried'[k] = tried[k]
        /\ tried[turn] = "ended" => tried'[turn] = "ended"
    BY <1>1, <1>2, <1>4, <2>1, CallCancelLeaves
  <2>2. SuiteTypes' /\ SuiteRuns'
    BY <1>1, <1>2, <1>3, <2>1, <2>4 DEF SuiteTypes, SuiteRuns
  <2>3. SuiteResults'
    BY <1>1, <2>1, <2>4, SuiteResultsStay
  <2> QED BY <2>2, <2>3 DEF SuiteInv
<1>5. CASE ~fails
  <2>6. CallCancel(fails) /\ Following
    BY <1>5 DEF StopScored
  <2>7. CallCancel(fails) => strayed' = strayed
    BY <1>5 DEF CallCancel
  <2>1. /\ strayed' = strayed
        /\ turn' = turn + 1 /\ stage' = "session" /\ seen' = NotSeen /\ deeds' = << >>
    BY <2>6, <2>7 DEF Following
  <2>2. /\ tried' \in [CaseIndex -> RunState]
        /\ tried'[turn] \in RunOver /\ \A k \in CaseIndex : k # turn => tried'[k] = tried[k]
    BY <1>1, <1>2, <1>5, <2>6, CallCancelLeaves
  <2>3. SuiteTypes'
    BY <1>1, <1>2, <1>3, <2>1, <2>2 DEF SuiteTypes, NotSeen, RunState
  <2>4. SuiteRuns'
    <3>1. \A k \in CaseIndex : k > turn => tried[k] = "none"
      BY <1>2 DEF SuiteRuns
    <3>2. \A k \in CaseIndex : k < turn /\ k \notin strayed => tried[k] \in RunOver
      BY <1>2 DEF SuiteRuns
    <3>3. \A k \in CaseIndex : k > turn' => tried'[k] = "none"
      BY <1>3, <2>1, <2>2, <3>1
    <3>4. \A k \in CaseIndex : k < turn' /\ k \notin strayed' => tried'[k] \in RunOver
      BY <1>3, <2>1, <2>2, <3>2
    <3>5. turn' \in CaseIndex => tried'[turn'] = "none"
      BY <1>3, <2>1, <3>3, <2>2, <3>1
    <3> QED BY <2>1, <3>3, <3>4, <3>5 DEF SuiteRuns, NotSeen, RunOver
  <2>5. SuiteResults'
    <3>1. \A n \in DOMAIN report : report[n] \in SuiteResult
      BY <1>2 DEF SuiteTypes
    <3>2. \A n \in DOMAIN report : report[n].case \in Nat
      BY <3>1 DEF SuiteResult
    <3>3. \A n \in DOMAIN report : report[n].case <= turn
      BY <1>2 DEF SuiteResults
    <3>4. \A n \in DOMAIN report : report[n].case <= turn' /\ report[n].case # turn'
      BY <1>3, <2>1, <3>2, <3>3
    <3>5. ResultsOf(report, turn') = {}
      BY <3>4 DEF ResultsOf
    <3>6. ASSUME NEW k \in 1 .. turn' - 1
          PROVE  /\ ResultsOf(report, k) # {}
                 /\ k \notin strayed => \E n : ResultsOf(report, k) = {n}
      <4>1. CASE k = turn
        BY <1>2, <4>1
      <4>2. CASE k # turn
        <5>1. k \in 1 .. turn - 1
          BY <1>3, <2>1, <4>2
        <5> QED BY <1>2, <5>1 DEF SuiteResults
      <4> QED BY <4>1, <4>2
    <3> QED BY <1>1, <1>2, <2>1, <3>4, <3>5, <3>6 DEF SuiteResults
  <2> QED BY <2>3, <2>4, <2>5 DEF SuiteInv
<1> QED BY <1>4, <1>5

LEMMA HandleErrorInv ==
  ASSUME SuiteInv, NEW fails \in BOOLEAN, HandleError(fails)
  PROVE  SuiteInv'
<1>1. /\ stage = "error" /\ turn \in CaseIndex /\ AddSuiteResult(FALSE) /\ Following
      /\ fails => seen.known
      /\ IF seen.known THEN CallCancel(fails) ELSE UNCHANGED <<tried, strayed>>
  BY DEF HandleError, Called
<1>2. SuiteTypes /\ SuiteRuns /\ SuiteResults
  BY DEF SuiteInv
<1>3. /\ tried' \in [CaseIndex -> RunState]
      /\ \A k \in CaseIndex : k # turn => tried'[k] = tried[k]
      /\ seen.known /\ ~fails => tried'[turn] \in RunOver
      /\ ~seen.known => tried'[turn] = tried[turn]
      /\ strayed' = IF fails THEN strayed \cup {turn} ELSE strayed
  <2>1. CASE seen.known
    BY <1>1, <1>2, <2>1, CallCancelLeaves
  <2>2. CASE ~seen.known
    BY <1>1, <1>2, <2>2 DEF SuiteTypes
  <2> QED BY <2>1, <2>2
<1>4. strayed \subseteq strayed' /\ strayed' \subseteq strayed \cup {turn}
  BY <1>3
<1>5. ASSUME turn \notin strayed'
      PROVE  tried'[turn] \in RunOver /\ ResultsOf(report, turn) = {}
  <2>1. ~fails /\ turn \notin strayed
    BY <1>3, <1>5
  <2> QED BY <1>1, <1>2, <1>3, <2>1 DEF SuiteRuns, SuiteResults, RunOver
<1> QED BY <1>1, <1>3, <1>4, <1>5, FollowedInv

(* The Run goes on by itself.                                                *)
LEMMA SuiteRunMovesInv ==
  ASSUME SuiteInv,
         \/ \E deed \in Deed : LogDeed(deed)
         \/ \E k \in CaseIndex, status \in {"running", "waiting", "ended"} : MoveTried(k, status)
  PROVE  SuiteInv'
<1>1. SuiteTypes /\ SuiteRuns /\ SuiteResults
  BY DEF SuiteInv
<1>2. UNCHANGED <<turn, stage, seen, report, strayed>>
  BY DEF LogDeed, MoveTried
<1>3. SuiteResults'
  BY <1>1, <1>2 DEF SuiteResults
<1>4. CASE \E deed \in Deed : LogDeed(deed)
  <2>1. PICK deed \in Deed : LogDeed(deed)
    BY <1>4
  <2>2. tried[turn] = "running" /\ deeds' = Append(deeds, deed) /\ tried' = tried
    BY <2>1 DEF LogDeed
  <2>3. SuiteTypes'
    BY <1>1, <1>2, <2>2 DEF SuiteTypes
  <2>4. SuiteRuns'
    BY <1>1, <1>2, <2>2 DEF SuiteRuns
  <2> QED BY <1>3, <2>3, <2>4 DEF SuiteInv
<1>5. CASE \E k \in CaseIndex, status \in {"running", "waiting", "ended"} : MoveTried(k, status)
  <2>1. PICK k \in CaseIndex, status \in {"running", "waiting", "ended"} : MoveTried(k, status)
    BY <1>5
  <2>2. /\ tried[k] \in {"queued", "running", "waiting"} \/ (tried[k] = "cancelling" /\ status = "ended")
        /\ tried' = [tried EXCEPT ![k] = status] /\ deeds' = deeds
    BY <2>1 DEF MoveTried
  <2>3. SuiteTypes'
    BY <1>1, <1>2, <2>2 DEF SuiteTypes, RunState
  <2>4. /\ \A l \in CaseIndex : tried'[l] = tried[l] \/ l = k
        /\ tried[k] # "none" /\ tried[k] # "ended" /\ (tried[k] \in RunOver => tried'[k] \in RunOver)
    BY <1>1, <2>2 DEF SuiteTypes, RunOver
  <2>5. SuiteRuns'
    BY <1>1, <1>2, <2>2, <2>4 DEF SuiteRuns, RunOver
  <2> QED BY <1>3, <2>3, <2>5 DEF SuiteInv
<1> QED BY <1>4, <1>5

LEMMA SuiteStepInv == SuiteInv /\ [SuiteNext]_suiteVars => SuiteInv'
<1> SUFFICES ASSUME SuiteInv, [SuiteNext]_suiteVars PROVE SuiteInv'
  OBVIOUS
<1>1. CASE UNCHANGED suiteVars
  BY <1>1 DEF suiteVars, SuiteInv, SuiteTypes, SuiteRuns, SuiteResults
<1>2. CASE CreateEvalSession \/ UploadFixture \/ PollRun \/ FetchEvents \/ SuiteCallFails
  BY <1>2, SuiteCallsInv
<1>3. CASE \E b \in BOOLEAN : CreateEvalRun(b) \/ ScoreRun(b) \/ StopScored(b) \/ HandleError(b)
  BY <1>3, CreateEvalRunInv, ScoreRunInv, StopScoredInv, HandleErrorInv
<1>4. CASE \/ \E deed \in Deed : LogDeed(deed)
           \/ \E k \in CaseIndex, status \in {"running", "waiting", "ended"} : MoveTried(k, status)
  BY <1>4, SuiteRunMovesInv
<1> QED BY <1>1, <1>2, <1>3, <1>4 DEF SuiteNext

(* The invariant of the runs of a suite says what the property asks.         *)
LEMMA SuiteInvAccounts == SuiteInv => SuiteAccounted
<1> SUFFICES ASSUME SuiteInv PROVE SuiteAccounted
  OBVIOUS
<1>1. SuiteTypes /\ SuiteRuns /\ SuiteResults
  BY DEF SuiteInv
<1>2. ASSUME NEW k \in 1 .. turn - 1, k \notin strayed
      PROVE  Cardinality(ResultsOf(report, k)) = 1 /\ tried[k] \in RunOver
  <2>1. k \in CaseIndex /\ k < turn
    BY <1>1, CaseIndexIs DEF SuiteTypes
  <2>2. PICK n : ResultsOf(report, k) = {n}
    BY <1>1, <1>2 DEF SuiteResults
  <2>3. Cardinality({n}) = 1
    BY FS_Singleton
  <2> QED BY <1>1, <1>2, <2>1, <2>2, <2>3 DEF SuiteRuns
<1> QED BY <1>1, <1>2 DEF SuiteAccounted, SuiteResults, ResultsOf, InTurn, RunOver

(* EvalRunner: the cases have their results in order, one each unless a Run  *)
(* could not be cancelled, when what is added is a failure; the Run of a case *)
(* that is over has ended or is being cancelled by its worker, unless the     *)
(* answer of its creation or of its cancellation was lost; and a case passes  *)
(* only when the events of its Run used the required tools and kept to the    *)
(* expected concurrency, for every log however long.                         *)
THEOREM SuitesAreAccounted == ServicesSpec => []SuiteAccounted
<1>1. ServicesInit => SuiteInv
  BY SuitePart, SuiteInitInv
<1>2. SuiteInv /\ [ServicesNext]_servicesVars => SuiteInv'
  BY SuitePart, SuiteStepInv
<1> QED BY <1>1, <1>2, SuiteInvAccounts, PTL DEF ServicesSpec

-----------------------------------------------------------------------------
(* The faces a trigger's Run shows to the outside, of A2ATasks.              *)
LEMMA TaskPart ==
  /\ ServicesInit => TaskInit
  /\ [ServicesNext]_servicesVars => [TaskNext]_taskVars
<1>1. ServicesInit => TaskInit
  BY DEF ServicesInit
<1>2. ServicesNext => TaskNext \/ UNCHANGED taskVars
  BY DEF ServicesNext, Only
<1>3. UNCHANGED servicesVars => UNCHANGED taskVars
  BY DEF servicesVars
<1> QED BY <1>1, <1>2, <1>3

FeedRow == [pc : {"closed", "poll", "send"}, seq : Nat, upto : Nat, pending : Nat,
            started : BOOLEAN, terminal : BOOLEAN]

IsPeer(client) ==
  /\ client = [shown |-> client.shown, last |-> client.last, cuts |-> client.cuts,
               text |-> client.text, from |-> client.from, snap |-> client.snap]
  /\ client.shown \in Seq(Nat) /\ client.last \in 0 .. Len(taskLog)
  /\ client.text \in Seq(Nat) /\ client.from \in 0 .. client.last
  /\ client.snap \in 0 .. Len(taskLog)

TaskTypes ==
  /\ taskLog \in Seq(EventType) /\ owed \in EventType \cup {"none", "pause"}
  /\ taskStatus \in {"queued", "running", "waiting", "cancelling", "ended"}
  /\ feed \in FeedRow
  /\ IsPeer(peer)
  /\ answer = [pc |-> answer.pc, state |-> answer.state, text |-> answer.text]
  /\ pages = [pc |-> pages.pc, cursor |-> pages.cursor, seen |-> pages.seen,
              near |-> pages.near, moved |-> pages.moved]
  /\ tick \in Nat /\ updatedAt \in [Task -> Nat]

(* What a client shows, the task that began the stream included: repeated is  *)
(* only what that task held beyond the id the client resumed with.            *)
Repeats(text, from, snap) ==
  \A i, j \in DOMAIN text : i < j => text[i] < text[j] \/ (from < text[j] /\ text[j] <= snap)

ViewIs(client) ==
  /\ TextUpTo(client.last) \subseteq ToSet(client.text)
  /\ ToSet(client.text) \subseteq TextUpTo(client.last) \cup TextUpTo(client.snap)
  /\ Repeats(client.text, client.from, client.snap)

(* What a client has of the text is what the last id it was sent stands for. *)
TextIs(client) ==
  /\ ToSet(client.shown) = TextUpTo(client.last)
  /\ \A i, j \in DOMAIN client.shown : i < j => client.shown[i] < client.shown[j]
  /\ ViewIs(client)

(* Of the events after one, up to another, the only text is a held fragment. *)
OnlyText(after, upto, kept) ==
  \A i \in Nat : after < i /\ i <= upto => (taskLog[i] = "delta" <=> i = kept)

(* Between that id and the event the feed has come to there is the fragment  *)
(* held back, and no other.                                                  *)
HoldsBack(f, client) ==
  /\ client.last <= f.seq /\ f.seq <= Len(taskLog)
  /\ f.pc = "send" => f.seq <= f.upto /\ f.upto <= Len(taskLog)
  /\ OnlyText(client.last, f.seq, f.pending)
  /\ f.pending # 0 => client.last < f.pending /\ f.pending <= f.seq
  /\ face = "webhook" => f.pending = 0
  /\ face = "a2a" /\ ~f.started => client.shown = << >>

(* Nothing but the end itself is appended to the log of a task that ended.   *)
AnswerHolds ==
  /\ taskStatus = "ended" => owed \in {"none", "end"}
  /\ answer.pc \in {"read", "done"} /\ answer.state = "ended" => taskStatus = "ended"
  /\ answer.pc = "done" /\ answer.state = "ended" => answer.text = TextUpTo(Len(taskLog))

(* What a page has not shown is behind the cursor, also as it was cut.       *)
PagesHold ==
  /\ pages.pc = "more" =>
       \A t \in Task \ (pages.moved \cup pages.near \cup pages.seen) :
         Before(KeyOf(t), pages.cursor)
  /\ PagesSkipNothing

TaskInv ==
  /\ TaskTypes
  /\ TextIs(peer)
  /\ feed.pc # "closed" => HoldsBack(feed, peer)
  /\ AnswerHolds
  /\ PagesHold

LEMMA TaskInitInv == TaskInit => TaskInv
<1> SUFFICES ASSUME TaskInit PROVE TaskInv
  OBVIOUS
<1>1. TaskTypes
  BY TaskBounds DEF TaskInit, TaskTypes, FeedRow, IsPeer, NoFeed
<1>2. TextIs(peer)
  BY DEF TaskInit, TextIs, ViewIs, Repeats, TextUpTo, ToSet
<1>3. feed.pc = "closed"
  BY DEF TaskInit, NoFeed
<1>4. AnswerHolds /\ PagesHold
  BY DEF TaskInit, AnswerHolds, PagesHold, PagesSkipNothing
<1> QED BY <1>1, <1>2, <1>3, <1>4 DEF TaskInv

(* The log only grows: what was shown, held back or answered stays so.       *)
LEMMA LogGrows ==
  ASSUME TaskInv, NEW event \in EventType, taskLog' = Append(taskLog, event),
         UNCHANGED <<face, feed, peer, answer, updatedAt, tick, pages>>, UNCHANGED taskStatus,
         taskStatus = "ended" => event = "end", owed' \in {"none", "pause"},
         taskStatus = "ended" => owed' = "none"
  PROVE  TaskInv'
<1>1. /\ taskLog' \in Seq(EventType) /\ Len(taskLog') = Len(taskLog) + 1 /\ Len(taskLog) \in Nat
      /\ \A i \in 1 .. Len(taskLog) : taskLog'[i] = taskLog[i]
      /\ taskLog'[Len(taskLog) + 1] = event
  BY DEF TaskInv, TaskTypes
<1>2. TaskTypes'
  BY <1>1 DEF TaskInv, TaskTypes, IsPeer
<1>3. /\ TextUpTo(peer.last)' = TextUpTo(peer.last)
      /\ TextUpTo(peer.snap)' = TextUpTo(peer.snap)
  BY <1>1 DEF TaskInv, TaskTypes, IsPeer, TextUpTo
<1>4. TextIs(peer)'
  BY <1>3 DEF TaskInv, TextIs, ViewIs, Repeats
<1>5. ASSUME feed.pc # "closed" PROVE HoldsBack(feed, peer)'
  <2>1. /\ HoldsBack(feed, peer) /\ feed' = feed /\ peer' = peer /\ face' = face
        /\ feed.seq \in Nat /\ feed.upto \in Nat /\ feed.seq <= Len(taskLog)
    BY <1>5 DEF TaskInv, TaskTypes, FeedRow, HoldsBack
  <2>2. \A i \in Nat : peer.last < i /\ i <= feed.seq => taskLog'[i] = taskLog[i]
    BY <1>1, <2>1 DEF TaskInv, TaskTypes, IsPeer
  <2>3. OnlyText(peer.last, feed.seq, feed.pending)'
    BY <2>1, <2>2 DEF HoldsBack, OnlyText
  <2> QED BY <1>1, <2>1, <2>3 DEF HoldsBack
<1>6. taskStatus = "ended" => TextUpTo(Len(taskLog))' = TextUpTo(Len(taskLog))
  BY <1>1 DEF TextUpTo
<1>7. AnswerHolds'
  BY <1>6 DEF TaskInv, AnswerHolds
<1>8. PagesHold'
  BY DEF TaskInv, PagesHold, PagesSkipNothing, Before, KeyOf
<1> QED BY <1>2, <1>4, <1>5, <1>7, <1>8 DEF TaskInv

LEMMA WorkerInv ==
  ASSUME TaskInv, \/ \E e \in EventType : WorkerAppends(e)
                  \/ RequestApproval \/ Pause \/ AppendOwed \/ CancelTask \/ TaskMoves
  PROVE  TaskInv'
<1>1. CASE \E e \in EventType : WorkerAppends(e)
  BY <1>1, LogGrows DEF WorkerAppends, Append1
<1>2. CASE RequestApproval
  BY <1>2, LogGrows DEF RequestApproval, Append1, EventType
<1>3. CASE AppendOwed
  <2>1. /\ owed \in EventType /\ taskLog' = Append(taskLog, owed) /\ owed' = "none"
        /\ UNCHANGED <<face, feed, peer, answer, updatedAt, tick, pages>> /\ UNCHANGED taskStatus
        /\ taskStatus = "ended" => owed = "end"
    BY <1>3 DEF AppendOwed, Append1, TaskInv, TaskTypes, AnswerHolds
  <2> QED BY <2>1, LogGrows
<1>4. CASE Pause \/ CancelTask \/ TaskMoves
  <2>1. /\ UNCHANGED <<face, taskLog, feed, peer, answer, updatedAt, tick, pages>>
        /\ taskStatus' \in {"queued", "running", "waiting", "cancelling", "ended"}
        /\ taskStatus = "ended" => FALSE
        /\ taskStatus' = "ended" => owed' \in {"none", "end"}
        /\ owed' \in EventType \cup {"none"}
    BY <1>4 DEF EventType, Pause, CancelTask, TaskMoves, MoveTask, TaskInv, AnswerHolds
  <2> QED BY <2>1 DEF TaskInv, TaskTypes, IsPeer, TextIs, ViewIs, Repeats, TextUpTo, HoldsBack, OnlyText,
                      AnswerHolds, PagesHold, PagesSkipNothing, Before, KeyOf
<1> QED BY <1>1, <1>2, <1>3, <1>4

(* A step of a stream that leaves the client with the text up to its last id, *)
(* and the feed with what follows it.                                         *)
LEMMA FeedMoves ==
  ASSUME TaskInv, FeedUnchanged,
         feed' \in FeedRow, IsPeer(peer'),
         TextIs(peer'), feed'.pc # "closed" => HoldsBack(feed', peer')
  PROVE  TaskInv'
<1>1. TaskTypes'
  BY DEF TaskInv, TaskTypes, IsPeer, FeedUnchanged
<1>2. TextIs(peer)' /\ (feed'.pc # "closed" => HoldsBack(feed, peer)')
  BY DEF TextIs, ViewIs, Repeats, HoldsBack, OnlyText, TextUpTo, FeedUnchanged
<1>3. AnswerHolds' /\ PagesHold'
  BY DEF TaskInv, AnswerHolds, TextUpTo, PagesHold, PagesSkipNothing, Before, KeyOf, FeedUnchanged
<1> QED BY <1>1, <1>2, <1>3 DEF TaskInv

LEMMA FieldsOfFeed ==
  TaskInv => /\ feed.seq \in Nat /\ feed.upto \in Nat /\ feed.pending \in Nat
             /\ feed.started \in BOOLEAN /\ feed.terminal \in BOOLEAN
             /\ Len(taskLog) \in Nat /\ peer.last \in Nat /\ peer.last <= Len(taskLog)
BY DEF TaskInv, TaskTypes, FeedRow, IsPeer

LEMMA OpenFeedInv == TaskInv /\ OpenFeed => TaskInv'
<1> SUFFICES ASSUME TaskInv, OpenFeed PROVE TaskInv'
  OBVIOUS
<1> DEFINE b == \E i \in 1 .. peer.last : taskLog[i] \in {"delta", "blank"}
           over == face = "a2a" /\ taskStatus = "waiting"
<1>1. /\ feed' = [pc |-> "poll", seq |-> peer.last, upto |-> 0, pending |-> 0,
                  started |-> b, terminal |-> over]
      /\ FeedUnchanged
      /\ \E text \in TextInOrder(Len(taskLog)) :
           peer' = IF face = "a2a"
                   THEN [peer EXCEPT !.cuts = @ + 1, !.text = text, !.from = peer.last,
                                     !.snap = Len(taskLog)]
                   ELSE [peer EXCEPT !.cuts = @ + 1]
  BY DEF OpenFeed
<1>10. PICK text \in TextInOrder(Len(taskLog)) :
           peer' = IF face = "a2a"
                   THEN [peer EXCEPT !.cuts = @ + 1, !.text = text, !.from = peer.last,
                                     !.snap = Len(taskLog)]
                   ELSE [peer EXCEPT !.cuts = @ + 1]
  BY <1>1
<1>11. /\ peer.last \in Nat /\ peer.last <= Len(taskLog) /\ Len(taskLog) \in Nat
       /\ peer.shown \in Seq(Nat) /\ TextIs(peer) /\ IsPeer(peer)
  BY DEF TaskInv, TaskTypes, IsPeer
<1>12. /\ text \in Seq(Nat) /\ ToSet(text) = TextUpTo(Len(taskLog))
       /\ \A i, j \in DOMAIN text : i < j => text[i] < text[j]
  <2>1. /\ text \in [1 .. Cardinality(TextUpTo(Len(taskLog))) -> TextUpTo(Len(taskLog))]
        /\ ToSet(text) = TextUpTo(Len(taskLog))
        /\ \A i, j \in DOMAIN text : i < j => text[i] < text[j]
    BY DEF TextInOrder
  <2>2. IsFiniteSet(TextUpTo(Len(taskLog)))
    <3>1. IsFiniteSet(1 .. Len(taskLog))
      BY <1>11, FS_Interval
    <3> QED BY <3>1, FS_Subset DEF TextUpTo
  <2>3. Cardinality(TextUpTo(Len(taskLog))) \in Nat
    BY <2>2, FS_CardinalityType
  <2>4. TextUpTo(Len(taskLog)) \subseteq Nat
    BY DEF TextUpTo
  <2> QED BY <2>1, <2>3, <2>4
<1>13. \/ /\ peer' = [shown |-> peer.shown, last |-> peer.last, cuts |-> peer.cuts + 1,
                      text |-> text, from |-> peer.last, snap |-> Len(taskLog)]
       \/ peer' = [shown |-> peer.shown, last |-> peer.last, cuts |-> peer.cuts + 1,
                   text |-> peer.text, from |-> peer.from, snap |-> peer.snap]
  <2>1. peer = [shown |-> peer.shown, last |-> peer.last, cuts |-> peer.cuts,
                text |-> peer.text, from |-> peer.from, snap |-> peer.snap]
    BY <1>11 DEF IsPeer
  <2> QED BY <1>10, <2>1
<1>2. /\ peer'.shown = peer.shown /\ peer'.last = peer.last /\ IsPeer(peer')
      /\ peer.last \in Nat /\ peer.last <= Len(taskLog) /\ Len(taskLog) \in Nat
      /\ peer.shown \in Seq(Nat)
  BY <1>11, <1>12, <1>13 DEF IsPeer
<1>3. TextIs(peer')
  <2>1. TextUpTo(peer.last) \subseteq TextUpTo(Len(taskLog))
    BY <1>11 DEF TextUpTo
  <2>2. ViewIs(peer')
    <3>1. CASE peer' = [shown |-> peer.shown, last |-> peer.last, cuts |-> peer.cuts + 1,
                        text |-> text, from |-> peer.last, snap |-> Len(taskLog)]
      BY <1>12, <2>1, <3>1 DEF ViewIs, Repeats
    <3>2. CASE peer' = [shown |-> peer.shown, last |-> peer.last, cuts |-> peer.cuts + 1,
                        text |-> peer.text, from |-> peer.from, snap |-> peer.snap]
      BY <1>11, <3>2 DEF TextIs, ViewIs, Repeats
    <3> QED BY <1>13, <3>1, <3>2
  <2> QED BY <1>2, <1>11, <2>2 DEF TextIs
<1>4. ASSUME \A i \in 1 .. peer.last : taskLog[i] # "delta" PROVE peer.shown = << >>
  <2>1. ToSet(peer.shown) = {}
    BY <1>4 DEF TaskInv, TextIs, TextUpTo
  <2>2. \A i \in DOMAIN peer.shown : peer.shown[i] \in ToSet(peer.shown)
    BY DEF ToSet
  <2>3. DOMAIN peer.shown = {}
    BY <2>1, <2>2
  <2>4. DOMAIN peer.shown = 1 .. Len(peer.shown) /\ Len(peer.shown) \in Nat
    BY <1>2
  <2>5. 1 \notin DOMAIN peer.shown
    BY <2>3
  <2>6. Len(peer.shown) = 0
    BY <2>4, <2>5
  <2> QED BY <1>2, <2>6
<1>5. b \in BOOLEAN /\ over \in BOOLEAN /\ (~b => peer.shown = << >>)
  BY <1>4
<1> HIDE DEF b, over
<1>6. feed' \in FeedRow /\ HoldsBack(feed', peer')
  BY <1>1, <1>2, <1>5 DEF HoldsBack, OnlyText, FeedRow
<1> QED BY <1>1, <1>2, <1>3, <1>6, FeedMoves

LEMMA FeedPollsInv == TaskInv /\ (PollEvents \/ EndBatch \/ CloseFeed) => TaskInv'
<1> SUFFICES ASSUME TaskInv, PollEvents \/ EndBatch \/ CloseFeed PROVE TaskInv'
  OBVIOUS
<1>1. /\ peer' = peer /\ FeedUnchanged
      /\ \/ feed' = NoFeed
         \/ feed.pc # "closed" /\ feed' = [feed EXCEPT !.pc = "send", !.upto = Len(taskLog)]
         \/ feed.pc # "closed" /\ feed' = [feed EXCEPT !.pc = "poll"]
  BY DEF PollEvents, EndBatch, CloseFeed
<1>2. feed \in FeedRow /\ IsPeer(peer') /\ TextIs(peer') /\ Len(taskLog) \in Nat
  BY <1>1 DEF TaskInv, TaskTypes
<1>3. /\ feed' \in FeedRow
      /\ \/ feed'.pc = "closed"
         \/ /\ feed.pc # "closed" /\ feed'.seq = feed.seq /\ feed'.pending = feed.pending
            /\ feed'.started = feed.started
            /\ feed'.pc = "send" => feed'.upto = Len(taskLog)
  <2>1. CASE feed' = NoFeed
    BY <2>1 DEF FeedRow, NoFeed
  <2>2. CASE feed.pc # "closed" /\ feed' = [feed EXCEPT !.pc = "send", !.upto = Len(taskLog)]
    BY <1>2, <2>2 DEF FeedRow
  <2>3. CASE feed.pc # "closed" /\ feed' = [feed EXCEPT !.pc = "poll"]
    BY <1>2, <2>3 DEF FeedRow
  <2> QED BY <1>1, <2>1, <2>2, <2>3
<1>4. feed'.pc # "closed" => HoldsBack(feed', peer')
  BY <1>1, <1>2, <1>3 DEF TaskInv, HoldsBack
<1> QED BY <1>1, <1>2, <1>3, <1>4, FeedMoves

(* The same fragment in what the client shows of the whole task.             *)
LEMMA PutViews ==
  ASSUME TextIs(peer), IsPeer(peer), NEW n \in Nat, peer.last < n,
         TextUpTo(n) = TextUpTo(peer.last) \cup {n},
         NEW more \in BOOLEAN, ~more => TextUpTo(peer.last) = {},
         NEW client, client.last = n, client.from = peer.from, client.snap = peer.snap,
         client.text = Put(peer.text, n, more)
  PROVE  ViewIs(client) /\ client.text \in Seq(Nat)
<1> DEFINE old == peer.text
           new == client.text
<1>1. /\ old \in Seq(Nat) /\ peer.last \in Nat /\ peer.from \in Nat /\ peer.snap \in Nat
      /\ peer.from <= peer.last
      /\ TextUpTo(peer.last) \subseteq ToSet(old)
      /\ ToSet(old) \subseteq TextUpTo(peer.last) \cup TextUpTo(peer.snap)
      /\ Repeats(old, peer.from, peer.snap)
      /\ client.last = n /\ client.from = peer.from /\ client.snap = peer.snap
      /\ new = Put(old, n, more)
  BY DEF IsPeer, TextIs, ViewIs
<1>2. ToSet(new) = {new[i] : i \in DOMAIN new} /\ ToSet(old) = {old[i] : i \in DOMAIN old}
  BY DEF ToSet
<1> HIDE DEF old, new
<1>3. CASE ~more
  <2>1. new = <<n>> /\ TextUpTo(n) = {n}
    BY <1>1, <1>3 DEF Put
  <2>2. ToSet(new) = {n} /\ new \in Seq(Nat) /\ Repeats(new, peer.from, peer.snap)
    BY <1>2, <2>1 DEF Repeats
  <2> QED BY <1>1, <2>1, <2>2 DEF ViewIs, new
<1>4. CASE more
  <2>1. /\ new \in Seq(Nat) /\ Len(old) \in Nat
        /\ DOMAIN old = 1 .. Len(old) /\ DOMAIN new = 1 .. Len(old) + 1
        /\ \A i \in 1 .. Len(old) : new[i] = old[i]
        /\ new[Len(old) + 1] = n
    BY <1>1, <1>4 DEF Put
  <2>2. ToSet(new) = ToSet(old) \cup {n}
    BY <1>2, <2>1
  <2>3. \A i \in DOMAIN old : old[i] \in Nat /\ (old[i] < n \/ n <= peer.snap)
    <3>1. \A k \in TextUpTo(peer.last) : k \in Nat /\ k <= peer.last
      BY <1>1 DEF TextUpTo
    <3>2. \A k \in TextUpTo(peer.snap) : k \in Nat /\ k <= peer.snap
      BY <1>1 DEF TextUpTo
    <3>3. \A k \in ToSet(old) : k \in Nat /\ (k < n \/ n <= peer.snap)
      BY <1>1, <3>1, <3>2
    <3> QED BY <1>2, <3>3
  <2>4. Repeats(new, peer.from, peer.snap)
    <3> SUFFICES ASSUME NEW i \in DOMAIN new, NEW j \in DOMAIN new, i < j
                 PROVE  new[i] < new[j] \/ (peer.from < new[j] /\ new[j] <= peer.snap)
      BY DEF Repeats
    <3>1. i \in DOMAIN old /\ new[i] = old[i]
      BY <2>1
    <3>2. CASE j \in DOMAIN old
      BY <1>1, <2>1, <3>1, <3>2 DEF Repeats
    <3>3. CASE j = Len(old) + 1
      BY <1>1, <2>1, <2>3, <3>1, <3>3
    <3> QED BY <2>1, <3>2, <3>3
  <2> QED BY <1>1, <2>1, <2>2, <2>4 DEF ViewIs, new
<1> QED BY <1>3, <1>4

(* The held fragment, or the one that has come, is the next of the text.     *)
LEMMA PushShows ==
  ASSUME TaskInv, NEW n \in Nat, n <= Len(taskLog), peer.last < n, OnlyText(peer.last, n, n),
         NEW more \in BOOLEAN, ~more => peer.shown = << >>,
         NEW client, client = Push(peer, n, more)
  PROVE  TextIs(client) /\ IsPeer(client) /\ client.last = n
<1>1. /\ peer.shown \in Seq(Nat) /\ peer.last \in Nat /\ n \in Nat /\ Len(taskLog) \in Nat
      /\ peer = [shown |-> peer.shown, last |-> peer.last, cuts |-> peer.cuts,
                 text |-> peer.text, from |-> peer.from, snap |-> peer.snap]
      /\ TextIs(peer) /\ IsPeer(peer)
  BY DEF TaskInv, TaskTypes, IsPeer
<1>2. /\ client = [shown |-> client.shown, last |-> client.last, cuts |-> client.cuts,
                   text |-> client.text, from |-> client.from, snap |-> client.snap]
      /\ client.last = n /\ client.from = peer.from /\ client.snap = peer.snap
      /\ client.shown = Put(peer.shown, n, more)
      /\ client.text = Put(peer.text, n, more)
  BY <1>1 DEF Push
<1> DEFINE new == client.shown
           old == peer.shown
<1>3. /\ new \in Seq(Nat) /\ Len(new) = Len(old) + 1
      /\ \A i \in 1 .. Len(old) : new[i] = old[i]
      /\ new[Len(old) + 1] = n
      /\ Len(old) \in Nat
  <2>1. CASE more
    BY <1>1, <1>2, <2>1 DEF Put
  <2>2. CASE ~more
    BY <1>1, <1>2, <2>2 DEF Put
  <2> QED BY <2>1, <2>2
<1>4. /\ DOMAIN new = 1 .. Len(old) + 1 /\ DOMAIN old = 1 .. Len(old)
      /\ \A i \in DOMAIN new : i = Len(old) + 1 \/ i \in DOMAIN old
      /\ \A i \in DOMAIN old : i \in DOMAIN new /\ i # Len(old) + 1 /\ new[i] = old[i]
  <2>1. DOMAIN new = 1 .. Len(new)
    BY <1>3
  <2>2. DOMAIN old = 1 .. Len(old)
    BY <1>1
  <2> HIDE DEF new, old
  <2> QED BY <1>3, <2>1, <2>2
<1>5. ToSet(new) = {new[i] : i \in DOMAIN new} /\ ToSet(old) = {old[i] : i \in DOMAIN old}
  BY DEF ToSet
<1>6. \A i \in DOMAIN old : old[i] \in 1 .. peer.last
  BY <1>1, <1>5 DEF TextIs, TextUpTo
<1> HIDE DEF new, old
<1>7. ToSet(new) = ToSet(old) \cup {n}
  BY <1>3, <1>4, <1>5
<1>8. TextUpTo(n) = TextUpTo(peer.last) \cup {n}
  BY <1>1 DEF TextUpTo, OnlyText
<1>9. \A i, j \in DOMAIN new : i < j => new[i] < new[j]
  <2> SUFFICES ASSUME NEW i \in DOMAIN new, NEW j \in DOMAIN new, i < j PROVE new[i] < new[j]
    OBVIOUS
  <2>1. i \in DOMAIN old
    BY <1>3, <1>4
  <2>2. CASE j \in DOMAIN old
    BY <1>1, <1>4, <2>1, <2>2 DEF TextIs, old
  <2>3. CASE j = Len(old) + 1
    BY <1>1, <1>3, <1>4, <1>6, <2>1, <2>3
  <2> QED BY <1>4, <2>2, <2>3
<1>10. ViewIs(client) /\ client.text \in Seq(Nat)
  <2>1. ~more => TextUpTo(peer.last) = {}
    BY <1>1 DEF TextIs, ToSet
  <2>2. client.text = Put(peer.text, n, more)
    BY <1>2
  <2> QED BY <1>1, <1>2, <1>8, <2>1, <2>2, PutViews
<1>11. TextIs(client)
  BY <1>1, <1>2, <1>7, <1>8, <1>9, <1>10 DEF TextIs, new, old
<1> QED BY <1>1, <1>2, <1>3, <1>10, <1>11 DEF IsPeer, new

SameButLast(next, client, n) ==
  /\ next.shown = client.shown /\ next.last = n /\ next.text = client.text
  /\ next.from = client.from /\ next.snap = client.snap

(* A last id moves on over events that are no text.                          *)
LEMMA SkipShows ==
  ASSUME NEW client, TextIs(client), IsPeer(client), NEW n \in Nat, n <= Len(taskLog),
         client.last <= n, OnlyText(client.last, n, 0),
         NEW next, SameButLast(next, client, n)
  PROVE  TextIs(next)
<1>1. client.last \in Nat
  BY DEF IsPeer
<1>2. TextUpTo(n) = TextUpTo(client.last)
  BY <1>1 DEF TextUpTo, OnlyText
<1> QED BY <1>2 DEF TextIs, ViewIs, SameButLast

(* The next event is read: the text after an id, as it was, and this event.  *)
LEMMA NextText ==
  ASSUME NEW after \in Nat, NEW upto \in Nat, NEW kept, OnlyText(after, upto, kept),
         NEW n \in Nat, n = upto + 1
  PROVE  /\ taskLog[n] # "delta" /\ kept # n => OnlyText(after, n, kept)
         /\ kept = 0 /\ taskLog[n] = "delta" => OnlyText(after, n, n)
         /\ kept \in Nat /\ after < kept => OnlyText(kept, upto, 0)
BY DEF OnlyText

(* What a step writes into the client.                                        *)
LEMMA PeerMoves ==
  ASSUME NEW client, IsPeer(client), NEW n \in Nat, n <= Len(taskLog), Len(taskLog) \in Nat,
         client.last <= n, NEW next,
         next = [shown |-> client.shown, last |-> n, cuts |-> client.cuts,
                 text |-> client.text, from |-> client.from, snap |-> client.snap]
  PROVE  SameButLast(next, client, n) /\ IsPeer(next)
<1>1. n \in 0 .. Len(taskLog)
  OBVIOUS
<1> QED BY <1>1 DEF IsPeer, SameButLast

LEMMA SendWebhookInv == TaskInv /\ SendWebhook => TaskInv'
<1> SUFFICES ASSUME TaskInv, SendWebhook PROVE TaskInv'
  OBVIOUS
<1> DEFINE n == feed.seq + 1
           over == feed.terminal \/ taskLog[n] = "end"
<1>1. /\ face = "webhook" /\ feed.pc = "send" /\ feed.seq < feed.upto
      /\ feed' = [feed EXCEPT !.seq = n, !.terminal = over]
      /\ peer' = IF taskLog[n] = "delta" THEN Push(peer, n, TRUE) ELSE [peer EXCEPT !.last = n]
      /\ FeedUnchanged
  BY DEF SendWebhook
<1>2. feed.pending = 0 /\ HoldsBack(feed, peer)
  BY <1>1 DEF TaskInv, HoldsBack
<1>3. /\ n \in Nat /\ n <= Len(taskLog) /\ peer.last < n /\ n <= feed.upto
      /\ feed.upto <= Len(taskLog)
  BY <1>1, <1>2, FieldsOfFeed DEF HoldsBack
<1>4. /\ taskLog[n] # "delta" => OnlyText(peer.last, n, 0)
      /\ taskLog[n] = "delta" => OnlyText(peer.last, n, n)
  BY <1>2, <1>3, NextText, FieldsOfFeed DEF HoldsBack
<1>5. over \in BOOLEAN /\ feed \in FeedRow /\ IsPeer(peer) /\ TextIs(peer)
  BY FieldsOfFeed DEF TaskInv, TaskTypes
<1> HIDE DEF n, over
<1>6. /\ feed' \in FeedRow /\ feed'.pc = "send" /\ feed'.seq = n /\ feed'.upto = feed.upto
      /\ feed'.pending = 0
  BY <1>1, <1>2, <1>3, <1>5 DEF FeedRow
<1>7. IsPeer(peer') /\ peer'.last = n /\ TextIs(peer')
  <2>1. CASE taskLog[n] = "delta"
    BY <1>1, <1>3, <1>4, <2>1, PushShows
  <2>2. CASE taskLog[n] # "delta"
    <3>4. peer = [shown |-> peer.shown, last |-> peer.last, cuts |-> peer.cuts,
                  text |-> peer.text, from |-> peer.from, snap |-> peer.snap]
      BY <1>5 DEF IsPeer
    <3>5. peer' = [shown |-> peer.shown, last |-> n, cuts |-> peer.cuts,
                   text |-> peer.text, from |-> peer.from, snap |-> peer.snap]
      BY <1>1, <2>2, <3>4
    <3>6. Len(taskLog) \in Nat
      BY FieldsOfFeed
    <3>2. peer.last <= n
      BY <1>3, FieldsOfFeed
    <3>1. SameButLast(peer', peer, n) /\ IsPeer(peer')
      BY <1>3, <1>5, <3>2, <3>5, <3>6, PeerMoves
    <3>3. TextIs(peer')
      BY <1>3, <1>4, <1>5, <2>2, <3>1, <3>2, SkipShows
    <3> QED BY <3>1, <3>3 DEF SameButLast
  <2> QED BY <2>1, <2>2
<1>8. OnlyText(n, n, 0)
  BY <1>3 DEF OnlyText
<1>9. HoldsBack(feed', peer')
  <2>1. face # "a2a" /\ n <= n
    BY <1>1, <1>3
  <2> QED
  BY <2>1, <1>1, <1>3, <1>6, <1>7, <1>8, FieldsOfFeed DEF HoldsBack
<1> QED BY <1>1, <1>6, <1>7, <1>9, FeedMoves

LEMMA SendA2AInv == TaskInv /\ SendA2A => TaskInv'
<1> SUFFICES ASSUME TaskInv, SendA2A PROVE TaskInv'
  OBVIOUS
<1> DEFINE n == feed.seq + 1
           given == IF feed.pending # 0 THEN Push(peer, feed.pending, feed.started) ELSE peer
           begins == feed.started \/ feed.pending # 0
           over == feed.terminal \/ taskLog[n] = "end" \/ taskStatus = "waiting"
<1>1. /\ face = "a2a" /\ feed.pc = "send" /\ feed.seq < feed.upto
      /\ FeedUnchanged /\ HoldsBack(feed, peer)
      /\ feed \in FeedRow /\ IsPeer(peer) /\ TextIs(peer)
  BY DEF SendA2A, TaskInv, TaskTypes
<1>2. /\ n \in Nat /\ n <= Len(taskLog) /\ peer.last < n /\ n <= feed.upto /\ n = feed.seq + 1
      /\ feed.upto <= Len(taskLog) /\ begins \in BOOLEAN /\ over \in BOOLEAN
  BY <1>1, FieldsOfFeed DEF HoldsBack
<1>3. OnlyText(peer.last, feed.seq, feed.pending)
  BY <1>1 DEF HoldsBack
<1>4. /\ TextIs(given) /\ IsPeer(given) /\ given.last \in Nat /\ given.last < n
      /\ OnlyText(given.last, feed.seq, 0)
      /\ ~begins => given.shown = << >>
  <2>1. CASE feed.pending = 0
    BY <1>1, <1>2, <1>3, <2>1, FieldsOfFeed DEF HoldsBack
  <2>2. CASE feed.pending # 0
    <3>1. /\ feed.pending <= Len(taskLog) /\ peer.last < feed.pending /\ feed.pending < n
          /\ ~feed.started => peer.shown = << >>
      BY <1>1, <1>2, <2>2, FieldsOfFeed DEF HoldsBack
    <3>2. OnlyText(peer.last, feed.pending, feed.pending)
      BY <1>2, <1>3, <3>1, FieldsOfFeed DEF OnlyText
    <3>3. OnlyText(feed.pending, feed.seq, 0)
      BY <1>2, <1>3, <3>1, NextText, FieldsOfFeed
    <3>4. given = Push(peer, feed.pending, feed.started) /\ begins
      BY <2>2
    <3> HIDE DEF given, begins
    <3>5. TextIs(given) /\ IsPeer(given) /\ given.last = feed.pending
      BY <3>1, <3>2, <3>4, PushShows, FieldsOfFeed
    <3> QED BY <3>1, <3>3, <3>4, <3>5, FieldsOfFeed
  <2> QED BY <2>1, <2>2
<1>5. /\ taskLog[n] # "delta" => OnlyText(given.last, n, 0)
      /\ taskLog[n] # "delta" /\ feed.pending # n => OnlyText(peer.last, n, feed.pending)
      /\ taskLog[n] = "delta" => OnlyText(given.last, n, n)
  BY <1>2, <1>3, <1>4, NextText, FieldsOfFeed
<1>6. \/ /\ taskLog[n] = "blank"
         /\ feed' = [feed EXCEPT !.seq = n] /\ peer' = peer
      \/ /\ taskLog[n] = "delta"
         /\ feed' = [feed EXCEPT !.seq = n, !.pending = n, !.started = begins]
         /\ peer' = given
      \/ /\ taskLog[n] \notin {"blank", "delta"}
         /\ feed' = [feed EXCEPT !.seq = n, !.pending = 0, !.started = begins, !.terminal = over]
         /\ \/ peer' = given
            \/ peer' = [given EXCEPT !.last = n]
  BY DEF SendA2A
<1> HIDE DEF n, given, begins, over
<1>7. CASE /\ taskLog[n] = "blank"
           /\ feed' = [feed EXCEPT !.seq = n] /\ peer' = peer
  <2>1. /\ feed' \in FeedRow /\ feed'.pc = "send" /\ feed'.seq = n /\ feed'.upto = feed.upto
        /\ feed'.pending = feed.pending /\ feed'.started = feed.started
    BY <1>1, <1>2, <1>7 DEF FeedRow
  <2>2. /\ feed.pending # n
        /\ feed.pending # 0 => peer.last < feed.pending /\ feed.pending <= n
        /\ peer.last <= n
        /\ face = "a2a" /\ ~feed.started => peer.shown = << >>
    BY <1>1, <1>2, FieldsOfFeed DEF HoldsBack
  <2>3. OnlyText(peer.last, n, feed.pending)
    BY <1>5, <1>7, <2>2
  <2>4. HoldsBack(feed', peer')
    BY <1>1, <1>2, <1>7, <2>1, <2>2, <2>3 DEF HoldsBack
  <2> QED BY <1>1, <1>7, <2>1, <2>4, FeedMoves
<1>8. CASE /\ taskLog[n] = "delta"
           /\ feed' = [feed EXCEPT !.seq = n, !.pending = n, !.started = begins]
           /\ peer' = given
  <2>1. /\ feed' \in FeedRow /\ feed'.pc = "send" /\ feed'.seq = n /\ feed'.upto = feed.upto
        /\ feed'.pending = n /\ feed'.started = begins
    BY <1>1, <1>2, <1>8 DEF FeedRow
  <2>2. HoldsBack(feed', given)
    BY <1>1, <1>2, <1>4, <1>5, <1>8, <2>1 DEF HoldsBack
  <2> QED BY <1>1, <1>4, <1>8, <2>1, <2>2, FeedMoves
<1>9. CASE /\ taskLog[n] \notin {"blank", "delta"}
           /\ feed' = [feed EXCEPT !.seq = n, !.pending = 0, !.started = begins, !.terminal = over]
           /\ \/ peer' = given
              \/ peer' = [given EXCEPT !.last = n]
  <2>1. /\ feed' \in FeedRow /\ feed'.pc = "send" /\ feed'.seq = n /\ feed'.upto = feed.upto
        /\ feed'.pending = 0 /\ feed'.started = begins
    BY <1>1, <1>2, <1>9 DEF FeedRow
  <2>2. OnlyText(given.last, n, 0) /\ given.last <= n
    BY <1>2, <1>4, <1>5, <1>9
  <2>3. \/ peer' = given
        \/ SameButLast(peer', given, n) /\ IsPeer(peer')
    <3>1. given = [shown |-> given.shown, last |-> given.last, cuts |-> given.cuts,
                   text |-> given.text, from |-> given.from, snap |-> given.snap]
      BY <1>4 DEF IsPeer
    <3>2. CASE peer' = [given EXCEPT !.last = n]
      <4>1. peer' = [shown |-> given.shown, last |-> n, cuts |-> given.cuts,
                     text |-> given.text, from |-> given.from, snap |-> given.snap]
        BY <3>1, <3>2
      <4>2. Len(taskLog) \in Nat /\ given.last <= n
        BY <2>2, FieldsOfFeed
      <4> QED BY <1>2, <1>4, <4>1, <4>2, PeerMoves
    <3> QED BY <1>9, <3>2
  <2>4. /\ TextIs(peer') /\ IsPeer(peer') /\ peer'.shown = given.shown
        /\ OnlyText(peer'.last, n, 0) /\ peer'.last <= n
    <3>1. CASE peer' = given
      BY <1>4, <2>2, <3>1
    <3>2. CASE SameButLast(peer', given, n) /\ IsPeer(peer')
      <4>1. TextIs(peer')
        BY <1>2, <1>4, <2>2, <3>2, SkipShows
      <4>2. OnlyText(n, n, 0)
        BY <1>2 DEF OnlyText
      <4> QED BY <1>2, <3>2, <4>1, <4>2 DEF SameButLast
    <3> QED BY <2>3, <3>1, <3>2
  <2>5. HoldsBack(feed', peer')
    BY <1>1, <1>2, <1>4, <2>1, <2>4 DEF HoldsBack
  <2> QED BY <1>1, <2>1, <2>4, <2>5, FeedMoves
<1> QED BY <1>6, <1>7, <1>8, <1>9

LEMMA SendMessageInv ==
  ASSUME TaskInv, SendMessage \/ (\E gone \in BOOLEAN : WaitForRun(gone)) \/ TaskValue
  PROVE  TaskInv'
<1>1. answer = [pc |-> answer.pc, state |-> answer.state, text |-> answer.text]
  BY DEF TaskInv, TaskTypes
<1>2. /\ AnswerUnchanged
      /\ \/ answer' = [answer EXCEPT !.pc = "wait"]
         \/ answer' = [answer EXCEPT !.pc = "read", !.state = taskStatus]
         \/ /\ answer.pc = "read"
            /\ answer' = [answer EXCEPT !.pc = "done", !.text = TextUpTo(Len(taskLog))]
  BY DEF SendMessage, WaitForRun, TaskValue
<1> DEFINE text == TextUpTo(Len(taskLog))
<1>3. \/ answer' = [pc |-> "wait", state |-> answer.state, text |-> answer.text]
      \/ answer' = [pc |-> "read", state |-> taskStatus, text |-> answer.text]
      \/ /\ answer.pc = "read"
         /\ answer' = [pc |-> "done", state |-> answer.state, text |-> text]
  BY <1>1, <1>2
<1>4. TaskTypes' /\ TextIs(peer)' /\ (feed'.pc # "closed" => HoldsBack(feed, peer)') /\ PagesHold'
  <2>1. answer' = [pc |-> answer'.pc, state |-> answer'.state, text |-> answer'.text]
    BY <1>3
  <2> QED BY <1>2, <2>1 DEF TaskInv, TaskTypes, IsPeer, TextIs, ViewIs, Repeats, TextUpTo, HoldsBack, OnlyText,
                            PagesHold, PagesSkipNothing, Before, KeyOf, AnswerUnchanged
<1>5. UNCHANGED <<owed, taskStatus, taskLog>> /\ text' = text
  BY <1>2 DEF AnswerUnchanged, TextUpTo
<1> HIDE DEF text
<1>6. AnswerHolds'
  BY <1>3, <1>5 DEF TaskInv, AnswerHolds, text
<1> QED BY <1>4, <1>6 DEF TaskInv

-----------------------------------------------------------------------------
(* The timestamps of a cursor                                                 *)

LEMMA TruncatedBetween ==
  ASSUME NEW a \in Nat, NEW b \in Nat, a <= b, Truncated(b) <= a
  PROVE  Truncated(a) = Truncated(b)
<1>1. a = Millisecond * (a \div Millisecond) + (a % Millisecond)
      /\ a % Millisecond \in 0 .. Millisecond - 1 /\ a \div Millisecond \in Int
  BY TaskBounds
<1>2. b = Millisecond * (b \div Millisecond) + (b % Millisecond)
      /\ b % Millisecond \in 0 .. Millisecond - 1 /\ b \div Millisecond \in Int
  BY TaskBounds
<1> DEFINE p == a \div Millisecond
           q == b \div Millisecond
<1>3. /\ Truncated(a) = Millisecond * p /\ Truncated(b) = Millisecond * q
      /\ Millisecond * p \in Int /\ Millisecond * q \in Int
  BY <1>1, <1>2, TaskBounds DEF Truncated
<1>4. \A x, y \in Int : x < y => Millisecond * x + Millisecond <= Millisecond * y
  BY TaskBounds
<1> HIDE DEF p, q
<1>5. ~(p < q)
  BY <1>1, <1>2, <1>3, <1>4, TaskBounds DEF p, q
<1>6. ~(q < p)
  BY <1>1, <1>2, <1>3, <1>4, TaskBounds DEF p, q
<1> QED BY <1>1, <1>2, <1>3, <1>5, <1>6 DEF p, q

LEMMA TruncatedIs == \A a \in Nat : Truncated(a) \in Int /\ Truncated(a) <= a
BY TaskBounds DEF Truncated

(* What is before the last task of a page, and not in its millisecond, is    *)
(* before the cursor that names that task.                                   *)
LEMMA BehindCursor ==
  ASSUME updatedAt \in [Task -> Nat], NEW t \in Task, NEW end \in Task,
         Before(KeyOf(t), KeyOf(end)), Cursor(t)[1] # Cursor(end)[1]
  PROVE  Before(KeyOf(t), Cursor(end))
<1> DEFINE a == updatedAt[t]
           b == updatedAt[end]
<1>1. a \in Nat /\ b \in Nat /\ a <= b /\ Truncated(a) # Truncated(b)
  BY DEF Before, KeyOf, Cursor
<1>2. a < Truncated(b)
  BY <1>1, TruncatedBetween, TruncatedIs
<1> QED BY <1>2 DEF Before, KeyOf, Cursor

LEMMA ListPageInv == TaskInv /\ ListPage => TaskInv'
<1> SUFFICES ASSUME TaskInv, ListPage PROVE TaskInv'
  OBVIOUS
<1>1. /\ UNCHANGED <<face, taskStatus, owed, taskLog, feed, peer, answer, updatedAt, tick>>
      /\ pages.pc \in {"idle", "more"}
  BY DEF ListPage
<1>2. PICK batch \in SUBSET Filtered :
        /\ \A t \in batch, u \in Filtered \ batch : Before(KeyOf(u), KeyOf(t))
        /\ \/ /\ batch = Filtered
              /\ pages' = [pages EXCEPT !.pc = "done", !.seen = @ \cup batch]
           \/ \E end \in batch :
                pages' = [pages EXCEPT !.pc = "more", !.cursor = Cursor(end),
                            !.seen = @ \cup batch,
                            !.near = @ \cup {t \in Task : Cursor(t)[1] = Cursor(end)[1]}]
  BY DEF ListPage
<1>3. /\ pages = [pc |-> pages.pc, cursor |-> pages.cursor, seen |-> pages.seen,
                  near |-> pages.near, moved |-> pages.moved]
      /\ updatedAt \in [Task -> Nat]
      /\ pages.pc = "more" =>
           \A t \in Task \ (pages.moved \cup pages.near \cup pages.seen) :
             Before(KeyOf(t), pages.cursor)
  BY DEF TaskInv, TaskTypes, PagesHold
<1>4. /\ Filtered \subseteq Task /\ batch \subseteq Task
      /\ \A t \in Task : t \notin pages.moved \cup pages.near \cup pages.seen => t \in Filtered
  BY <1>3 DEF Filtered
<1>5. \A t \in Task : KeyOf(t)' = KeyOf(t)
  BY <1>1 DEF KeyOf
<1>6. pages' = [pc |-> pages'.pc, cursor |-> pages'.cursor, seen |-> pages'.seen,
                near |-> pages'.near, moved |-> pages'.moved]
  BY <1>2, <1>3
<1>7. PagesHold'
  <2>1. CASE batch = Filtered /\ pages' = [pages EXCEPT !.pc = "done", !.seen = @ \cup batch]
    <3>1. pages' = [pc |-> "done", cursor |-> pages.cursor, seen |-> pages.seen \cup batch,
                    near |-> pages.near, moved |-> pages.moved]
      BY <1>3, <2>1
    <3> QED BY <1>4, <2>1, <3>1 DEF PagesHold, PagesSkipNothing
  <2>2. CASE \E end \in batch :
               pages' = [pages EXCEPT !.pc = "more", !.cursor = Cursor(end),
                           !.seen = @ \cup batch,
                           !.near = @ \cup {t \in Task : Cursor(t)[1] = Cursor(end)[1]}]
    <3>1. PICK end \in batch :
            pages' = [pages EXCEPT !.pc = "more", !.cursor = Cursor(end),
                        !.seen = @ \cup batch,
                        !.near = @ \cup {t \in Task : Cursor(t)[1] = Cursor(end)[1]}]
      BY <2>2
    <3> DEFINE around == {t \in Task : Cursor(t)[1] = Cursor(end)[1]}
               cut == Cursor(end)
    <3>2. pages' = [pc |-> "more", cursor |-> cut, seen |-> pages.seen \cup batch,
                    near |-> pages.near \cup around, moved |-> pages.moved]
      BY <1>3, <3>1
    <3>3. ASSUME NEW t \in Task, t \notin pages.moved \cup pages.near \cup pages.seen,
                 t \notin batch, t \notin around
          PROVE  Before(KeyOf(t), cut)
      <4>1. t \in Filtered \ batch /\ end \in Task
        BY <1>4, <3>3
      <4>2. Before(KeyOf(t), KeyOf(end))
        BY <1>2, <4>1
      <4> QED BY <1>3, <3>3, <4>1, <4>2, BehindCursor
    <3> HIDE DEF around, cut
    <3>4. pages'.pc = "more" /\ pages'.cursor = cut
      BY <3>2
    <3>5. \A t \in Task \ (pages'.moved \cup pages'.near \cup pages'.seen) :
            Before(KeyOf(t), cut)
      BY <3>2, <3>3
    <3>6. \A t \in Task \ (pages'.moved \cup pages'.near \cup pages'.seen) :
            Before(KeyOf(t)', pages'.cursor)
      BY <1>5, <3>4, <3>5
    <3> QED BY <3>4, <3>6 DEF PagesHold, PagesSkipNothing, Before, KeyOf
  <2> QED BY <1>2, <2>1, <2>2
<1>8. TaskTypes' /\ TextIs(peer)' /\ (feed'.pc # "closed" => HoldsBack(feed, peer)') /\ AnswerHolds'
  BY <1>1, <1>6 DEF TaskInv, TaskTypes, IsPeer, TextIs, ViewIs, Repeats, TextUpTo, HoldsBack, OnlyText, AnswerHolds
<1> QED BY <1>7, <1>8 DEF TaskInv

LEMMA TouchTaskInv == ASSUME TaskInv, NEW t \in Task, TouchTask(t) PROVE TaskInv'
<1>1. /\ UNCHANGED <<face, taskStatus, owed, taskLog, feed, peer, answer>>
      /\ pages.pc = "more" /\ tick' = tick + 1 /\ updatedAt' = [updatedAt EXCEPT ![t] = tick']
      /\ pages' = [pages EXCEPT !.moved = @ \cup {t}]
  BY DEF TouchTask
<1>2. /\ pages = [pc |-> pages.pc, cursor |-> pages.cursor, seen |-> pages.seen,
                  near |-> pages.near, moved |-> pages.moved]
      /\ updatedAt \in [Task -> Nat] /\ tick \in Nat
      /\ \A u \in Task \ (pages.moved \cup pages.near \cup pages.seen) :
           Before(KeyOf(u), pages.cursor)
  BY <1>1 DEF TaskInv, TaskTypes, PagesHold
<1>3. pages' = [pc |-> "more", cursor |-> pages.cursor, seen |-> pages.seen,
                near |-> pages.near, moved |-> pages.moved \cup {t}]
  BY <1>1, <1>2
<1>4. updatedAt' \in [Task -> Nat] /\ tick' \in Nat
      /\ \A u \in Task : u # t => updatedAt'[u] = updatedAt[u]
  BY <1>1, <1>2
<1>5. PagesHold'
  BY <1>2, <1>3, <1>4 DEF PagesHold, PagesSkipNothing, Before, KeyOf
<1>6. TaskTypes' /\ TextIs(peer)' /\ (feed'.pc # "closed" => HoldsBack(feed, peer)') /\ AnswerHolds'
  BY <1>1, <1>3, <1>4 DEF TaskInv, TaskTypes, IsPeer, TextIs, ViewIs, Repeats, TextUpTo, HoldsBack, OnlyText,
                       AnswerHolds
<1> QED BY <1>5, <1>6 DEF TaskInv

LEMMA TaskStepInv == TaskInv /\ [TaskNext]_taskVars => TaskInv'
<1> SUFFICES ASSUME TaskInv, [TaskNext]_taskVars PROVE TaskInv'
  OBVIOUS
<1>1. CASE UNCHANGED taskVars
  BY <1>1 DEF taskVars, TaskInv, TaskTypes, IsPeer, TextIs, ViewIs, Repeats, TextUpTo, HoldsBack, OnlyText,
              AnswerHolds, PagesHold, PagesSkipNothing, Before, KeyOf
<1>2. CASE TaskNext
  BY <1>2, WorkerInv, OpenFeedInv, FeedPollsInv, SendA2AInv, SendWebhookInv, SendMessageInv,
     ListPageInv, TouchTaskInv DEF TaskNext
<1> QED BY <1>1, <1>2

LEMMA TaskHolds == TaskInv => TaskTextOnce /\ PagesSkipNothing
BY DEF TaskInv, TextIs, ViewIs, Repeats, TaskTypes, IsPeer, AnswerHolds, PagesHold, TaskTextOnce

(* triggers/a2a.py, triggers/api.py: however often the connection breaks and  *)
(* whatever the Run does meanwhile, the updates sent to a client that resumes *)
(* with the last id it was sent are the text up to that event, each fragment  *)
(* once and in order, although one is held back.  Of what the client shows    *)
(* with the task that begins each stream nothing of that text is missing, and *)
(* only a fragment after the id it resumed with that was already in that task *)
(* is repeated.  An answer that says the task ended has the whole text; and a *)
(* listing read to its end has shown every task that did not move, but those  *)
(* of one millisecond with the end of a page.                                 *)
THEOREM TasksAreToldOnce == ServicesSpec => []A2AFaithful
<1>1. ServicesInit => TaskInv
  BY TaskPart, TaskInitInv
<1>2. TaskInv /\ [ServicesNext]_servicesVars => TaskInv'
  BY TaskPart, TaskStepInv
<1>3. TaskInv => A2AFaithful
  BY TaskHolds DEF A2AFaithful
<1> QED BY <1>1, <1>2, <1>3, PTL DEF ServicesSpec
===============================================================================
