------------------------ MODULE SupervisedGateProofs ------------------------
(***************************************************************************)
(* Theorems about SupervisedGate, for every set of launches, directories,   *)
(* command lines and scenarios: what a report that says pass stands for,    *)
(* whose evidence a directory holds, and whom a halt stops.                 *)
(***************************************************************************)
EXTENDS SupervisedGate, FiniteSetTheorems, TLAPS

(* The launch has created its output directory.                            *)
Started(l) == parent[l] \in {"spawn", "waiting", "judge", "judge late", "reported", "raised"}

(* A directory is created by one launch, and only that launch writes to it. *)
Owners ==
    /\ \A l \in Launches : Started(l) => dir[out(l)].made
    /\ \A l, k \in Launches : Started(l) /\ Started(k) /\ out(l) = out(k) => l = k
    /\ \A d \in Dirs :
          /\ \A p \in dir[d].phases : Started(p.by) /\ out(p.by) = d
          /\ dir[d].result \in Results => Started(dir[d].result.by) /\ out(dir[d].result.by) = d
          /\ dir[d].manifest \in Manifests =>
                Started(dir[d].manifest.by) /\ out(dir[d].manifest.by) = d

(* Where a child is once its work has begun, and once it has a result.      *)
ForwardPlaces == {"wait", "release", "save", "leave", "raised", "teardown", "ended"}
LastPlaces == {"leave", "teardown", "ended"}

(* What the evidence says of the child that wrote it.                      *)
Evidence ==
    /\ \A l \in Launches :
          /\ child[l].at = "teardown" => child[l].code # -1
          /\ parent[l] = "judge" => child[l].at = "ended"
          /\ child[l].at = "save" => dir[out(l)].result \in Results
    /\ \A d \in Dirs :
          /\ \A p \in dir[d].phases :
                p.phase = "gpu_work_complete" =>
                   gpu[p.by] = "done" /\ child[p.by].at \in ForwardPlaces
          /\ dir[d].result \in Results /\ dir[d].result.checks =>
                /\ child[dir[d].result.by].checks
                /\ child[dir[d].result.by].at \in LastPlaces

(* The launches that may still start GPU work.                             *)
CanWork(l) ==
    CASE kind(l) = "native" -> child[l].at \in {"enter", "exercise"}
      [] kind(l) = "transition" -> parent[l] \notin {"idle", "gate", "refused"}
      [] OTHER -> FALSE

Admission == Blocked => \A l \in Launches : CanWork(l) => l \in admitted

GateInv == TypeOK /\ Owners /\ Evidence /\ PassIsClean /\ Admission
-----------------------------------------------------------------------------
LEMMA Outputs ==
    ASSUME TypeOK, NEW l \in Launches
    PROVE  out(l) \in Dirs /\ kind(l) \in Kinds
BY GateAssumption DEF TypeOK, out, kind

(* What an update of a child's record or of a directory's leaves typed.     *)
LEMMA ChildUpdates ==
    ASSUME TypeOK, NEW l \in Launches, NEW place \in ChildPlaces
    PROVE  /\ [child EXCEPT ![l].at = place] \in [Launches -> ChildRecords]
           /\ \A passes \in BOOLEAN :
                 [child EXCEPT ![l].checks = passes, ![l].at = place] \in [Launches -> ChildRecords]
           /\ \A code \in -1 .. 3 :
                 Exits(l, place, code) => child' \in [Launches -> ChildRecords]
<1>1. child \in [Launches -> ChildRecords]
  BY DEF TypeOK
<1>2. [child EXCEPT ![l].at = place] \in [Launches -> ChildRecords]
  BY <1>1 DEF ChildRecords
<1>3. ASSUME NEW passes \in BOOLEAN
      PROVE [child EXCEPT ![l].checks = passes, ![l].at = place] \in [Launches -> ChildRecords]
  BY <1>1 DEF ChildRecords
<1>4. ASSUME NEW code \in -1 .. 3, Exits(l, place, code)
      PROVE child' \in [Launches -> ChildRecords]
  BY <1>1, <1>4 DEF ChildRecords, Exits
<1> QED BY <1>2, <1>3, <1>4

LEMMA DirUpdates ==
    ASSUME NEW f \in [Dirs -> DirRecords], NEW d \in Dirs
    PROVE  /\ \A passes \in BOOLEAN : [f EXCEPT ![d].made = passes] \in [Dirs -> DirRecords]
           /\ \A p \in [by : Launches, phase : Phases] :
                 [f EXCEPT ![d].phases = @ \cup {p}] \in [Dirs -> DirRecords]
           /\ \A m \in Manifests : [f EXCEPT ![d].manifest = m] \in [Dirs -> DirRecords]
           /\ \A p \in [by : Launches, phase : Phases], r \in Results :
                 [f EXCEPT ![d].phases = @ \cup {p}, ![d].result = r] \in [Dirs -> DirRecords]
           /\ \A r \in Results : [f EXCEPT ![d].result = r] \in [Dirs -> DirRecords]
<1>1. \A passes \in BOOLEAN : [f EXCEPT ![d].made = passes] \in [Dirs -> DirRecords]
  BY DEF DirRecords
<1>2. \A p \in [by : Launches, phase : Phases] :
                 [f EXCEPT ![d].phases = @ \cup {p}] \in [Dirs -> DirRecords]
  BY DEF DirRecords
<1>3. \A m \in Manifests : [f EXCEPT ![d].manifest = m] \in [Dirs -> DirRecords]
  BY DEF DirRecords
<1>4. \A p \in [by : Launches, phase : Phases], r \in Results :
                 [f EXCEPT ![d].phases = @ \cup {p}, ![d].result = r] \in [Dirs -> DirRecords]
  <2> SUFFICES ASSUME NEW p \in [by : Launches, phase : Phases], NEW r \in Results
               PROVE  [f EXCEPT ![d].phases = @ \cup {p}, ![d].result = r] \in [Dirs -> DirRecords]
    OBVIOUS
  <2> DEFINE g == [f EXCEPT ![d].phases = @ \cup {p}]
  <2>1. g \in [Dirs -> DirRecords]
    BY <1>2
  <2> HIDE DEF g
  <2>2. [g EXCEPT ![d].result = r] \in [Dirs -> DirRecords]
    BY <2>1 DEF DirRecords
  <2> QED BY <2>2 DEF g
<1>5. \A r \in Results : [f EXCEPT ![d].result = r] \in [Dirs -> DirRecords]
  BY DEF DirRecords
<1> QED BY <1>1, <1>2, <1>3, <1>4, <1>5


LEMMA RecordsTyped ==
    ASSUME TypeOK, NEW l \in Launches, NEW phase \in Phases, Records(l, phase)
    PROVE  dir' \in [Dirs -> DirRecords]
<1>1. [by |-> l, phase |-> phase] \in [by : Launches, phase : Phases]
  OBVIOUS
<1>2. dir \in [Dirs -> DirRecords] /\ out(l) \in Dirs
  BY Outputs DEF TypeOK
<1>3. \A p \in [by : Launches, phase : Phases] :
         [dir EXCEPT ![out(l)].phases = @ \cup {p}] \in [Dirs -> DirRecords]
  BY <1>2, DirUpdates
<1> QED BY <1>1, <1>3 DEF Records

-----------------------------------------------------------------------------
LEMMA ParentTypes ==
    ASSUME TypeOK, NEW l \in Launches, ParentStep(l) PROVE TypeOK'
<1> USE Outputs
<1>1. CASE Launch(l)
  BY <1>1 DEF TypeOK, Launch, Goes, ParentOnly, scene, operator, ParentPlaces
<1>2. CASE ParentGate(l)
  BY <1>2 DEF TypeOK, ParentGate, Goes, ParentOnly, scene, operator, ParentPlaces
<1>3. CASE MakeOutput(l)
  <2>1. dir' \in [Dirs -> DirRecords]
    BY <1>3, DirUpdates DEF TypeOK, MakeOutput
  <2> QED BY <1>3, <2>1 DEF TypeOK, MakeOutput, Goes, scene, operator, ParentPlaces
<1>4. CASE Spawn(l)
  <2>0. PICK place \in {"gate", "enter"} : child' = [child EXCEPT ![l].at = place]
    BY <1>4, Zenon DEF Spawn
  <2>1. child' \in [Launches -> ChildRecords]
    BY <2>0, ChildUpdates DEF ChildPlaces
  <2>2. /\ child'[l].at \in {"gate", "enter"}
        /\ \A k \in Launches \ {l} : child'[k] = child[k]
    BY <2>0 DEF TypeOK, ChildRecords
  <2> QED BY <1>4, <2>1, <2>2 DEF TypeOK, Spawn, Goes, scene, operator, ParentPlaces
<1>5. CASE ChildEnded(l)
  BY <1>5 DEF TypeOK, ChildEnded, Goes, ParentOnly, scene, operator, ParentPlaces
<1>6. CASE TimeOut(l)
  BY <1>6 DEF TypeOK, TimeOut, Goes, ParentOnly, scene, operator, ParentPlaces
<1>7. CASE Judge(l)
  <2>1. [by |-> l, pass |-> Acceptance(l)] \in Manifests
    BY Zenon DEF Manifests, Acceptance
  <2>2. UNCHANGED dir \/ \E m \in Manifests : dir' = [dir EXCEPT ![out(l)].manifest = m]
    BY <1>7, <2>1, Zenon DEF Judge
  <2>3. dir' \in [Dirs -> DirRecords]
    BY <2>2, DirUpdates DEF TypeOK
  <2>4. /\ UNCHANGED <<scene, operator, child, gpu>> /\ parent[l] \in {"judge", "judge late"}
        /\ \E place \in {"reported", "raised"} : parent' = [parent EXCEPT ![l] = place]
    BY <1>7, Zenon DEF Judge, Goes
  <2> QED BY <2>3, <2>4 DEF TypeOK, scene, operator, ParentPlaces
<1> QED BY <1>1, <1>2, <1>3, <1>4, <1>5, <1>6, <1>7 DEF ParentStep
-----------------------------------------------------------------------------
LEMMA ChildTypes ==
    ASSUME TypeOK, Evidence, NEW l \in Launches, ChildStep(l) PROVE TypeOK'
<1> USE Outputs
<1> SUFFICES /\ child' \in [Launches -> ChildRecords]
             /\ dir' \in [Dirs -> DirRecords]
             /\ gpu' \in [Launches -> {"none", "running", "done", "lost"}]
             /\ \A k \in Launches : child'[k].at = "ended" => child'[k].code # -1
             /\ \A k \in Launches : child'[k].at = "none" <=> child[k].at = "none"
             /\ UNCHANGED <<scene, operator, parent>>
  BY DEF TypeOK, scene, operator
<1> USE DEF ChildOnly
<1>1. CASE ChildGate(l)
  <2>1. \/ child' = [child EXCEPT ![l].at = "enter"]
        \/ Exits(l, "ended", 1)
    BY <1>1 DEF ChildGate, MoveTo
  <2>2. "enter" \in ChildPlaces /\ "ended" \in ChildPlaces /\ 1 \in -1 .. 3
    BY DEF ChildPlaces
  <2>3. child' \in [Launches -> ChildRecords]
    <3>1. CASE child' = [child EXCEPT ![l].at = "enter"]
      BY <2>2, <3>1, ChildUpdates
    <3>2. CASE Exits(l, "ended", 1)
      BY <2>2, <3>2, ChildUpdates
    <3> QED BY <2>1, <3>1, <3>2
  <2> QED BY <1>1, <2>1, <2>3 DEF TypeOK, Exits, ChildGate, At, ChildRecords
<1>2. CASE ChildEnter(l)
  <2>1. child' \in [Launches -> ChildRecords]
    BY <1>2, ChildUpdates, Zenon DEF ChildEnter, MoveTo, ChildPlaces
  <2>2. dir' \in [Dirs -> DirRecords]
    BY <1>2, RecordsTyped DEF ChildEnter, Phases
  <2> QED BY <1>2, <2>1, <2>2 DEF TypeOK, ChildEnter, At, MoveTo, ChildRecords
<1>3. CASE StartWork(l)
  <2>1. child' \in [Launches -> ChildRecords]
    BY <1>3, ChildUpdates, Zenon DEF StartWork, MoveTo, ChildPlaces
  <2> QED BY <1>3, <2>1 DEF TypeOK, StartWork, At, MoveTo, ChildRecords
<1>4. CASE WorkComplete(l)
  <2>1. PICK passes \in BOOLEAN :
           child' = [child EXCEPT ![l].checks = passes, ![l].at = "release"]
    BY <1>4, Zenon DEF WorkComplete, Gives
  <2>2. child' \in [Launches -> ChildRecords]
    BY <2>1, ChildUpdates DEF ChildPlaces
  <2>3. dir' \in [Dirs -> DirRecords]
    BY <1>4, RecordsTyped DEF WorkComplete, Phases, Required
  <2> QED BY <1>4, <2>1, <2>2, <2>3 DEF TypeOK, WorkComplete, At, ChildRecords
<1>5. CASE WorkRaises(l)
  <2>1. PICK place \in {"release", "raised"}, passes \in BOOLEAN :
           child' = [child EXCEPT ![l].checks = passes, ![l].at = place]
    BY <1>5, Zenon DEF WorkRaises, Gives
  <2>2. child' \in [Launches -> ChildRecords]
    BY <2>1, ChildUpdates DEF ChildPlaces
  <2>3. dir' \in [Dirs -> DirRecords]
    BY <1>5, RecordsTyped DEF TypeOK, WorkRaises, Phases
  <2> QED BY <1>5, <2>1, <2>2, <2>3 DEF TypeOK, WorkRaises, At, ChildRecords
<1>6. CASE Release(l)
  <2>1. PICK allocated \in {0, 1}, passes \in BOOLEAN :
           /\ child' = [child EXCEPT ![l].checks = passes, ![l].at = "save"]
           /\ dir' = [dir EXCEPT
                 ![out(l)].phases = @ \cup {[by |-> l, phase |-> "resources_released"]},
                 ![out(l)].result = [by |-> l, whole |-> FALSE, checks |-> FALSE,
                                     allocated |-> allocated]]
    BY <1>6, Zenon DEF Release, Gives, TypeOK, ChildRecords
  <2>2. child' \in [Launches -> ChildRecords]
    BY <2>1, ChildUpdates DEF ChildPlaces
  <2>3. [by |-> l, whole |-> FALSE, checks |-> FALSE, allocated |-> allocated] \in Results
    BY Zenon DEF Results
  <2>4. [by |-> l, phase |-> "resources_released"] \in [by : Launches, phase : Phases]
    BY DEF Phases, Required
  <2>5. dir' \in [Dirs -> DirRecords]
    BY <2>1, <2>3, <2>4, DirUpdates DEF TypeOK
  <2> QED BY <1>6, <2>1, <2>2, <2>5 DEF TypeOK, Release, At, ChildRecords
<1>7. CASE SaveResult(l)
  <2>1. PICK place \in {"leave", "raised"} : child' = [child EXCEPT ![l].at = place]
    BY <1>7, Zenon DEF SaveResult, MoveTo
  <2>2. child' \in [Launches -> ChildRecords]
    BY <2>1, ChildUpdates DEF ChildPlaces
  <2>3. dir[out(l)].result \in Results /\ child[l].checks \in BOOLEAN
    BY <1>7 DEF SaveResult, At, Evidence, TypeOK, ChildRecords
  <2>4. dir' \in [Dirs -> DirRecords]
    <3> DEFINE r == [dir[out(l)].result EXCEPT !.whole = TRUE, !.checks = child[l].checks]
    <3>1. UNCHANGED dir \/ dir' = [dir EXCEPT ![out(l)].result = r]
      BY <1>7 DEF SaveResult
    <3>2. dir \in [Dirs -> DirRecords]
      BY DEF TypeOK
    <3>3. r \in Results
      BY <2>3, <3>2 DEF Results
    <3> HIDE DEF r
    <3> QED BY <3>1, <3>2, <3>3, DirUpdates
  <2> QED BY <1>7, <2>1, <2>2, <2>4 DEF TypeOK, SaveResult, At, ChildRecords
<1>8. CASE Leave(l)
  <2> DEFINE code == IF At(l, "leave") THEN Code(child[l].checks) ELSE 1
  <2>1. Exits(l, "teardown", code)
    BY <1>8 DEF Leave
  <2>4. "teardown" \in ChildPlaces /\ code \in 0 .. 3 /\ code \in -1 .. 3
    BY DEF ChildPlaces, Code
  <2> HIDE DEF code
  <2>2. child' \in [Launches -> ChildRecords]
    BY <2>1, <2>4, ChildUpdates, Zenon
  <2>3. dir' \in [Dirs -> DirRecords]
    BY <1>8, RecordsTyped DEF Leave, Phases, Required
  <2> QED BY <1>8, <2>1, <2>2, <2>3, <2>4 DEF TypeOK, Exits, Leave, At, ChildRecords
<1>9. CASE End(l)
  <2>1. child' \in [Launches -> ChildRecords]
    BY <1>9, ChildUpdates, Zenon DEF End, MoveTo, ChildPlaces
  <2> QED BY <1>9, <2>1 DEF TypeOK, End, At, MoveTo, ChildRecords, Evidence
<1>10. CASE Dies(l)
  <2>1. child' \in [Launches -> ChildRecords]
    <3>1. "ended" \in ChildPlaces /\ 3 \in -1 .. 3
      BY DEF ChildPlaces
    <3> QED BY <1>10, <3>1, ChildUpdates, Zenon DEF Dies
  <2> QED BY <1>10, <2>1 DEF TypeOK, Exits, Dies, At, ChildRecords
<1> QED BY <1>1, <1>2, <1>3, <1>4, <1>5, <1>6, <1>7, <1>8, <1>9, <1>10 DEF ChildStep

LEMMA TypeStep == TypeOK /\ Evidence /\ [Next]_vars => TypeOK'
<1> SUFFICES ASSUME TypeOK, Evidence, [Next]_vars PROVE TypeOK'
  OBVIOUS
<1>1. ASSUME NEW l \in Launches, GpuStep(l) PROVE TypeOK'
  BY <1>1 DEF TypeOK, GpuStep, scene, operator
<1>2. CASE EditRecord
  BY <1>2, GateAssumption DEF TypeOK, EditRecord, scene, Verdicts
<1>3. CASE UNCHANGED vars
  BY <1>3 DEF TypeOK, vars
<1> QED BY <1>1, <1>2, <1>3, ParentTypes, ChildTypes DEF Next
-----------------------------------------------------------------------------
(* What a step of a launch leaves alone: the processes and the GPU work of  *)
(* the others, and every directory but its own.                            *)
LEMMA ParentEffect ==
    ASSUME TypeOK, NEW l \in Launches, ParentStep(l)
    PROVE  /\ command' = command /\ gpu' = gpu
           /\ \A k \in Launches : k # l => parent'[k] = parent[k] /\ child'[k] = child[k]
           /\ Started(l) => Started(l)'
           /\ child'[l] = child[l] \/ parent[l] = "spawn"
           /\ \A d \in Dirs : d # out(l) => dir'[d] = dir[d]
           /\ \A d \in Dirs : dir'[d].phases = dir[d].phases /\ dir'[d].result = dir[d].result
           /\ \A d \in Dirs : dir[d].made => dir'[d].made
<1> USE Outputs DEF TypeOK, Goes, ParentOnly, scene, operator, Started, DirRecords
<1>1. CASE Launch(l)
  BY <1>1 DEF Launch
<1>2. CASE ParentGate(l)
  BY <1>2 DEF ParentGate
<1>3. CASE MakeOutput(l)
  BY <1>3 DEF MakeOutput
<1>4. CASE Spawn(l)
  BY <1>4 DEF Spawn
<1>5. CASE ChildEnded(l)
  BY <1>5 DEF ChildEnded
<1>6. CASE TimeOut(l)
  BY <1>6 DEF TimeOut
<1>7. CASE Judge(l)
  <2>1. UNCHANGED dir \/ \E m : dir' = [dir EXCEPT ![out(l)].manifest = m]
    BY <1>7, Zenon DEF Judge
  <2>2. /\ \A d \in Dirs : d # out(l) => dir'[d] = dir[d]
        /\ \A d \in Dirs : dir'[d].phases = dir[d].phases /\ dir'[d].result = dir[d].result
        /\ \A d \in Dirs : dir[d].made => dir'[d].made
    <3>1. CASE UNCHANGED dir
      BY <3>1
    <3>2. ASSUME NEW m, dir' = [dir EXCEPT ![out(l)].manifest = m]
          PROVE  /\ \A d \in Dirs : d # out(l) => dir'[d] = dir[d]
                 /\ \A d \in Dirs : dir'[d].phases = dir[d].phases /\ dir'[d].result = dir[d].result
                 /\ \A d \in Dirs : dir[d].made => dir'[d].made
      BY <3>2
    <3> QED BY <2>1, <3>1, <3>2
  <2>3. /\ UNCHANGED <<command, gpu, child>>
        /\ \E place \in {"reported", "raised"} : parent' = [parent EXCEPT ![l] = place]
    BY <1>7 DEF Judge
  <2> QED BY <2>2, <2>3
<1> QED BY <1>1, <1>2, <1>3, <1>4, <1>5, <1>6, <1>7 DEF ParentStep

LEMMA ChildEffect ==
    ASSUME TypeOK, NEW l \in Launches, ChildStep(l)
    PROVE  /\ command' = command /\ parent' = parent
           /\ \A k \in Launches : k # l => child'[k] = child[k] /\ gpu'[k] = gpu[k]
           /\ child[l].at \notin {"none", "ended"}
           /\ \A d \in Dirs : d # out(l) => dir'[d] = dir[d]
           /\ \A d \in Dirs : dir'[d].manifest = dir[d].manifest /\ dir'[d].made = dir[d].made
<1> USE Outputs DEF TypeOK, ChildOnly, scene, operator, DirRecords, At, MoveTo, Gives, Exits, Records
<1>1. CASE ChildGate(l)
  BY <1>1 DEF ChildGate
<1>2. CASE ChildEnter(l)
  BY <1>2 DEF ChildEnter
<1>3. CASE StartWork(l)
  BY <1>3 DEF StartWork
<1>4. CASE WorkComplete(l)
  BY <1>4 DEF WorkComplete
<1>5. CASE WorkRaises(l)
  <2>1. UNCHANGED dir \/ Records(l, "gpu_work_failed")
    BY <1>5 DEF WorkRaises
  <2>2. PICK place, passes : child' = [child EXCEPT ![l].checks = passes, ![l].at = place]
    BY <1>5, Zenon DEF WorkRaises, Gives
  <2>3. child[l].at \notin {"none", "ended"} /\ UNCHANGED <<command, parent, gpu>>
    BY <1>5 DEF WorkRaises
  <2> QED BY <2>1, <2>2, <2>3, SMTT(30)
<1>6. CASE Release(l)
  BY <1>6 DEF Release
<1>7. CASE SaveResult(l)
  <2>1. \/ UNCHANGED dir
        \/ \E r : dir' = [dir EXCEPT ![out(l)].result = r]
    BY <1>7, Zenon DEF SaveResult
  <2>2. /\ \A d \in Dirs : d # out(l) => dir'[d] = dir[d]
        /\ \A d \in Dirs : dir'[d].manifest = dir[d].manifest /\ dir'[d].made = dir[d].made
    <3>1. ASSUME NEW r, dir' = [dir EXCEPT ![out(l)].result = r]
          PROVE  /\ \A d \in Dirs : d # out(l) => dir'[d] = dir[d]
                 /\ \A d \in Dirs : dir'[d].manifest = dir[d].manifest /\ dir'[d].made = dir[d].made
      BY <3>1
    <3> QED BY <2>1, <3>1
  <2>3. PICK place : child' = [child EXCEPT ![l].at = place]
    BY <1>7, Zenon DEF SaveResult, MoveTo
  <2>4. child[l].at \notin {"none", "ended"} /\ UNCHANGED <<command, parent, gpu>>
    BY <1>7 DEF SaveResult
  <2> QED BY <2>2, <2>3, <2>4
<1>8. CASE Leave(l)
  BY <1>8 DEF Leave
<1>9. CASE End(l)
  BY <1>9 DEF End
<1>10. CASE Dies(l)
  BY <1>10 DEF Dies
<1> QED BY <1>1, <1>2, <1>3, <1>4, <1>5, <1>6, <1>7, <1>8, <1>9, <1>10 DEF ChildStep

(* A parent begins in a directory that was not there, and judges a child    *)
(* that has ended.                                                         *)
LEMMA ParentWrites ==
    ASSUME TypeOK, NEW l \in Launches, ParentStep(l)
    PROVE  /\ Started(l)' => Started(l) \/ (~dir[out(l)].made /\ dir'[out(l)].made)
           /\ \/ dir'[out(l)].manifest = dir[out(l)].manifest
              \/ /\ dir'[out(l)].manifest = [by |-> l, pass |-> Acceptance(l)]
                 /\ Started(l)
           /\ parent'[l] = "judge" => child[l].at = "ended" /\ child' = child
<1> USE Outputs DEF TypeOK, Goes, ParentOnly, Started, DirRecords
<1>1. CASE Launch(l)
  BY <1>1 DEF Launch
<1>2. CASE ParentGate(l)
  BY <1>2 DEF ParentGate
<1>3. CASE MakeOutput(l)
  BY <1>3 DEF MakeOutput
<1>4. CASE Spawn(l)
  BY <1>4 DEF Spawn
<1>5. CASE ChildEnded(l)
  BY <1>5 DEF ChildEnded
<1>6. CASE TimeOut(l)
  BY <1>6 DEF TimeOut
<1>7. CASE Judge(l)
  <2> DEFINE m == [by |-> l, pass |-> Acceptance(l)]
  <2>1. UNCHANGED dir \/ dir' = [dir EXCEPT ![out(l)].manifest = m]
    BY <1>7, Zenon DEF Judge
  <2> HIDE DEF m
  <2>2. dir'[out(l)].manifest = dir[out(l)].manifest \/ dir'[out(l)].manifest = m
    BY <2>1
  <2>3. /\ Started(l) /\ \E place \in {"reported", "raised"} : parent' = [parent EXCEPT ![l] = place]
    BY <1>7 DEF Judge
  <2> QED BY <2>2, <2>3 DEF m
<1> QED BY <1>1, <1>2, <1>3, <1>4, <1>5, <1>6, <1>7 DEF ParentStep

(* What a child writes, and what it stands for.                            *)
LEMMA ChildWrites ==
    ASSUME TypeOK, Owners, Evidence, NEW l \in Launches, ChildStep(l)
    PROVE  /\ \A p \in dir'[out(l)].phases :
                 \/ p \in dir[out(l)].phases
                 \/ /\ p.by = l
                    /\ p.phase = "gpu_work_complete" =>
                          gpu'[l] = "done" /\ child'[l].at \in ForwardPlaces
           /\ \/ dir'[out(l)].result = dir[out(l)].result
              \/ /\ child[l].at \notin LastPlaces
                 /\ dir'[out(l)].result.by = l
                 /\ dir'[out(l)].result.checks =>
                       child'[l].checks /\ child'[l].at \in LastPlaces
           /\ child[l].at \in ForwardPlaces => child'[l].at \in ForwardPlaces /\ gpu'[l] = gpu[l]
           /\ child[l].at \in LastPlaces =>
                 child'[l].at \in LastPlaces /\ child'[l].checks = child[l].checks
           /\ child'[l].at = "teardown" => child'[l].code # -1
           /\ child'[l].at = "save" => dir'[out(l)].result \in Results
<1> USE Outputs DEF ChildOnly, scene, operator, At, MoveTo, Gives, Exits, Records, ForwardPlaces, LastPlaces
<1>0. /\ child \in [Launches -> ChildRecords] /\ gpu \in [Launches -> {"none", "running", "done", "lost"}]
      /\ dir \in [Dirs -> DirRecords]
  BY DEF TypeOK
<1> USE <1>0 DEF ChildRecords, DirRecords
<1>1. CASE ChildGate(l)
  BY <1>1 DEF ChildGate
<1>2. CASE ChildEnter(l)
  BY <1>2 DEF ChildEnter
<1>3. CASE StartWork(l)
  BY <1>3 DEF StartWork
<1>4. CASE WorkComplete(l)
  BY <1>4 DEF WorkComplete
<1>8. CASE Leave(l)
  BY <1>8 DEF Leave, Code
<1>9. CASE End(l)
  BY <1>9 DEF End
<1>10. CASE Dies(l)
  BY <1>10 DEF Dies
<1>5. CASE WorkRaises(l)
  <2>1. UNCHANGED dir \/ Records(l, "gpu_work_failed")
    BY <1>5 DEF WorkRaises
  <2>2. PICK place \in {"release", "raised"}, passes \in {FALSE} :
           child' = [child EXCEPT ![l].checks = passes, ![l].at = place]
    BY <1>5, Zenon DEF WorkRaises, Gives
  <2>3. child[l].at \in {"exercise", "wait"} /\ UNCHANGED gpu
    BY <1>5 DEF WorkRaises
  <2> QED BY <2>1, <2>2, <2>3
<1>6. CASE Release(l)
  <2>1. PICK allocated \in {0, 1}, passes \in BOOLEAN :
           /\ child' = [child EXCEPT ![l].checks = passes, ![l].at = "save"]
           /\ dir' = [dir EXCEPT
                 ![out(l)].phases = @ \cup {[by |-> l, phase |-> "resources_released"]},
                 ![out(l)].result = [by |-> l, whole |-> FALSE, checks |-> FALSE,
                                     allocated |-> allocated]]
    BY <1>6, Zenon DEF Release, Gives, TypeOK, ChildRecords
  <2>2. child[l].at = "release" /\ UNCHANGED gpu
    BY <1>6 DEF Release
  <2>3. dir'[out(l)].result = [by |-> l, whole |-> FALSE, checks |-> FALSE,
                               allocated |-> allocated]
    BY <2>1
  <2>4. dir'[out(l)].result \in Results
    BY <2>3 DEF Results
  <2> QED BY <2>1, <2>2, <2>3, <2>4
<1>7. CASE SaveResult(l)
  <2> DEFINE r == [dir[out(l)].result EXCEPT !.whole = TRUE, !.checks = child[l].checks]
  <2>1. child[l].at = "save" /\ UNCHANGED gpu /\ dir[out(l)].result \in Results
    BY <1>7 DEF SaveResult, Evidence
  <2>2. PICK place \in {"leave", "raised"} :
           /\ child' = [child EXCEPT ![l].at = place]
           /\ place = "leave" => dir' = [dir EXCEPT ![out(l)].result = r]
           /\ place = "raised" => UNCHANGED dir
    BY <1>7 DEF SaveResult
  <2>3. r.by = dir[out(l)].result.by /\ r.checks = child[l].checks
    BY <2>1 DEF Results
  <2>4. dir[out(l)].result.by = l
    <3>1. Started(l)
      BY <2>1 DEF TypeOK, Started, ParentPlaces
    <3>2. dir[out(l)].result.by \in Launches
      BY <2>1 DEF Results
    <3> QED BY <2>1, <3>1, <3>2, Outputs DEF Owners
  <2> HIDE DEF r
  <2>5. CASE place = "raised"
    BY <2>1, <2>2, <2>5
  <2>6. CASE place = "leave"
    <3>1. /\ dir'[out(l)].result = r /\ dir'[out(l)].phases = dir[out(l)].phases
          /\ child'[l].at = "leave" /\ child'[l].checks = child[l].checks
      BY <2>2, <2>6
    <3> QED BY <2>1, <2>3, <2>4, <2>6, <3>1
  <2> QED BY <2>2, <2>5, <2>6
<1> QED BY <1>1, <1>2, <1>3, <1>4, <1>5, <1>6, <1>7, <1>8, <1>9, <1>10 DEF ChildStep
-----------------------------------------------------------------------------
(* The invariant is inductive.                                             *)

LEMMA GateInit == Init => GateInv
<1> SUFFICES ASSUME Init PROVE GateInv
  OBVIOUS
<1>1. TypeOK
  BY GateAssumption DEF Init, TypeOK, NoChild, ChildRecords, ChildPlaces, ParentPlaces,
                        DirRecords, Verdicts
<1>2. \A d \in Dirs : dir[d].result \notin Results /\ dir[d].manifest \notin Manifests
  BY DEF Init, NoFile, Results, Manifests
<1>3. Owners /\ Evidence /\ PassIsClean /\ Admission
  BY <1>2 DEF Init, Owners, Evidence, PassIsClean, Admission, Started, NoChild, Blocked, Blocks
<1> QED BY <1>1, <1>3 DEF GateInv

LEMMA OwnersParent ==
    ASSUME TypeOK, Owners, NEW l \in Launches, ParentStep(l) PROVE Owners'
<1>1. /\ \A k \in Launches : out(k)' = out(k) /\ out(k) \in Dirs
      /\ \A k \in Launches : Started(k) => Started(k)'
      /\ \A k \in Launches : Started(k)' /\ ~Started(k) => k = l
  BY ParentEffect, Outputs DEF out, Started
<1>2. ASSUME NEW k \in Launches, Started(k)' PROVE dir'[out(k)].made
  <2>1. CASE Started(k)
    BY <1>1, <2>1, ParentEffect DEF Owners
  <2>2. CASE ~Started(k)
    BY <1>1, <1>2, <2>2, ParentWrites
  <2> QED BY <2>1, <2>2
<1>3. ASSUME NEW j \in Launches, NEW k \in Launches, Started(j)', Started(k)', out(j) = out(k)
      PROVE  j = k
  <2>1. CASE Started(j) /\ Started(k)
    BY <1>3, <2>1 DEF Owners
  <2>2. CASE ~Started(j)
    <3>1. j = l /\ ~dir[out(l)].made
      BY <1>1, <1>3, <2>2, ParentWrites
    <3>2. Started(k) => dir[out(k)].made
      BY DEF Owners
    <3> QED BY <1>1, <1>3, <3>1, <3>2
  <2>3. CASE ~Started(k)
    <3>1. k = l /\ ~dir[out(l)].made
      BY <1>1, <1>3, <2>3, ParentWrites
    <3>2. Started(j) => dir[out(j)].made
      BY DEF Owners
    <3> QED BY <1>1, <1>3, <3>1, <3>2
  <2> QED BY <2>1, <2>2, <2>3
<1>4. ASSUME NEW d \in Dirs PROVE
        /\ (\A p \in dir[d].phases : Started(p.by) /\ out(p.by) = d)'
        /\ (dir[d].result \in Results =>
               Started(dir[d].result.by) /\ out(dir[d].result.by) = d)'
  <2>1. /\ \A p \in dir[d].phases : p.by \in Launches
        /\ dir[d].result \in Results => dir[d].result.by \in Launches
    BY DEF TypeOK, DirRecords, Results
  <2> QED BY <1>1, <2>1, ParentEffect DEF Owners
<1>5. ASSUME NEW d \in Dirs, dir'[d].manifest \in Manifests
      PROVE  (Started(dir[d].manifest.by) /\ out(dir[d].manifest.by) = d)'
  <2>1. dir[d].manifest \in Manifests => dir[d].manifest.by \in Launches
    BY DEF Manifests
  <2>2. CASE dir'[d].manifest = dir[d].manifest
    BY <1>1, <1>5, <2>1, <2>2 DEF Owners
  <2>3. CASE d = out(l) /\ dir'[d].manifest.by = l /\ Started(l)
    BY <1>1, <2>3
  <2>4. CASE d = out(l)
    <3>1. \/ dir'[d].manifest = dir[d].manifest
          \/ dir'[d].manifest = [by |-> l, pass |-> Acceptance(l)] /\ Started(l)
      BY <2>4, ParentWrites
    <3> QED BY <2>2, <2>3, <2>4, <3>1
  <2>5. CASE d # out(l)
    BY <2>2, <2>5, ParentEffect
  <2> QED BY <2>4, <2>5
<1> QED BY <1>1, <1>2, <1>3, <1>4, <1>5 DEF Owners

LEMMA OwnersChild ==
    ASSUME TypeOK, Owners, Evidence, NEW l \in Launches, ChildStep(l) PROVE Owners'
<1>1. /\ \A k \in Launches : out(k)' = out(k) /\ out(k) \in Dirs
      /\ \A k \in Launches : Started(k)' <=> Started(k)
  BY ChildEffect, Outputs DEF out, Started
<1>2. Started(l)
  <2>1. child[l].at # "none"
    BY ChildEffect
  <2> QED BY <2>1 DEF TypeOK, Started, ParentPlaces
<1>3. ASSUME NEW d \in Dirs PROVE
        /\ (\A p \in dir[d].phases : Started(p.by) /\ out(p.by) = d)'
        /\ (dir[d].result \in Results =>
               Started(dir[d].result.by) /\ out(dir[d].result.by) = d)'
  <2>1. /\ \A p \in dir[d].phases : p.by \in Launches
        /\ dir[d].result \in Results => dir[d].result.by \in Launches
    BY DEF TypeOK, DirRecords, Results
  <2> QED BY <1>1, <1>2, <2>1, ChildEffect, ChildWrites DEF Owners
<1>4. \A d \in Dirs : dir[d].manifest \in Manifests => dir[d].manifest.by \in Launches
  BY DEF Manifests
<1> QED BY <1>1, <1>3, <1>4, ChildEffect DEF Owners

LEMMA OwnersStep == TypeOK /\ Owners /\ Evidence /\ [Next]_vars => Owners'
<1> SUFFICES ASSUME TypeOK, Owners, Evidence, [Next]_vars PROVE Owners'
  OBVIOUS
<1>1. CASE \E l \in Launches : ParentStep(l)
  BY <1>1, OwnersParent
<1>2. CASE \E l \in Launches : ChildStep(l)
  BY <1>2, OwnersChild
<1>3. CASE UNCHANGED <<command, parent, dir>>
  BY <1>3 DEF Owners, Started, out
<1> QED BY <1>1, <1>2, <1>3 DEF Next, EditRecord, GpuStep, scene, vars

LEMMA EvidenceParent ==
    ASSUME TypeOK, Owners, Evidence, NEW l \in Launches, ParentStep(l) PROVE Evidence'
<1>1. \A k \in Launches :
         /\ out(k)' = out(k) /\ out(k) \in Dirs
         /\ child[k].at # "none" => child'[k] = child[k]
  <2>1. child'[l] = child[l] \/ child[l].at = "none"
    BY ParentEffect DEF TypeOK
  <2> QED BY <2>1, ParentEffect, Outputs DEF out
<1>2. ASSUME NEW k \in Launches PROVE
        /\ child'[k].at = "teardown" => child'[k].code # -1
        /\ parent'[k] = "judge" => child'[k].at = "ended"
        /\ child'[k].at = "save" => dir'[out(k)].result \in Results
  <2>1. CASE child'[k] = child[k]
    <3>1. dir'[out(k)].result = dir[out(k)].result
      BY <1>1, ParentEffect
    <3>2. parent'[k] = "judge" => child'[k].at = "ended"
      <4>1. CASE k = l
        BY <2>1, <4>1, ParentWrites
      <4>2. CASE k # l
        BY <2>1, <4>2, ParentEffect DEF Evidence
      <4> QED BY <4>1, <4>2
    <3> QED BY <2>1, <3>1, <3>2 DEF Evidence
  <2>3. CASE child'[k] # child[k]
    <3>1. k = l /\ Spawn(l)
      BY <2>3, ParentEffect DEF ParentStep, Launch, ParentGate, MakeOutput, ChildEnded, TimeOut,
                                Judge, ParentOnly
    <3>2. parent'[l] = "waiting" /\ child'[l].at \in {"gate", "enter"}
      <4>1. PICK place \in {"gate", "enter"} : child' = [child EXCEPT ![l].at = place]
        BY <3>1, Zenon DEF Spawn
      <4> QED BY <3>1, <4>1 DEF Spawn, Goes, TypeOK, ChildRecords
    <3> QED BY <3>1, <3>2
  <2> QED BY <2>1, <2>3
<1>3. ASSUME NEW d \in Dirs PROVE
        /\ \A p \in dir'[d].phases :
              p.phase = "gpu_work_complete" =>
                 gpu'[p.by] = "done" /\ child'[p.by].at \in ForwardPlaces
        /\ dir'[d].result \in Results /\ dir'[d].result.checks =>
              /\ child'[dir'[d].result.by].checks
              /\ child'[dir'[d].result.by].at \in LastPlaces
  <2>1. /\ \A p \in dir[d].phases : p.by \in Launches
        /\ dir[d].result \in Results => dir[d].result.by \in Launches
    BY DEF TypeOK, DirRecords, Results
  <2>2. "none" \notin ForwardPlaces /\ "none" \notin LastPlaces
    BY DEF ForwardPlaces, LastPlaces
  <2> QED BY <1>1, <2>1, <2>2, ParentEffect DEF Evidence
<1> QED BY <1>1, <1>2, <1>3 DEF Evidence

LEMMA EvidenceChild ==
    ASSUME TypeOK, Owners, Evidence, NEW l \in Launches, ChildStep(l) PROVE Evidence'
<1>1. \A k \in Launches : out(k)' = out(k) /\ out(k) \in Dirs
  BY ChildEffect, Outputs DEF out
<1>2. ASSUME NEW k \in Launches PROVE
        /\ child'[k].at = "teardown" => child'[k].code # -1
        /\ parent'[k] = "judge" => child'[k].at = "ended"
        /\ child'[k].at = "save" => dir'[out(k)].result \in Results
  <2>1. CASE k = l
    BY <1>1, <2>1, ChildEffect, ChildWrites DEF Evidence
  <2>2. CASE k # l
    <3>1. child'[k] = child[k] /\ parent'[k] = parent[k]
      BY <2>2, ChildEffect
    <3>2. ASSUME child[k].at = "save" PROVE out(k) # out(l)
      <4>1. Started(k) /\ Started(l)
        <5>1. child[k].at # "none" /\ child[l].at # "none"
          BY <3>2, ChildEffect
        <5> QED BY <5>1 DEF TypeOK, Started, ParentPlaces
      <4> QED BY <2>2, <4>1 DEF Owners
    <3> QED BY <1>1, <3>1, <3>2, ChildEffect DEF Evidence
  <2> QED BY <2>1, <2>2
<1>3. ASSUME NEW d \in Dirs, NEW p \in dir'[d].phases, p.phase = "gpu_work_complete"
      PROVE  gpu'[p.by] = "done" /\ child'[p.by].at \in ForwardPlaces
  <2>1. \A q \in dir[d].phases : q.by \in Launches
    BY DEF TypeOK, DirRecords
  <2>2. CASE p \in dir[d].phases
    <3>1. gpu[p.by] = "done" /\ child[p.by].at \in ForwardPlaces /\ p.by \in Launches
      BY <1>3, <2>1, <2>2 DEF Evidence
    <3>2. CASE p.by = l
      BY <3>1, <3>2, ChildWrites
    <3>3. CASE p.by # l
      BY <3>1, <3>3, ChildEffect
    <3> QED BY <3>2, <3>3
  <2>3. CASE p \notin dir[d].phases
    <3>1. d = out(l)
      BY <2>3, ChildEffect
    <3> QED BY <1>3, <2>3, <3>1, ChildWrites
  <2> QED BY <2>2, <2>3
<1>4. ASSUME NEW d \in Dirs, dir'[d].result \in Results, dir'[d].result.checks
      PROVE  /\ child'[dir'[d].result.by].checks
             /\ child'[dir'[d].result.by].at \in LastPlaces
  <2>1. CASE dir'[d].result = dir[d].result
    <3> DEFINE k == dir[d].result.by
    <3>1. k \in Launches /\ child[k].checks /\ child[k].at \in LastPlaces
      BY <1>4, <2>1 DEF Evidence, Results
    <3> HIDE DEF k
    <3>2. child'[k].checks /\ child'[k].at \in LastPlaces
      <4>1. CASE k = l
        BY <3>1, <4>1, ChildWrites
      <4>2. CASE k # l
        BY <3>1, <4>2, ChildEffect
      <4> QED BY <4>1, <4>2
    <3> QED BY <2>1, <3>2 DEF k
  <2>2. CASE dir'[d].result # dir[d].result
    <3>1. d = out(l)
      BY <2>2, ChildEffect
    <3> QED BY <1>4, <2>2, <3>1, ChildWrites
  <2> QED BY <2>1, <2>2
<1> QED BY <1>1, <1>2, <1>3, <1>4 DEF Evidence

LEMMA EvidenceStep == TypeOK /\ Owners /\ Evidence /\ [Next]_vars => Evidence'
<1> SUFFICES ASSUME TypeOK, Owners, Evidence, [Next]_vars PROVE Evidence'
  OBVIOUS
<1>1. CASE \E l \in Launches : ParentStep(l)
  BY <1>1, EvidenceParent
<1>2. CASE \E l \in Launches : ChildStep(l)
  BY <1>2, EvidenceChild
<1>3. CASE UNCHANGED <<command, parent, child, gpu, dir>>
  BY <1>3 DEF Evidence, out
<1>4. ASSUME NEW l \in Launches, GpuStep(l) PROVE Evidence'
  <2>1. /\ UNCHANGED <<command, parent, child, dir>>
        /\ \A k \in Launches : gpu[k] = "done" => gpu'[k] = "done"
    BY <1>4 DEF GpuStep, scene, TypeOK
  <2>2. \A d \in Dirs : \A p \in dir[d].phases : p.by \in Launches
    BY DEF TypeOK, DirRecords
  <2> QED BY <2>1, <2>2 DEF Evidence, out
<1> QED BY <1>1, <1>2, <1>3, <1>4 DEF Next, EditRecord, scene, vars

(* Judge passes a child on its own evidence, and that child is at rest.     *)
LEMMA AcceptedIsClean ==
    ASSUME TypeOK, Owners, Evidence, NEW l \in Launches, parent[l] \in {"judge", "judge late"},
           Acceptance(l)
    PROVE  /\ child[l].at = "ended" /\ child[l].code = 0 /\ child[l].checks
           /\ gpu[l] = "done"
           /\ dir[out(l)].result.allocated = 0
<1>1. Started(l) /\ out(l) \in Dirs
  BY Outputs DEF Started
<1>2. dir[out(l)].result \in Results /\ dir[out(l)].phases \subseteq [by : Launches, phase : Phases]
  BY <1>1 DEF Acceptance, TypeOK, DirRecords
<1>3. dir[out(l)].result.by = l
  BY <1>1, <1>2 DEF Owners, Results
<1>4. \E p \in dir[out(l)].phases : p.phase = "gpu_work_complete"
  BY DEF Acceptance, Required
<1>5. PICK p \in dir[out(l)].phases : p.phase = "gpu_work_complete"
  BY <1>4
<1>6. p.by = l
  BY <1>1, <1>2, <1>5 DEF Owners
<1>7. gpu[l] = "done"
  BY <1>1, <1>5, <1>6 DEF Evidence
<1>8. child[l].checks
  BY <1>1, <1>2, <1>3 DEF Evidence, Acceptance
<1>9. child[l].at = "ended"
  BY DEF Evidence, Acceptance
<1> QED BY <1>7, <1>8, <1>9 DEF Acceptance

CleanExit(l, d) ==
    /\ out(l) = d /\ child[l].at = "ended" /\ child[l].code = 0
    /\ gpu[l] = "done" /\ child[l].checks
    /\ dir[d].result.allocated = 0

LEMMA CleanStep ==
    TypeOK /\ Owners /\ Evidence /\ PassIsClean /\ [Next]_vars => PassIsClean'
<1> SUFFICES ASSUME TypeOK, Owners, Evidence, PassIsClean, [Next]_vars, NEW d \in Dirs, NEW l,
                   dir'[d].manifest # NoFile, dir'[d].manifest.pass, l = dir'[d].manifest.by
            PROVE  CleanExit(l, d)'
  BY Zenon DEF PassIsClean, CleanExit
<1>2. dir'[d].manifest \in Manifests
  BY TypeStep DEF TypeOK, DirRecords
<1>5. l \in Launches
  BY <1>2 DEF Manifests
<1>3. CASE dir'[d].manifest = dir[d].manifest
  <2>1. CleanExit(l, d)
    BY <1>3, Zenon DEF PassIsClean, CleanExit
  <2>2. Started(l)
    BY <1>2, <1>3 DEF Owners
  <2>3. ASSUME NEW k \in Launches, ParentStep(k)
        PROVE  /\ out(l)' = d /\ child'[l] = child[l] /\ gpu'[l] = gpu[l]
               /\ dir'[d].result = dir[d].result
    <3>1. parent[l] # "spawn"
      BY <1>5, <2>1 DEF TypeOK, CleanExit
    <3> QED BY <1>5, <2>1, <2>3, <3>1, ParentEffect DEF out, CleanExit
  <2>4. ASSUME NEW k \in Launches, ChildStep(k)
        PROVE  /\ out(l)' = d /\ child'[l] = child[l] /\ gpu'[l] = gpu[l]
               /\ dir'[d].result = dir[d].result
    <3>1. k # l
      BY <2>1, <2>4, ChildEffect DEF CleanExit
    <3>2. out(k) # d
      <4>1. Started(k)
        <5>1. child[k].at # "none"
          BY <2>4, ChildEffect
        <5> QED BY <5>1 DEF TypeOK, Started, ParentPlaces
      <4> QED BY <1>5, <2>1, <2>2, <3>1, <4>1 DEF Owners, CleanExit
    <3> QED BY <1>5, <2>1, <2>4, <3>1, <3>2, ChildEffect DEF out, CleanExit
  <2>5. ASSUME NEW k \in Launches, GpuStep(k)
        PROVE  /\ out(l)' = d /\ child'[l] = child[l] /\ gpu'[l] = gpu[l]
               /\ dir'[d].result = dir[d].result
    BY <1>5, <2>1, <2>5 DEF GpuStep, scene, out, TypeOK, CleanExit
  <2>6. CASE UNCHANGED <<command, child, gpu, dir>>
    BY <2>1, <2>6 DEF out, CleanExit
  <2> QED BY <2>1, <2>3, <2>4, <2>5, <2>6 DEF Next, EditRecord, scene, vars, CleanExit, out
<1>4. CASE dir'[d].manifest # dir[d].manifest
  <2>1. PICK k \in Launches : ParentStep(k)
    BY <1>4, ChildEffect DEF Next, EditRecord, GpuStep, vars
  <2>2. d = out(k) /\ dir'[d].manifest = [by |-> k, pass |-> Acceptance(k)]
    BY <1>4, <2>1, ParentEffect, ParentWrites
  <2>3. Acceptance(k) /\ parent[k] \in {"judge", "judge late"}
    <3>1. Acceptance(k)
      BY <2>2
    <3>2. Judge(k)
      <4>1. ASSUME MakeOutput(k) PROVE dir'[d].manifest = dir[d].manifest
        BY <4>1, Outputs DEF MakeOutput, TypeOK, DirRecords
      <4>2. dir' # dir
        BY <1>4
      <4> QED BY <1>4, <2>1, <4>1, <4>2 DEF ParentStep, Launch, ParentGate, Spawn, ChildEnded,
                                            TimeOut, ParentOnly
    <3> QED BY <3>1, <3>2 DEF Judge
  <2>4. parent[k] # "spawn"
    BY <2>3
  <2>5. /\ out(k)' = d /\ child'[k] = child[k] /\ gpu' = gpu
        /\ dir'[d].result = dir[d].result
    BY <2>1, <2>2, <2>4, ParentEffect DEF out
  <2>6. l = k
    BY <2>2
  <2>7. /\ child[k].at = "ended" /\ child[k].code = 0 /\ child[k].checks
        /\ gpu[k] = "done" /\ dir[d].result.allocated = 0
    BY <2>2, <2>3, AcceptedIsClean
  <2> QED BY <2>5, <2>6, <2>7 DEF CleanExit
<1> QED BY <1>3, <1>4

(* Nothing but an edit changes the record, and a launch gets behind its     *)
(* last gate only while the record lets it.                                *)
LEMMA AdmissionStep == TypeOK /\ Admission /\ [Next]_vars => Admission'
<1> SUFFICES ASSUME TypeOK, Admission, [Next]_vars, Blocked',
                    NEW l \in Launches, CanWork(l)'
             PROVE  l \in admitted'
  BY DEF Admission
<1>1. CASE EditRecord
  <2>1. CanWork(l) /\ PastGates(l)
    BY <1>1, Outputs DEF EditRecord, CanWork, PastGates, kind, scene
  <2>2. CASE Blocked
    BY <1>1, <2>1, <2>2 DEF EditRecord, Admission, Blocked, Blocks
  <2>3. CASE ~Blocked
    BY <1>1, <2>1, <2>3 DEF EditRecord, Blocked, Blocks
  <2> QED BY <2>2, <2>3
<1>2. ASSUME UNCHANGED <<record, admitted, command>>, CanWork(l) PROVE l \in admitted'
  BY <1>2 DEF Admission, Blocked
<1>3. ASSUME NEW k \in Launches, ParentStep(k) PROVE l \in admitted'
  <2>1. UNCHANGED <<record, admitted, command>>
    BY <1>3 DEF ParentStep, Launch, ParentGate, MakeOutput, Spawn, ChildEnded, TimeOut, Judge,
                ParentOnly, scene, operator
  <2>2. CanWork(l)
    <3>1. CASE kind(l) = "native"
      <4>1. child'[l].at \in {"enter", "exercise"}
        BY <2>1, <3>1 DEF CanWork, kind
      <4>2. CASE child'[l] = child[l]
        BY <3>1, <4>1, <4>2 DEF CanWork
      <4>3. CASE child'[l] # child[l]
        <5>1. k = l /\ Spawn(l)
          BY <1>3, <4>3, ParentEffect DEF ParentStep, Launch, ParentGate, MakeOutput,
                                          ChildEnded, TimeOut, Judge, ParentOnly
        <5>2. child' = [child EXCEPT ![l].at = "gate"]
          BY <3>1, <5>1 DEF Spawn
        <5>3. child'[l].at = "gate"
          BY <5>2 DEF TypeOK, ChildRecords
        <5> QED BY <4>1, <5>3
      <4> QED BY <4>2, <4>3
    <3>2. CASE kind(l) = "transition"
      <4>1. parent'[l] \notin {"idle", "gate", "refused"}
        BY <2>1, <3>2 DEF CanWork, kind
      <4>2. CASE k # l
        BY <1>3, <3>2, <4>1, <4>2, ParentEffect DEF CanWork
      <4>3. CASE k = l
        BY <1>3, <2>1, <3>2, <4>1, <4>3 DEF CanWork, ParentStep, Launch, ParentGate, MakeOutput,
           Spawn, ChildEnded, TimeOut, Judge, Goes, TypeOK, Blocked
      <4> QED BY <4>2, <4>3
    <3> QED BY <2>1, <3>1, <3>2 DEF CanWork, kind
  <2> QED BY <1>2, <2>1, <2>2
<1>4. ASSUME NEW k \in Launches, ChildStep(k) PROVE l \in admitted'
  <2>1. UNCHANGED <<record, admitted, command, parent>>
    BY <1>4 DEF ChildStep, ChildGate, ChildEnter, StartWork, WorkComplete, WorkRaises, Release,
                SaveResult, Leave, End, Dies, ChildOnly, scene, operator
  <2>2. CanWork(l)
    <3>1. CASE kind(l) = "native"
      <4>1. child'[l].at \in {"enter", "exercise"}
        BY <2>1, <3>1 DEF CanWork, kind
      <4>2. CASE k # l
        BY <1>4, <3>1, <4>1, <4>2, ChildEffect DEF CanWork
      <4>3. CASE k = l
        <5>1. Blocked
          BY <2>1 DEF Blocked
        <5>2. child \in [Launches -> ChildRecords]
          BY DEF TypeOK
        <5>3. ChildEnter(l)
          <6>1. ~WorkRaises(l)
            <7>1. SUFFICES ASSUME WorkRaises(l) PROVE FALSE
              OBVIOUS
            <7>2. PICK place \in {"release", "raised"}, passes \in BOOLEAN :
                     child' = [child EXCEPT ![l].checks = passes, ![l].at = place]
              BY <7>1, Zenon DEF WorkRaises, Gives
            <7> QED BY <4>1, <5>2, <7>2 DEF ChildRecords
          <6>2. ~SaveResult(l)
            BY <4>1, <5>2 DEF SaveResult, MoveTo, ChildRecords
          <6>3. ~Release(l) /\ ~WorkComplete(l)
            <7>1. SUFFICES ASSUME Release(l) \/ WorkComplete(l) PROVE FALSE
              OBVIOUS
            <7>2. PICK place \in {"save", "release"}, passes \in BOOLEAN :
                     child' = [child EXCEPT ![l].checks = passes, ![l].at = place]
              BY <7>1, Zenon DEF Release, WorkComplete, Gives, TypeOK, ChildRecords
            <7> QED BY <4>1, <5>2, <7>2 DEF ChildRecords
          <6>4. ~Leave(l) /\ ~End(l) /\ ~Dies(l) /\ ~StartWork(l) /\ ~ChildGate(l)
            BY <4>1, <5>1, <5>2 DEF Leave, End, Dies, StartWork, ChildGate, MoveTo, Exits, ChildRecords
          <6> QED BY <1>4, <4>3, <6>1, <6>2, <6>3, <6>4 DEF ChildStep
        <5> QED BY <3>1, <5>3 DEF ChildEnter, At, CanWork
      <4> QED BY <4>2, <4>3
    <3>2. CASE kind(l) # "native"
      BY <2>1, <3>2 DEF CanWork, kind
    <3> QED BY <3>1, <3>2
  <2> QED BY <1>2, <2>1, <2>2
<1>5. CASE UNCHANGED vars
  BY <1>2, <1>5 DEF vars, CanWork, kind
<1>6. ASSUME NEW k \in Launches, GpuStep(k) PROVE l \in admitted'
  BY <1>2, <1>6 DEF GpuStep, scene, operator, CanWork, kind
<1> QED BY <1>1, <1>3, <1>4, <1>5, <1>6 DEF Next
LEMMA GateStep == GateInv /\ [Next]_vars => GateInv'
BY TypeStep, OwnersStep, EvidenceStep, CleanStep, AdmissionStep DEF GateInv

(* The invariant holds of every behaviour: no assumption is made of the     *)
(* order of the processes' steps, nor of how many launches there are.       *)
THEOREM GateInvariant == Spec => []GateInv
BY GateInit, GateStep, PTL DEF Spec

(* A report that says pass stands for a child that left normally, with its  *)
(* checks holding, its memory free and its GPU work done.                   *)
THEOREM ReportsAreClean == Spec => []PassIsClean
<1>1. GateInv => PassIsClean
  BY DEF GateInv
<1> QED BY <1>1, GateInvariant, PTL

(* The evidence in an output directory is one launch's.                    *)
THEOREM EvidenceIsOwn == Spec => []OwnEvidence
<1>1. ASSUME GateInv, NEW d \in Dirs
      PROVE Cardinality({p.by : p \in dir[d].phases}
                        \cup ({dir[d].result.by, dir[d].manifest.by} \ {"nobody"})) <= 1
  <2> DEFINE S == {p.by : p \in dir[d].phases}
                  \cup ({dir[d].result.by, dir[d].manifest.by} \ {"nobody"})
  <2>1. ASSUME NEW k \in S PROVE k \in Launches /\ Started(k) /\ out(k) = d
    <3>1. CASE k \in {p.by : p \in dir[d].phases}
      BY <1>1, <3>1 DEF GateInv, TypeOK, DirRecords, Owners
    <3>2. CASE k = dir[d].result.by /\ k # "nobody"
      <4>1. dir[d].result \in Results
        BY <1>1, <3>2 DEF GateInv, TypeOK, DirRecords, NoFile
      <4> QED BY <1>1, <3>2, <4>1 DEF GateInv, Owners, Results
    <3>3. CASE k = dir[d].manifest.by /\ k # "nobody"
      <4>1. dir[d].manifest \in Manifests
        BY <1>1, <3>3 DEF GateInv, TypeOK, DirRecords, NoFile
      <4> QED BY <1>1, <3>3, <4>1 DEF GateInv, Owners, Manifests
    <3> QED BY <3>1, <3>2, <3>3
  <2> HIDE DEF S
  <2>2. ASSUME NEW k \in S, NEW m \in S PROVE k = m
    BY <1>1, <2>1 DEF GateInv, Owners
  <2>3. S = {} \/ \E k : S = {k}
    <3>1. CASE S = {}
      BY <3>1
    <3>2. CASE S # {}
      <4>1. PICK k \in S : TRUE
        BY <3>2
      <4>2. S = {k}
        BY <2>2, <4>1
      <4> QED BY <4>2
    <3> QED BY <3>1, <3>2
  <2>4. Cardinality(S) <= 1
    <3>1. CASE S = {}
      BY <3>1, FS_EmptySet
    <3>2. ASSUME NEW k, S = {k} PROVE Cardinality(S) <= 1
      <4>1. Cardinality({k}) = 1
        BY FS_Singleton
      <4> QED BY <3>2, <4>1
    <3> QED BY <2>3, <3>1, <3>2
  <2> QED BY <2>4 DEF S
<1>2. GateInv => OwnEvidence
  BY <1>1 DEF OwnEvidence, GateInv
<1> QED BY <1>2, GateInvariant, PTL

(* Once the record blocks, no gated launch starts GPU work but those that   *)
(* were past their last gate.                                              *)
THEOREM HaltIsObeyed == Spec => HaltHolds
<1>1. ASSUME GateInv, [Next]_vars, NEW l \in Launches,
             gpu[l] = "none", gpu'[l] = "running", Blocked
      PROVE  kind(l) = "probe" \/ l \in admitted
  <2>1. StartWork(l)
    <3>1. PICK k \in Launches : ChildStep(k) \/ GpuStep(k)
      BY <1>1 DEF Next, ParentStep, EditRecord, Launch, ParentGate, MakeOutput, Spawn, ChildEnded,
                  TimeOut, Judge, ParentOnly, vars
    <3>2. ~GpuStep(k)
      BY <1>1 DEF GpuStep, GateInv, TypeOK
    <3>3. k = l
      BY <1>1, <3>1, <3>2, ChildEffect DEF GateInv
    <3> QED BY <1>1, <3>1, <3>2, <3>3 DEF ChildStep, ChildGate, ChildEnter, WorkComplete,
               WorkRaises, Release, SaveResult, Leave, End, Dies
  <2>2. child[l].at = "exercise" /\ kind(l) \in Kinds
    BY <1>1, <2>1, Outputs DEF StartWork, At, GateInv
  <2>3. parent[l] \notin {"idle", "gate", "refused"}
    BY <1>1, <2>2 DEF GateInv, TypeOK
  <2> QED BY <1>1, <2>2, <2>3 DEF GateInv, Admission, CanWork, Kinds
<1>2. GateInv /\ [Next]_vars =>
         [\A l \in Launches :
            gpu[l] = "none" /\ gpu'[l] = "running" /\ Blocked
               => kind(l) = "probe" \/ l \in admitted]_vars
  BY <1>1
<1> QED BY <1>2, GateInvariant, PTL DEF Spec, HaltHolds
=============================================================================
