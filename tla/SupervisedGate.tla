--------------------------- MODULE SupervisedGate ---------------------------
(***************************************************************************)
(* GPU gates of the scripts: the halt record every gate reads              *)
(* (gpu_safety.py), the parent process that starts one child, waits for it  *)
(* for a bounded time and judges it by the evidence in its output directory *)
(* (supervise of validate_rocm_lifecycle.py), and the child that does the   *)
(* GPU work and leaves that evidence.                                       *)
(*                                                                         *)
(* A launch is one invocation of a script of one of three kinds:            *)
(*   "native"      validate_native_stage_nrplan.py, which reads the halt    *)
(*                 record in the parent and again in the child and turns an *)
(*                 exception of its GPU work into a failed check;           *)
(*   "transition"  benchmark_scale_transitions.py, which reads it in the    *)
(*                 parent only;                                             *)
(*   "probe"       validate_rocm_lifecycle.py, which never reads it.        *)
(* The operator edits the record at any time, and nothing keeps two         *)
(* launches apart.  The parent kills and retries nothing: a child that      *)
(* outlives its parent's patience stays, on the host and on the GPU.        *)
(***************************************************************************)
EXTENDS Integers, FiniteSets

CONSTANTS
    Launches,   \* invocations of scripts
    Dirs,       \* output directories
    CommandLines, \* the script and the --output of each launch, as functions
    Scenarios,  \* what may go wrong, one set of a behaviour's flaws each:
                \* "numeric" a comparison fails, "nan" the result holds a NaN,
                \* "leak" memory stays allocated, "raise" the GPU work raises,
                \* "crash" the child dies
    MaxEdits    \* bound: edits of the halt record

Kinds == {"native", "transition", "probe"}
Flaws == {"numeric", "nan", "leak", "raise", "crash"}

ASSUME GateAssumption ==
    /\ CommandLines \subseteq [Launches -> [script : Kinds, output : Dirs]]
    /\ Scenarios \subseteq SUBSET Flaws
    /\ MaxEdits \in Nat

VARIABLES
    mayFail,    \* the scenario of the behaviour
    command,    \* the script and the output directory of each launch
    record,     \* what the halt record says to a gate that is not a profiler's
    edits,
    admitted,   \* history: while the record blocks, the launches that were past
                \* their last gate when it began to
    parent,     \* where each parent process is
    child,      \* where each child process is, its checks and its exit code
    gpu,        \* the GPU work of each launch
    dir         \* the evidence in each directory

vars == <<mayFail, command, record, edits, admitted, parent, child, gpu, dir>>
scene == <<mayFail, command>>
operator == <<record, edits, admitted>>

-----------------------------------------------------------------------------
(* The halt record and the evidence.                                       *)

kind(l) == command[l].script
out(l) == command[l].output

(* require_gpu_tests_enabled: halted, or the last gate recorded that it     *)
(* authorizes no other; a missing file or field blocks nothing ("clear").   *)
Verdicts == {"clear", "halted", "unauthorized"}
Blocks(verdict) == verdict = "halted" \/ verdict = "unauthorized"
Blocked == Blocks(record)

(* The gates behind which a launch does its GPU work.                       *)
PastGates(l) ==
    CASE kind(l) = "native" -> child[l].at \notin {"none", "gate"}
      [] kind(l) = "transition" -> parent[l] \notin {"idle", "gate", "refused"}
      [] OTHER -> TRUE

NoFile == [by |-> "nobody"]
Required == {"gpu_work_complete", "resources_released", "python_atexit"}

NoChild == [at |-> "none", checks |-> FALSE, code |-> -1]
Code(passes) == IF passes THEN 0 ELSE 2

Init ==
    /\ mayFail \in Scenarios
    /\ command \in CommandLines
    /\ record = "clear" /\ edits = 0 /\ admitted = {}
    /\ parent = [l \in Launches |-> "idle"]
    /\ child = [l \in Launches |-> NoChild]
    /\ gpu = [l \in Launches |-> "none"]
    /\ dir = [d \in Dirs |-> [made |-> FALSE, phases |-> {},
                              result |-> NoFile, manifest |-> NoFile]]

(* The operator edits GPU_PROFILE_HALT.json, also to record a gate's verdict. *)
EditRecord ==
    /\ edits < MaxEdits
    /\ edits' = edits + 1
    /\ record' \in Verdicts \ {record}
    /\ admitted' = CASE ~Blocks(record') -> {}
                     [] Blocked -> admitted
                     [] OTHER -> {l \in Launches : PastGates(l)}
    /\ UNCHANGED <<scene, parent, child, gpu, dir>>

-----------------------------------------------------------------------------
(* The parent: main and supervise.                                         *)

Goes(l, place) == parent' = [parent EXCEPT ![l] = place]
ParentOnly == UNCHANGED <<scene, operator, child, gpu, dir>>

(* The command line and the CPU preflight.                                 *)
Launch(l) ==
    /\ parent[l] = "idle"
    /\ Goes(l, IF kind(l) = "probe" THEN "make" ELSE "gate")
    /\ ParentOnly

ParentGate(l) ==
    /\ parent[l] = "gate"
    /\ Goes(l, IF Blocked THEN "refused" ELSE "make")
    /\ ParentOnly

\* Mutation: mkdir(exist_ok=True), and the logs opened for writing.
ReuseOutput(l) ==
    /\ parent[l] = "make"
    /\ Goes(l, "spawn")
    /\ dir' = [dir EXCEPT ![out(l)].made = TRUE]
    /\ UNCHANGED <<scene, operator, child, gpu>>

(* mkdir(exist_ok=False), and the logs opened with 'x'.                     *)
MakeOutput(l) ==
    /\ parent[l] = "make"
    /\ Goes(l, IF dir[out(l)].made THEN "refused" ELSE "spawn")
    /\ dir' = [dir EXCEPT ![out(l)].made = TRUE]
    /\ UNCHANGED <<scene, operator, child, gpu>>

(* Popen, process.json.                                                    *)
Spawn(l) ==
    /\ parent[l] = "spawn"
    /\ Goes(l, "waiting")
    /\ child' = [child EXCEPT ![l].at = IF kind(l) = "native" THEN "gate" ELSE "enter"]
    /\ UNCHANGED <<scene, operator, gpu, dir>>

ChildEnded(l) ==
    /\ parent[l] = "waiting" /\ child[l].at = "ended"
    /\ Goes(l, "judge")
    /\ ParentOnly

(* TimeoutExpired: the child is left running.                              *)
TimeOut(l) ==
    /\ parent[l] = "waiting" /\ child[l].at # "ended"
    /\ Goes(l, "judge late")
    /\ ParentOnly

\* Mutation: a saved result that passes is taken for a successful exit.
AcceptanceOfResult(l) ==
    LET files == dir[out(l)] IN
    /\ files.result # NoFile
    /\ files.result.checks /\ files.result.allocated = 0

(* acceptance: exit, checks, memory and phases must all agree.              *)
Acceptance(l) ==
    LET files == dir[out(l)] IN
    /\ parent[l] = "judge" /\ child[l].code = 0
    /\ files.result # NoFile
    /\ files.result.checks /\ files.result.allocated = 0
    /\ Required \subseteq {p.phase : p \in files.phases}

(* child.json is parsed if it exists: one that was cut short, or is still   *)
(* being written by a child that was left running, ends the parent before   *)
(* it has saved its report.                                                 *)
Judge(l) ==
    /\ parent[l] \in {"judge", "judge late"}
    /\ LET files == dir[out(l)] IN
       IF files.result # NoFile /\ ~files.result.whole
       THEN Goes(l, "raised") /\ UNCHANGED dir
       ELSE /\ Goes(l, "reported")
            /\ dir' = [dir EXCEPT ![out(l)].manifest =
                                     [by |-> l, pass |-> Acceptance(l)]]
    /\ UNCHANGED <<scene, operator, child, gpu>>

-----------------------------------------------------------------------------
(* The child.                                                              *)

At(l, place) == child[l].at = place
MoveTo(l, place) == child' = [child EXCEPT ![l].at = place]
Gives(l, passes, place) ==
    child' = [child EXCEPT ![l].checks = passes, ![l].at = place]
Exits(l, place, code) ==
    child' = [child EXCEPT ![l].at = place, ![l].code = code]
Records(l, phase) ==
    dir' = [dir EXCEPT ![out(l)].phases = @ \cup {[by |-> l, phase |-> phase]}]
ChildOnly == UNCHANGED <<scene, operator, parent>>

\* Mutation: the native child relies on its parent's reading of the record.
ChildGateParents(l) ==
    /\ At(l, "gate")
    /\ MoveTo(l, "enter")
    /\ ChildOnly /\ UNCHANGED <<gpu, dir>>

(* A native child reads the record again, before it registers its last phase. *)
ChildGate(l) ==
    /\ At(l, "gate")
    /\ IF Blocked THEN Exits(l, "ended", 1) ELSE MoveTo(l, "enter")
    /\ ChildOnly /\ UNCHANGED <<gpu, dir>>

ChildEnter(l) ==
    /\ At(l, "enter")
    /\ MoveTo(l, "exercise")
    /\ Records(l, "child_enter")
    /\ ChildOnly /\ UNCHANGED gpu

StartWork(l) ==
    /\ At(l, "exercise")
    /\ MoveTo(l, "wait")
    /\ gpu' = [gpu EXCEPT ![l] = "running"]
    /\ ChildOnly /\ UNCHANGED dir

(* The results are compared once the work is complete.                     *)
WorkComplete(l) ==
    /\ At(l, "wait") /\ gpu[l] = "done"
    /\ \E passes \in IF "numeric" \in mayFail THEN BOOLEAN ELSE {TRUE} :
          Gives(l, passes, "release")
    /\ Records(l, "gpu_work_complete")
    /\ ChildOnly /\ UNCHANGED gpu

(* The GPU work raises: a native gate waits for the device without a limit  *)
(* and sees it fail or complete wrongly, records the failed phase and       *)
(* releases; the others give up after a bounded wait, with their work still *)
(* running, and leave.                                                      *)
WorkRaises(l) ==
    /\ "raise" \in mayFail
    /\ At(l, "exercise") \/ At(l, "wait")
    /\ IF kind(l) = "native"
       THEN /\ gpu[l] # "running"
            /\ Gives(l, FALSE, "release")
            /\ Records(l, "gpu_work_failed")
       ELSE Gives(l, FALSE, "raised") /\ UNCHANGED dir
    /\ ChildOnly /\ UNCHANGED gpu

(* A native gate and a transition count memory that stays allocated as a    *)
(* failed check; the probe only writes it down.  child.json is created.     *)
Release(l) ==
    /\ At(l, "release")
    /\ \E allocated \in IF "leak" \in mayFail THEN {0, 1} ELSE {0} :
          /\ Gives(l, child[l].checks /\ (kind(l) = "probe" \/ allocated = 0), "save")
          /\ dir' = [dir EXCEPT
                ![out(l)].phases = @ \cup {[by |-> l, phase |-> "resources_released"]},
                ![out(l)].result = [by |-> l, whole |-> FALSE, checks |-> FALSE,
                                    allocated |-> allocated]]
    /\ ChildOnly /\ UNCHANGED gpu

(* json.dump writes in pieces, and refuses a NaN when it meets one.         *)
SaveResult(l) ==
    /\ At(l, "save")
    /\ \/ /\ MoveTo(l, "leave")
          /\ dir' = [dir EXCEPT ![out(l)].result =
                                  [@ EXCEPT !.whole = TRUE, !.checks = child[l].checks]]
       \/ /\ "nan" \in mayFail
          /\ MoveTo(l, "raised")
          /\ UNCHANGED dir
    /\ ChildOnly /\ UNCHANGED gpu

(* SystemExit or an exception, then atexit, then the interpreter and the    *)
(* HIP runtime are taken down.                                             *)
Leave(l) ==
    /\ At(l, "leave") \/ At(l, "raised")
    /\ Exits(l, "teardown", IF At(l, "leave") THEN Code(child[l].checks) ELSE 1)
    /\ Records(l, "python_atexit")
    /\ ChildOnly /\ UNCHANGED gpu

End(l) ==
    /\ At(l, "teardown")
    /\ MoveTo(l, "ended")
    /\ ChildOnly /\ UNCHANGED <<gpu, dir>>

(* The process dies wherever it is, in the teardown of the runtime too.     *)
Dies(l) ==
    /\ "crash" \in mayFail
    /\ child[l].at \notin {"none", "ended"}
    /\ Exits(l, "ended", 3)
    /\ ChildOnly /\ UNCHANGED <<gpu, dir>>

(* The GPU; a device reset fails the work in flight.                        *)
GpuStep(l) ==
    /\ gpu[l] = "running"
    /\ \E state \in {"done"} \cup IF "raise" \in mayFail THEN {"lost"} ELSE {} :
          gpu' = [gpu EXCEPT ![l] = state]
    /\ UNCHANGED <<scene, operator, parent, child, dir>>

ParentStep(l) ==
    \/ Launch(l) \/ ParentGate(l) \/ MakeOutput(l) \/ Spawn(l)
    \/ ChildEnded(l) \/ TimeOut(l) \/ Judge(l)

ChildStep(l) ==
    \/ ChildGate(l) \/ ChildEnter(l) \/ StartWork(l) \/ WorkComplete(l) \/ WorkRaises(l)
    \/ Release(l) \/ SaveResult(l) \/ Leave(l) \/ End(l) \/ Dies(l)

Next ==
    \/ EditRecord
    \/ \E l \in Launches : ParentStep(l) \/ ChildStep(l) \/ GpuStep(l)

Spec == Init /\ [][Next]_vars

(* A parent that was started runs on, and its wait is bounded; nothing is   *)
(* assumed of the children and of the GPU.                                  *)
Supervised(l) ==
    MakeOutput(l) \/ Spawn(l) \/ ChildEnded(l) \/ TimeOut(l) \/ Judge(l)

FairSpec == Spec /\ \A l \in Launches : WF_vars(Supervised(l))
-----------------------------------------------------------------------------
(* Properties.                                                             *)

ParentPlaces == {"idle", "gate", "refused", "make", "spawn", "waiting", "judge",
                 "judge late", "reported", "raised"}
ChildPlaces == {"none", "gate", "enter", "exercise", "wait", "release", "save",
                "leave", "raised", "teardown", "ended"}
Phases == Required \cup {"child_enter", "gpu_work_failed"}
Results == [by : Launches, whole : BOOLEAN, checks : BOOLEAN, allocated : {0, 1}]
Manifests == [by : Launches, pass : BOOLEAN]
ChildRecords == [at : ChildPlaces, checks : BOOLEAN, code : -1 .. 3]
DirRecords == [made : BOOLEAN, phases : SUBSET [by : Launches, phase : Phases],
               result : Results \cup {NoFile}, manifest : Manifests \cup {NoFile}]

(* Types; a launch has a child once it was spawned, and a child that has    *)
(* ended has an exit code of its own.                                       *)
TypeOK ==
    /\ mayFail \in Scenarios /\ command \in CommandLines
    /\ record \in Verdicts /\ edits \in 0 .. MaxEdits /\ admitted \subseteq Launches
    /\ parent \in [Launches -> ParentPlaces]
    /\ child \in [Launches -> ChildRecords]
    /\ gpu \in [Launches -> {"none", "running", "done", "lost"}]
    /\ dir \in [Dirs -> DirRecords]
    /\ \A l \in Launches :
          /\ child[l].at = "ended" => child[l].code # -1
          /\ child[l].at = "none" <=>
                parent[l] \in {"idle", "gate", "refused", "make", "spawn"}

(* "The GPU work's end, the release of its resources and the real normal    *)
(* exit are accepted separately" (ROCM_NATIVE_IMPLEMENTATION.md:45): behind *)
(* a report that says pass is a child that has left normally, whose checks  *)
(* hold, whose memory is free and none of whose work is left on the GPU.    *)
PassIsClean ==
    \A d \in Dirs :
       dir[d].manifest # NoFile /\ dir[d].manifest.pass =>
          LET l == dir[d].manifest.by IN
          /\ out(l) = d /\ child[l].at = "ended" /\ child[l].code = 0
          /\ gpu[l] = "done" /\ child[l].checks
          /\ dir[d].result.allocated = 0

(* The evidence in a directory is of one launch, whatever two launches were *)
(* told to write to and whatever a child left running still writes.         *)
OwnEvidence ==
    /\ TypeOK
    /\ \A d \in Dirs :
       Cardinality({p.by : p \in dir[d].phases}
                   \cup ({dir[d].result.by, dir[d].manifest.by} \ {"nobody"})) <= 1

(* "every subsequent non-profiler probe must stop" (gpu_safety.py:22): once *)
(* the record blocks, the gated scripts start no GPU work, but for the      *)
(* launches that had passed the last of their gates before; of a native     *)
(* script these are only those whose child had begun.                       *)
HaltHolds ==
    [][\A l \in Launches :
         gpu[l] = "none" /\ gpu'[l] = "running" /\ Blocked
            => kind(l) = "probe" \/ l \in admitted]_vars

(* "The output holds the process PID, the phase log, the call stack file    *)
(* and the host timeout" (ROCM_NATIVE_IMPLEMENTATION.md:46): every          *)
(* supervised launch ends with its report.                                  *)
SupervisedIsReported ==
    \A l \in Launches : parent[l] = "waiting" ~> parent[l] = "reported"
=============================================================================
