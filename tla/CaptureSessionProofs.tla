------------------------- MODULE CaptureSessionProofs -------------------------
(***************************************************************************)
(* Theorems about CaptureSession for every number of lists and frames, every *)
(* plan, limit and scenario: a Surface outlives the lists that touch it, the  *)
(* consumer of a frame finds that frame, a reader and a writer find the       *)
(* texture readable, and a session counts no more than it may.               *)
(***************************************************************************)
EXTENDS CaptureSession, FiniteSetTheorems, TLAPS

(* The submitter holds the chosen producer: before the outcome of its frame    *)
(* is known, and until its Surface is retired.                              *)
Splitting == {"split", "reading", "ask", "answer", "write", "writing"}
Chosen == Splitting \cup {"suffix", "retire"}
Before == Splitting \cup {"lock", "choose"}

(* A frame is alive from its Reset to the return of its Execute, and past      *)
(* once it left the recorder and the list of frames to submit.               *)
Alive(f) ==
    \/ recorder.phase # "next" /\ f = recorder.frame
    \/ \E i \in DOMAIN ready : ready[i].frame = f
    \/ submit.phase # "idle" /\ f = submit.frame

Past(f) ==
    /\ f <= recorder.frame /\ (recorder.phase # "next" => f < recorder.frame)
    /\ \A i \in DOMAIN ready : f < ready[i].frame

(* Frames are recorded and submitted in order.                               *)
Order ==
    /\ recorder.phase # "next" => recorder.frame >= 1
    /\ \A i \in DOMAIN ready :
        /\ ready[i].frame >= 1 /\ ready[i].frame <= recorder.frame
        /\ recorder.phase # "next" => ready[i].frame < recorder.frame
        /\ \A j \in DOMAIN ready : i < j => ready[i].frame < ready[j].frame
    /\ submit.phase # "idle" => submit.frame >= 1 /\ Past(submit.frame)
    /\ \A i \in DOMAIN queue : queue[i].frame >= 1 /\ Past(queue[i].frame)
    /\ \A n \in 1 .. MaxFrame : n \in session.done \/ used[n] # Raw(0) => Past(n)
    /\ session.done \subseteq 1 .. MaxFrame
    /\ \A l \in Lists : track[l].gen <= recorder.frame
    /\ other.phase = "entered" => other.done < MaxFrame

(* The upscales counted in the list under recording.                         *)
Calls ==
    /\ session.active /\ recorder.phase # "next" =>
          track[TheList].calls <= IF recorder.phase = "open" THEN 0
                                  ELSE IF recorder.again THEN 2 ELSE 1
    /\ recorder.phase \in {"next", "open"} => ~recorder.again

(* A list holds one frame at a time.                                          *)
OneFrame ==
    \A f, g \in 1 .. MaxFrame : Alive(f) /\ Alive(g) /\ plan[f] = plan[g] => f = g

(* The chosen list, not recorded again since, holds the frame of the Surface.  *)
Current ==
    /\ session.active /\ resident.list # "none"
    /\ track[resident.list].gen = resident.gen
Candidate == IF recorder.phase = "prepare" THEN recorder.frame ELSE surface.frame

Choice ==
    /\ session.preparing <=> recorder.phase = "prepare"
    /\ recorder.phase = "prepare" => surface.frame = 0 /\ ~session.busy
    /\ surface.frame = 0 => ~surface.uncertain
    /\ session.busy <=> submit.phase \in Chosen
    /\ submit.phase \in Chosen => surface.frame = submit.frame
    /\ surface.uncertain /\ ~session.busy => resident.list = "none"
    /\ resident.list # "none" => resident.gen <= track[resident.list].gen
    /\ Current => \A f \in 1 .. MaxFrame : Alive(f) /\ plan[f] = resident.list => f = Candidate

(* It leaves the texture readable, unless an enhanced barrier hid that.        *)
Readable ==
    "enhanced" \notin mayFail =>
        /\ Current =>
            /\ recorder.phase # "next" /\ TheList = resident.list =>
                  recorder.phase \in {"prepare", "readable"} /\ recorder.readable
            /\ \A i \in DOMAIN ready : ListOf(ready[i].frame) = resident.list => ready[i].readable
            /\ submit.phase # "idle" /\ ListOf(submit.frame) = resident.list => submit.readable
        /\ submit.phase \in Chosen => submit.readable
        /\ \A i \in DOMAIN queue : queue[i].op \in {"read", "write"} => queue[i].readable

(* Work follows the production of its own frame on the queue, and the next      *)
(* work of the submitter will.                                              *)
Follows(i) ==
    IF i = 1
    THEN target.picture.frame = queue[i].frame /\ target.readable = queue[i].readable
    ELSE queue[i - 1].frame = queue[i].frame /\ queue[i - 1].readable = queue[i].readable

Produced == {"reading", "ask", "answer", "write", "writing", "suffix", "retire", "use"}

Lined ==
    /\ \A i \in DOMAIN queue : queue[i].op # "produce" => Follows(i)
    /\ submit.phase \in Produced =>
          IF queue = <<>>
          THEN target.picture.frame = submit.frame /\ target.readable = submit.readable
          ELSE /\ queue[Len(queue)].frame = submit.frame
               /\ queue[Len(queue)].readable = submit.readable

(* The Surface belongs to the lists on the queue, and carries their images.     *)
Surfaces ==
    /\ \A i \in DOMAIN queue : queue[i].op \in {"read", "write"} =>
          surface.frame = queue[i].frame /\ surface.uncertain
    /\ submit.phase \in {"split", "ask", "answer", "write"} => ~surface.uncertain
    /\ submit.phase = "reading" => ~Queued("write")
    /\ submit.phase = "writing" => ~Queued("read")
    /\ submit.phase = "reading" => Queued("read") \/ surface.read.frame = submit.frame
    /\ submit.phase \in {"ask", "answer"} => surface.read.frame = submit.frame
    /\ submit.phase \in {"write", "writing"} \/ Queued("write") =>
          surface.upload.frame = surface.frame /\ surface.upload.net

(* A counted frame was written before its consumer runs.                       *)
Shown == queue = <<>> /\ target.picture.net

Counted ==
    /\ submit.phase \in Before =>
          /\ submit.frame \notin session.done /\ used[submit.frame] = Raw(0)
          /\ \A i \in DOMAIN queue : queue[i].op = "use" => queue[i].frame # submit.frame
    /\ submit.phase = "writing" =>
          IF queue = <<>> THEN target.picture.net ELSE queue[Len(queue)].op = "write"
    /\ submit.phase = "suffix" /\ submit.frame \in session.done => Shown
    /\ submit.phase \in {"retire", "use"} /\ submit.frame \in session.done /\ ~submit.suffix => Shown
    /\ \A i \in DOMAIN queue : queue[i].op = "use" /\ queue[i].frame \in session.done =>
          i = 1 /\ target.picture.net

(* What a session may still count.                                            *)
Window ==
    /\ session.active => /\ session.mode /\ session.opened /\ session.allowed = Limit
                         /\ Completed(session) < Limit
    /\ ~session.opened => /\ ~session.mode /\ session.allowed = Limit /\ session.done = {}
                          /\ resident.list = "none"
                          /\ recorder.phase # "prepare" /\ submit.phase \notin Chosen
    /\ WindowBounds
    /\ submit.phase \in Splitting => Completed(session) + 1 <= session.allowed

CaptureInv ==
    /\ TypeOK /\ Order /\ Calls /\ OneFrame /\ Choice /\ Readable
    /\ Lined /\ Surfaces /\ Counted /\ Window /\ ConsumerFindsOwn
-----------------------------------------------------------------------------
(* Types.                                                                  *)

SessionRecords == [mode : BOOLEAN, active : BOOLEAN, failed : BOOLEAN, preparing : BOOLEAN,
                   busy : BOOLEAN, opened : BOOLEAN, installed : BOOLEAN,
                   done : SUBSET Frames, allowed : 0 .. Limit]
TrackRecords == [gen : Frames, reset : BOOLEAN, closed : BOOLEAN, calls : 0 .. 2,
                 boundary : BOOLEAN]
ResidentRecords == [list : Lists \cup {"none"}, gen : Frames]
SurfaceRecords == [frame : Frames, uncertain : BOOLEAN, read : Pictures, upload : Pictures]
RecorderPhases == {"next", "open", "dispatch", "written", "barrier", "prepare", "readable", "moved"}
RecorderRecords == [phase : RecorderPhases, frame : Frames, seen : BOOLEAN, again : BOOLEAN,
                    readable : BOOLEAN]
ReadyRecords == [frame : Frames, readable : BOOLEAN]
SubmitPhases == {"idle", "lock", "choose", "split", "reading", "ask", "answer",
                 "write", "writing", "suffix", "retire", "use"}
SubmitRecords == [phase : SubmitPhases, frame : Frames, readable : BOOLEAN, twice : BOOLEAN,
                  suffix : BOOLEAN, locks : BOOLEAN, seen : BOOLEAN]
OtherRecords == [phase : {"idle", "entered"}, locks : BOOLEAN, done : Frames]
OpNames == {"produce", "read", "write", "use"}
WorkRecords == [op : OpNames, frame : Frames, readable : BOOLEAN]
TargetRecords == [picture : Pictures, readable : BOOLEAN]

LEMMA TypesNamed ==
    TypeOK <=>
       /\ mayFail \in Scenarios /\ plan \in Plans
       /\ session \in SessionRecords /\ track \in [Lists -> TrackRecords]
       /\ resident \in ResidentRecords /\ surface \in SurfaceRecords
       /\ recorder \in RecorderRecords /\ ready \in Seq(ReadyRecords)
       /\ submit \in SubmitRecords /\ other \in OtherRecords /\ lock \in {"none", "submit"}
       /\ queue \in Seq(WorkRecords) /\ target \in TargetRecords
       /\ used \in [1 .. MaxFrame -> Pictures]
BY DEF TypeOK, SessionRecords, TrackRecords, ResidentRecords, SurfaceRecords, RecorderPhases,
       RecorderRecords, ReadyRecords, SubmitPhases, SubmitRecords, OtherRecords, OpNames,
       WorkRecords, TargetRecords

LEMMA TypesPrime ==
    TypeOK' <=>
       /\ mayFail' \in Scenarios /\ plan' \in Plans
       /\ session' \in SessionRecords /\ track' \in [Lists -> TrackRecords]
       /\ resident' \in ResidentRecords /\ surface' \in SurfaceRecords
       /\ recorder' \in RecorderRecords /\ ready' \in Seq(ReadyRecords)
       /\ submit' \in SubmitRecords /\ other' \in OtherRecords /\ lock' \in {"none", "submit"}
       /\ queue' \in Seq(WorkRecords) /\ target' \in TargetRecords
       /\ used' \in [1 .. MaxFrame -> Pictures]
BY DEF TypeOK, SessionRecords, TrackRecords, ResidentRecords, SurfaceRecords, RecorderPhases,
       RecorderRecords, ReadyRecords, SubmitPhases, SubmitRecords, OtherRecords, OpNames,
       WorkRecords, TargetRecords

LEMMA Bounds ==
    /\ MaxFrame \in Nat /\ MaxFrame >= 1 /\ Limit \in Nat /\ Limit >= 1 /\ "none" \notin Lists
    /\ 0 \in Frames /\ Frames \subseteq Nat
    /\ \A n \in Frames : n <= MaxFrame /\ (n >= 1 => n \in 1 .. MaxFrame)
    /\ \A p \in Plans : p \in [1 .. MaxFrame -> Lists]
BY SessionAssumption DEF Frames

LEMMA PictureFields ==
    /\ \A n \in Frames : /\ Raw(n) \in Pictures /\ Raw(n).frame = n /\ ~Raw(n).net
                         /\ Net(n) \in Pictures /\ Net(n).frame = n /\ Net(n).net
    /\ NoSurface \in SurfaceRecords /\ NoSurface.frame = 0 /\ ~NoSurface.uncertain
<1>1. \A n \in Frames : /\ Raw(n) \in Pictures /\ Raw(n).frame = n /\ ~Raw(n).net
                        /\ Net(n) \in Pictures /\ Net(n).frame = n /\ Net(n).net
  BY DEF Raw, Net, Pictures
<1>2. PICK off \in BOOLEAN : off = FALSE
  OBVIOUS
<1>3. PICK none \in Frames : none = 0
  BY Bounds
<1>4. PICK p \in Pictures : p = Raw(0)
  BY <1>1, Bounds
<1>5. NoSurface = [frame |-> none, uncertain |-> off, read |-> p, upload |-> p]
  BY <1>2, <1>3, <1>4, Zenon DEF NoSurface
<1>6. NoSurface \in SurfaceRecords
  BY <1>5 DEF SurfaceRecords
<1>7. NoSurface.frame = 0 /\ ~NoSurface.uncertain
  BY DEF NoSurface
<1> QED BY <1>1, <1>6, <1>7

(* Flags of a session.                                                      *)
LEMMA SessionFields ==
    ASSUME NEW s \in SessionRecords, NEW b \in BOOLEAN, NEW c \in BOOLEAN
    PROVE  /\ [s EXCEPT !.preparing = b] \in SessionRecords
           /\ [s EXCEPT !.busy = b] \in SessionRecords
           /\ [s EXCEPT !.mode = b] \in SessionRecords
           /\ [s EXCEPT !.failed = b] \in SessionRecords
           /\ [s EXCEPT !.mode = b, !.active = b] \in SessionRecords
           /\ [s EXCEPT !.mode = b, !.active = b, !.opened = b, !.installed = b] \in SessionRecords
           /\ \A n \in 0 .. Limit : [s EXCEPT !.active = b, !.allowed = n] \in SessionRecords
           /\ \A f \in SUBSET Frames : [s EXCEPT !.done = f] \in SessionRecords
BY DEF SessionRecords

LEMMA SessionChanges ==
    ASSUME NEW s \in SessionRecords
    PROVE  /\ [s EXCEPT !.preparing = TRUE] \in SessionRecords
           /\ [s EXCEPT !.preparing = FALSE] \in SessionRecords
           /\ [s EXCEPT !.busy = TRUE] \in SessionRecords
           /\ [s EXCEPT !.busy = FALSE] \in SessionRecords
           /\ [s EXCEPT !.mode = FALSE] \in SessionRecords
           /\ [s EXCEPT !.failed = TRUE] \in SessionRecords
           /\ [s EXCEPT !.mode = FALSE, !.active = FALSE] \in SessionRecords
           /\ [s EXCEPT !.mode = TRUE, !.active = TRUE, !.opened = TRUE, !.installed = TRUE]
                 \in SessionRecords
           /\ \A n \in 0 .. Limit : [s EXCEPT !.active = FALSE, !.allowed = n] \in SessionRecords
<1>1. PICK on \in BOOLEAN : on = TRUE
  OBVIOUS
<1>2. PICK off \in BOOLEAN : off = FALSE
  OBVIOUS
<1>3. /\ [s EXCEPT !.preparing = on] \in SessionRecords
      /\ [s EXCEPT !.preparing = off] \in SessionRecords
      /\ [s EXCEPT !.busy = on] \in SessionRecords
      /\ [s EXCEPT !.busy = off] \in SessionRecords
      /\ [s EXCEPT !.mode = off] \in SessionRecords
      /\ [s EXCEPT !.failed = on] \in SessionRecords
      /\ [s EXCEPT !.mode = off, !.active = off] \in SessionRecords
      /\ [s EXCEPT !.mode = on, !.active = on, !.opened = on, !.installed = on] \in SessionRecords
      /\ \A n \in 0 .. Limit : [s EXCEPT !.active = off, !.allowed = n] \in SessionRecords
  BY SessionFields
<1> QED BY <1>1, <1>2, <1>3, Zenon

(* A session that ends leaves the frame in flight to complete, if any.       *)
Ends(old, new) ==
    /\ new \in SessionRecords /\ ~new.active
    /\ new.busy = old.busy /\ new.opened = old.opened
    /\ new.done = old.done /\ (new.mode => old.mode)
    /\ new.allowed <= old.allowed
    /\ \/ new.allowed = old.allowed
       \/ new.allowed = Cardinality(old.done) + (IF old.busy THEN 1 ELSE 0)

LEMMA DoneCounts ==
    ASSUME NEW done \in SUBSET Frames, NEW f \in Frames
    PROVE  /\ Cardinality(done) \in Nat /\ Cardinality({}) = 0
           /\ Cardinality(done \cup {f}) \in Nat
           /\ Cardinality(done \cup {f}) <= Cardinality(done) + 1
<1>1. IsFiniteSet(Frames)
  BY Bounds, FS_Interval DEF Frames
<1>2. IsFiniteSet(done)
  BY <1>1, FS_Subset
<1>3. /\ Cardinality(done) \in Nat
      /\ IsFiniteSet(done \cup {f})
      /\ Cardinality(done \cup {f}) = IF f \in done THEN Cardinality(done) ELSE Cardinality(done) + 1
  BY <1>2, FS_AddElement, FS_CardinalityType
<1>4. Cardinality({}) = 0
  BY FS_EmptySet
<1> QED BY <1>3, <1>4

LEMMA EndedDoes ==
    ASSUME NEW s \in SessionRecords
    PROVE  /\ Ends(s, Ended(s)) /\ Ends(s, Fail(s)) /\ Ends(s, Off(s))
           /\ Ends(s, [Fail(s) EXCEPT !.preparing = FALSE])
           /\ ~[Fail(s) EXCEPT !.preparing = FALSE].preparing
           /\ Ends(s, [Fail(s) EXCEPT !.mode = FALSE])
           /\ \A e \in {Ended(s), Fail(s), Off(s), [Fail(s) EXCEPT !.mode = FALSE]} :
                 e.preparing = s.preparing
<1>1. s.done \in SUBSET Frames /\ s.allowed \in 0 .. Limit /\ s.busy \in BOOLEAN
  BY DEF SessionRecords
<1>2. Cardinality(s.done) \in Nat
  BY <1>1, Bounds, DoneCounts
<1>3. PICK left : left = Cardinality(s.done) + (IF s.busy THEN 1 ELSE 0)
  OBVIOUS
<1>4. PICK n : n = IF left < s.allowed THEN left ELSE s.allowed
  OBVIOUS
<1>5. left \in Nat /\ n \in 0 .. Limit /\ n <= s.allowed /\ (n = s.allowed \/ n = left)
  BY <1>1, <1>2, <1>3, <1>4, Bounds
<1>6. Ended(s) = [s EXCEPT !.active = FALSE, !.allowed = n]
  BY <1>3, <1>4, Zenon DEF Ended, Completed
<1>7. Ended(s) \in SessionRecords
  BY <1>5, <1>6, SessionChanges
<1>8. /\ ~Ended(s).active /\ Ended(s).allowed = n
      /\ Ended(s).preparing = s.preparing /\ Ended(s).busy = s.busy /\ Ended(s).opened = s.opened
      /\ Ended(s).done = s.done /\ Ended(s).mode = s.mode
  BY <1>6 DEF SessionRecords
<1>9. PICK e : e = Ended(s)
  OBVIOUS
<1>10. Fail(s) = [e EXCEPT !.failed = TRUE] /\ Off(s) = [e EXCEPT !.mode = FALSE]
  BY <1>9 DEF Fail, Off
<1>11. e \in SessionRecords /\ Fail(s) \in SessionRecords /\ Off(s) \in SessionRecords
  BY <1>7, <1>9, <1>10, SessionChanges
<1>12. Fail(s) = [e EXCEPT !.failed = TRUE] /\ e \in SessionRecords
  BY <1>10, <1>11
<1>13. /\ Fail(s).active = e.active /\ Fail(s).allowed = e.allowed
       /\ Fail(s).preparing = e.preparing /\ Fail(s).busy = e.busy /\ Fail(s).opened = e.opened
       /\ Fail(s).done = e.done /\ Fail(s).mode = e.mode
       /\ Off(s).active = e.active /\ Off(s).allowed = e.allowed
       /\ Off(s).preparing = e.preparing /\ Off(s).busy = e.busy /\ Off(s).opened = e.opened
       /\ Off(s).done = e.done /\ ~Off(s).mode
  BY <1>10, <1>11 DEF SessionRecords
<1>14. PICK r : r = Fail(s)
  OBVIOUS
<1>15. /\ [r EXCEPT !.preparing = FALSE] \in SessionRecords
       /\ [r EXCEPT !.mode = FALSE] \in SessionRecords /\ r \in SessionRecords
  BY <1>11, <1>14, SessionChanges
<1>16. /\ \A q \in {[r EXCEPT !.preparing = FALSE], [r EXCEPT !.mode = FALSE]} :
             /\ q.active = r.active /\ q.allowed = r.allowed /\ q.busy = r.busy
             /\ q.opened = r.opened /\ q.done = r.done
       /\ ~[r EXCEPT !.preparing = FALSE].preparing /\ ~[r EXCEPT !.mode = FALSE].mode
       /\ [r EXCEPT !.preparing = FALSE].mode = r.mode
       /\ [r EXCEPT !.mode = FALSE].preparing = r.preparing
  BY <1>15 DEF SessionRecords
<1>17. Ends(s, Ended(s)) /\ Ends(s, Fail(s)) /\ Ends(s, Off(s))
  BY <1>3, <1>5, <1>7, <1>8, <1>9, <1>11, <1>13 DEF Ends
<1>18. Ends(s, [r EXCEPT !.preparing = FALSE]) /\ Ends(s, [r EXCEPT !.mode = FALSE])
  BY <1>14, <1>15, <1>16, <1>17 DEF Ends
<1> QED BY <1>8, <1>9, <1>13, <1>14, <1>16, <1>17, <1>18

(* The updates of the hooks keep the types.                                  *)
LEMMA RecorderUpdates ==
    ASSUME NEW r \in RecorderRecords, NEW p \in RecorderPhases, NEW f \in Frames,
           NEW b \in BOOLEAN, NEW c \in BOOLEAN
    PROVE  /\ [r EXCEPT !.phase = p] \in RecorderRecords
           /\ [r EXCEPT !.phase = p, !.frame = f] \in RecorderRecords
           /\ [r EXCEPT !.phase = p, !.again = b, !.seen = c] \in RecorderRecords
           /\ [r EXCEPT !.phase = p, !.seen = b] \in RecorderRecords
           /\ [r EXCEPT !.phase = p, !.seen = b, !.readable = c] \in RecorderRecords
           /\ [r EXCEPT !.phase = p, !.readable = c] \in RecorderRecords
           /\ [r EXCEPT !.phase = p, !.again = b, !.readable = c] \in RecorderRecords
BY DEF RecorderRecords

LEMMA TrackSets ==
    ASSUME NEW l \in Lists, NEW t \in TrackRecords, track \in [Lists -> TrackRecords],
           track' = [track EXCEPT ![l] = t]
    PROVE  /\ track' \in [Lists -> TrackRecords]
           /\ track'[l] = t
           /\ \A k \in Lists : k # l => track'[k] = track[k]
OBVIOUS

LEMMA SurfaceUpdates ==
    ASSUME NEW s \in SurfaceRecords, NEW f \in Frames, NEW p \in Pictures
    PROVE  /\ [NoSurface EXCEPT !.frame = f] \in SurfaceRecords
           /\ [NoSurface EXCEPT !.frame = f].frame = f /\ ~[NoSurface EXCEPT !.frame = f].uncertain
           /\ [s EXCEPT !.uncertain = TRUE] \in SurfaceRecords
           /\ [s EXCEPT !.uncertain = FALSE] \in SurfaceRecords
           /\ [s EXCEPT !.read = p] \in SurfaceRecords
           /\ [s EXCEPT !.upload = p] \in SurfaceRecords
           /\ \A t \in {[s EXCEPT !.uncertain = TRUE], [s EXCEPT !.uncertain = FALSE],
                        [s EXCEPT !.read = p], [s EXCEPT !.upload = p]} : t.frame = s.frame
           /\ \A t \in {[s EXCEPT !.uncertain = TRUE], [s EXCEPT !.uncertain = FALSE]} :
                 t.read = s.read /\ t.upload = s.upload
           /\ \A t \in {[s EXCEPT !.read = p], [s EXCEPT !.upload = p]} : t.uncertain = s.uncertain
           /\ [s EXCEPT !.uncertain = TRUE].uncertain /\ ~[s EXCEPT !.uncertain = FALSE].uncertain
           /\ [s EXCEPT !.read = p].upload = s.upload /\ [s EXCEPT !.read = p].read = p
           /\ [s EXCEPT !.upload = p].read = s.read /\ [s EXCEPT !.upload = p].upload = p
<1>1. PICK on \in BOOLEAN : on = TRUE
  OBVIOUS
<1>2. PICK off \in BOOLEAN : off = FALSE
  OBVIOUS
<1>3. /\ [s EXCEPT !.uncertain = on] \in SurfaceRecords
      /\ [s EXCEPT !.uncertain = off] \in SurfaceRecords
      /\ [s EXCEPT !.read = p] \in SurfaceRecords
      /\ [s EXCEPT !.upload = p] \in SurfaceRecords
  BY DEF SurfaceRecords
<1>4. /\ [s EXCEPT !.uncertain = TRUE] \in SurfaceRecords
      /\ [s EXCEPT !.uncertain = FALSE] \in SurfaceRecords
  BY <1>1, <1>2, <1>3, Zenon
<1>5. NoSurface \in SurfaceRecords /\ ~NoSurface.uncertain
  BY PictureFields
<1>6. /\ [NoSurface EXCEPT !.frame = f] \in SurfaceRecords
      /\ [NoSurface EXCEPT !.frame = f].frame = f
  BY <1>5 DEF SurfaceRecords
<1>7. [NoSurface EXCEPT !.frame = f].uncertain = NoSurface.uncertain
  BY <1>5 DEF SurfaceRecords
<1>8. /\ \A t \in {[s EXCEPT !.uncertain = TRUE], [s EXCEPT !.uncertain = FALSE],
                   [s EXCEPT !.read = p], [s EXCEPT !.upload = p]} : t.frame = s.frame
      /\ \A t \in {[s EXCEPT !.uncertain = TRUE], [s EXCEPT !.uncertain = FALSE]} :
            t.read = s.read /\ t.upload = s.upload
      /\ \A t \in {[s EXCEPT !.read = p], [s EXCEPT !.upload = p]} : t.uncertain = s.uncertain
  BY DEF SurfaceRecords
<1>9. /\ [s EXCEPT !.uncertain = TRUE].uncertain /\ ~[s EXCEPT !.uncertain = FALSE].uncertain
      /\ [s EXCEPT !.read = p].upload = s.upload /\ [s EXCEPT !.read = p].read = p
      /\ [s EXCEPT !.upload = p].read = s.read /\ [s EXCEPT !.upload = p].upload = p
  BY DEF SurfaceRecords
<1> QED BY <1>3, <1>4, <1>5, <1>6, <1>7, <1>8, <1>9

(* What each hook of the recorder does, in types and in the fields that the    *)
(* invariant reads.                                                         *)
SubmitterKept == UNCHANGED <<mayFail, plan, submit, other, lock, queue, target, used>>
SessionMay ==
    \/ session' = session
    \/ /\ session.active /\ Ends(session, session')
       /\ session'.preparing = session.preparing
GensKept == \A l \in Lists : track'[l].gen = track[l].gen

LEMMA TheListIs ==
    ASSUME TypeOK, Order, recorder.phase # "next"
    PROVE  TheList \in Lists /\ Recorded \in TrackRecords /\ recorder.frame \in 1 .. MaxFrame
<1>1. /\ recorder \in RecorderRecords /\ track \in [Lists -> TrackRecords] /\ plan \in Plans
      /\ recorder.frame >= 1
  BY TypesNamed DEF Order
<1>2. recorder.frame \in Frames
  BY <1>1 DEF RecorderRecords
<1>3. recorder.frame \in 1 .. MaxFrame
  BY <1>1, <1>2, Bounds
<1>4. plan \in [1 .. MaxFrame -> Lists]
  BY <1>1, Bounds
<1> QED BY <1>1, <1>3, <1>4 DEF TheList, Recorded, ListOf

LEMMA ResetDoes ==
    ASSUME TypeOK, Order, Reset
    PROVE  /\ TypeOK'
           /\ recorder.phase = "next" /\ recorder.frame + 1 \in 1 .. MaxFrame
           /\ ~InUse(plan[recorder.frame + 1]) /\ plan[recorder.frame + 1] \in Lists
           /\ recorder'.phase = "open" /\ recorder'.frame = recorder.frame + 1
           /\ recorder'.again = recorder.again /\ recorder'.readable = recorder.readable
           /\ SessionMay /\ SubmitterKept /\ UNCHANGED <<resident, surface, ready>>
           /\ session.active =>
                 /\ track'[plan[recorder.frame + 1]].gen = track[plan[recorder.frame + 1]].gen + 1
                 /\ track'[plan[recorder.frame + 1]].calls = 0
                 /\ \A k \in Lists : k # plan[recorder.frame + 1] => track'[k] = track[k]
           /\ ~session.active => track' = track
<1> DEFINE l == plan[recorder.frame + 1]
<1>2. /\ session \in SessionRecords /\ track \in [Lists -> TrackRecords] /\ plan \in Plans
      /\ recorder \in RecorderRecords
  BY TypesNamed
<1>3. recorder.frame \in Frames /\ recorder.frame < MaxFrame /\ recorder.phase = "next"
  BY <1>2 DEF Reset, RecorderRecords
<1>4. recorder.frame + 1 \in Frames /\ recorder.frame + 1 \in 1 .. MaxFrame
  BY <1>3, Bounds DEF Frames
<1>5. l \in Lists
  BY <1>2, <1>4, Bounds
<1>6. recorder' = [recorder EXCEPT !.phase = "open", !.frame = recorder.frame + 1]
  BY DEF Reset
<1>7. recorder' \in RecorderRecords
  BY <1>2, <1>4, <1>6, RecorderUpdates DEF RecorderPhases
<1>8. /\ recorder'.phase = "open" /\ recorder'.frame = recorder.frame + 1
      /\ recorder'.again = recorder.again /\ recorder'.readable = recorder.readable
  BY <1>2, <1>6 DEF RecorderRecords
<1>9. Ends(session, Fail(session)) /\ Fail(session).preparing = session.preparing
  BY <1>2, EndedDoes
<1>10. SessionMay /\ session' \in SessionRecords
  BY <1>2, <1>9 DEF Reset, SessionMay, Ends, Tracking
<1>11. track[l].gen \in Frames /\ track[l].gen + 1 \in Frames
  <2>1. track[l].gen <= recorder.frame
    BY <1>5 DEF Order
  <2>2. track[l].gen \in Frames
    BY <1>2, <1>5 DEF TrackRecords
  <2> QED BY <1>3, <2>1, <2>2, Bounds DEF Frames
<1>12. session.active =>
          /\ track' \in [Lists -> TrackRecords]
          /\ track'[l].gen = track[l].gen + 1 /\ track'[l].calls = 0
          /\ \A k \in Lists : k # l => track'[k] = track[k]
  <2>1. HAVE session.active
  <2>2. track' = [track EXCEPT ![l] = [gen |-> track[l].gen + 1, reset |-> TRUE,
                              closed |-> FALSE, calls |-> 0, boundary |-> FALSE]]
    BY <1>2, <1>5, <2>1 DEF Reset, Tracking, ListOf
  <2>3. PICK on \in BOOLEAN : on = TRUE
    OBVIOUS
  <2>4. PICK off \in BOOLEAN : off = FALSE
    OBVIOUS
  <2>5. PICK g \in Frames : g = track[l].gen + 1
    BY <1>11
  <2>6. PICK t : t = [gen |-> g, reset |-> on, closed |-> off, calls |-> 0, boundary |-> off]
    OBVIOUS
  <2>7. t \in TrackRecords /\ t.gen = g /\ t.calls = 0
    BY <2>6 DEF TrackRecords
  <2>8. track' = [track EXCEPT ![l] = t]
    BY <2>2, <2>3, <2>4, <2>5, <2>6, Zenon
  <2> QED BY <1>2, <1>5, <2>5, <2>7, <2>8, TrackSets
<1>13. ~session.active => track' = track
  BY DEF Reset, Tracking
<1>14. track' \in [Lists -> TrackRecords]
  BY <1>2, <1>12, <1>13
<1>15. SubmitterKept /\ UNCHANGED <<resident, surface, ready>>
  BY DEF Reset, RecorderUnchanged, SubmitterKept, scenario, gpuVars
<1>16. TypeOK'
  BY <1>7, <1>10, <1>14, <1>15, TypesNamed, TypesPrime DEF SubmitterKept
<1>17. ~InUse(l)
  BY DEF Reset, ListOf
<1> HIDE DEF l
<1> QED BY <1>3, <1>4, <1>5, <1>8, <1>10, <1>12, <1>13, <1>15, <1>16, <1>17 DEF l

LEMMA DispatchEnterDoes ==
    ASSUME TypeOK, Order, Calls, DispatchEnter
    PROVE  /\ TypeOK'
           /\ recorder.phase \in {"open", "moved"} /\ recorder.frame >= 1
           /\ recorder'.phase = "dispatch" /\ recorder'.frame = recorder.frame
           /\ recorder'.again = (recorder.phase = "moved")
           /\ recorder'.readable = recorder.readable
           /\ SubmitterKept /\ UNCHANGED <<session, resident, surface, ready>> /\ GensKept
           /\ session.active => track'[TheList].calls <= IF recorder.phase = "moved" THEN 2 ELSE 1
<1>1. /\ session \in SessionRecords /\ track \in [Lists -> TrackRecords]
      /\ recorder \in RecorderRecords
  BY TypesNamed
<1>2. recorder.phase \in {"open", "moved"} /\ (recorder.phase = "moved" => ~recorder.again)
  BY DEF DispatchEnter
<1>3. TheList \in Lists /\ Recorded \in TrackRecords /\ recorder.frame \in 1 .. MaxFrame
  BY <1>2, TheListIs
<1>4. PICK again \in BOOLEAN : again = (recorder.phase = "moved")
  OBVIOUS
<1>5. PICK seen \in BOOLEAN : seen = (/\ Tracking /\ session.mode /\ ~session.failed
                                      /\ Recorded.reset /\ ~Recorded.closed)
  OBVIOUS
<1>6. recorder' = [recorder EXCEPT !.phase = "dispatch", !.again = again, !.seen = seen]
  BY <1>4, <1>5, Zenon DEF DispatchEnter
<1>7. recorder' \in RecorderRecords
  <2>1. "dispatch" \in RecorderPhases
    BY DEF RecorderPhases
  <2> QED BY <1>1, <1>6, <2>1, Bounds, RecorderUpdates
<1>8. /\ recorder'.phase = "dispatch" /\ recorder'.frame = recorder.frame
      /\ recorder'.again = again /\ recorder'.readable = recorder.readable
  BY <1>1, <1>6 DEF RecorderRecords
<1>9. SubmitterKept /\ UNCHANGED <<session, resident, surface, ready>>
  BY DEF DispatchEnter, RecorderUnchanged, SubmitterKept, scenario, gpuVars
<1>10. session.active =>
          /\ track' \in [Lists -> TrackRecords] /\ GensKept
          /\ track'[TheList].calls <= IF recorder.phase = "moved" THEN 2 ELSE 1
  <2>1. HAVE session.active
  <2>2. Recorded.calls <= IF recorder.phase = "open" THEN 0 ELSE 1
    BY <1>2, <2>1 DEF Calls, Recorded
  <2>3. Recorded.calls \in 0 .. 2
    BY <1>3 DEF TrackRecords
  <2>4. PICK n \in 0 .. 2 : n = Recorded.calls + 1 /\ n <= IF recorder.phase = "moved" THEN 2 ELSE 1
    BY <1>2, <2>2, <2>3
  <2>5. PICK off \in BOOLEAN : off = FALSE
    OBVIOUS
  <2>6. PICK r : r = Recorded
    OBVIOUS
  <2>7. PICK t : t = [r EXCEPT !.calls = n, !.boundary = off]
    OBVIOUS
  <2>8. t \in TrackRecords /\ t.gen = r.gen /\ t.calls = n
    BY <1>3, <2>6, <2>7 DEF TrackRecords
  <2>9. track' = [track EXCEPT ![TheList] = [Recorded EXCEPT !.calls = Recorded.calls + 1,
                                                             !.boundary = FALSE]]
    BY <2>1 DEF DispatchEnter, Tracked, Tracking
  <2>10. track' = [track EXCEPT ![TheList] = t]
    BY <2>4, <2>5, <2>6, <2>7, <2>9, Zenon
  <2>11. /\ track' \in [Lists -> TrackRecords] /\ track'[TheList] = t
         /\ \A k \in Lists : k # TheList => track'[k] = track[k]
    BY <1>1, <1>3, <2>8, <2>10, TrackSets
  <2> QED BY <2>4, <2>6, <2>8, <2>11 DEF GensKept, Recorded
<1>11. ~session.active => track' = track
  BY DEF DispatchEnter, Tracking
<1>12. track' \in [Lists -> TrackRecords] /\ GensKept
  BY <1>1, <1>10, <1>11 DEF GensKept
<1>13. TypeOK'
  BY <1>7, <1>9, <1>12, TypesNamed, TypesPrime DEF SubmitterKept
<1> QED BY <1>2, <1>3, <1>4, <1>8, <1>9, <1>10, <1>12, <1>13

(* The hooks that keep the generations and the calls of every list.           *)
TrackNoted ==
    /\ track' \in [Lists -> TrackRecords] /\ GensKept
    /\ \A l \in Lists : track'[l].calls = track[l].calls

LEMMA Noted ==
    ASSUME track \in [Lists -> TrackRecords], TheList \in Lists, NEW t \in TrackRecords,
           t.gen = Recorded.gen, t.calls = Recorded.calls, Tracked(t)
    PROVE  TrackNoted
<1>1. /\ track' \in [Lists -> TrackRecords] /\ track'[TheList] = t
      /\ \A k \in Lists : k # TheList => track'[k] = track[k]
  BY TrackSets DEF Tracked
<1> QED BY <1>1 DEF TrackNoted, GensKept, Recorded

LEMMA NotedKept ==
    ASSUME track \in [Lists -> TrackRecords], track' = track
    PROVE  TrackNoted
BY DEF TrackNoted, GensKept

LEMMA BoundaryNoted ==
    ASSUME track \in [Lists -> TrackRecords], TheList \in Lists, Recorded \in TrackRecords
    PROVE  /\ Tracked([Recorded EXCEPT !.boundary = TRUE]) => TrackNoted
           /\ Tracked([Recorded EXCEPT !.boundary = FALSE]) => TrackNoted
           /\ Tracked([Recorded EXCEPT !.closed = TRUE, !.boundary = FALSE]) => TrackNoted
<1>1. PICK on \in BOOLEAN : on = TRUE
  OBVIOUS
<1>2. PICK off \in BOOLEAN : off = FALSE
  OBVIOUS
<1>3. PICK r : r = Recorded
  OBVIOUS
<1>4. \A t \in {[r EXCEPT !.boundary = on], [r EXCEPT !.boundary = off],
                [r EXCEPT !.closed = on, !.boundary = off]} :
          t \in TrackRecords /\ t.gen = r.gen /\ t.calls = r.calls
  BY <1>3 DEF TrackRecords
<1>5. \A t \in {[r EXCEPT !.boundary = TRUE], [r EXCEPT !.boundary = FALSE],
                [r EXCEPT !.closed = TRUE, !.boundary = FALSE]} :
          t \in TrackRecords /\ t.gen = r.gen /\ t.calls = r.calls
  BY <1>1, <1>2, <1>4, Zenon
<1> QED BY <1>3, <1>5, Noted

LEMMA DispatchLeaveDoes ==
    ASSUME TypeOK, Order, DispatchLeave
    PROVE  /\ TypeOK' /\ recorder.phase = "dispatch"
           /\ recorder'.phase = "written" /\ recorder'.frame = recorder.frame
           /\ recorder'.again = recorder.again /\ recorder'.readable = recorder.readable
           /\ SubmitterKept /\ UNCHANGED <<session, resident, surface, ready>> /\ TrackNoted
<1>1. /\ track \in [Lists -> TrackRecords] /\ recorder \in RecorderRecords
      /\ recorder.phase = "dispatch"
  BY TypesNamed DEF DispatchLeave
<1>2. TheList \in Lists /\ Recorded \in TrackRecords
  BY <1>1, TheListIs
<1>3. PICK off \in BOOLEAN : off = FALSE
  OBVIOUS
<1>4. recorder' = [recorder EXCEPT !.phase = "written", !.seen = off]
  BY <1>3, Zenon DEF DispatchLeave, Leave
<1>5. recorder' \in RecorderRecords
  <2>1. "written" \in RecorderPhases
    BY DEF RecorderPhases
  <2> QED BY <1>1, <1>4, <2>1, Bounds, RecorderUpdates
<1>6. /\ recorder'.phase = "written" /\ recorder'.frame = recorder.frame
      /\ recorder'.again = recorder.again /\ recorder'.readable = recorder.readable
  BY <1>1, <1>4 DEF RecorderRecords
<1>7. SubmitterKept /\ UNCHANGED <<session, resident, surface, ready>>
  BY DEF DispatchLeave, RecorderUnchanged, SubmitterKept, scenario, gpuVars
<1>8. TrackNoted
  BY <1>1, <1>2, BoundaryNoted, NotedKept DEF DispatchLeave
<1>9. TypeOK'
  BY <1>5, <1>7, <1>8, TypesNamed, TypesPrime DEF SubmitterKept, TrackNoted
<1> QED BY <1>1, <1>6, <1>7, <1>8, <1>9

(* The hook fails the session, or leaves it.                                   *)
LEMMA FailMay ==
    ASSUME session \in SessionRecords, NEW b \in BOOLEAN,
           session' = IF b THEN Fail(session) ELSE session, b => session.active
    PROVE  SessionMay /\ session' \in SessionRecords /\ (b => ~session'.active)
<1>1. Ends(session, Fail(session)) /\ Fail(session).preparing = session.preparing
  BY EndedDoes
<1> QED BY <1>1 DEF SessionMay, Ends

LEMMA BarrierEnterDoes ==
    ASSUME TypeOK, Order, BarrierEnter
    PROVE  /\ TypeOK' /\ recorder.phase = "written"
           /\ recorder'.phase = "barrier" /\ recorder'.frame = recorder.frame
           /\ recorder'.again = recorder.again /\ recorder'.readable = recorder.readable
           /\ SubmitterKept /\ UNCHANGED <<resident, surface, ready>> /\ TrackNoted
           /\ SessionMay
<1>1. /\ track \in [Lists -> TrackRecords] /\ recorder \in RecorderRecords
      /\ session \in SessionRecords /\ recorder.phase = "written"
  BY TypesNamed DEF BarrierEnter
<1>2. TheList \in Lists /\ Recorded \in TrackRecords
  BY <1>1, TheListIs
<1>3. PICK seen \in BOOLEAN : seen = (Tracking /\ Recorded.boundary)
  OBVIOUS
<1>4. recorder' = [recorder EXCEPT !.phase = "barrier", !.seen = seen]
  BY <1>3, Zenon DEF BarrierEnter
<1>5. recorder' \in RecorderRecords
  <2>1. "barrier" \in RecorderPhases
    BY DEF RecorderPhases
  <2> QED BY <1>1, <1>4, <2>1, Bounds, RecorderUpdates
<1>6. /\ recorder'.phase = "barrier" /\ recorder'.frame = recorder.frame
      /\ recorder'.again = recorder.again /\ recorder'.readable = recorder.readable
  BY <1>1, <1>4 DEF RecorderRecords
<1>7. SubmitterKept /\ UNCHANGED <<resident, surface, ready>>
  BY DEF BarrierEnter, RecorderUnchanged, SubmitterKept, scenario, gpuVars
<1>8. TrackNoted
  BY <1>1, <1>2, BoundaryNoted, NotedKept DEF BarrierEnter
<1>9. SessionMay /\ session' \in SessionRecords
  <2>1. PICK b \in BOOLEAN : b = (Tracking /\ LaterTransition)
    OBVIOUS
  <2>2. session' = IF b THEN Fail(session) ELSE session
    BY <2>1, Zenon DEF BarrierEnter
  <2> QED BY <1>1, <2>1, <2>2, FailMay DEF Tracking
<1>10. TypeOK'
  BY <1>5, <1>7, <1>8, <1>9, TypesNamed, TypesPrime DEF SubmitterKept, TrackNoted
<1> QED BY <1>1, <1>6, <1>7, <1>8, <1>9, <1>10

LEMMA BarrierLeaveDoes ==
    ASSUME TypeOK, Order, BarrierLeave
    PROVE  /\ TypeOK' /\ recorder.phase = "barrier"
           /\ recorder'.frame = recorder.frame /\ recorder'.again = recorder.again
           /\ recorder'.readable
           /\ SubmitterKept /\ UNCHANGED <<track, surface, ready>>
           /\ \/ /\ session.active /\ session.mode /\ ~session.busy /\ surface.frame = 0
                 /\ session' = [session EXCEPT !.preparing = TRUE]
                 /\ resident' = [list |-> TheList, gen |-> track[TheList].gen]
                 /\ recorder'.phase = "prepare"
              \/ recorder'.phase = "readable" /\ UNCHANGED <<session, resident>>
<1>1. /\ track \in [Lists -> TrackRecords] /\ recorder \in RecorderRecords
      /\ session \in SessionRecords /\ resident \in ResidentRecords /\ recorder.phase = "barrier"
  BY TypesNamed DEF BarrierLeave
<1>2. TheList \in Lists /\ Recorded \in TrackRecords
  BY <1>1, TheListIs
<1>3. PICK off \in BOOLEAN : off = FALSE
  OBVIOUS
<1>4. PICK on \in BOOLEAN : on = TRUE
  OBVIOUS
<1>5. SubmitterKept /\ UNCHANGED <<track, surface, ready>>
  BY DEF BarrierLeave, RecorderUnchanged, SubmitterKept, scenario, gpuVars
<1>6. \A p \in {"prepare", "readable"} :
         recorder' = [recorder EXCEPT !.phase = p, !.seen = FALSE, !.readable = TRUE] =>
            /\ recorder' \in RecorderRecords
            /\ recorder'.phase = p /\ recorder'.frame = recorder.frame
            /\ recorder'.again = recorder.again /\ recorder'.readable
  <2>1. TAKE p \in {"prepare", "readable"}
  <2>2. HAVE recorder' = [recorder EXCEPT !.phase = p, !.seen = FALSE, !.readable = TRUE]
  <2>3. recorder' = [recorder EXCEPT !.phase = p, !.seen = off, !.readable = on]
    BY <1>3, <1>4, <2>2, Zenon
  <2>4. p \in RecorderPhases
    BY DEF RecorderPhases
  <2>5. recorder' \in RecorderRecords
    BY <1>1, <2>3, <2>4, Bounds, RecorderUpdates
  <2> QED BY <1>1, <2>2, <2>5 DEF RecorderRecords
<1>7. CASE Chooses
  <2>1. /\ session' = [session EXCEPT !.preparing = TRUE]
        /\ resident' = [list |-> TheList, gen |-> Recorded.gen]
        /\ recorder' = [recorder EXCEPT !.phase = "prepare", !.seen = FALSE, !.readable = TRUE]
    BY <1>7, Zenon DEF BarrierLeave
  <2>2. session' \in SessionRecords
    BY <1>1, <2>1, SessionChanges
  <2>3. resident' \in ResidentRecords
    BY <1>2, <2>1 DEF ResidentRecords, TrackRecords
  <2>4. session.active /\ session.mode /\ ~session.busy /\ surface.frame = 0
    BY <1>7 DEF Chooses, SameWindow, Tracking
  <2>5. TypeOK'
    BY <1>5, <1>6, <2>1, <2>2, <2>3, TypesNamed, TypesPrime DEF SubmitterKept
  <2> QED BY <1>1, <1>5, <1>6, <2>1, <2>4, <2>5 DEF Recorded
<1>8. CASE ~Chooses
  <2>1. /\ UNCHANGED <<session, resident>>
        /\ recorder' = [recorder EXCEPT !.phase = "readable", !.seen = FALSE, !.readable = TRUE]
    BY <1>8, Zenon DEF BarrierLeave
  <2>2. TypeOK'
    BY <1>5, <1>6, <2>1, TypesNamed, TypesPrime DEF SubmitterKept
  <2> QED BY <1>1, <1>5, <1>6, <2>1, <2>2
<1> QED BY <1>7, <1>8

LEMMA PrepareDoes ==
    ASSUME TypeOK, Order, Prepare
    PROVE  /\ TypeOK' /\ recorder.phase = "prepare"
           /\ recorder'.phase = "readable" /\ recorder'.frame = recorder.frame
           /\ recorder'.again = recorder.again /\ recorder'.readable = recorder.readable
           /\ SubmitterKept /\ UNCHANGED <<track, resident, ready>>
           /\ ~session'.preparing
           /\ \/ /\ surface'.frame = recorder.frame /\ ~surface'.uncertain
                 /\ session' = [session EXCEPT !.preparing = FALSE]
              \/ surface' = surface /\ Ends(session, session')
<1>1. /\ surface \in SurfaceRecords /\ recorder \in RecorderRecords
      /\ session \in SessionRecords /\ recorder.phase = "prepare"
  BY TypesNamed DEF Prepare
<1>2. recorder.frame \in Frames
  BY <1>1 DEF RecorderRecords
<1>3. SubmitterKept /\ UNCHANGED <<track, resident, ready>>
  BY DEF Prepare, RecorderUnchanged, SubmitterKept, scenario, gpuVars
<1>4. recorder' = [recorder EXCEPT !.phase = "readable"]
  BY DEF Prepare, Goto
<1>5. recorder' \in RecorderRecords
  <2>1. "readable" \in RecorderPhases
    BY DEF RecorderPhases
  <2> QED BY <1>1, <1>4, <2>1, Bounds, RecorderUpdates
<1>6. /\ recorder'.phase = "readable" /\ recorder'.frame = recorder.frame
      /\ recorder'.again = recorder.again /\ recorder'.readable = recorder.readable
  BY <1>1, <1>4 DEF RecorderRecords
<1>7. CASE /\ surface' = [NoSurface EXCEPT !.frame = recorder.frame]
           /\ session' = [session EXCEPT !.preparing = FALSE]
  <2>1. /\ surface' \in SurfaceRecords /\ surface'.frame = recorder.frame /\ ~surface'.uncertain
    <3>1. Raw(0) \in Pictures
      BY Bounds, PictureFields
    <3>2. /\ [NoSurface EXCEPT !.frame = recorder.frame] \in SurfaceRecords
          /\ [NoSurface EXCEPT !.frame = recorder.frame].frame = recorder.frame
          /\ ~[NoSurface EXCEPT !.frame = recorder.frame].uncertain
      BY <1>1, <1>2, <3>1, SurfaceUpdates, Zenon
    <3> QED BY <1>7, <3>2, Zenon
  <2>2. session' \in SessionRecords
    BY <1>1, <1>7, SessionChanges
  <2>3. ~session'.preparing
    BY <1>1, <1>7 DEF SessionRecords
  <2>4. TypeOK'
    BY <1>3, <1>5, <2>1, <2>2, TypesNamed, TypesPrime DEF SubmitterKept
  <2> QED BY <1>1, <1>3, <1>6, <1>7, <2>1, <2>3, <2>4
<1>8. CASE session' = [Fail(session) EXCEPT !.preparing = FALSE] /\ UNCHANGED surface
  <2>1. Ends(session, session') /\ ~session'.preparing
    BY <1>1, <1>8, EndedDoes
  <2>2. session' \in SessionRecords
    BY <2>1 DEF Ends
  <2>3. TypeOK'
    BY <1>3, <1>5, <1>8, <2>2, TypesNamed, TypesPrime DEF SubmitterKept
  <2> QED BY <1>1, <1>3, <1>6, <1>8, <2>1, <2>3
<1> QED BY <1>7, <1>8 DEF Prepare

LEMMA MovedOnDoes ==
    ASSUME TypeOK, Order, LaterBarrier \/ Enhanced
    PROVE  /\ TypeOK' /\ recorder.phase = "readable"
           /\ recorder'.phase = "moved" /\ recorder'.frame = recorder.frame
           /\ recorder'.again = recorder.again
           /\ SubmitterKept /\ UNCHANGED <<resident, surface, ready>> /\ TrackNoted
           /\ SessionMay
           /\ "enhanced" \notin mayFail /\ Tracking /\ LaterTransition => ~session'.active
<1>1. /\ track \in [Lists -> TrackRecords] /\ recorder \in RecorderRecords
      /\ session \in SessionRecords /\ recorder.phase = "readable"
  BY TypesNamed DEF LaterBarrier, Enhanced
<1>2. TheList \in Lists /\ Recorded \in TrackRecords
  BY <1>1, TheListIs
<1>3. PICK off \in BOOLEAN : off = FALSE
  OBVIOUS
<1>4. recorder' = [recorder EXCEPT !.phase = "moved", !.readable = off]
  BY <1>3, Zenon DEF LaterBarrier, Enhanced
<1>5. recorder' \in RecorderRecords
  <2>1. "moved" \in RecorderPhases
    BY DEF RecorderPhases
  <2> QED BY <1>1, <1>3, <1>4, <2>1, Bounds, RecorderUpdates
<1>6. /\ recorder'.phase = "moved" /\ recorder'.frame = recorder.frame
      /\ recorder'.again = recorder.again
  BY <1>1, <1>4 DEF RecorderRecords
<1>7. SubmitterKept /\ UNCHANGED <<resident, surface, ready>>
  BY DEF LaterBarrier, Enhanced, RecorderUnchanged, SubmitterKept, scenario, gpuVars
<1>8. TrackNoted
  BY <1>1, <1>2, BoundaryNoted, NotedKept DEF LaterBarrier, Enhanced
<1>9. /\ SessionMay /\ session' \in SessionRecords
      /\ "enhanced" \notin mayFail /\ Tracking /\ LaterTransition => ~session'.active
  <2>1. CASE LaterBarrier
    <3>1. PICK b \in BOOLEAN : b = (Tracking /\ LaterTransition)
      OBVIOUS
    <3>2. session' = IF b THEN Fail(session) ELSE session
      BY <2>1, <3>1, Zenon DEF LaterBarrier
    <3> QED BY <1>1, <3>1, <3>2, FailMay DEF Tracking
  <2>2. CASE Enhanced
    BY <1>1, <2>2 DEF Enhanced, SessionMay
  <2> QED BY <2>1, <2>2
<1>10. TypeOK'
  BY <1>5, <1>7, <1>8, <1>9, TypesNamed, TypesPrime DEF SubmitterKept, TrackNoted
<1> QED BY <1>1, <1>6, <1>7, <1>8, <1>9, <1>10

LEMMA CloseDoes ==
    ASSUME TypeOK, Order, Close
    PROVE  /\ TypeOK' /\ recorder.phase \in {"readable", "moved"} /\ recorder.frame >= 1
           /\ recorder'.phase = "next" /\ recorder'.frame = recorder.frame /\ ~recorder'.again
           /\ SubmitterKept /\ UNCHANGED <<session, resident, surface>> /\ TrackNoted
           /\ ready' = Append(ready, [frame |-> recorder.frame, readable |-> recorder.readable])
<1>1. /\ track \in [Lists -> TrackRecords] /\ recorder \in RecorderRecords
      /\ ready \in Seq(ReadyRecords) /\ recorder.phase \in {"readable", "moved"}
  BY TypesNamed DEF Close
<1>2. TheList \in Lists /\ Recorded \in TrackRecords /\ recorder.frame \in 1 .. MaxFrame
  BY <1>1, TheListIs
<1>3. PICK off \in BOOLEAN : off = FALSE
  OBVIOUS
<1>4. recorder' = [recorder EXCEPT !.phase = "next", !.again = off, !.readable = off]
  BY <1>3, Zenon DEF Close
<1>5. recorder' \in RecorderRecords
  <2>1. "next" \in RecorderPhases
    BY DEF RecorderPhases
  <2> QED BY <1>1, <1>3, <1>4, <2>1, Bounds, RecorderUpdates
<1>6. /\ recorder'.phase = "next" /\ recorder'.frame = recorder.frame /\ ~recorder'.again
  BY <1>1, <1>3, <1>4 DEF RecorderRecords
<1>7. SubmitterKept /\ UNCHANGED <<session, resident, surface>>
  BY DEF Close, SubmitterKept, scenario, gpuVars
<1>8. TrackNoted
  BY <1>1, <1>2, BoundaryNoted, NotedKept DEF Close
<1>9. /\ ready' = Append(ready, [frame |-> recorder.frame, readable |-> recorder.readable])
      /\ ready' \in Seq(ReadyRecords)
  <2>1. [frame |-> recorder.frame, readable |-> recorder.readable] \in ReadyRecords
    BY <1>1 DEF RecorderRecords, ReadyRecords
  <2>2. ready' = Append(ready, [frame |-> recorder.frame, readable |-> recorder.readable])
    BY DEF Close
  <2> QED BY <1>1, <2>1, <2>2
<1>10. TypeOK'
  BY <1>5, <1>7, <1>8, <1>9, TypesNamed, TypesPrime DEF SubmitterKept, TrackNoted
<1> QED BY <1>1, <1>2, <1>6, <1>7, <1>8, <1>9, <1>10

LEMMA DropDoes ==
    ASSUME TypeOK, Drop
    PROVE  /\ TypeOK' /\ ready # <<>> /\ ready' = Tail(ready)
           /\ SubmitterKept /\ UNCHANGED <<session, track, resident, surface, recorder>>
<1>1. ready \in Seq(ReadyRecords) /\ ready # <<>> /\ ready' = Tail(ready)
  BY TypesNamed DEF Drop
<1>2. ready' \in Seq(ReadyRecords)
  BY <1>1
<1>3. SubmitterKept /\ UNCHANGED <<session, track, resident, surface, recorder>>
  BY DEF Drop, SubmitterKept, scenario, hookVars, gpuVars
<1>4. TypeOK'
  BY <1>2, <1>3, TypesNamed, TypesPrime DEF SubmitterKept
<1> QED BY <1>1, <1>3, <1>4

(* What the commands do.                                                      *)
HandsKept == UNCHANGED <<mayFail, plan, recorder, ready, submit, other, lock, queue, target, used>>

LEMMA StartDoes ==
    ASSUME TypeOK, Start
    PROVE  /\ TypeOK' /\ ~session.opened /\ ~session.active /\ surface.frame = 0
           /\ HandsKept /\ UNCHANGED <<resident, surface>> /\ GensKept
           /\ session'.active /\ session'.mode /\ session'.opened
           /\ session'.preparing = session.preparing /\ session'.busy = session.busy
           /\ session'.done = session.done /\ session'.allowed = session.allowed
           /\ \A l \in Lists : track'[l].calls = 0
<1>1. session \in SessionRecords /\ track \in [Lists -> TrackRecords]
  BY TypesNamed
<1>2. /\ ~session.opened /\ ~session.active /\ surface.frame = 0
      /\ session' = [session EXCEPT !.mode = TRUE, !.active = TRUE, !.opened = TRUE,
                                    !.installed = TRUE]
  BY DEF Start, Tracking, Pending
<1>3. session' \in SessionRecords
  BY <1>1, <1>2, SessionChanges
<1>4. /\ session'.active /\ session'.mode /\ session'.opened
      /\ session'.preparing = session.preparing /\ session'.busy = session.busy
      /\ session'.done = session.done /\ session'.allowed = session.allowed
  BY <1>1, <1>2 DEF SessionRecords
<1>5. HandsKept /\ UNCHANGED <<resident, surface>>
  BY DEF Start, HandsKept, scenario, gpuVars
<1>6. \A l \in Lists : /\ Unknown(l) \in TrackRecords
                       /\ Unknown(l).gen = track[l].gen /\ Unknown(l).calls = 0
  <2>1. TAKE l \in Lists
  <2>2. PICK off \in BOOLEAN : off = FALSE
    OBVIOUS
  <2>3. PICK t : t = track[l]
    OBVIOUS
  <2>4. PICK none \in 0 .. 2 : none = 0
    OBVIOUS
  <2>5. PICK u : u = [t EXCEPT !.reset = off, !.closed = off, !.calls = none, !.boundary = off]
    OBVIOUS
  <2>6. t \in TrackRecords
    BY <1>1, <2>1, <2>3
  <2>7. u \in TrackRecords /\ u.gen = t.gen /\ u.calls = none
    BY <2>5, <2>6 DEF TrackRecords
  <2>8. Unknown(l) = u
    BY <2>2, <2>3, <2>5, <2>4, Zenon DEF Unknown
  <2> QED BY <2>3, <2>7, <2>8, <2>4
<1>7. track' = [l \in Lists |-> Unknown(l)]
  BY DEF Start
<1>8. track' \in [Lists -> TrackRecords] /\ \A l \in Lists : track'[l] = Unknown(l)
  BY <1>6, <1>7
<1>9. TypeOK'
  BY <1>3, <1>5, <1>8, TypesNamed, TypesPrime DEF HandsKept
<1> QED BY <1>2, <1>4, <1>5, <1>6, <1>8, <1>9 DEF GensKept

LEMMA EndingDoes ==
    ASSUME TypeOK, Stop \/ Expire \/ HookRaises
    PROVE  /\ TypeOK' /\ HandsKept /\ UNCHANGED <<track, resident, surface>>
           /\ Ends(session, session') /\ session'.preparing = session.preparing
           /\ session.mode \/ session.active
<1>1. session \in SessionRecords
  BY TypesNamed
<1>2. HandsKept /\ UNCHANGED <<track, resident, surface>>
  BY DEF Stop, Expire, HookRaises, SessionEnds, HandsKept, scenario, gpuVars
<1>3. session' \in {Ended(session), Fail(session), Off(session)}
  BY DEF Stop, Expire, HookRaises, SessionEnds
<1>4. Ends(session, session') /\ session'.preparing = session.preparing
  BY <1>1, <1>3, EndedDoes
<1>5. session' \in SessionRecords
  BY <1>4 DEF Ends
<1>6. TypeOK'
  BY <1>2, <1>5, TypesNamed, TypesPrime DEF HandsKept
<1>7. session.mode \/ session.active
  BY DEF Stop, Expire, HookRaises, Tracking
<1> QED BY <1>2, <1>4, <1>6, <1>7

(* The submitter appends work of its frame.                                     *)
Adds(ops) ==
    /\ queue' \in Seq(WorkRecords) /\ Len(queue') = Len(queue) + Len(ops)
    /\ \A i \in 1 .. Len(queue) : queue'[i] = queue[i]
    /\ \A i \in 1 .. Len(queue') : i > Len(queue) =>
          /\ queue'[i].frame = submit.frame /\ queue'[i].readable = submit.readable
          /\ i - Len(queue) \in 1 .. Len(ops) /\ queue'[i].op = ops[i - Len(queue)]

LEMMA PutDoes ==
    ASSUME queue \in Seq(WorkRecords), submit \in SubmitRecords, NEW ops \in Seq(OpNames), Put(ops)
    PROVE  Adds(ops)
<1> DEFINE more == [i \in DOMAIN ops |->
                [op |-> ops[i], frame |-> submit.frame, readable |-> submit.readable]]
<1>1. submit.frame \in Frames /\ submit.readable \in BOOLEAN
  BY DEF SubmitRecords
<1>2. Len(ops) \in Nat /\ DOMAIN ops = 1 .. Len(ops) /\ \A i \in 1 .. Len(ops) : ops[i] \in OpNames
  OBVIOUS
<1>3. \A i \in 1 .. Len(ops) :
         [op |-> ops[i], frame |-> submit.frame, readable |-> submit.readable] \in WorkRecords
  BY <1>1, <1>2 DEF WorkRecords
<1>4. more \in [1 .. Len(ops) -> WorkRecords]
  BY <1>2, <1>3
<1>5. more \in Seq(WorkRecords) /\ Len(more) = Len(ops)
  BY <1>2, <1>4
<1>6. queue' = queue \o more
  BY DEF Put
<1>7. \A i \in 1 .. Len(ops) : /\ more[i].op = ops[i] /\ more[i].frame = submit.frame
                               /\ more[i].readable = submit.readable
  BY <1>2
<1> HIDE DEF more
<1>8. queue' \in Seq(WorkRecords) /\ Len(queue') = Len(queue) + Len(ops) /\ Len(queue) \in Nat
  <2>1. \A s, t \in Seq(WorkRecords) :
           /\ s \o t \in Seq(WorkRecords) /\ Len(s \o t) = Len(s) + Len(t) /\ Len(s) \in Nat
    OBVIOUS
  <2> QED BY <1>5, <1>6, <2>1
<1>9. \A i \in 1 .. Len(queue') :
         queue'[i] = IF i <= Len(queue) THEN queue[i] ELSE more[i - Len(queue)]
  BY <1>5, <1>6
<1>10. \A i \in 1 .. Len(queue') : i > Len(queue) => i - Len(queue) \in 1 .. Len(ops)
  BY <1>2, <1>8
<1>11. \A i \in 1 .. Len(queue') : i > Len(queue) =>
          /\ i - Len(queue) \in 1 .. Len(ops) /\ queue'[i] = more[i - Len(queue)]
  BY <1>8, <1>9, <1>10
<1>12. \A i \in 1 .. Len(queue) : queue'[i] = queue[i]
  BY <1>2, <1>8, <1>9
<1> QED BY <1>7, <1>8, <1>11, <1>12 DEF Adds

LEMMA OpsNamed ==
    /\ <<>> \in Seq(OpNames) /\ <<"use">> \in Seq(OpNames) /\ <<"write">> \in Seq(OpNames)
    /\ <<"produce">> \in Seq(OpNames) /\ <<"produce", "read">> \in Seq(OpNames)
    /\ Batch \in Seq(OpNames) /\ Len(Batch) >= 1 /\ Batch[1] = "produce"
    /\ \A i \in 1 .. Len(Batch) : Batch[i] \in {"produce", "use"}
<1>1. /\ <<>> \in Seq(OpNames) /\ <<"use">> \in Seq(OpNames) /\ <<"write">> \in Seq(OpNames)
      /\ <<"produce">> \in Seq(OpNames) /\ <<"produce", "read">> \in Seq(OpNames)
  BY DEF OpNames
<1>2. PICK one \in {<<"produce", "produce">>, <<"produce">>} :
         one = IF submit.twice THEN <<"produce", "produce">> ELSE <<"produce">>
  OBVIOUS
<1>3. PICK two \in {<<"use">>, <<>>} : two = IF submit.suffix THEN <<"use">> ELSE <<>>
  OBVIOUS
<1>4. Batch = one \o two
  BY <1>2, <1>3 DEF Batch
<1>5. /\ one \in Seq({"produce", "use"}) /\ two \in Seq({"produce", "use"})
      /\ Len(one) >= 1 /\ one[1] = "produce"
  <2>1. /\ <<"produce", "produce">> \in Seq({"produce", "use"})
        /\ <<"produce">> \in Seq({"produce", "use"})
        /\ <<"use">> \in Seq({"produce", "use"}) /\ <<>> \in Seq({"produce", "use"})
    OBVIOUS
  <2>2. /\ Len(<<"produce", "produce">>) >= 1 /\ <<"produce", "produce">>[1] = "produce"
        /\ Len(<<"produce">>) >= 1 /\ <<"produce">>[1] = "produce"
    OBVIOUS
  <2>3. one = <<"produce", "produce">> \/ one = <<"produce">>
    BY <1>2, Zenon
  <2>4. two = <<"use">> \/ two = <<>>
    BY <1>3, Zenon
  <2> QED BY <2>1, <2>2, <2>3, <2>4, Zenon
<1>6. PICK all : all = one \o two
  OBVIOUS
<1>7. all \in Seq({"produce", "use"}) /\ Len(all) >= 1 /\ all[1] = "produce"
  BY <1>5, <1>6
<1>8. all \in Seq(OpNames) /\ \A i \in 1 .. Len(all) : all[i] \in {"produce", "use"}
  BY <1>7 DEF OpNames
<1> QED BY <1>1, <1>4, <1>6, <1>7, <1>8

(* What Execute does.                                                          *)
ThreadsKept == UNCHANGED <<mayFail, plan, track, recorder, other>>
SubmitTo(p) ==
    /\ submit'.phase = p /\ submit'.frame = submit.frame
    /\ submit'.readable = submit.readable /\ submit'.suffix = submit.suffix

LEMMA SubmitsTo ==
    ASSUME submit \in SubmitRecords, NEW p \in SubmitPhases, NEW b \in BOOLEAN, NEW c \in BOOLEAN,
           \/ submit' = [submit EXCEPT !.phase = p]
           \/ submit' = [submit EXCEPT !.phase = p, !.seen = b]
           \/ submit' = [submit EXCEPT !.phase = p, !.seen = b, !.twice = c]
    PROVE  submit' \in SubmitRecords /\ SubmitTo(p)
<1>1. CASE submit' = [submit EXCEPT !.phase = p]
  BY <1>1 DEF SubmitRecords, SubmitTo
<1>2. CASE submit' = [submit EXCEPT !.phase = p, !.seen = b]
  BY <1>2 DEF SubmitRecords, SubmitTo
<1>3. CASE submit' = [submit EXCEPT !.phase = p, !.seen = b, !.twice = c]
  BY <1>3 DEF SubmitRecords, SubmitTo
<1> QED BY <1>1, <1>2, <1>3

LEMMA Moves ==
    ASSUME submit \in SubmitRecords, NEW p \in SubmitPhases, Move(p)
    PROVE  submit' \in SubmitRecords /\ SubmitTo(p)
<1>1. PICK b \in BOOLEAN : b = FALSE
  OBVIOUS
<1> QED BY <1>1, SubmitsTo DEF Move

LEMMA GivesUpDoes ==
    ASSUME session \in SessionRecords, submit \in SubmitRecords, GivesUp
    PROVE  /\ Ends(session, session') /\ session'.preparing = session.preparing
           /\ session' \in SessionRecords
           /\ submit' \in SubmitRecords /\ SubmitTo("suffix")
<1>1. "suffix" \in SubmitPhases
  BY DEF SubmitPhases
<1>2. Ends(session, session') /\ session'.preparing = session.preparing
  BY EndedDoes DEF GivesUp
<1> QED BY <1>1, <1>2, Moves DEF GivesUp, Ends

LEMMA SubmitDoes ==
    ASSUME TypeOK, Submit
    PROVE  /\ TypeOK' /\ submit.phase = "idle" /\ ready # <<>>
           /\ submit'.phase = "lock" /\ submit'.frame = ready[1].frame
           /\ submit'.readable = ready[1].readable
           /\ ready' = Tail(ready)
           /\ ThreadsKept /\ UNCHANGED <<session, resident, surface, lock, queue, target, used>>
<1>1. /\ session \in SessionRecords /\ submit \in SubmitRecords /\ ready \in Seq(ReadyRecords)
      /\ submit.phase = "idle" /\ ready # <<>> /\ ready' = Tail(ready)
  BY TypesNamed DEF Submit, At
<1>2. ready[1] \in ReadyRecords /\ ready' \in Seq(ReadyRecords) /\ Head(ready) = ready[1]
  BY <1>1
<1>3. PICK twice \in BOOLEAN, suffix \in BOOLEAN :
         submit' = [phase |-> "lock", frame |-> Head(ready).frame,
                    readable |-> Head(ready).readable, twice |-> twice,
                    suffix |-> suffix, locks |-> session.installed, seen |-> FALSE]
  BY DEF Submit
<1>4. PICK off \in BOOLEAN : off = FALSE
  OBVIOUS
<1>5. PICK frame \in Frames : frame = ready[1].frame
  BY <1>2 DEF ReadyRecords
<1>6. PICK readable \in BOOLEAN : readable = ready[1].readable
  BY <1>2 DEF ReadyRecords
<1>7. PICK locks \in BOOLEAN : locks = session.installed
  BY <1>1 DEF SessionRecords
<1>8. submit' = [phase |-> "lock", frame |-> frame, readable |-> readable, twice |-> twice,
                 suffix |-> suffix, locks |-> locks, seen |-> off]
  BY <1>2, <1>3, <1>4, <1>5, <1>6, <1>7, Zenon
<1>9. /\ submit' \in SubmitRecords /\ submit'.phase = "lock" /\ submit'.frame = frame
      /\ submit'.readable = readable
  BY <1>8 DEF SubmitRecords, SubmitPhases
<1>10. ThreadsKept /\ UNCHANGED <<session, resident, surface, lock, queue, target, used>>
  BY DEF Submit, ThreadsKept, scenario, gpuVars, hookVars
<1>11. TypeOK'
  BY <1>2, <1>9, <1>10, TypesNamed, TypesPrime DEF ThreadsKept
<1> QED BY <1>1, <1>5, <1>6, <1>9, <1>10, <1>11

LEMMA AcquireDoes ==
    ASSUME TypeOK, Acquire
    PROVE  /\ TypeOK' /\ submit.phase = "lock" /\ SubmitTo("choose")
           /\ ThreadsKept /\ UNCHANGED <<session, resident, surface, ready, queue, target, used>>
<1>1. /\ session \in SessionRecords /\ submit \in SubmitRecords /\ lock \in {"none", "submit"}
      /\ submit.phase = "lock"
  BY TypesNamed DEF Acquire, At
<1>2. PICK seen \in BOOLEAN : seen = Tracking
  BY <1>1 DEF SessionRecords, Tracking
<1>3. submit' = [submit EXCEPT !.phase = "choose", !.seen = seen]
  BY <1>2, Zenon DEF Acquire
<1>4. submit' \in SubmitRecords /\ SubmitTo("choose")
  <2>1. "choose" \in SubmitPhases
    BY DEF SubmitPhases
  <2> QED BY <1>1, <1>3, <2>1, SubmitsTo
<1>5. ThreadsKept /\ UNCHANGED <<session, resident, surface, ready, queue, target, used>>
  BY DEF Acquire, ThreadsKept, scenario, gpuVars, hookVars
<1>6. lock' \in {"none", "submit"}
  BY <1>1 DEF Acquire
<1>7. TypeOK'
  BY <1>4, <1>5, <1>6, TypesNamed, TypesPrime DEF ThreadsKept
<1> QED BY <1>1, <1>4, <1>5, <1>7

(* A batch is forwarded as it is, or held back for its producer.                *)
LEMMA ChooseDoes ==
    ASSUME TypeOK, Choose
    PROVE  /\ TypeOK' /\ submit.phase = "choose"
           /\ ThreadsKept /\ UNCHANGED <<resident, surface, ready, lock, target, used>>
           /\ \/ /\ SubmitTo("split") /\ queue' = queue
                 /\ session' = [session EXCEPT !.busy = TRUE]
                 /\ session.active /\ session.mode /\ ~session.busy /\ surface.frame # 0
                 /\ ListOf(submit.frame) = resident.list
                 /\ track[resident.list].gen = resident.gen
              \/ SubmitTo("use") /\ Adds(Batch) /\ SessionMay
<1>1. /\ session \in SessionRecords /\ submit \in SubmitRecords /\ queue \in Seq(WorkRecords)
      /\ submit.phase = "choose"
  BY TypesNamed DEF Choose, At
<1>2. PICK off \in BOOLEAN : off = FALSE
  OBVIOUS
<1>3. ThreadsKept /\ UNCHANGED <<resident, surface, ready, lock, target, used>>
  BY DEF Choose, SubmitUnchanged, ThreadsKept, scenario
<1>4. CASE Matches /\ InOrder
  <2>1. /\ session' = [session EXCEPT !.busy = TRUE] /\ queue' = queue
        /\ submit' = [submit EXCEPT !.phase = "split", !.seen = FALSE]
    BY <1>4, Zenon DEF Choose
  <2>2. "split" \in SubmitPhases /\ submit' = [submit EXCEPT !.phase = "split", !.seen = off]
    BY <1>2, <2>1, Zenon DEF SubmitPhases
  <2>3. submit' \in SubmitRecords /\ SubmitTo("split")
    BY <1>1, <2>2, SubmitsTo
  <2>4. session' \in SessionRecords
    BY <1>1, <2>1, SessionChanges
  <2>5. /\ session.active /\ session.mode /\ ~session.busy /\ surface.frame # 0
        /\ ListOf(submit.frame) = resident.list /\ track[resident.list].gen = resident.gen
    BY <1>4 DEF Matches, InOrder, Tracking
  <2>6. TypeOK'
    BY <1>3, <2>1, <2>3, <2>4, TypesNamed, TypesPrime DEF ThreadsKept
  <2> QED BY <1>1, <1>3, <2>1, <2>3, <2>5, <2>6
<1>5. CASE ~(Matches /\ InOrder)
  <2>1. /\ session' = IF Matches THEN Fail(session) ELSE session
        /\ Put(Batch)
        /\ submit' = [submit EXCEPT !.phase = "use", !.seen = FALSE, !.twice = FALSE]
    BY <1>5, Zenon DEF Choose
  <2>2. /\ "use" \in SubmitPhases
        /\ submit' = [submit EXCEPT !.phase = "use", !.seen = off, !.twice = off]
    BY <1>2, <2>1, Zenon DEF SubmitPhases
  <2>3. submit' \in SubmitRecords /\ SubmitTo("use")
    BY <1>1, <2>2, SubmitsTo
  <2>4. Adds(Batch)
    BY <1>1, <2>1, OpsNamed, PutDoes
  <2>5. SessionMay /\ session' \in SessionRecords
    <3>1. PICK b \in BOOLEAN : b = Matches
      BY DEF Matches
    <3>2. session' = IF b THEN Fail(session) ELSE session
      BY <2>1, <3>1, Zenon
    <3>3. b => session.active
      BY <3>1 DEF Matches, Tracking
    <3> QED BY <1>1, <3>2, <3>3, FailMay
  <2>6. TypeOK'
    BY <1>3, <2>3, <2>4, <2>5, TypesNamed, TypesPrime DEF ThreadsKept, Adds
  <2> QED BY <1>1, <1>3, <2>3, <2>4, <2>5, <2>6
<1> QED BY <1>4, <1>5

LEMMA SubmitReadDoes ==
    ASSUME TypeOK, SubmitRead
    PROVE  /\ TypeOK' /\ submit.phase = "split"
           /\ ThreadsKept /\ UNCHANGED <<resident, ready, lock, target, used>>
           /\ \/ /\ SubmitTo("reading") /\ Adds(<<"produce", "read">>) /\ session' = session
                 /\ surface' \in SurfaceRecords /\ surface'.uncertain /\ surface'.frame = surface.frame
                 /\ surface'.read = surface.read /\ surface'.upload = surface.upload
              \/ /\ SubmitTo("suffix") /\ Adds(<<"produce">>) /\ surface' = surface
                 /\ Ends(session, session') /\ session'.preparing = session.preparing
<1>1. /\ session \in SessionRecords /\ submit \in SubmitRecords /\ queue \in Seq(WorkRecords)
      /\ surface \in SurfaceRecords /\ submit.phase = "split"
  BY TypesNamed DEF SubmitRead, At
<1>2. ThreadsKept /\ UNCHANGED <<resident, ready, lock, target, used>>
  BY DEF SubmitRead, SubmitUnchanged, ThreadsKept, scenario
<1>3. CASE /\ Put(<<"produce", "read">>) /\ surface' = [surface EXCEPT !.uncertain = TRUE]
           /\ Move("reading") /\ session' = session
  <2>1. "reading" \in SubmitPhases
    BY DEF SubmitPhases
  <2>2. submit' \in SubmitRecords /\ SubmitTo("reading")
    BY <1>1, <1>3, <2>1, Moves
  <2>3. Adds(<<"produce", "read">>)
    BY <1>1, <1>3, OpsNamed, PutDoes
  <2>4. /\ surface' \in SurfaceRecords /\ surface'.uncertain /\ surface'.frame = surface.frame
        /\ surface'.read = surface.read /\ surface'.upload = surface.upload
    BY <1>1, <1>3, Bounds, PictureFields, SurfaceUpdates
  <2>5. TypeOK'
    BY <1>2, <1>3, <2>2, <2>3, <2>4, TypesNamed, TypesPrime DEF ThreadsKept, Adds
  <2> QED BY <1>1, <1>2, <1>3, <2>2, <2>3, <2>4, <2>5
<1>4. CASE Put(<<"produce">>) /\ GivesUp /\ surface' = surface
  <2>1. /\ Ends(session, session') /\ session'.preparing = session.preparing
        /\ session' \in SessionRecords /\ submit' \in SubmitRecords /\ SubmitTo("suffix")
    BY <1>1, <1>4, GivesUpDoes
  <2>2. Adds(<<"produce">>)
    BY <1>1, <1>4, OpsNamed, PutDoes
  <2>3. TypeOK'
    BY <1>2, <1>4, <2>1, <2>2, TypesNamed, TypesPrime DEF ThreadsKept, Adds
  <2> QED BY <1>1, <1>2, <1>4, <2>1, <2>2, <2>3
<1> QED BY <1>3, <1>4 DEF SubmitRead

QueueKept == UNCHANGED <<queue, target, used>>

LEMMA ReadDoneDoes ==
    ASSUME TypeOK, ReadDone
    PROVE  /\ TypeOK' /\ submit.phase = "reading" /\ ~Queued("read") /\ SubmitTo("ask")
           /\ ThreadsKept /\ QueueKept /\ UNCHANGED <<session, resident, ready, lock>>
           /\ ~surface'.uncertain /\ surface'.frame = surface.frame
           /\ surface'.read = surface.read /\ surface'.upload = surface.upload
<1>1. /\ submit \in SubmitRecords /\ surface \in SurfaceRecords /\ submit.phase = "reading"
      /\ ~Queued("read")
  BY TypesNamed DEF ReadDone, At
<1>2. "ask" \in SubmitPhases
  BY DEF SubmitPhases
<1>3. submit' \in SubmitRecords /\ SubmitTo("ask")
  BY <1>1, <1>2, Moves DEF ReadDone
<1>4. /\ surface' \in SurfaceRecords /\ ~surface'.uncertain /\ surface'.frame = surface.frame
      /\ surface'.read = surface.read /\ surface'.upload = surface.upload
  BY <1>1, Bounds, PictureFields, SurfaceUpdates DEF ReadDone
<1>5. ThreadsKept /\ QueueKept /\ UNCHANGED <<session, resident, ready, lock>>
  BY DEF ReadDone, SubmitUnchanged, ThreadsKept, QueueKept, scenario, gpuVars
<1>6. TypeOK'
  BY <1>3, <1>4, <1>5, TypesNamed, TypesPrime DEF ThreadsKept, QueueKept
<1> QED BY <1>1, <1>3, <1>4, <1>5, <1>6

(* The split path gives up: the session ends and the rest is forwarded.           *)
GaveUp ==
    /\ SubmitTo("suffix") /\ surface' = surface
    /\ Ends(session, session') /\ session'.preparing = session.preparing

LEMMA TimeOutDoes ==
    ASSUME TypeOK, TimeOut
    PROVE  /\ TypeOK' /\ submit.phase \in {"reading", "writing"} /\ GaveUp
           /\ ThreadsKept /\ QueueKept /\ UNCHANGED <<resident, ready, lock>>
<1>1. session \in SessionRecords /\ submit \in SubmitRecords
  BY TypesNamed
<1>2. /\ Ends(session, session') /\ session'.preparing = session.preparing
      /\ session' \in SessionRecords /\ submit' \in SubmitRecords /\ SubmitTo("suffix")
  BY <1>1, GivesUpDoes DEF TimeOut
<1>3. /\ ThreadsKept /\ QueueKept /\ UNCHANGED <<resident, surface, ready, lock>>
      /\ submit.phase \in {"reading", "writing"}
  BY DEF TimeOut, SubmitUnchanged, ThreadsKept, QueueKept, scenario, gpuVars
<1>4. TypeOK'
  BY <1>2, <1>3, TypesNamed, TypesPrime DEF ThreadsKept, QueueKept
<1> QED BY <1>2, <1>3, <1>4 DEF GaveUp

LEMMA AskDoes ==
    ASSUME TypeOK, Ask
    PROVE  /\ TypeOK' /\ submit.phase = "ask"
           /\ GaveUp \/ (SubmitTo("answer") /\ UNCHANGED <<session, surface>>)
           /\ ThreadsKept /\ QueueKept /\ UNCHANGED <<resident, ready, lock>>
<1>1. session \in SessionRecords /\ submit \in SubmitRecords
  BY TypesNamed
<1>2. /\ ThreadsKept /\ QueueKept /\ UNCHANGED <<resident, surface, ready, lock>>
      /\ submit.phase = "ask"
  BY DEF Ask, At, SubmitUnchanged, ThreadsKept, QueueKept, scenario, gpuVars
<1>3. CASE GivesUp
  <2>1. /\ Ends(session, session') /\ session'.preparing = session.preparing
        /\ session' \in SessionRecords /\ submit' \in SubmitRecords /\ SubmitTo("suffix")
    BY <1>1, <1>3, GivesUpDoes
  <2>2. TypeOK'
    BY <1>2, <2>1, TypesNamed, TypesPrime DEF ThreadsKept, QueueKept
  <2> QED BY <1>2, <2>1, <2>2 DEF GaveUp
<1>4. CASE Move("answer") /\ UNCHANGED session
  <2>1. "answer" \in SubmitPhases
    BY DEF SubmitPhases
  <2>2. submit' \in SubmitRecords /\ SubmitTo("answer")
    BY <1>1, <1>4, <2>1, Moves
  <2>3. TypeOK'
    BY <1>2, <1>4, <2>2, TypesNamed, TypesPrime DEF ThreadsKept, QueueKept
  <2> QED BY <1>2, <1>4, <2>2, <2>3
<1> QED BY <1>3, <1>4 DEF Ask

LEMMA AnswerDoes ==
    ASSUME TypeOK, Answer
    PROVE  /\ TypeOK' /\ submit.phase = "answer"
           /\ \/ GaveUp
              \/ /\ SubmitTo("write") /\ session' = session /\ surface'.frame = surface.frame
                 /\ surface'.uncertain = surface.uncertain /\ surface'.read = surface.read
                 /\ surface'.upload.frame = surface.read.frame /\ surface'.upload.net
           /\ ThreadsKept /\ QueueKept /\ UNCHANGED <<resident, ready, lock>>
<1>1. session \in SessionRecords /\ submit \in SubmitRecords /\ surface \in SurfaceRecords
  BY TypesNamed
<1>2. /\ ThreadsKept /\ QueueKept /\ UNCHANGED <<resident, ready, lock>>
      /\ submit.phase = "answer"
  BY DEF Answer, At, SubmitUnchanged, ThreadsKept, QueueKept, scenario, gpuVars
<1>3. CASE GivesUp /\ surface' = surface
  <2>1. /\ Ends(session, session') /\ session'.preparing = session.preparing
        /\ session' \in SessionRecords /\ submit' \in SubmitRecords /\ SubmitTo("suffix")
    BY <1>1, <1>3, GivesUpDoes
  <2>2. TypeOK'
    BY <1>2, <1>3, <2>1, TypesNamed, TypesPrime DEF ThreadsKept, QueueKept
  <2> QED BY <1>2, <1>3, <2>1, <2>2 DEF GaveUp
<1>4. CASE /\ surface' = [surface EXCEPT !.upload = Net(surface.read.frame)]
           /\ Move("write") /\ session' = session
  <2>1. "write" \in SubmitPhases
    BY DEF SubmitPhases
  <2>2. submit' \in SubmitRecords /\ SubmitTo("write")
    BY <1>1, <1>4, <2>1, Moves
  <2>3. surface.read.frame \in Frames
    BY <1>1 DEF SurfaceRecords, Pictures
  <2>4. PICK p \in Pictures : p = Net(surface.read.frame)
    BY <2>3, PictureFields
  <2>5. p.frame = surface.read.frame /\ p.net
    BY <2>3, <2>4, PictureFields
  <2>6. /\ surface' \in SurfaceRecords /\ surface'.frame = surface.frame
        /\ surface'.uncertain = surface.uncertain /\ surface'.read = surface.read
        /\ surface'.upload = p
    <3>1. surface' = [surface EXCEPT !.upload = p]
      BY <1>4, <2>4
    <3> QED BY <1>1, <3>1 DEF SurfaceRecords
  <2>7. TypeOK'
    BY <1>2, <1>4, <2>2, <2>6, TypesNamed, TypesPrime DEF ThreadsKept, QueueKept
  <2> QED BY <1>2, <1>4, <2>2, <2>5, <2>6, <2>7
<1> QED BY <1>3, <1>4 DEF Answer

LEMMA SubmitWriteDoes ==
    ASSUME TypeOK, SubmitWrite
    PROVE  /\ TypeOK' /\ submit.phase = "write" /\ SubmitTo("writing") /\ Adds(<<"write">>)
           /\ ThreadsKept /\ UNCHANGED <<session, resident, ready, lock, target, used>>
           /\ surface'.uncertain /\ surface'.frame = surface.frame
           /\ surface'.read = surface.read /\ surface'.upload = surface.upload
<1>1. /\ submit \in SubmitRecords /\ surface \in SurfaceRecords /\ queue \in Seq(WorkRecords)
      /\ submit.phase = "write"
  BY TypesNamed DEF SubmitWrite, At
<1>2. "writing" \in SubmitPhases
  BY DEF SubmitPhases
<1>3. submit' \in SubmitRecords /\ SubmitTo("writing")
  BY <1>1, <1>2, Moves DEF SubmitWrite
<1>4. Adds(<<"write">>)
  BY <1>1, OpsNamed, PutDoes DEF SubmitWrite
<1>5. /\ surface' \in SurfaceRecords /\ surface'.uncertain /\ surface'.frame = surface.frame
      /\ surface'.read = surface.read /\ surface'.upload = surface.upload
  BY <1>1, Bounds, PictureFields, SurfaceUpdates DEF SubmitWrite
<1>6. ThreadsKept /\ UNCHANGED <<session, resident, ready, lock, target, used>>
  BY DEF SubmitWrite, SubmitUnchanged, ThreadsKept, scenario
<1>7. TypeOK'
  BY <1>3, <1>4, <1>5, <1>6, TypesNamed, TypesPrime DEF ThreadsKept, Adds
<1> QED BY <1>1, <1>3, <1>4, <1>5, <1>6, <1>7

(* A frame is counted, and the session closes at its limit.                    *)
Counts ==
    /\ session'.done = session.done \cup {submit.frame}
    /\ session'.preparing = session.preparing /\ session'.busy = session.busy
    /\ session'.opened = session.opened /\ session'.allowed = session.allowed
    /\ session'.active => /\ session.active /\ session'.mode = session.mode
                          /\ Completed(session') < Limit
    /\ session'.mode => session.mode

LEMMA WriteDoneDoes ==
    ASSUME TypeOK, WriteDone
    PROVE  /\ TypeOK' /\ submit.phase = "writing" /\ ~Queued("write") /\ SubmitTo("suffix")
           /\ ThreadsKept /\ QueueKept /\ UNCHANGED <<resident, ready, lock>>
           /\ ~surface'.uncertain /\ surface'.frame = surface.frame
           /\ surface'.read = surface.read /\ surface'.upload = surface.upload
           /\ Counts \/ (Ends(session, session') /\ session'.preparing = session.preparing)
<1>1. /\ submit \in SubmitRecords /\ surface \in SurfaceRecords /\ session \in SessionRecords
      /\ submit.phase = "writing" /\ ~Queued("write")
  BY TypesNamed DEF WriteDone, At
<1>2. "suffix" \in SubmitPhases
  BY DEF SubmitPhases
<1>3. /\ surface' \in SurfaceRecords /\ ~surface'.uncertain /\ surface'.frame = surface.frame
      /\ surface'.read = surface.read /\ surface'.upload = surface.upload
  BY <1>1, Bounds, PictureFields, SurfaceUpdates DEF WriteDone
<1>4. ThreadsKept /\ QueueKept /\ UNCHANGED <<resident, ready, lock>>
  BY DEF WriteDone, SubmitUnchanged, ThreadsKept, QueueKept, scenario, gpuVars
<1>5. PICK counted : counted = [session EXCEPT !.done = session.done \cup {submit.frame}]
  OBVIOUS
<1>6. /\ counted \in SessionRecords /\ counted.done = session.done \cup {submit.frame}
      /\ counted.preparing = session.preparing /\ counted.busy = session.busy
      /\ counted.opened = session.opened /\ counted.allowed = session.allowed
      /\ counted.active = session.active /\ counted.mode = session.mode
  BY <1>1, <1>5 DEF SessionRecords, SubmitRecords
<1>7. \/ /\ session' = IF Completed(counted) >= Limit
                       THEN [counted EXCEPT !.mode = FALSE, !.active = FALSE]
                       ELSE counted
         /\ Move("suffix")
      \/ GivesUp
  BY <1>5, Zenon DEF WriteDone
<1>8. CASE /\ session' = IF Completed(counted) >= Limit
                         THEN [counted EXCEPT !.mode = FALSE, !.active = FALSE]
                         ELSE counted
           /\ Move("suffix")
  <2>1. submit' \in SubmitRecords /\ SubmitTo("suffix")
    BY <1>1, <1>2, <1>8, Moves
  <2>2. PICK off \in SessionRecords : off = [counted EXCEPT !.mode = FALSE, !.active = FALSE]
    BY <1>6, SessionChanges
  <2>3. /\ off.done = counted.done /\ off.preparing = counted.preparing /\ off.busy = counted.busy
        /\ off.opened = counted.opened /\ off.allowed = counted.allowed
        /\ ~off.active /\ ~off.mode
    BY <1>6, <2>2 DEF SessionRecords
  <2>4. session' = IF Completed(counted) >= Limit THEN off ELSE counted
    BY <1>8, <2>2, Zenon
  <2>5. counted.done \in SUBSET Frames
    BY <1>6 DEF SessionRecords
  <2>6. Completed(counted) \in Nat
    BY <2>5, Bounds, DoneCounts DEF Completed
  <2>7. session' \in SessionRecords
    BY <1>6, <2>2, <2>4
  <2>8. Counts
    <3>1. CASE Completed(counted) >= Limit
      BY <1>6, <2>3, <2>4, <3>1 DEF Counts
    <3>2. CASE ~(Completed(counted) >= Limit)
      BY <1>6, <2>4, <2>6, <3>2, Bounds DEF Counts
    <3> QED BY <3>1, <3>2
  <2>9. TypeOK'
    BY <1>3, <1>4, <2>1, <2>7, TypesNamed, TypesPrime DEF ThreadsKept, QueueKept
  <2> QED BY <1>1, <1>3, <1>4, <2>1, <2>8, <2>9
<1>9. CASE GivesUp
  <2>1. /\ Ends(session, session') /\ session'.preparing = session.preparing
        /\ session' \in SessionRecords /\ submit' \in SubmitRecords /\ SubmitTo("suffix")
    BY <1>1, <1>9, GivesUpDoes
  <2>2. TypeOK'
    BY <1>3, <1>4, <2>1, TypesNamed, TypesPrime DEF ThreadsKept, QueueKept
  <2> QED BY <1>1, <1>3, <1>4, <2>1, <2>2
<1> QED BY <1>7, <1>8, <1>9

LEMMA SuffixDoes ==
    ASSUME TypeOK, Suffix
    PROVE  /\ TypeOK' /\ submit.phase = "suffix" /\ SubmitTo("retire")
           /\ submit.suffix => Adds(<<"use">>)
           /\ ~submit.suffix => Adds(<<>>)
           /\ ThreadsKept /\ UNCHANGED <<session, resident, surface, ready, lock, target, used>>
<1>1. submit \in SubmitRecords /\ queue \in Seq(WorkRecords) /\ submit.phase = "suffix"
  BY TypesNamed DEF Suffix, At
<1>2. "retire" \in SubmitPhases
  BY DEF SubmitPhases
<1>3. submit' \in SubmitRecords /\ SubmitTo("retire")
  BY <1>1, <1>2, Moves DEF Suffix
<1>4. Put(IF submit.suffix THEN <<"use">> ELSE <<>>)
  BY DEF Suffix
<1>5. submit.suffix => Adds(<<"use">>)
  <2>1. HAVE submit.suffix
  <2>2. Put(<<"use">>)
    BY <1>4, <2>1, Zenon
  <2> QED BY <1>1, <2>2, OpsNamed, PutDoes
<1>6. ~submit.suffix => Adds(<<>>)
  <2>1. HAVE ~submit.suffix
  <2>2. Put(<<>>)
    BY <1>4, <2>1, Zenon
  <2> QED BY <1>1, <2>2, OpsNamed, PutDoes
<1>7. ThreadsKept /\ UNCHANGED <<session, resident, surface, ready, lock, target, used>>
  BY DEF Suffix, SubmitUnchanged, ThreadsKept, scenario
<1>8. queue' \in Seq(WorkRecords)
  BY <1>5, <1>6 DEF Adds
<1>9. TypeOK'
  BY <1>3, <1>7, <1>8, TypesNamed, TypesPrime DEF ThreadsKept
<1> QED BY <1>1, <1>3, <1>5, <1>6, <1>7, <1>9

LEMMA RetireDoes ==
    ASSUME TypeOK, Retire
    PROVE  /\ TypeOK' /\ submit.phase = "retire" /\ SubmitTo("use")
           /\ ThreadsKept /\ QueueKept /\ UNCHANGED <<ready, lock>>
           /\ IF surface.uncertain THEN surface' = surface
              ELSE surface'.frame = 0 /\ ~surface'.uncertain
           /\ resident'.list = "none"
           /\ session' = [session EXCEPT !.busy = FALSE]
<1>1. /\ submit \in SubmitRecords /\ surface \in SurfaceRecords /\ session \in SessionRecords
      /\ submit.phase = "retire"
  BY TypesNamed DEF Retire, At
<1>2. "use" \in SubmitPhases
  BY DEF SubmitPhases
<1>3. submit' \in SubmitRecords /\ SubmitTo("use")
  BY <1>1, <1>2, Moves DEF Retire
<1>4. surface' = IF surface.uncertain THEN surface ELSE NoSurface
  BY DEF Retire, Retired
<1>5. /\ surface' \in SurfaceRecords
      /\ IF surface.uncertain THEN surface' = surface ELSE surface'.frame = 0 /\ ~surface'.uncertain
  BY <1>1, <1>4, PictureFields
<1>6. resident' \in ResidentRecords /\ resident'.list = "none"
  BY Bounds DEF Retire, NoList, ResidentRecords
<1>7. session' = [session EXCEPT !.busy = FALSE] /\ session' \in SessionRecords
  <2>1. session' = [session EXCEPT !.busy = FALSE]
    BY DEF Retire
  <2> QED BY <1>1, <2>1, SessionChanges
<1>8. ThreadsKept /\ QueueKept /\ UNCHANGED <<ready, lock>>
  BY DEF Retire, SubmitUnchanged, ThreadsKept, QueueKept, scenario, gpuVars
<1>9. TypeOK'
  BY <1>3, <1>5, <1>6, <1>7, <1>8, TypesNamed, TypesPrime DEF ThreadsKept, QueueKept
<1> QED BY <1>1, <1>3, <1>5, <1>6, <1>7, <1>8, <1>9

LEMMA IdleFits == NoExecute \in SubmitRecords /\ NoExecute.phase = "idle"
<1>1. PICK off \in BOOLEAN : off = FALSE
  OBVIOUS
<1>2. PICK none \in Frames : none = 0
  BY Bounds
<1>3. NoExecute = [phase |-> "idle", frame |-> none, readable |-> off, twice |-> off,
                   suffix |-> off, locks |-> off, seen |-> off]
  BY <1>1, <1>2, Zenon DEF NoExecute
<1> QED BY <1>3 DEF SubmitRecords, SubmitPhases

LEMMA ReturnDoes ==
    ASSUME TypeOK, Return
    PROVE  /\ TypeOK' /\ submit.phase = "use" /\ submit'.phase = "idle"
           /\ submit.suffix => Adds(<<>>)
           /\ ~submit.suffix => Adds(<<"use">>)
           /\ ThreadsKept /\ UNCHANGED <<session, resident, surface, ready, target, used>>
<1>1. /\ submit \in SubmitRecords /\ queue \in Seq(WorkRecords) /\ submit.phase = "use"
      /\ lock \in {"none", "submit"}
  BY TypesNamed DEF Return, At
<1>2. submit' \in SubmitRecords /\ submit'.phase = "idle"
  BY IdleFits DEF Return
<1>3. Put(IF submit.suffix THEN <<>> ELSE <<"use">>)
  BY DEF Return
<1>4. submit.suffix => Adds(<<>>)
  <2>1. HAVE submit.suffix
  <2>2. Put(<<>>)
    BY <1>3, <2>1, Zenon
  <2> QED BY <1>1, <2>2, OpsNamed, PutDoes
<1>5. ~submit.suffix => Adds(<<"use">>)
  <2>1. HAVE ~submit.suffix
  <2>2. Put(<<"use">>)
    BY <1>3, <2>1, Zenon
  <2> QED BY <1>1, <2>2, OpsNamed, PutDoes
<1>6. ThreadsKept /\ UNCHANGED <<session, resident, surface, ready, target, used>>
  BY DEF Return, ThreadsKept, scenario, hookVars
<1>7. queue' \in Seq(WorkRecords) /\ lock' \in {"none", "submit"}
  BY <1>1, <1>4, <1>5 DEF Adds, Return
<1>8. TypeOK'
  BY <1>2, <1>6, <1>7, TypesNamed, TypesPrime DEF ThreadsKept
<1> QED BY <1>1, <1>2, <1>4, <1>5, <1>6, <1>8

(* The other thread, and the GPU.                                               *)
LEMMA OtherDoes ==
    ASSUME TypeOK, Order, OtherEnters \/ OtherSubmits
    PROVE  /\ TypeOK' /\ (other'.phase = "entered" => other'.done < MaxFrame)
           /\ UNCHANGED <<mayFail, plan, session, track, resident, surface, recorder, ready,
                          submit, lock, queue, target, used>>
<1>1. other \in OtherRecords /\ session \in SessionRecords
  BY TypesNamed
<1>2. UNCHANGED <<mayFail, plan, session, track, resident, surface, recorder, ready,
                  submit, lock, queue, target, used>>
  BY DEF OtherEnters, OtherSubmits, scenario, hookVars, gpuVars
<1>3. CASE OtherEnters
  <2>1. PICK locks \in BOOLEAN : locks = session.installed
    BY <1>1 DEF SessionRecords
  <2>2. other' = [other EXCEPT !.phase = "entered", !.locks = locks] /\ other.done < MaxFrame
    BY <1>3, <2>1, Zenon DEF OtherEnters
  <2>3. other' \in OtherRecords /\ other'.done = other.done
    BY <1>1, <2>2 DEF OtherRecords
  <2> QED BY <1>2, <2>2, <2>3, TypesNamed, TypesPrime
<1>4. CASE OtherSubmits
  <2>1. other.done \in Frames /\ other.done < MaxFrame
    BY <1>1, <1>4 DEF OtherSubmits, OtherRecords, Order
  <2>2. PICK n \in Frames : n = other.done + 1
    BY <2>1, Bounds DEF Frames
  <2>3. other' = [other EXCEPT !.phase = "idle", !.done = n]
    BY <1>4, <2>2 DEF OtherSubmits
  <2>4. other' \in OtherRecords /\ other'.phase = "idle"
    BY <1>1, <2>3 DEF OtherRecords
  <2> QED BY <1>2, <2>4, TypesNamed, TypesPrime
<1> QED BY <1>3, <1>4

(* The GPU executes the first work of the queue.                                *)
LEMMA GpuDoes ==
    ASSUME TypeOK, GpuStep
    PROVE  /\ TypeOK' /\ queue # <<>> /\ queue' = Tail(queue)
           /\ queue[1] \in WorkRecords
           /\ UNCHANGED <<mayFail, plan, session, track, resident, recorder, ready, submit,
                          other, lock>>
           /\ surface'.frame = surface.frame /\ surface'.uncertain = surface.uncertain
           /\ surface'.upload = surface.upload
           /\ IF queue[1].op = "read" THEN surface'.read = target.picture ELSE surface' = surface
           /\ queue[1].op = "produce" =>
                 /\ target'.picture = Raw(queue[1].frame)
                 /\ target'.readable = queue[1].readable
           /\ queue[1].op = "write" => /\ target'.picture = surface.upload
                                       /\ target'.readable = target.readable
           /\ queue[1].op \in {"read", "use"} => target' = target
           /\ IF queue[1].op = "use"
              THEN used' = [used EXCEPT ![queue[1].frame] = target.picture]
              ELSE used' = used
<1> DEFINE w == queue[1]
<1>1. /\ surface \in SurfaceRecords /\ target \in TargetRecords /\ queue \in Seq(WorkRecords)
      /\ used \in [1 .. MaxFrame -> Pictures] /\ queue # <<>> /\ queue' = Tail(queue)
  BY TypesNamed DEF GpuStep
<1>2. w \in WorkRecords /\ Head(queue) = w /\ queue' \in Seq(WorkRecords)
  BY <1>1
<1> HIDE DEF w
<1>3. UNCHANGED <<mayFail, plan, session, track, resident, recorder, ready, submit, other, lock>>
  BY DEF GpuStep, scenario
<1>4. w.op \in OpNames /\ w.frame \in Frames /\ w.readable \in BOOLEAN
  BY <1>2 DEF WorkRecords
<1>5. target.picture \in Pictures /\ target.readable \in BOOLEAN /\ surface.upload \in Pictures
  BY <1>1 DEF TargetRecords, SurfaceRecords
<1>6. CASE w.op = "produce"
  <2>1. target' = [picture |-> Raw(w.frame), readable |-> w.readable] /\ UNCHANGED <<surface, used>>
    BY <1>2, <1>6 DEF GpuStep
  <2>2. Raw(w.frame) \in Pictures
    BY <1>4, PictureFields
  <2>3. /\ target' \in TargetRecords /\ target'.picture = Raw(w.frame)
        /\ target'.readable = w.readable
    BY <1>4, <2>1, <2>2 DEF TargetRecords
  <2> QED BY <1>1, <1>2, <1>3, <1>6, <2>1, <2>3, TypesNamed, TypesPrime DEF w
<1>7. CASE w.op = "read"
  <2>1. surface' = [surface EXCEPT !.read = target.picture] /\ UNCHANGED <<target, used>>
    BY <1>2, <1>7 DEF GpuStep
  <2>2. /\ surface' \in SurfaceRecords /\ surface'.frame = surface.frame
        /\ surface'.uncertain = surface.uncertain /\ surface'.upload = surface.upload
        /\ surface'.read = target.picture
    BY <1>1, <1>5, <2>1 DEF SurfaceRecords
  <2> QED BY <1>1, <1>2, <1>3, <1>7, <2>1, <2>2, TypesNamed, TypesPrime DEF w
<1>8. CASE w.op = "write"
  <2>1. target' = [target EXCEPT !.picture = surface.upload] /\ UNCHANGED <<surface, used>>
    BY <1>2, <1>8 DEF GpuStep
  <2>2. /\ target' \in TargetRecords /\ target'.picture = surface.upload
        /\ target'.readable = target.readable
    BY <1>1, <1>5, <2>1 DEF TargetRecords
  <2> QED BY <1>1, <1>2, <1>3, <1>8, <2>1, <2>2, TypesNamed, TypesPrime DEF w
<1>9. CASE w.op = "use"
  <2>1. used' = [used EXCEPT ![w.frame] = target.picture] /\ UNCHANGED <<surface, target>>
    BY <1>2, <1>9 DEF GpuStep
  <2>2. used' \in [1 .. MaxFrame -> Pictures]
    BY <1>1, <1>5, <2>1
  <2> QED BY <1>1, <1>2, <1>3, <1>9, <2>1, <2>2, TypesNamed, TypesPrime DEF w
<1> QED BY <1>4, <1>6, <1>7, <1>8, <1>9 DEF OpNames

-----------------------------------------------------------------------------
(* The line of frames: recorded, waiting, submitted.                            *)
LineMoves ==
    \/ /\ recorder'.phase = recorder.phase /\ recorder'.frame = recorder.frame /\ ready' = ready
    \/ /\ recorder.phase # "next" /\ recorder'.phase # "next"
       /\ recorder'.frame = recorder.frame /\ ready' = ready
    \/ /\ recorder.phase = "next" /\ recorder'.phase # "next"
       /\ recorder'.frame = recorder.frame + 1 /\ ready' = ready
    \/ /\ recorder.phase # "next" /\ recorder'.phase = "next" /\ recorder'.frame = recorder.frame
       /\ ready' = Append(ready, [frame |-> recorder.frame, readable |-> recorder.readable])
    \/ /\ recorder' = recorder /\ ready # <<>> /\ ready' = Tail(ready)

Sorted ==
    /\ recorder.phase # "next" => recorder.frame >= 1
    /\ \A i \in DOMAIN ready :
        /\ ready[i].frame >= 1 /\ ready[i].frame <= recorder.frame
        /\ recorder.phase # "next" => ready[i].frame < recorder.frame
        /\ \A j \in DOMAIN ready : i < j => ready[i].frame < ready[j].frame

LEMMA ReadyIs ==
    ASSUME TypeOK
    PROVE  /\ recorder.frame \in Frames /\ recorder.frame \in Nat
           /\ Len(ready) \in Nat /\ DOMAIN ready = 1 .. Len(ready)
           /\ \A i \in DOMAIN ready : ready[i].frame \in Frames /\ ready[i].frame \in Nat
<1>1. recorder \in RecorderRecords /\ ready \in Seq(ReadyRecords)
  BY TypesNamed
<1>2. /\ Len(ready) \in Nat /\ DOMAIN ready = 1 .. Len(ready)
      /\ \A i \in DOMAIN ready : ready[i] \in ReadyRecords
  BY <1>1
<1>3. recorder.frame \in Frames /\ \A r \in ReadyRecords : r.frame \in Frames
  BY <1>1 DEF RecorderRecords, ReadyRecords
<1>4. \A i \in DOMAIN ready : ready[i].frame \in Frames
  BY <1>2, <1>3
<1> QED BY <1>2, <1>3, <1>4, Bounds

LEMMA TailIs ==
    ASSUME NEW S, NEW s \in Seq(S), s # <<>>
    PROVE  /\ Len(s) \in Nat \ {0} /\ Len(Tail(s)) = Len(s) - 1 /\ Tail(s) \in Seq(S)
           /\ s[1] \in S /\ 1 \in DOMAIN s /\ Head(s) = s[1]
           /\ DOMAIN s = 1 .. Len(s) /\ DOMAIN Tail(s) = 1 .. (Len(s) - 1)
           /\ \A i \in DOMAIN Tail(s) : i + 1 \in DOMAIN s /\ Tail(s)[i] = s[i + 1]
           /\ \A i \in DOMAIN s : i = 1 \/ i - 1 \in DOMAIN Tail(s)
OBVIOUS

LEMMA AppendIs ==
    ASSUME NEW S, NEW s \in Seq(S), NEW x \in S
    PROVE  /\ Len(s) \in Nat /\ Len(Append(s, x)) = Len(s) + 1
           /\ DOMAIN Append(s, x) = 1 .. (Len(s) + 1) /\ DOMAIN s = 1 .. Len(s)
           /\ \A i \in DOMAIN Append(s, x) :
                 \/ i \in DOMAIN s /\ Append(s, x)[i] = s[i]
                 \/ i = Len(s) + 1 /\ Append(s, x)[i] = x
OBVIOUS

LEMMA LineStep ==
    ASSUME TypeOK, Sorted, LineMoves
    PROVE  /\ Sorted'
           /\ \A f \in Frames : Past(f) => Past(f)'
           /\ \A f \in Frames :
                 recorder' = recorder /\ ready # <<>> /\ ready' = Tail(ready) /\ f = ready[1].frame
                    => Past(f)'
<1>1. /\ recorder.frame \in Nat /\ Len(ready) \in Nat /\ DOMAIN ready = 1 .. Len(ready)
      /\ \A i \in DOMAIN ready : ready[i].frame \in Nat
  BY ReadyIs
<1>2. Frames \subseteq Nat
  BY Bounds
<1>3. CASE /\ recorder'.phase = recorder.phase /\ recorder'.frame = recorder.frame /\ ready' = ready
  <2>1. Len(ready') = Len(ready) /\ (ready # <<>> => Len(Tail(ready)) = Len(ready) - 1)
    BY <1>3, TypesNamed, TailIs
  <2>2. ~(ready # <<>> /\ ready' = Tail(ready))
    BY <1>1, <2>1
  <2> QED BY <1>3, <2>2 DEF Sorted, Past
<1>4. CASE /\ recorder.phase # "next" /\ recorder'.phase # "next"
           /\ recorder'.frame = recorder.frame /\ ready' = ready
  <2>1. Len(ready') = Len(ready) /\ (ready # <<>> => Len(Tail(ready)) = Len(ready) - 1)
    BY <1>4, TypesNamed, TailIs
  <2>2. ~(ready # <<>> /\ ready' = Tail(ready))
    BY <1>1, <2>1
  <2> QED BY <1>4, <2>2 DEF Sorted, Past
<1>5. CASE /\ recorder.phase = "next" /\ recorder'.phase # "next"
           /\ recorder'.frame = recorder.frame + 1 /\ ready' = ready
  <2>1. recorder' # recorder
    BY <1>5
  <2>2. Sorted'
    BY <1>1, <1>5 DEF Sorted
  <2>3. \A f \in Frames : Past(f) => Past(f)'
    BY <1>1, <1>2, <1>5 DEF Past
  <2> QED BY <2>1, <2>2, <2>3
<1>6. CASE /\ recorder.phase # "next" /\ recorder'.phase = "next" /\ recorder'.frame = recorder.frame
           /\ ready' = Append(ready, [frame |-> recorder.frame, readable |-> recorder.readable])
  <2>1. PICK x : x = [frame |-> recorder.frame, readable |-> recorder.readable]
    OBVIOUS
  <2>2. x \in ReadyRecords /\ x.frame = recorder.frame
    <3>1. recorder \in RecorderRecords
      BY TypesNamed
    <3> QED BY <2>1, <3>1 DEF RecorderRecords, ReadyRecords
  <2>3. /\ DOMAIN ready' = 1 .. (Len(ready) + 1)
        /\ \A i \in DOMAIN ready' : \/ i \in DOMAIN ready /\ ready'[i] = ready[i]
                                    \/ i = Len(ready) + 1 /\ ready'[i] = x
    <3>1. ready \in Seq(ReadyRecords) /\ ready' = Append(ready, x)
      BY <1>6, <2>1, TypesNamed
    <3> QED BY <2>2, <3>1, AppendIs
  <2>4. \A i \in DOMAIN ready' : /\ ready'[i].frame >= 1 /\ ready'[i].frame <= recorder.frame
    BY <1>1, <1>6, <2>2, <2>3 DEF Sorted
  <2>5. \A i, j \in DOMAIN ready' : i < j => ready'[i].frame < ready'[j].frame
    <3>1. \A i \in DOMAIN ready : i < Len(ready) + 1 /\ ready[i].frame < recorder.frame
      BY <1>1, <1>6 DEF Sorted
    <3>2. TAKE i, j \in DOMAIN ready'
    <3>3. HAVE i < j
    <3>4. i \in Int /\ j \in Int /\ j <= Len(ready) + 1
      BY <1>1, <2>3
    <3>5. i \in DOMAIN ready /\ ready'[i] = ready[i]
      BY <1>1, <2>3, <3>3, <3>4
    <3>6. CASE j \in DOMAIN ready /\ ready'[j] = ready[j]
      BY <3>3, <3>5, <3>6 DEF Sorted
    <3>7. CASE j = Len(ready) + 1 /\ ready'[j] = x
      BY <2>2, <3>1, <3>5, <3>7
    <3> QED BY <2>3, <3>6, <3>7
  <2>6. Sorted'
    BY <1>6, <2>4, <2>5 DEF Sorted
  <2>7. \A f \in Frames : Past(f) => Past(f)'
    BY <1>1, <1>2, <1>6, <2>2, <2>3 DEF Past
  <2>8. recorder' # recorder
    BY <1>6
  <2> QED BY <2>6, <2>7, <2>8
<1>7. CASE recorder' = recorder /\ ready # <<>> /\ ready' = Tail(ready)
  <2>1. /\ DOMAIN ready' = 1 .. (Len(ready) - 1) /\ 1 \in DOMAIN ready
        /\ \A i \in DOMAIN ready' : i + 1 \in DOMAIN ready /\ ready'[i] = ready[i + 1]
    BY <1>7, TypesNamed, TailIs
  <2>2. \A i \in DOMAIN ready' : i \in Nat /\ 1 < i + 1
    BY <1>1, <2>1
  <2>3. \A i, j \in DOMAIN ready' : i < j => i + 1 < j + 1
    BY <1>1, <2>1
  <2>4. Sorted'
    BY <1>7, <2>1, <2>3 DEF Sorted
  <2>5. \A f \in Frames : Past(f) => Past(f)'
    BY <1>7, <2>1 DEF Past
  <2>6. \A f \in Frames : f = ready[1].frame => Past(f)'
    <3>1. ready[1].frame <= recorder'.frame /\ (recorder'.phase # "next" => ready[1].frame < recorder'.frame)
      BY <1>7, <2>1 DEF Sorted
    <3>2. \A i \in DOMAIN ready' : ready[1].frame < ready'[i].frame
      BY <2>1, <2>2 DEF Sorted
    <3> QED BY <3>1, <3>2 DEF Past
  <2> QED BY <2>4, <2>5, <2>6
<1> QED BY <1>3, <1>4, <1>5, <1>6, <1>7 DEF LineMoves

-----------------------------------------------------------------------------
(* Order.                                                                       *)
SubmitLine ==
    submit'.phase # "idle" =>
       \/ submit.phase # "idle" /\ submit'.frame = submit.frame
       \/ /\ recorder' = recorder /\ ready # <<>> /\ ready' = Tail(ready)
          /\ submit'.frame = ready[1].frame
WorkLine ==
    \A i \in DOMAIN queue' :
       \/ \E j \in DOMAIN queue : queue'[i].frame = queue[j].frame
       \/ submit.phase # "idle" /\ queue'[i].frame = submit.frame
DoneLine ==
    \A n \in session'.done : n \in session.done \/ (submit.phase # "idle" /\ n = submit.frame)
UsedLine ==
    \A n \in 1 .. MaxFrame :
       used'[n] # Raw(0) => used[n] # Raw(0) \/ (queue # <<>> /\ n = queue[1].frame)
GenLine == \A l \in Lists : track'[l].gen <= track[l].gen \/ track'[l].gen <= recorder'.frame
OtherLine == other'.phase = "entered" => other'.done < MaxFrame

LEMMA QueueIs ==
    ASSUME TypeOK
    PROVE  /\ Len(queue) \in Nat /\ DOMAIN queue = 1 .. Len(queue)
           /\ queue = <<>> <=> Len(queue) = 0
           /\ \A i \in DOMAIN queue : /\ queue[i] \in WorkRecords /\ queue[i].op \in OpNames
                                      /\ queue[i].frame \in Frames /\ queue[i].frame \in Nat
                                      /\ queue[i].readable \in BOOLEAN
<1>1. queue \in Seq(WorkRecords)
  BY TypesNamed
<1>2. \A w \in WorkRecords : w.op \in OpNames /\ w.frame \in Frames /\ w.readable \in BOOLEAN
  BY DEF WorkRecords
<1>3. /\ Len(queue) \in Nat /\ DOMAIN queue = 1 .. Len(queue)
      /\ queue = <<>> <=> Len(queue) = 0
      /\ \A i \in DOMAIN queue : queue[i] \in WorkRecords
  BY <1>1
<1> QED BY <1>2, <1>3, Bounds

LEMMA SubmitIs ==
    ASSUME TypeOK
    PROVE  /\ submit.frame \in Frames /\ submit.frame \in Nat /\ submit.phase \in SubmitPhases
           /\ submit.readable \in BOOLEAN /\ submit.suffix \in BOOLEAN
<1>1. submit \in SubmitRecords
  BY TypesNamed
<1> QED BY <1>1, Bounds DEF SubmitRecords

LEMMA SessionIs ==
    ASSUME TypeOK
    PROVE  /\ session.done \in SUBSET Frames /\ session.allowed \in 0 .. Limit
           /\ session.active \in BOOLEAN /\ session.mode \in BOOLEAN /\ session.busy \in BOOLEAN
           /\ session.preparing \in BOOLEAN /\ session.opened \in BOOLEAN
<1>1. session \in SessionRecords
  BY TypesNamed
<1> QED BY <1>1 DEF SessionRecords

LEMMA OrderStep ==
    ASSUME TypeOK, TypeOK', Order, LineMoves, SubmitLine, WorkLine, DoneLine, UsedLine, GenLine,
           OtherLine
    PROVE  Order'
<1>1. Sorted
  BY DEF Order, Sorted
<1>2. /\ Sorted' /\ \A f \in Frames : Past(f) => Past(f)'
      /\ \A f \in Frames :
            recorder' = recorder /\ ready # <<>> /\ ready' = Tail(ready) /\ f = ready[1].frame
               => Past(f)'
  BY <1>1, LineStep
<1>3. /\ \A i \in DOMAIN queue : queue[i].frame >= 1 /\ queue[i].frame \in Frames /\ Past(queue[i].frame)
      /\ queue # <<>> => 1 \in DOMAIN queue
  BY QueueIs DEF Order
<1>4. submit.phase # "idle" => submit.frame >= 1 /\ submit.frame \in Frames /\ Past(submit.frame)
  BY SubmitIs DEF Order
<1>5. ready # <<>> => ready[1].frame \in Frames /\ ready[1].frame >= 1
  <2>1. ready # <<>> => 1 \in DOMAIN ready
    BY TypesNamed, TailIs
  <2> QED BY <2>1, ReadyIs DEF Order
<1>6. \A f \in Frames : submit'.phase # "idle" /\ f = submit'.frame => f >= 1 /\ Past(f)'
  BY <1>2, <1>4, <1>5 DEF SubmitLine
<1>7. \A f \in Frames, i \in DOMAIN queue' : f = queue'[i].frame => f >= 1 /\ Past(f)'
  <2>1. TAKE f \in Frames, i \in DOMAIN queue'
  <2>2. HAVE f = queue'[i].frame
  <2>3. CASE \E j \in DOMAIN queue : queue'[i].frame = queue[j].frame
    <3>1. PICK j \in DOMAIN queue : queue'[i].frame = queue[j].frame
      BY <2>3
    <3> QED BY <1>2, <1>3, <2>2, <3>1
  <2>4. CASE submit.phase # "idle" /\ queue'[i].frame = submit.frame
    BY <1>2, <1>4, <2>2, <2>4
  <2> QED BY <2>3, <2>4 DEF WorkLine
<1>8. \A n \in 1 .. MaxFrame : n \in session'.done => Past(n)'
  <2>1. TAKE n \in 1 .. MaxFrame
  <2>2. HAVE n \in session'.done
  <2>3. n \in Frames
    BY Bounds DEF Frames
  <2>4. Past(n)
    BY <1>4, <2>2 DEF DoneLine, Order
  <2> QED BY <1>2, <2>3, <2>4
<1>9. \A n \in 1 .. MaxFrame : used'[n] # Raw(0) => Past(n)'
  <2>1. TAKE n \in 1 .. MaxFrame
  <2>2. HAVE used'[n] # Raw(0)
  <2>3. n \in Frames
    BY Bounds DEF Frames
  <2>4. Past(n)
    BY <1>3, <2>2 DEF UsedLine, Order
  <2> QED BY <1>2, <2>3, <2>4
<1>10. session'.done \subseteq 1 .. MaxFrame
  <2>1. submit.phase # "idle" => submit.frame \in 1 .. MaxFrame
    BY <1>4, Bounds
  <2> QED BY <2>1 DEF DoneLine, Order
<1>11. \A l \in Lists : track'[l].gen <= recorder'.frame
  <2>1. TAKE l \in Lists
  <2>2. track'[l].gen \in Nat /\ track[l].gen \in Nat
    <3>1. track[l] \in TrackRecords /\ track'[l] \in TrackRecords
      BY TypesNamed, TypesPrime
    <3> QED BY <3>1, Bounds DEF TrackRecords
  <2>3. track[l].gen <= recorder.frame
    BY DEF Order
  <2>4. recorder.frame \in Nat /\ recorder.frame <= recorder'.frame /\ recorder'.frame \in Nat
    <3>1. recorder.frame \in Nat
      BY ReadyIs
    <3>2. recorder'.frame = recorder.frame \/ recorder'.frame = recorder.frame + 1
      BY DEF LineMoves
    <3> QED BY <3>1, <3>2
  <2> QED BY <2>2, <2>3, <2>4 DEF GenLine
<1>12. /\ recorder'.phase # "next" => recorder'.frame >= 1
       /\ \A i \in DOMAIN ready' :
           /\ ready'[i].frame >= 1 /\ ready'[i].frame <= recorder'.frame
           /\ recorder'.phase # "next" => ready'[i].frame < recorder'.frame
           /\ \A j \in DOMAIN ready' : i < j => ready'[i].frame < ready'[j].frame
  BY <1>2 DEF Sorted
<1>13. submit'.frame \in Frames /\ \A i \in DOMAIN queue' : queue'[i].frame \in Frames
  <2>1. submit' \in SubmitRecords /\ queue' \in Seq(WorkRecords)
    BY TypesPrime
  <2>2. \A i \in DOMAIN queue' : queue'[i] \in WorkRecords
    BY <2>1
  <2> QED BY <2>1, <2>2 DEF SubmitRecords, WorkRecords
<1>14. submit'.phase # "idle" => submit'.frame >= 1 /\ Past(submit.frame)'
  BY <1>6, <1>13
<1>15. \A i \in DOMAIN queue' : queue'[i].frame >= 1 /\ Past(queue[i].frame)'
  BY <1>7, <1>13
<1> QED BY <1>8, <1>9, <1>10, <1>11, <1>12, <1>14, <1>15 DEF Order, OtherLine

(* The steps keep to the line.                                                  *)
LEMMA FlagsDo ==
    ASSUME session \in SessionRecords
    PROVE  /\ session' = [session EXCEPT !.preparing = TRUE] =>
                 session'.preparing /\ session'.busy = session.busy
           /\ session' = [session EXCEPT !.preparing = FALSE] =>
                 ~session'.preparing /\ session'.busy = session.busy
           /\ session' = [session EXCEPT !.busy = TRUE] =>
                 session'.busy /\ session'.preparing = session.preparing
           /\ session' = [session EXCEPT !.busy = FALSE] =>
                 ~session'.busy /\ session'.preparing = session.preparing
           /\ \/ session' = [session EXCEPT !.preparing = TRUE]
              \/ session' = [session EXCEPT !.preparing = FALSE]
              \/ session' = [session EXCEPT !.busy = TRUE]
              \/ session' = [session EXCEPT !.busy = FALSE]
              => /\ session'.active = session.active /\ session'.mode = session.mode
                 /\ session'.opened = session.opened /\ session'.done = session.done
                 /\ session'.allowed = session.allowed
BY DEF SessionRecords

LEMMA KeptLines ==
    ASSUME TypeOK
    PROVE  /\ submit' = submit => SubmitLine
           /\ \A p \in SubmitPhases : submit.phase # "idle" /\ SubmitTo(p) => SubmitLine
           /\ queue' = queue => WorkLine
           /\ session'.done = session.done => DoneLine
           /\ used' = used => UsedLine
           /\ GensKept => GenLine
<1>1. \A l \in Lists : track[l].gen \in Nat
  <2>1. track \in [Lists -> TrackRecords]
    BY TypesNamed
  <2> QED BY <2>1, Bounds DEF TrackRecords
<1>2. GensKept => GenLine
  BY <1>1 DEF GensKept, GenLine
<1> QED BY <1>2 DEF SubmitLine, SubmitTo, WorkLine, DoneLine, UsedLine

LEMMA AddsLine ==
    ASSUME TypeOK, NEW ops \in Seq(OpNames), Adds(ops), submit.phase # "idle"
    PROVE  WorkLine
<1>1. Len(queue) \in Nat /\ DOMAIN queue = 1 .. Len(queue)
  BY QueueIs
<1>2. queue' \in Seq(WorkRecords)
  BY DEF Adds
<1>3. DOMAIN queue' = 1 .. Len(queue') /\ Len(queue') \in Nat
  BY <1>2
<1>4. SUFFICES ASSUME NEW i \in DOMAIN queue'
               PROVE  \/ \E j \in DOMAIN queue : queue'[i].frame = queue[j].frame
                      \/ queue'[i].frame = submit.frame
  BY DEF WorkLine
<1>5. CASE i > Len(queue)
  BY <1>3, <1>5 DEF Adds
<1>6. CASE ~(i > Len(queue))
  <2>1. i \in 1 .. Len(queue)
    BY <1>1, <1>3, <1>6
  <2> QED BY <1>1, <2>1 DEF Adds
<1> QED BY <1>5, <1>6

LEMMA RecorderOrder ==
    ASSUME TypeOK, Order, Calls,
           \/ Reset \/ DispatchEnter \/ DispatchLeave \/ BarrierEnter \/ BarrierLeave
           \/ Prepare \/ LaterBarrier \/ Enhanced \/ Close \/ Drop
    PROVE  TypeOK' /\ Order' /\ LineMoves /\ SubmitLine
<1>1. SubmitterKept /\ session'.done = session.done => SubmitLine /\ WorkLine /\ DoneLine /\ UsedLine /\ OtherLine
  <2>1. OtherLine <=> (other'.phase = "entered" => other'.done < MaxFrame)
    BY DEF OtherLine
  <2> QED BY <2>1, KeptLines DEF SubmitterKept, Order
<1>2. SessionMay => session'.done = session.done
  BY DEF SessionMay, Ends
<1>3. TrackNoted => GenLine
  BY KeptLines DEF TrackNoted
<1>4. session \in SessionRecords
  BY TypesNamed
<1>5. CASE Reset
  <2>1. GenLine
    <3>1. \A l \in Lists : track[l].gen \in Nat /\ track[l].gen <= recorder.frame
      <4>1. track \in [Lists -> TrackRecords]
        BY TypesNamed
      <4> QED BY <4>1, Bounds DEF TrackRecords, Order
    <3>2. recorder.frame \in Nat
      BY ReadyIs
    <3>3. /\ recorder'.frame = recorder.frame + 1
          /\ \A k \in Lists : k # plan[recorder.frame + 1] => track'[k].gen = track[k].gen
          /\ \/ track'[plan[recorder.frame + 1]].gen = track[plan[recorder.frame + 1]].gen + 1
             \/ track'[plan[recorder.frame + 1]].gen = track[plan[recorder.frame + 1]].gen
      BY <1>5, ResetDoes
    <3> QED BY <3>1, <3>2, <3>3 DEF GenLine
  <2>2. LineMoves
    BY <1>5, ResetDoes DEF LineMoves
  <2> QED BY <1>1, <1>2, <1>5, <2>1, <2>2, ResetDoes, OrderStep
<1>6. CASE DispatchEnter
  <2>1. GenLine
    BY <1>6, DispatchEnterDoes, KeptLines
  <2>2. LineMoves
    BY <1>6, DispatchEnterDoes DEF LineMoves
  <2> QED BY <1>1, <1>6, <2>1, <2>2, DispatchEnterDoes, OrderStep
<1>7. CASE DispatchLeave
  <2>1. LineMoves
    BY <1>7, DispatchLeaveDoes DEF LineMoves
  <2> QED BY <1>1, <1>3, <1>7, <2>1, DispatchLeaveDoes, OrderStep
<1>8. CASE BarrierEnter
  <2>1. LineMoves
    BY <1>8, BarrierEnterDoes DEF LineMoves
  <2> QED BY <1>1, <1>2, <1>3, <1>8, <2>1, BarrierEnterDoes, OrderStep
<1>9. CASE BarrierLeave
  <2>1. LineMoves
    BY <1>9, BarrierLeaveDoes DEF LineMoves
  <2>2. session'.done = session.done
    BY <1>4, <1>9, BarrierLeaveDoes, FlagsDo
  <2>3. GenLine
    BY <1>9, BarrierLeaveDoes, KeptLines DEF GensKept
  <2> QED BY <1>1, <1>9, <2>1, <2>2, <2>3, BarrierLeaveDoes, OrderStep
<1>10. CASE Prepare
  <2>1. LineMoves
    BY <1>10, PrepareDoes DEF LineMoves
  <2>2. session'.done = session.done
    BY <1>4, <1>10, PrepareDoes, FlagsDo DEF Ends
  <2>3. GenLine
    BY <1>10, PrepareDoes, KeptLines DEF GensKept
  <2> QED BY <1>1, <1>10, <2>1, <2>2, <2>3, PrepareDoes, OrderStep
<1>11. CASE LaterBarrier \/ Enhanced
  <2>1. LineMoves
    BY <1>11, MovedOnDoes DEF LineMoves
  <2> QED BY <1>1, <1>2, <1>3, <1>11, <2>1, MovedOnDoes, OrderStep
<1>12. CASE Close
  <2>1. LineMoves
    BY <1>12, CloseDoes DEF LineMoves
  <2> QED BY <1>1, <1>3, <1>12, <2>1, CloseDoes, OrderStep
<1>13. CASE Drop
  <2>1. LineMoves
    BY <1>13, DropDoes DEF LineMoves
  <2>2. GenLine
    BY <1>13, DropDoes, KeptLines DEF GensKept
  <2> QED BY <1>1, <1>13, <2>1, <2>2, DropDoes, OrderStep
<1> QED BY <1>5, <1>6, <1>7, <1>8, <1>9, <1>10, <1>11, <1>12, <1>13

LEMMA CommandOrder ==
    ASSUME TypeOK, Order, Start \/ Stop \/ Expire \/ HookRaises \/ OtherEnters \/ OtherSubmits
    PROVE  TypeOK' /\ Order' /\ LineMoves /\ SubmitLine
<1>1. CASE Start
  <2>1. /\ recorder' = recorder /\ ready' = ready /\ submit' = submit /\ queue' = queue
        /\ used' = used /\ other' = other /\ session'.done = session.done /\ GensKept /\ TypeOK'
    BY <1>1, StartDoes DEF HandsKept
  <2>2. LineMoves /\ OtherLine
    BY <2>1 DEF LineMoves, OtherLine, Order
  <2> QED BY <2>1, <2>2, KeptLines, OrderStep
<1>2. CASE Stop \/ Expire \/ HookRaises
  <2>1. /\ recorder' = recorder /\ ready' = ready /\ submit' = submit /\ queue' = queue
        /\ used' = used /\ other' = other /\ session'.done = session.done /\ GensKept /\ TypeOK'
    BY <1>2, EndingDoes DEF HandsKept, Ends, GensKept
  <2>2. LineMoves /\ OtherLine
    BY <2>1 DEF LineMoves, OtherLine, Order
  <2> QED BY <2>1, <2>2, KeptLines, OrderStep
<1>3. CASE OtherEnters \/ OtherSubmits
  <2>1. /\ recorder' = recorder /\ ready' = ready /\ submit' = submit /\ queue' = queue
        /\ used' = used /\ session'.done = session.done /\ GensKept /\ TypeOK' /\ OtherLine
    BY <1>3, OtherDoes DEF GensKept, OtherLine
  <2>2. LineMoves
    BY <2>1 DEF LineMoves
  <2> QED BY <2>1, <2>2, KeptLines, OrderStep
<1> QED BY <1>1, <1>2, <1>3

(* The steps of an Execute under way.                                           *)
Executes ==
    /\ submit.phase # "idle" /\ TypeOK'
    /\ ThreadsKept /\ ready' = ready /\ used' = used
    /\ submit'.phase = "idle" \/ \E p \in SubmitPhases : SubmitTo(p)
    /\ queue' = queue \/ \E ops \in Seq(OpNames) : Adds(ops)
    /\ session'.done = session.done \/ (Counts /\ submit.phase = "writing")

LEMMA ExecuteDoes ==
    ASSUME TypeOK, SubmitStep
    PROVE  Executes
<1>1. session \in SessionRecords
  BY TypesNamed
<1>2. /\ \A p \in SubmitPhases : SubmitTo(p) => \E q \in SubmitPhases : SubmitTo(q)
      /\ \A p \in {"idle", "choose", "split", "reading", "ask", "answer", "write", "writing",
                   "suffix", "retire", "use"} : p \in SubmitPhases
      /\ \A s \in Seq(OpNames) : Adds(s) => \E ops \in Seq(OpNames) : Adds(ops)
  BY DEF SubmitPhases
<1>3. CASE Acquire
  BY <1>2, <1>3, AcquireDoes DEF Executes
<1>4. CASE Choose
  <2>1. session'.done = session.done
    BY <1>1, <1>4, ChooseDoes, FlagsDo DEF SessionMay, Ends
  <2> QED BY <1>2, <1>4, <2>1, ChooseDoes, OpsNamed DEF Executes
<1>5. CASE SubmitRead
  <2>1. session'.done = session.done
    BY <1>5, SubmitReadDoes DEF Ends
  <2> QED BY <1>2, <1>5, <2>1, SubmitReadDoes, OpsNamed DEF Executes
<1>6. CASE ReadDone
  BY <1>2, <1>6, ReadDoneDoes DEF Executes, QueueKept
<1>7. CASE TimeOut
  BY <1>2, <1>7, TimeOutDoes DEF Executes, QueueKept, GaveUp, Ends
<1>8. CASE Ask
  BY <1>2, <1>8, AskDoes DEF Executes, QueueKept, GaveUp, Ends
<1>9. CASE Answer
  BY <1>2, <1>9, AnswerDoes DEF Executes, QueueKept, GaveUp, Ends
<1>10. CASE SubmitWrite
  BY <1>2, <1>10, SubmitWriteDoes, OpsNamed DEF Executes
<1>11. CASE WriteDone
  BY <1>2, <1>11, WriteDoneDoes DEF Executes, QueueKept, Ends
<1>12. CASE Suffix
  BY <1>2, <1>12, SuffixDoes, OpsNamed DEF Executes
<1>13. CASE Retire
  <2>1. session'.done = session.done
    BY <1>1, <1>13, RetireDoes, FlagsDo
  <2> QED BY <1>2, <1>13, <2>1, RetireDoes DEF Executes, QueueKept
<1>14. CASE Return
  BY <1>2, <1>14, ReturnDoes, OpsNamed DEF Executes
<1> QED BY <1>3, <1>4, <1>5, <1>6, <1>7, <1>8, <1>9, <1>10, <1>11, <1>12, <1>13, <1>14 DEF SubmitStep

LEMMA ExecuteOrder ==
    ASSUME TypeOK, Order, Submit \/ SubmitStep \/ GpuStep
    PROVE  TypeOK' /\ Order' /\ LineMoves /\ SubmitLine
<1>1. CASE Submit
  <2>1. /\ recorder' = recorder /\ ready' = Tail(ready) /\ ready # <<>> /\ queue' = queue
        /\ submit'.frame = ready[1].frame
        /\ used' = used /\ session'.done = session.done /\ GensKept /\ TypeOK' /\ other' = other
    BY <1>1, SubmitDoes DEF GensKept, ThreadsKept
  <2>2. LineMoves /\ SubmitLine /\ OtherLine
    BY <2>1 DEF LineMoves, SubmitLine, OtherLine, Order
  <2> QED BY <2>1, <2>2, KeptLines, OrderStep
<1>2. CASE SubmitStep
  <2>1. Executes
    BY <1>2, ExecuteDoes
  <2>2. LineMoves /\ GensKept /\ OtherLine
    BY <2>1 DEF Executes, ThreadsKept, LineMoves, GensKept, OtherLine, Order
  <2>3. SubmitLine
    BY <2>1, KeptLines DEF Executes, SubmitLine
  <2>4. WorkLine
    BY <2>1, KeptLines, AddsLine DEF Executes
  <2>5. DoneLine
    BY <2>1, KeptLines DEF Executes, Counts, DoneLine
  <2> QED BY <2>1, <2>2, <2>3, <2>4, <2>5, KeptLines, OrderStep DEF Executes
<1>3. CASE GpuStep
  <2>1. /\ recorder' = recorder /\ ready' = ready /\ submit' = submit /\ queue # <<>>
        /\ queue' = Tail(queue) /\ session'.done = session.done /\ GensKept /\ TypeOK'
        /\ other' = other
    BY <1>3, GpuDoes DEF GensKept
  <2>2. LineMoves /\ OtherLine
    BY <2>1 DEF LineMoves, OtherLine, Order
  <2>3. WorkLine
    <3>1. queue \in Seq(WorkRecords)
      BY TypesNamed
    <3>2. \A i \in DOMAIN queue' : i + 1 \in DOMAIN queue /\ queue'[i] = queue[i + 1]
      BY <2>1, <3>1, TailIs
    <3> QED BY <3>2 DEF WorkLine
  <2>4. UsedLine
    <3>1. used \in [1 .. MaxFrame -> Pictures]
      BY TypesNamed
    <3>2. used' = used \/ used' = [used EXCEPT ![queue[1].frame] = target.picture]
      BY <1>3, GpuDoes
    <3> QED BY <2>1, <3>1, <3>2 DEF UsedLine
  <2> QED BY <2>1, <2>2, <2>3, <2>4, KeptLines, OrderStep
<1> QED BY <1>1, <1>2, <1>3

LEMMA OrderHolds ==
    ASSUME TypeOK, Order, Calls, Next
    PROVE  TypeOK' /\ Order' /\ LineMoves /\ SubmitLine
<1>1. CASE RecorderStep \/ Reset \/ LaterBarrier \/ Enhanced \/ Drop
  BY <1>1, RecorderOrder DEF RecorderStep
<1>2. CASE Start \/ Stop \/ Expire \/ HookRaises \/ OtherEnters \/ OtherSubmits
  BY <1>2, CommandOrder
<1>3. CASE Submit \/ SubmitStep \/ GpuStep
  BY <1>3, ExecuteOrder
<1> QED BY <1>1, <1>2, <1>3 DEF Next

LEMMA ScenarioKept ==
    ASSUME Next
    PROVE  plan' = plan /\ mayFail' = mayFail
<1>1. CASE Start \/ Stop \/ Expire \/ HookRaises \/ OtherEnters \/ OtherSubmits \/ GpuStep \/ Submit
  BY <1>1 DEF Start, Stop, Expire, HookRaises, SessionEnds, OtherEnters, OtherSubmits, GpuStep,
              Submit, scenario
<1>2. CASE RecorderStep \/ Reset \/ LaterBarrier \/ Enhanced \/ Drop
  BY <1>2 DEF RecorderStep, Reset, LaterBarrier, Enhanced, Drop, DispatchEnter, DispatchLeave,
              BarrierEnter, BarrierLeave, Prepare, Close, RecorderUnchanged, scenario
<1>3. CASE SubmitStep
  BY <1>3 DEF SubmitStep, Acquire, Choose, SubmitRead, ReadDone, TimeOut, Ask, Answer, SubmitWrite,
              WriteDone, Suffix, Retire, Return, SubmitUnchanged, scenario
<1> QED BY <1>1, <1>2, <1>3 DEF Next

-----------------------------------------------------------------------------
(* The upscales of a list.                                                      *)
LEMMA CallsKept ==
    ASSUME TypeOK, Order, Calls, plan' = plan, session'.active => session.active,
           recorder'.frame = recorder.frame, recorder'.again = recorder.again,
           TrackNoted \/ track' = track,
           \/ recorder'.phase = recorder.phase
           \/ recorder.phase \notin {"next", "open"} /\ recorder'.phase \notin {"next", "open"}
    PROVE  Calls'
<1>1. recorder.phase # "next" => TheList \in Lists
  BY TheListIs
<1>2. TheList' = TheList
  BY DEF TheList, ListOf
<1>3. recorder.phase # "next" => track'[TheList].calls = track[TheList].calls
  BY <1>1 DEF TrackNoted
<1>4. recorder'.phase # "next" => recorder.phase # "next"
  OBVIOUS
<1>5. recorder'.phase = "open" <=> recorder.phase = "open"
  OBVIOUS
<1> QED BY <1>2, <1>3, <1>4, <1>5 DEF Calls

LEMMA CallsHolds ==
    ASSUME TypeOK, Order, Calls, Next
    PROVE  Calls'
<1>1. SessionMay => (session'.active => session.active)
  BY DEF SessionMay, Ends
<1>2. session \in SessionRecords
  BY TypesNamed
<1>3. CASE Start
  <2>1. /\ recorder' = recorder /\ plan' = plan /\ \A l \in Lists : track'[l].calls = 0
    BY <1>3, StartDoes DEF HandsKept
  <2>2. recorder.phase # "next" => TheList \in Lists
    BY TheListIs
  <2>3. TheList' = TheList
    BY <2>1 DEF TheList, ListOf
  <2> QED BY <2>1, <2>2, <2>3 DEF Calls
<1>4. CASE Stop \/ Expire \/ HookRaises
  BY <1>4, EndingDoes, CallsKept DEF HandsKept, Ends
<1>5. CASE OtherEnters \/ OtherSubmits
  BY <1>5, OtherDoes, CallsKept
<1>6. CASE Submit
  BY <1>6, SubmitDoes, CallsKept DEF ThreadsKept
<1>7. CASE SubmitStep
  <2>1. ThreadsKept
    BY <1>7, ExecuteDoes DEF Executes
  <2>2. session'.active => session.active
    <3>1. CASE Acquire \/ SubmitWrite \/ Suffix \/ Return \/ ReadDone
      BY <3>1, AcquireDoes, SubmitWriteDoes, SuffixDoes, ReturnDoes, ReadDoneDoes
    <3>2. CASE TimeOut \/ Ask \/ Answer
      BY <3>2, TimeOutDoes, AskDoes, AnswerDoes DEF GaveUp, Ends
    <3>3. CASE Choose \/ Retire
      BY <1>1, <1>2, <3>3, ChooseDoes, RetireDoes, FlagsDo
    <3>4. CASE SubmitRead \/ WriteDone
      BY <3>4, SubmitReadDoes, WriteDoneDoes DEF Counts, Ends
    <3> QED BY <1>7, <3>1, <3>2, <3>3, <3>4 DEF SubmitStep
  <2> QED BY <2>1, <2>2, CallsKept DEF ThreadsKept
<1>8. CASE GpuStep
  BY <1>8, GpuDoes, CallsKept
<1>9. CASE Drop
  BY <1>9, DropDoes, CallsKept DEF SubmitterKept
<1>10. CASE Reset
  <2>1. /\ recorder'.frame = recorder.frame + 1 /\ recorder'.phase = "open" /\ ~recorder'.again
        /\ plan' = plan
        /\ session'.active => track'[plan[recorder.frame + 1]].calls = 0
    BY <1>1, <1>10, ResetDoes DEF Calls, SubmitterKept
  <2>2. TheList' = plan[recorder.frame + 1]
    BY <2>1 DEF TheList, ListOf
  <2> QED BY <2>1, <2>2 DEF Calls
<1>11. CASE DispatchEnter
  <2>1. /\ recorder'.frame = recorder.frame /\ recorder'.phase = "dispatch" /\ plan' = plan
        /\ recorder'.again = (recorder.phase = "moved") /\ session' = session
        /\ session.active => track'[TheList].calls <= IF recorder.phase = "moved" THEN 2 ELSE 1
    BY <1>11, DispatchEnterDoes DEF SubmitterKept
  <2>2. TheList' = TheList
    BY <2>1 DEF TheList, ListOf
  <2> QED BY <2>1, <2>2 DEF Calls
<1>12. CASE DispatchLeave
  BY <1>12, DispatchLeaveDoes, CallsKept DEF SubmitterKept
<1>13. CASE BarrierEnter
  BY <1>1, <1>13, BarrierEnterDoes, CallsKept DEF SubmitterKept
<1>14. CASE BarrierLeave
  BY <1>2, <1>14, BarrierLeaveDoes, FlagsDo, CallsKept DEF SubmitterKept
<1>15. CASE Prepare
  BY <1>2, <1>15, PrepareDoes, FlagsDo, CallsKept DEF SubmitterKept, Ends
<1>16. CASE LaterBarrier \/ Enhanced
  BY <1>1, <1>16, MovedOnDoes, CallsKept DEF SubmitterKept
<1>17. CASE Close
  BY <1>17, CloseDoes DEF Calls
<1> QED BY <1>3, <1>4, <1>5, <1>6, <1>7, <1>8, <1>9, <1>10, <1>11, <1>12, <1>13, <1>14, <1>15,
           <1>16, <1>17 DEF Next, RecorderStep

-----------------------------------------------------------------------------
(* One frame in a list.                                                         *)
LEMMA AliveStep ==
    ASSUME TypeOK, Order, Calls, Next
    PROVE  /\ \A f \in Frames : Alive(f)' => Alive(f) \/ (Reset /\ f = recorder.frame + 1)
           /\ recorder.phase = "next" /\ recorder'.phase # "next" => Reset
<1>1. LineMoves /\ SubmitLine
  BY OrderHolds
<1>2. recorder.phase = "next" /\ recorder'.phase # "next" => Reset
  <2>1. Start \/ Stop \/ Expire \/ HookRaises \/ OtherEnters \/ OtherSubmits => recorder' = recorder
    BY StartDoes, EndingDoes, OtherDoes DEF HandsKept
  <2>2. Submit \/ SubmitStep \/ GpuStep \/ Drop => recorder' = recorder
    BY SubmitDoes, ExecuteDoes, GpuDoes, DropDoes DEF ThreadsKept, Executes
  <2>3. DispatchEnter \/ DispatchLeave \/ BarrierEnter \/ BarrierLeave => recorder.phase # "next"
    BY DispatchEnterDoes, DispatchLeaveDoes, BarrierEnterDoes, BarrierLeaveDoes
  <2>4. Prepare \/ LaterBarrier \/ Enhanced \/ Close => recorder.phase # "next"
    BY PrepareDoes, MovedOnDoes, CloseDoes
  <2> QED BY <2>1, <2>2, <2>3, <2>4 DEF Next, RecorderStep
<1>3. SUFFICES ASSUME NEW f \in Frames, Alive(f)', ~(Reset /\ f = recorder.frame + 1)
               PROVE  Alive(f)
  BY <1>2
<1>4. ready \in Seq(ReadyRecords)
  BY TypesNamed
<1>5. ready # <<>> => 1 \in DOMAIN ready
  BY <1>4, TailIs
<1>6. CASE recorder'.phase # "next" /\ f = recorder'.frame
  BY <1>1, <1>2, <1>3, <1>6 DEF LineMoves, Alive
<1>7. CASE \E i \in DOMAIN ready' : ready'[i].frame = f
  <2>1. PICK i \in DOMAIN ready' : ready'[i].frame = f
    BY <1>7
  <2>2. CASE ready' = ready
    BY <2>1, <2>2 DEF Alive
  <2>3. CASE ready # <<>> /\ ready' = Tail(ready)
    BY <1>4, <2>1, <2>3, TailIs DEF Alive
  <2>4. CASE /\ recorder.phase # "next"
             /\ ready' = Append(ready, [frame |-> recorder.frame, readable |-> recorder.readable])
    <3>1. PICK x : x = [frame |-> recorder.frame, readable |-> recorder.readable]
      OBVIOUS
    <3>2. x \in ReadyRecords /\ x.frame = recorder.frame
      <4>1. recorder \in RecorderRecords
        BY TypesNamed
      <4> QED BY <3>1, <4>1 DEF RecorderRecords, ReadyRecords
    <3>3. \/ i \in DOMAIN ready /\ ready'[i] = ready[i]
          \/ ready'[i] = x
      BY <1>4, <2>1, <2>4, <3>1, <3>2, AppendIs
    <3> QED BY <2>1, <2>4, <3>2, <3>3 DEF Alive
  <2> QED BY <1>1, <2>2, <2>3, <2>4 DEF LineMoves
<1>8. CASE submit'.phase # "idle" /\ f = submit'.frame
  BY <1>1, <1>5, <1>8 DEF SubmitLine, Alive
<1> QED BY <1>3, <1>6, <1>7, <1>8 DEF Alive

LEMMA OneFrameHolds ==
    ASSUME TypeOK, Order, Calls, OneFrame, Next
    PROVE  OneFrame'
<1>1. plan' = plan
  BY ScenarioKept
<1>2. SUFFICES ASSUME NEW f \in 1 .. MaxFrame, NEW g \in 1 .. MaxFrame,
                      Alive(f)', Alive(g)', plan[f] = plan[g]
               PROVE  f = g
  BY <1>1 DEF OneFrame
<1>3. f \in Frames /\ g \in Frames
  BY Bounds DEF Frames
<1>4. /\ Alive(f) \/ (Reset /\ f = recorder.frame + 1)
      /\ Alive(g) \/ (Reset /\ g = recorder.frame + 1)
  BY <1>2, <1>3, AliveStep
<1>5. \A h \in 1 .. MaxFrame :
         Reset /\ plan[h] = plan[recorder.frame + 1] => ~Alive(h)
  <2>1. TAKE h \in 1 .. MaxFrame
  <2>2. HAVE Reset /\ plan[h] = plan[recorder.frame + 1]
  <2>3. ~InUse(plan[h]) /\ recorder.phase = "next"
    BY <2>2, ResetDoes
  <2> QED BY <2>3 DEF InUse, Alive, ListOf
<1> QED BY <1>2, <1>4, <1>5 DEF OneFrame

-----------------------------------------------------------------------------
(* The choice of the resident producer.                                         *)
LEMMA Grows ==
    ASSUME TypeOK, Order, Calls, Next
    PROVE  \A l \in Lists : /\ track[l].gen \in Nat /\ track'[l].gen \in Nat
                            /\ track[l].gen <= track'[l].gen
<1>1. track \in [Lists -> TrackRecords] /\ track' \in [Lists -> TrackRecords]
  BY OrderHolds, TypesNamed, TypesPrime
<1>2. \A l \in Lists : track[l].gen \in Nat /\ track'[l].gen \in Nat
  BY <1>1, Bounds DEF TrackRecords
<1>3. GensKept \/ track' = track \/ Reset
  <2>1. CASE Start \/ Stop \/ Expire \/ HookRaises \/ OtherEnters \/ OtherSubmits
    BY <2>1, StartDoes, EndingDoes, OtherDoes
  <2>2. CASE Submit \/ SubmitStep \/ GpuStep \/ Drop
    BY <2>2, SubmitDoes, ExecuteDoes, GpuDoes, DropDoes DEF ThreadsKept, Executes
  <2>3. CASE DispatchEnter \/ DispatchLeave \/ BarrierEnter \/ BarrierLeave
    BY <2>3, DispatchEnterDoes, DispatchLeaveDoes, BarrierEnterDoes, BarrierLeaveDoes DEF TrackNoted
  <2>4. CASE Prepare \/ LaterBarrier \/ Enhanced \/ Close
    BY <2>4, PrepareDoes, MovedOnDoes, CloseDoes DEF TrackNoted
  <2>5. CASE Reset
    BY <2>5
  <2> QED BY <2>1, <2>2, <2>3, <2>4, <2>5 DEF Next, RecorderStep
<1>4. CASE GensKept \/ track' = track
  BY <1>2, <1>4 DEF GensKept
<1>5. CASE Reset
  <2>1. /\ \A k \in Lists : k # plan[recorder.frame + 1] => track'[k].gen = track[k].gen
        /\ \/ track'[plan[recorder.frame + 1]].gen = track[plan[recorder.frame + 1]].gen + 1
           \/ track'[plan[recorder.frame + 1]].gen = track[plan[recorder.frame + 1]].gen
    BY <1>5, ResetDoes
  <2> QED BY <1>2, <2>1
<1> QED BY <1>3, <1>4, <1>5

LEMMA ChoiceTypes ==
    ASSUME TypeOK
    PROVE  /\ resident.list # "none" => resident.list \in Lists
           /\ resident.gen \in Nat /\ surface.frame \in Nat /\ recorder.frame \in Nat
<1>1. resident \in ResidentRecords /\ surface \in SurfaceRecords /\ recorder \in RecorderRecords
  BY TypesNamed
<1> QED BY <1>1, Bounds DEF ResidentRecords, SurfaceRecords, RecorderRecords

(* A list stays chosen with the frame it holds.                                *)
StaysCurrent ==
    \A f \in 1 .. MaxFrame : Current' /\ Alive(f)' /\ plan'[f] = resident'.list => f = Candidate'

LEMMA CurrentStays ==
    ASSUME TypeOK, Order, Calls, Choice, Next, ~Reset, resident' = resident,
           session'.active => session.active, session'.active => Candidate' = Candidate
    PROVE  StaysCurrent
<1>1. SUFFICES ASSUME NEW f \in 1 .. MaxFrame, Current', Alive(f)', plan'[f] = resident'.list
               PROVE  f = Candidate'
  BY DEF StaysCurrent
<1>2. f \in Frames
  BY Bounds DEF Frames
<1>3. Alive(f) /\ plan[f] = resident.list
  BY <1>1, <1>2, AliveStep, ScenarioKept
<1>4. session'.active /\ resident.list # "none" /\ track'[resident.list].gen = resident.gen
  BY <1>1 DEF Current
<1>5. resident.list \in Lists /\ resident.gen \in Nat
  BY <1>4, ChoiceTypes
<1>6. resident.gen <= track[resident.list].gen
  BY <1>4 DEF Choice
<1>7. track[resident.list].gen = resident.gen
  BY <1>4, <1>5, <1>6, Grows
<1>8. Current
  BY <1>4, <1>7 DEF Current
<1>9. f = Candidate
  BY <1>3, <1>8 DEF Choice
<1> QED BY <1>4, <1>9

LEMMA ChosenRuns ==
    ASSUME TypeOK, Order, Choice, submit.phase \in Chosen
    PROVE  submit.frame >= 1 /\ surface.frame = submit.frame /\ surface.frame # 0 /\ session.busy
<1>1. submit.frame >= 1
  BY DEF Order, Chosen, Splitting
<1> QED BY <1>1, SubmitIs DEF Choice

LEMMA ChoiceKept ==
    ASSUME TypeOK, Order, Calls, Choice, Next, ~Reset, resident' = resident,
           session'.active => session.active,
           session'.preparing = session.preparing, session'.busy = session.busy,
           \/ recorder'.phase = recorder.phase /\ recorder'.frame = recorder.frame
           \/ recorder'.phase # "prepare" /\ recorder.phase # "prepare",
           submit'.phase \in Chosen <=> submit.phase \in Chosen,
           submit.phase \in Chosen => submit'.frame = submit.frame,
           surface'.frame = surface.frame,
           surface'.uncertain => surface.uncertain \/ submit.phase \in Chosen
    PROVE  Choice'
<1>1. Candidate' = Candidate
  BY DEF Candidate
<1>2. StaysCurrent
  BY <1>1, CurrentStays
<1>3. submit.phase \in Chosen => surface.frame # 0 /\ session.busy
  BY ChosenRuns
<1>4. resident'.list # "none" => resident'.gen <= track'[resident'.list].gen
  <2>1. HAVE resident'.list # "none"
  <2>2. resident.list \in Lists /\ resident.gen \in Nat /\ resident.gen <= track[resident.list].gen
    BY <2>1, ChoiceTypes DEF Choice
  <2> QED BY <2>2, Grows
<1>5. /\ session'.preparing <=> recorder'.phase = "prepare"
      /\ recorder'.phase = "prepare" => surface'.frame = 0 /\ ~session'.busy
      /\ surface'.frame = 0 => ~surface'.uncertain
      /\ session'.busy <=> submit'.phase \in Chosen
      /\ submit'.phase \in Chosen => surface'.frame = submit'.frame
      /\ surface'.uncertain /\ ~session'.busy => resident'.list = "none"
  BY <1>3 DEF Choice
<1> QED BY <1>2, <1>4, <1>5 DEF Choice, StaysCurrent, Chosen, Splitting

LEMMA StartChoice ==
    ASSUME TypeOK, Order, Calls, Choice, Window, Start
    PROVE  Choice'
<1>1. /\ session'.preparing = session.preparing /\ session'.busy = session.busy
      /\ UNCHANGED <<recorder, submit, surface, resident>> /\ ~session.opened
  BY StartDoes DEF HandsKept
<1>2. resident.list = "none"
  BY <1>1 DEF Window
<1>3. ~Current'
  BY <1>1, <1>2 DEF Current
<1>4. resident'.list = "none"
  BY <1>1, <1>2
<1> QED BY <1>1, <1>3, <1>4 DEF Choice

LEMMA ResetChoice ==
    ASSUME TypeOK, Order, Calls, Choice, Next, Reset
    PROVE  Choice'
<1>1. /\ UNCHANGED <<submit, surface, resident>> /\ recorder.phase = "next" /\ recorder'.phase = "open"
      /\ session'.preparing = session.preparing /\ session'.busy = session.busy
      /\ session'.active => session.active
      /\ recorder'.frame = recorder.frame + 1
  BY ResetDoes DEF SessionMay, Ends, SubmitterKept
<1>2. /\ session'.preparing <=> recorder'.phase = "prepare"
      /\ recorder'.phase = "prepare" => surface'.frame = 0 /\ ~session'.busy
      /\ surface'.frame = 0 => ~surface'.uncertain
      /\ session'.busy <=> submit'.phase \in Chosen
      /\ submit'.phase \in Chosen => surface'.frame = submit'.frame
      /\ surface'.uncertain /\ ~session'.busy => resident'.list = "none"
  BY <1>1 DEF Choice
<1>3. resident'.list # "none" => resident'.gen <= track'[resident'.list].gen
  <2>1. HAVE resident'.list # "none"
  <2>2. resident.list \in Lists /\ resident.gen \in Nat /\ resident.gen <= track[resident.list].gen
    BY <1>1, <2>1, ChoiceTypes DEF Choice
  <2> QED BY <1>1, <2>2, Grows
<1>4. \A f \in 1 .. MaxFrame : Current' /\ Alive(f)' /\ plan'[f] = resident'.list => f = Candidate'
  <2>1. SUFFICES ASSUME NEW f \in 1 .. MaxFrame, Current', Alive(f)', plan'[f] = resident'.list
                 PROVE  f = Candidate'
    OBVIOUS
  <2>2. session.active /\ resident.list # "none" /\ track'[resident.list].gen = resident.gen
    BY <1>1, <2>1 DEF Current
  <2>3. resident.list \in Lists /\ resident.gen \in Nat /\ resident.gen <= track[resident.list].gen
    BY <2>2, ChoiceTypes DEF Choice
  <2>4. track[resident.list].gen = resident.gen
    BY <2>2, <2>3, Grows
  <2>5. resident.list # plan[recorder.frame + 1]
    BY <2>2, <2>3, <2>4, ResetDoes
  <2>6. f \in Frames /\ plan[f] = resident.list
    BY <1>1, <2>1, Bounds, ScenarioKept DEF Frames
  <2>7. Alive(f)
    BY <2>1, <2>5, <2>6, AliveStep
  <2>8. f = Candidate
    BY <2>2, <2>4, <2>6, <2>7 DEF Choice, Current
  <2> QED BY <1>1, <2>8 DEF Candidate
<1> QED BY <1>2, <1>3, <1>4 DEF Choice

LEMMA BarrierChoice ==
    ASSUME TypeOK, Order, Calls, OneFrame, Choice, Next, BarrierLeave
    PROVE  Choice'
<1>1. /\ UNCHANGED <<submit, surface, track>> /\ recorder.phase = "barrier"
      /\ recorder'.frame = recorder.frame /\ plan' = plan
      /\ session \in SessionRecords
  BY TypesNamed, BarrierLeaveDoes DEF SubmitterKept
<1>2. CASE recorder'.phase = "readable" /\ UNCHANGED <<session, resident>>
  <2>1. ~Reset
    BY <1>1 DEF Reset
  <2> QED BY <1>1, <1>2, <2>1, ChoiceKept
<1>3. CASE /\ session.active /\ session.mode /\ ~session.busy /\ surface.frame = 0
           /\ session' = [session EXCEPT !.preparing = TRUE]
           /\ resident' = [list |-> TheList, gen |-> track[TheList].gen]
           /\ recorder'.phase = "prepare"
  <2>1. session'.preparing /\ session'.busy = session.busy
    BY <1>1, <1>3, FlagsDo
  <2>2. TheList \in Lists /\ track[TheList].gen \in Nat /\ recorder.frame \in 1 .. MaxFrame
    BY <1>1, TheListIs, Grows
  <2>3. resident'.list = TheList /\ resident'.gen = track'[resident'.list].gen /\ resident'.list # "none"
    BY <1>1, <1>3, <2>2, Bounds
  <2>4. /\ session'.preparing <=> recorder'.phase = "prepare"
        /\ recorder'.phase = "prepare" => surface'.frame = 0 /\ ~session'.busy
        /\ surface'.frame = 0 => ~surface'.uncertain
        /\ session'.busy <=> submit'.phase \in Chosen
        /\ submit'.phase \in Chosen => surface'.frame = submit'.frame
        /\ surface'.uncertain /\ ~session'.busy => resident'.list = "none"
    BY <1>1, <1>3, <2>1 DEF Choice
  <2>5. resident'.gen <= track'[resident'.list].gen
    BY <1>1, <2>2, <2>3
  <2>6. \A f \in 1 .. MaxFrame : Current' /\ Alive(f)' /\ plan'[f] = resident'.list => f = Candidate'
    <3>1. SUFFICES ASSUME NEW f \in 1 .. MaxFrame, Alive(f)', plan'[f] = resident'.list
                   PROVE  f = Candidate'
      OBVIOUS
    <3>2. f \in Frames /\ ~Reset
      BY <1>1, Bounds DEF Frames, Reset
    <3>3. Alive(f) /\ plan[f] = plan[recorder.frame]
      BY <1>1, <2>3, <3>1, <3>2, AliveStep DEF TheList, ListOf
    <3>4. Alive(recorder.frame)
      BY <1>1 DEF Alive
    <3>5. f = recorder.frame
      BY <2>2, <3>3, <3>4 DEF OneFrame
    <3> QED BY <1>1, <1>3, <3>5 DEF Candidate
  <2> QED BY <2>4, <2>5, <2>6 DEF Choice
<1> QED BY <1>2, <1>3, BarrierLeaveDoes

LEMMA PrepareChoice ==
    ASSUME TypeOK, Order, Calls, Choice, Next, Prepare
    PROVE  Choice'
<1>1. /\ UNCHANGED <<submit, resident, track>> /\ recorder.phase = "prepare"
      /\ recorder'.phase = "readable" /\ recorder'.frame = recorder.frame /\ plan' = plan
      /\ session \in SessionRecords /\ ~session'.preparing
  BY TypesNamed, PrepareDoes DEF SubmitterKept
<1>2. recorder.frame >= 1 /\ recorder.frame \in Nat /\ ~session.busy /\ surface.frame = 0
  BY <1>1, ChoiceTypes DEF Order, Choice
<1>3. /\ session'.busy = session.busy
      /\ session'.active => session.active /\ surface'.frame = recorder.frame
      /\ surface'.frame = recorder.frame \/ surface' = surface
      /\ ~surface'.uncertain
  <2>1. ~surface.uncertain
    BY <1>2 DEF Choice
  <2> QED BY <1>1, <2>1, PrepareDoes, FlagsDo DEF Ends
<1>4. StaysCurrent
  <2>1. ~Reset
    BY <1>1 DEF Reset
  <2>2. session'.active => Candidate' = Candidate
    BY <1>1, <1>3 DEF Candidate
  <2> QED BY <1>1, <1>3, <2>1, <2>2, CurrentStays
<1>5. resident'.list # "none" => resident'.gen <= track'[resident'.list].gen
  BY <1>1 DEF Choice
<1>6. submit.phase \notin Chosen
  BY <1>2 DEF Choice
<1> QED BY <1>1, <1>2, <1>3, <1>4, <1>5, <1>6 DEF Choice, StaysCurrent

LEMMA ChooseChoice ==
    ASSUME TypeOK, Order, Calls, Choice, Next, Choose
    PROVE  Choice'
<1>1. /\ UNCHANGED <<resident, surface, track, recorder>> /\ submit.phase = "choose" /\ plan' = plan
      /\ session \in SessionRecords /\ ~Reset
  <2>1. ~Reset
    <3>1. Choose => recorder' = recorder
      BY ChooseDoes DEF ThreadsKept
    <3>2. Reset => recorder'.phase # recorder.phase
      BY ResetDoes
    <3> QED BY <3>1, <3>2
  <2> QED BY <2>1, TypesNamed, ChooseDoes DEF ThreadsKept
<1>2. CASE SubmitTo("use") /\ SessionMay
  <2>1. /\ submit'.phase \notin Chosen /\ submit.phase \notin Chosen
        /\ session'.active => session.active
        /\ session'.preparing = session.preparing /\ session'.busy = session.busy
    BY <1>1, <1>2 DEF SubmitTo, SessionMay, Ends, Chosen, Splitting
  <2> QED BY <1>1, <2>1, ChoiceKept
<1>3. CASE /\ SubmitTo("split") /\ session' = [session EXCEPT !.busy = TRUE]
           /\ session.active /\ surface.frame # 0 /\ ListOf(submit.frame) = resident.list
           /\ track[resident.list].gen = resident.gen
  <2>1. /\ session'.busy /\ session'.preparing = session.preparing
        /\ session'.active => session.active
    BY <1>1, <1>3, FlagsDo
  <2>2. submit.frame \in 1 .. MaxFrame /\ Alive(submit.frame) /\ plan[submit.frame] = resident.list
    <3>1. submit.frame >= 1 /\ submit.frame \in Frames
      BY <1>1, SubmitIs DEF Order
    <3> QED BY <1>1, <1>3, <3>1, Bounds DEF Alive, ListOf
  <2>3. resident.list # "none"
    <3>1. plan \in [1 .. MaxFrame -> Lists]
      BY TypesNamed, Bounds
    <3> QED BY <2>2, <3>1, Bounds
  <2>4. submit.frame = Candidate
    BY <1>3, <2>2, <2>3 DEF Choice, Current
  <2>5. recorder.phase # "prepare" /\ submit.frame = surface.frame
    BY <1>3, <2>4 DEF Choice, Candidate
  <2>6. StaysCurrent
    <3>1. Candidate' = Candidate
      BY <1>1 DEF Candidate
    <3> QED BY <1>1, <2>1, <3>1, CurrentStays
  <2>7. submit'.phase \in Chosen /\ submit'.frame = submit.frame
    BY <1>3 DEF SubmitTo, Chosen, Splitting
  <2>8. resident'.list # "none" => resident'.gen <= track'[resident'.list].gen
    BY <1>1 DEF Choice
  <2> QED BY <1>1, <2>1, <2>5, <2>6, <2>7, <2>8 DEF Choice, StaysCurrent
<1> QED BY <1>2, <1>3, ChooseDoes

LEMMA RetireChoice ==
    ASSUME TypeOK, Order, Calls, Choice, Next, Retire
    PROVE  Choice'
<1>1. /\ recorder' = recorder /\ submit.phase = "retire" /\ submit'.phase \notin Chosen
      /\ session \in SessionRecords /\ resident'.list = "none"
      /\ IF surface.uncertain THEN surface' = surface
         ELSE surface'.frame = 0 /\ ~surface'.uncertain
      /\ session' = [session EXCEPT !.busy = FALSE]
  BY TypesNamed, RetireDoes DEF ThreadsKept, SubmitTo, Chosen, Splitting
<1>2. ~session'.busy /\ session'.preparing = session.preparing
  BY <1>1, FlagsDo
<1>3. surface.frame # 0
  BY <1>1, ChosenRuns DEF Chosen
<1>4. ~Current'
  BY <1>1 DEF Current
<1>5. recorder.phase # "prepare"
  BY <1>3 DEF Choice
<1> QED BY <1>1, <1>2, <1>3, <1>4, <1>5 DEF Choice

LEMMA ChoiceHolds ==
    ASSUME TypeOK, Order, Calls, OneFrame, Choice, Window, Next
    PROVE  Choice'
<1> USE DEF SubmitTo, Chosen, Splitting
<1>1. session \in SessionRecords
  BY TypesNamed
<1>3. recorder' = recorder \/ recorder.phase # "next" => ~Reset
  BY ResetDoes
<1>4. SessionMay => /\ session'.active => session.active
                    /\ session'.preparing = session.preparing /\ session'.busy = session.busy
  BY DEF SessionMay, Ends
<1>5. Ends(session, session') => /\ session'.active => session.active
                                 /\ session'.busy = session.busy
  BY DEF Ends
<1>6. CASE Stop \/ Expire \/ HookRaises
  BY <1>3, <1>5, <1>6, EndingDoes, ChoiceKept DEF HandsKept
<1>7. CASE OtherEnters \/ OtherSubmits
  BY <1>3, <1>7, OtherDoes, ChoiceKept
<1>8. CASE DispatchEnter
  BY <1>3, <1>8, DispatchEnterDoes, ChoiceKept DEF SubmitterKept
<1>9. CASE DispatchLeave
  BY <1>3, <1>9, DispatchLeaveDoes, ChoiceKept DEF SubmitterKept
<1>10. CASE BarrierEnter
  BY <1>3, <1>4, <1>10, BarrierEnterDoes, ChoiceKept DEF SubmitterKept
<1>11. CASE LaterBarrier \/ Enhanced
  BY <1>3, <1>4, <1>11, MovedOnDoes, ChoiceKept DEF SubmitterKept
<1>12. CASE Close
  BY <1>3, <1>12, CloseDoes, ChoiceKept DEF SubmitterKept
<1>13. CASE Drop
  BY <1>3, <1>13, DropDoes, ChoiceKept DEF SubmitterKept
<1>14. CASE Submit
  BY <1>3, <1>14, SubmitDoes, ChoiceKept DEF ThreadsKept
<1>15. CASE Acquire
  BY <1>3, <1>15, AcquireDoes, ChoiceKept DEF ThreadsKept
<1>16. CASE SubmitRead
  BY <1>3, <1>5, <1>16, SubmitReadDoes, ChoiceKept DEF ThreadsKept
<1>17. CASE ReadDone
  BY <1>3, <1>17, ReadDoneDoes, ChoiceKept DEF ThreadsKept
<1>18. CASE TimeOut
  BY <1>3, <1>5, <1>18, TimeOutDoes, ChoiceKept DEF ThreadsKept, GaveUp
<1>19. CASE Ask
  BY <1>3, <1>5, <1>19, AskDoes, ChoiceKept DEF ThreadsKept, GaveUp
<1>20. CASE Answer
  BY <1>3, <1>5, <1>20, AnswerDoes, ChoiceKept DEF ThreadsKept, GaveUp
<1>21. CASE SubmitWrite
  BY <1>3, <1>21, SubmitWriteDoes, ChoiceKept DEF ThreadsKept
<1>22. CASE WriteDone
  BY <1>3, <1>5, <1>22, WriteDoneDoes, ChoiceKept DEF ThreadsKept, Counts
<1>23. CASE Suffix
  BY <1>3, <1>23, SuffixDoes, ChoiceKept DEF ThreadsKept
<1>24. CASE Return
  BY <1>3, <1>24, ReturnDoes, ChoiceKept DEF ThreadsKept
<1>25. CASE GpuStep
  BY <1>3, <1>25, GpuDoes, ChoiceKept
<1>26. CASE Start \/ Reset \/ BarrierLeave \/ Prepare \/ Choose \/ Retire
  BY <1>26, StartChoice, ResetChoice, BarrierChoice, PrepareChoice, ChooseChoice, RetireChoice
<1> QED BY <1>6, <1>7, <1>8, <1>9, <1>10, <1>11, <1>12, <1>13, <1>14, <1>15, <1>16, <1>17, <1>18,
           <1>19, <1>20, <1>21, <1>22, <1>23, <1>24, <1>25, <1>26 DEF Next, RecorderStep, SubmitStep

-----------------------------------------------------------------------------
(* What the reader and the writer find.                                         *)
ListsReadable ==
    Current =>
        /\ recorder.phase # "next" /\ TheList = resident.list =>
              recorder.phase \in {"prepare", "readable"} /\ recorder.readable
        /\ \A i \in DOMAIN ready : ListOf(ready[i].frame) = resident.list => ready[i].readable
        /\ submit.phase # "idle" /\ ListOf(submit.frame) = resident.list => submit.readable
WorkReadable ==
    /\ submit.phase \in Chosen => submit.readable
    /\ \A i \in DOMAIN queue : queue[i].op \in {"read", "write"} => queue[i].readable

LEMMA ReadableParts == Readable <=> ("enhanced" \notin mayFail => ListsReadable /\ WorkReadable)
BY DEF Readable, ListsReadable, WorkReadable

LEMMA CurrentWas ==
    ASSUME TypeOK, Order, Calls, Choice, Next, resident' = resident,
           session'.active => session.active
    PROVE  Current' => Current
<1>1. SUFFICES ASSUME Current'
               PROVE  Current
  OBVIOUS
<1>2. session'.active /\ resident.list # "none" /\ track'[resident.list].gen = resident.gen
  BY <1>1 DEF Current
<1>3. resident.list \in Lists /\ resident.gen \in Nat /\ resident.gen <= track[resident.list].gen
  BY <1>2, ChoiceTypes DEF Choice
<1> QED BY <1>2, <1>3, Grows DEF Current

LEMMA ListsKept ==
    ASSUME TypeOK, Order, Calls, Choice, Next, ListsReadable, resident' = resident,
           session'.active => session.active,
           \/ recorder' = recorder
           \/ /\ Current => TheList # resident.list
              /\ recorder'.frame = recorder.frame /\ recorder.phase # "next"
           \/ /\ recorder.phase \in {"prepare", "readable"}
              /\ recorder'.phase = "readable" /\ recorder'.frame = recorder.frame
              /\ recorder'.readable = recorder.readable,
           ready' = ready,
           \/ submit'.phase = "idle" \/ submit' = submit
           \/ /\ submit.phase # "idle" /\ submit'.frame = submit.frame
              /\ submit'.readable = submit.readable
    PROVE  ListsReadable'
<1>1. SUFFICES ASSUME Current'
               PROVE  /\ recorder'.phase # "next" /\ TheList' = resident'.list =>
                            recorder'.phase \in {"prepare", "readable"} /\ recorder'.readable
                      /\ \A i \in DOMAIN ready' :
                            ListOf(ready[i].frame)' = resident'.list => ready'[i].readable
                      /\ submit'.phase # "idle" /\ ListOf(submit.frame)' = resident'.list =>
                            submit'.readable
  BY DEF ListsReadable
<1>2. Current
  BY <1>1, CurrentWas
<1>3. plan' = plan
  BY ScenarioKept
<1>4. recorder'.frame = recorder.frame => TheList' = TheList
  BY <1>3 DEF TheList, ListOf
<1>5. recorder'.phase # "next" /\ TheList' = resident'.list =>
            recorder'.phase \in {"prepare", "readable"} /\ recorder'.readable
  BY <1>2, <1>4 DEF ListsReadable
<1>6. \A i \in DOMAIN ready' : ListOf(ready[i].frame)' = resident'.list => ready'[i].readable
  BY <1>2, <1>3 DEF ListsReadable, ListOf
<1>7. submit'.phase # "idle" /\ ListOf(submit.frame)' = resident'.list => submit'.readable
  BY <1>2, <1>3 DEF ListsReadable, ListOf
<1> QED BY <1>5, <1>6, <1>7

(* The recorder's list is not the chosen one while it writes the texture.        *)
LEMMA ListsRecorded ==
    ASSUME TypeOK, Order, Calls, OneFrame, Choice, Window, Next, ListsReadable,
           "enhanced" \notin mayFail,
           \/ Reset \/ DispatchEnter \/ DispatchLeave \/ BarrierEnter \/ BarrierLeave
           \/ Prepare \/ LaterBarrier \/ Enhanced
    PROVE  ListsReadable'
<1>1. session \in SessionRecords
  BY TypesNamed
<1>2. plan' = plan
  BY ScenarioKept
<1>3. /\ SessionMay => (session'.active => session.active)
      /\ Ends(session, session') => ~session'.active
  BY DEF SessionMay, Ends
<1>4. CASE Reset
  <2>1. /\ UNCHANGED <<ready, submit, resident>> /\ recorder'.frame = recorder.frame + 1
        /\ recorder'.phase = "open"
        /\ session'.active => session.active
        /\ session.active =>
              track'[plan[recorder.frame + 1]].gen = track[plan[recorder.frame + 1]].gen + 1
    BY <1>3, <1>4, ResetDoes DEF SubmitterKept
  <2>2. Current' => Current /\ plan[recorder.frame + 1] # resident.list
    <3>1. HAVE Current'
    <3>2. session.active /\ resident.list # "none" /\ track'[resident.list].gen = resident.gen
      BY <2>1, <3>1 DEF Current
    <3>3. resident.list \in Lists /\ resident.gen \in Nat /\ resident.gen <= track[resident.list].gen
      BY <3>2, ChoiceTypes DEF Choice
    <3>4. track[resident.list].gen \in Nat
      BY <3>3, Grows
    <3> QED BY <2>1, <3>1, <3>2, <3>3, <3>4, CurrentWas
  <2>3. TheList' = plan[recorder.frame + 1]
    BY <1>2, <2>1 DEF TheList, ListOf
  <2> QED BY <1>2, <2>1, <2>2, <2>3 DEF ListsReadable, ListOf
<1>5. CASE DispatchEnter
  <2>1. Current => TheList # resident.list
    BY <1>5, DispatchEnterDoes DEF ListsReadable
  <2> QED BY <1>5, <2>1, DispatchEnterDoes, ListsKept DEF SubmitterKept
<1>6. CASE DispatchLeave
  <2>1. Current => TheList # resident.list
    BY <1>6, DispatchLeaveDoes DEF ListsReadable
  <2> QED BY <1>6, <2>1, DispatchLeaveDoes, ListsKept DEF SubmitterKept
<1>7. CASE BarrierEnter
  <2>1. Current => TheList # resident.list
    BY <1>7, BarrierEnterDoes DEF ListsReadable
  <2> QED BY <1>3, <1>7, <2>1, BarrierEnterDoes, ListsKept DEF SubmitterKept
<1>8. CASE BarrierLeave
  <2>1. Current => TheList # resident.list
    BY <1>8, BarrierLeaveDoes DEF ListsReadable
  <2>2. CASE UNCHANGED <<session, resident>>
    BY <1>8, <2>1, <2>2, BarrierLeaveDoes, ListsKept DEF SubmitterKept
  <2>3. CASE resident' = [list |-> TheList, gen |-> track[TheList].gen] /\ recorder'.phase = "prepare"
    <3>1. /\ UNCHANGED <<ready, submit>> /\ recorder'.frame = recorder.frame /\ recorder'.readable
          /\ recorder.phase = "barrier"
      BY <1>8, BarrierLeaveDoes DEF SubmitterKept
    <3>2. resident'.list = plan[recorder.frame]
      BY <2>3 DEF TheList, ListOf
    <3>3. Alive(recorder.frame) /\ recorder.frame \in 1 .. MaxFrame
      BY <3>1, TheListIs DEF Alive
    <3>4. \A i \in DOMAIN ready : plan[ready[i].frame] # plan[recorder.frame]
      <4>1. TAKE i \in DOMAIN ready
      <4>2. Alive(ready[i].frame) /\ ready[i].frame < recorder.frame /\ ready[i].frame \in 1 .. MaxFrame
        BY <3>1, ReadyIs, Bounds DEF Alive, Order
      <4>3. ready[i].frame \in Nat /\ recorder.frame \in Nat
        BY ReadyIs
      <4> QED BY <3>3, <4>2, <4>3 DEF OneFrame
    <3>5. submit.phase # "idle" => plan[submit.frame] # plan[recorder.frame]
      <4>1. HAVE submit.phase # "idle"
      <4>2. Alive(submit.frame) /\ submit.frame < recorder.frame /\ submit.frame \in 1 .. MaxFrame
        BY <3>1, <4>1, SubmitIs, Bounds DEF Alive, Order, Past
      <4>3. submit.frame \in Nat /\ recorder.frame \in Nat
        BY SubmitIs, ReadyIs
      <4> QED BY <3>3, <4>2, <4>3 DEF OneFrame
    <3> QED BY <1>2, <2>3, <3>1, <3>2, <3>4, <3>5 DEF ListsReadable, ListOf
  <2> QED BY <1>8, <2>2, <2>3, BarrierLeaveDoes
<1>9. CASE Prepare
  BY <1>1, <1>3, <1>9, PrepareDoes, FlagsDo, ListsKept DEF SubmitterKept
<1>10. CASE LaterBarrier \/ Enhanced
  <2>1. /\ UNCHANGED <<ready, submit, resident>> /\ recorder'.frame = recorder.frame
        /\ recorder.phase = "readable" /\ (session'.active => session.active)
        /\ Tracking /\ LaterTransition => ~session'.active
    BY <1>3, <1>10, MovedOnDoes DEF SubmitterKept
  <2>2. Current /\ TheList = resident.list => Tracking /\ LaterTransition
    <3>1. HAVE Current /\ TheList = resident.list
    <3>2. Alive(recorder.frame) /\ recorder.frame \in 1 .. MaxFrame
      BY <2>1, TheListIs DEF Alive
    <3>3. recorder.frame = Candidate
      BY <3>1, <3>2 DEF Choice, TheList, ListOf
    <3>4. surface.frame # 0
      BY <2>1, <3>2, <3>3 DEF Candidate
    <3> QED BY <3>1, <3>4 DEF Current, Tracking, LaterTransition, Pending, Window
  <2>3. CASE ~Current'
    BY <2>3 DEF ListsReadable
  <2>4. CASE Current'
    <3>1. session'.active
      BY <2>4 DEF Current
    <3> QED BY <2>1, <2>2, <3>1, ListsKept
  <2> QED BY <2>3, <2>4
<1> QED BY <1>4, <1>5, <1>6, <1>7, <1>8, <1>9, <1>10

LEMMA ListsHold ==
    ASSUME TypeOK, Order, Calls, OneFrame, Choice, Window, Next, ListsReadable,
           "enhanced" \notin mayFail
    PROVE  ListsReadable'
<1>1. session \in SessionRecords
  BY TypesNamed
<1>2. plan' = plan
  BY ScenarioKept
<1>3. /\ SessionMay => (session'.active => session.active)
      /\ Ends(session, session') => ~session'.active
      /\ Counts => (session'.active => session.active)
  BY DEF SessionMay, Ends, Counts
<1>4. CASE Start
  <2>1. resident'.list = "none"
    BY <1>4, StartDoes DEF Window
  <2> QED BY <2>1 DEF ListsReadable, Current
<1>5. CASE Stop \/ Expire \/ HookRaises
  BY <1>3, <1>5, EndingDoes, ListsKept DEF HandsKept
<1>6. CASE OtherEnters \/ OtherSubmits
  BY <1>6, OtherDoes, ListsKept
<1>7. CASE GpuStep
  BY <1>7, GpuDoes, ListsKept
<1>8. CASE Retire
  BY <1>8, RetireDoes DEF ListsReadable, Current
<1>9. CASE Return
  BY <1>9, ReturnDoes, ListsKept DEF ThreadsKept
<1>10. CASE Acquire \/ ReadDone \/ SubmitWrite \/ Suffix
  BY <1>10, AcquireDoes, ReadDoneDoes, SubmitWriteDoes, SuffixDoes, ListsKept DEF ThreadsKept, SubmitTo
<1>11. CASE TimeOut \/ Ask \/ Answer
  BY <1>3, <1>11, TimeOutDoes, AskDoes, AnswerDoes, ListsKept DEF ThreadsKept, SubmitTo, GaveUp
<1>12. CASE SubmitRead \/ WriteDone
  BY <1>3, <1>12, SubmitReadDoes, WriteDoneDoes, ListsKept DEF ThreadsKept, SubmitTo
<1>13. CASE Choose
  BY <1>1, <1>3, <1>13, ChooseDoes, FlagsDo, ListsKept DEF ThreadsKept, SubmitTo
<1>14. CASE Submit
  <2>1. /\ UNCHANGED <<session, recorder, resident>> /\ ready # <<>> /\ ready' = Tail(ready)
        /\ submit'.frame = ready[1].frame /\ submit'.readable = ready[1].readable
    BY <1>14, SubmitDoes DEF ThreadsKept
  <2>2. /\ 1 \in DOMAIN ready
        /\ \A i \in DOMAIN ready' : i + 1 \in DOMAIN ready /\ ready'[i] = ready[i + 1]
    BY <2>1, TypesNamed, TailIs
  <2>3. Current' => Current
    BY <2>1, CurrentWas
  <2>4. TheList' = TheList
    BY <1>2, <2>1 DEF TheList, ListOf
  <2> QED BY <1>2, <2>1, <2>2, <2>3, <2>4 DEF ListsReadable, ListOf
<1>15. CASE Drop
  <2>1. /\ UNCHANGED <<session, recorder, resident, submit>> /\ ready # <<>> /\ ready' = Tail(ready)
    BY <1>15, DropDoes DEF SubmitterKept
  <2>2. \A i \in DOMAIN ready' : i + 1 \in DOMAIN ready /\ ready'[i] = ready[i + 1]
    BY <2>1, TypesNamed, TailIs
  <2>3. Current' => Current
    BY <2>1, CurrentWas
  <2>4. TheList' = TheList
    BY <1>2, <2>1 DEF TheList, ListOf
  <2> QED BY <1>2, <2>1, <2>2, <2>3, <2>4 DEF ListsReadable, ListOf
<1>16. CASE Close
  <2>1. /\ UNCHANGED <<session, resident, submit>> /\ recorder'.phase = "next"
        /\ recorder.phase \in {"readable", "moved"}
        /\ ready' = Append(ready, [frame |-> recorder.frame, readable |-> recorder.readable])
    BY <1>16, CloseDoes DEF SubmitterKept
  <2>2. PICK x : x = [frame |-> recorder.frame, readable |-> recorder.readable]
    OBVIOUS
  <2>3. x \in ReadyRecords /\ x.frame = recorder.frame /\ x.readable = recorder.readable
    <3>1. recorder \in RecorderRecords
      BY TypesNamed
    <3> QED BY <2>2, <3>1 DEF RecorderRecords, ReadyRecords
  <2>4. \A i \in DOMAIN ready' : (i \in DOMAIN ready /\ ready'[i] = ready[i]) \/ ready'[i] = x
    <3>1. ready \in Seq(ReadyRecords) /\ ready' = Append(ready, x)
      BY <2>1, <2>2, TypesNamed
    <3> QED BY <2>3, <3>1, AppendIs
  <2>5. Current' => Current
    BY <2>1, CurrentWas
  <2>6. Current /\ plan[recorder.frame] = resident.list => recorder.readable
    BY <2>1 DEF ListsReadable, TheList, ListOf
  <2> QED BY <1>2, <2>1, <2>3, <2>4, <2>5, <2>6 DEF ListsReadable, ListOf
<1>17. CASE \/ Reset \/ DispatchEnter \/ DispatchLeave \/ BarrierEnter \/ BarrierLeave
            \/ Prepare \/ LaterBarrier \/ Enhanced
  BY <1>17, ListsRecorded
<1> QED BY <1>4, <1>5, <1>6, <1>7, <1>8, <1>9, <1>10, <1>11, <1>12, <1>13, <1>14, <1>15, <1>16,
           <1>17 DEF Next, RecorderStep, SubmitStep

(* Where new work comes from.                                                    *)
LEMMA AddsIs ==
    ASSUME TypeOK, NEW ops \in Seq(OpNames), Adds(ops)
    PROVE  /\ DOMAIN queue' = 1 .. Len(queue') /\ Len(queue') = Len(queue) + Len(ops)
           /\ Len(queue) \in Nat /\ Len(ops) \in Nat /\ DOMAIN queue = 1 .. Len(queue)
           /\ \A i \in DOMAIN queue' :
                 \/ i \in DOMAIN queue /\ queue'[i] = queue[i]
                 \/ /\ i \notin DOMAIN queue /\ i > Len(queue)
                    /\ queue'[i].frame = submit.frame /\ queue'[i].readable = submit.readable
                    /\ i - Len(queue) \in 1 .. Len(ops) /\ queue'[i].op = ops[i - Len(queue)]
<1>1. Len(queue) \in Nat /\ DOMAIN queue = 1 .. Len(queue)
  BY QueueIs
<1>2. queue' \in Seq(WorkRecords)
  BY DEF Adds
<1>3. DOMAIN queue' = 1 .. Len(queue') /\ Len(queue') \in Nat /\ Len(ops) \in Nat
  BY <1>2
<1>4. ASSUME NEW i \in DOMAIN queue'
      PROVE  \/ i \in DOMAIN queue /\ queue'[i] = queue[i]
             \/ /\ i \notin DOMAIN queue /\ i > Len(queue)
                /\ queue'[i].frame = submit.frame /\ queue'[i].readable = submit.readable
                /\ i - Len(queue) \in 1 .. Len(ops) /\ queue'[i].op = ops[i - Len(queue)]
  <2>1. i \in 1 .. Len(queue')
    BY <1>3, <1>4
  <2>2. CASE i > Len(queue)
    BY <1>1, <2>1, <2>2 DEF Adds
  <2>3. CASE ~(i > Len(queue))
    <3>1. i \in 1 .. Len(queue)
      BY <1>1, <1>3, <2>1, <2>3
    <3> QED BY <1>1, <3>1 DEF Adds
  <2> QED BY <2>2, <2>3
<1> QED BY <1>1, <1>3, <1>4 DEF Adds

LEMMA WorkHolds ==
    ASSUME TypeOK, Order, Calls, Choice, Next, ListsReadable, WorkReadable
    PROVE  WorkReadable'
<1> USE DEF Chosen, Splitting
<1>1. \A ops \in Seq(OpNames) :
         Adds(ops) /\ (submit.phase \in Chosen \/ \A i \in 1 .. Len(ops) : ops[i] \notin {"read", "write"}) =>
            \A i \in DOMAIN queue' : queue'[i].op \in {"read", "write"} => queue'[i].readable
  <2>1. TAKE ops \in Seq(OpNames)
  <2>2. HAVE Adds(ops) /\ (submit.phase \in Chosen \/ \A i \in 1 .. Len(ops) : ops[i] \notin {"read", "write"})
  <2>3. TAKE i \in DOMAIN queue'
  <2>4. HAVE queue'[i].op \in {"read", "write"}
  <2>5. CASE i \in DOMAIN queue /\ queue'[i] = queue[i]
    BY <2>4, <2>5 DEF WorkReadable
  <2>6. CASE queue'[i].readable = submit.readable /\ submit.phase \in Chosen
    BY <2>6 DEF WorkReadable
  <2>7. CASE i - Len(queue) \in 1 .. Len(ops) /\ queue'[i].op = ops[i - Len(queue)] /\ submit.phase \notin Chosen
    BY <2>2, <2>4, <2>7
  <2> QED BY <2>2, <2>5, <2>6, <2>7, AddsIs
<1>2. queue' = queue => \A i \in DOMAIN queue' : queue'[i].op \in {"read", "write"} => queue'[i].readable
  BY DEF WorkReadable
<1>3. submit' = submit => (submit'.phase \in Chosen => submit'.readable)
  BY DEF WorkReadable
<1>4. \A p \in SubmitPhases : SubmitTo(p) /\ submit.phase \in Chosen =>
         (submit'.phase \in Chosen => submit'.readable)
  BY DEF WorkReadable, SubmitTo
<1>5. /\ \A i \in 1 .. Len(<<>>) : <<>>[i] \notin {"read", "write"}
      /\ \A i \in 1 .. Len(<<"use">>) : <<"use">>[i] \notin {"read", "write"}
      /\ \A i \in 1 .. Len(Batch) : Batch[i] \notin {"read", "write"}
  BY OpsNamed
<1>6. CASE Start \/ Stop \/ Expire \/ HookRaises \/ OtherEnters \/ OtherSubmits
  BY <1>2, <1>3, <1>6, StartDoes, EndingDoes, OtherDoes DEF HandsKept, WorkReadable
<1>7. CASE Reset \/ DispatchEnter \/ DispatchLeave \/ BarrierEnter \/ BarrierLeave
  BY <1>2, <1>3, <1>7, ResetDoes, DispatchEnterDoes, DispatchLeaveDoes, BarrierEnterDoes,
     BarrierLeaveDoes DEF SubmitterKept, WorkReadable
<1>8. CASE Prepare \/ LaterBarrier \/ Enhanced \/ Close \/ Drop
  BY <1>2, <1>3, <1>8, PrepareDoes, MovedOnDoes, CloseDoes, DropDoes DEF SubmitterKept, WorkReadable
<1>9. CASE GpuStep
  <2>1. submit' = submit /\ queue # <<>> /\ queue' = Tail(queue)
    BY <1>9, GpuDoes
  <2>2. \A i \in DOMAIN queue' : i + 1 \in DOMAIN queue /\ queue'[i] = queue[i + 1]
    BY <2>1, TypesNamed, TailIs
  <2> QED BY <1>3, <2>1, <2>2 DEF WorkReadable
<1>10. CASE Submit \/ Acquire
  BY <1>2, <1>10, SubmitDoes, AcquireDoes DEF WorkReadable, SubmitTo
<1>11. CASE Choose
  <2>1. submit.phase = "choose"
    BY <1>11, ChooseDoes
  <2>2. CASE SubmitTo("use") /\ Adds(Batch)
    BY <1>1, <1>5, <2>2, OpsNamed DEF WorkReadable, SubmitTo
  <2>3. CASE /\ SubmitTo("split") /\ queue' = queue /\ session.active
             /\ ListOf(submit.frame) = resident.list /\ track[resident.list].gen = resident.gen
    <3>1. resident.list # "none"
      <4>1. submit.frame >= 1 /\ submit.frame \in Frames
        BY <2>1, SubmitIs DEF Order
      <4>2. plan \in [1 .. MaxFrame -> Lists]
        BY TypesNamed, Bounds
      <4> QED BY <2>3, <4>1, <4>2, Bounds DEF ListOf
    <3>2. submit.readable
      BY <2>1, <2>3, <3>1 DEF ListsReadable, Current
    <3> QED BY <1>2, <2>3, <3>2 DEF WorkReadable, SubmitTo
  <2> QED BY <1>11, <2>2, <2>3, ChooseDoes
<1>12. CASE SubmitRead
  BY <1>1, <1>4, <1>12, SubmitReadDoes, OpsNamed DEF WorkReadable, SubmitTo
<1>13. CASE ReadDone \/ TimeOut \/ Ask \/ Answer \/ WriteDone \/ Retire
  BY <1>2, <1>13, ReadDoneDoes, TimeOutDoes, AskDoes, AnswerDoes, WriteDoneDoes, RetireDoes
     DEF WorkReadable, SubmitTo, GaveUp, QueueKept
<1>14. CASE SubmitWrite
  BY <1>1, <1>14, SubmitWriteDoes, OpsNamed DEF WorkReadable, SubmitTo
<1>15. CASE Suffix
  BY <1>1, <1>15, SuffixDoes, OpsNamed DEF WorkReadable, SubmitTo
<1>16. CASE Return
  BY <1>1, <1>5, <1>16, ReturnDoes, OpsNamed DEF WorkReadable
<1> QED BY <1>6, <1>7, <1>8, <1>9, <1>10, <1>11, <1>12, <1>13, <1>14, <1>15, <1>16
           DEF Next, RecorderStep, SubmitStep

LEMMA ReadableHolds ==
    ASSUME TypeOK, Order, Calls, OneFrame, Choice, Window, Readable, Next
    PROVE  Readable'
<1>1. mayFail' = mayFail
  BY ScenarioKept
<1>2. CASE "enhanced" \in mayFail
  BY <1>1, <1>2 DEF Readable
<1>3. CASE "enhanced" \notin mayFail
  <2>1. ListsReadable /\ WorkReadable
    BY <1>3, ReadableParts
  <2>2. ListsReadable' /\ WorkReadable'
    BY <1>3, <2>1, ListsHold, WorkHolds
  <2> QED BY <2>2 DEF Readable, ListsReadable, WorkReadable
<1> QED BY <1>2, <1>3

-----------------------------------------------------------------------------
(* What the session may count.                                                  *)
LEMMA CompletedIs ==
    ASSUME TypeOK
    PROVE  Completed(session) \in Nat /\ Limit \in Nat /\ session.allowed \in 0 .. Limit
<1>1. session.done \in SUBSET Frames
  BY SessionIs
<1> QED BY <1>1, Bounds, DoneCounts, SessionIs DEF Completed

(* A frame in flight may still complete, whatever ended the session.             *)
LEMMA WindowEnds ==
    ASSUME TypeOK, Choice, Window, Ends(session, session'), session.opened,
           submit'.phase \in Splitting => submit.phase \in Splitting
    PROVE  Window'
<1>1. /\ Completed(session') = Completed(session) /\ Completed(session) \in Nat
      /\ session.allowed \in 0 .. Limit /\ Limit \in Nat
  BY CompletedIs DEF Ends, Completed
<1>2. /\ ~session'.active /\ session'.opened /\ session'.busy = session.busy
      /\ \/ session'.allowed = session.allowed
         \/ session'.allowed = Completed(session) + (IF session.busy THEN 1 ELSE 0)
  BY DEF Ends, Completed
<1>3. submit.phase \in Splitting => session.busy
  BY DEF Choice, Chosen
<1>4. Completed(session') <= session'.allowed
  BY <1>1, <1>2 DEF Window, WindowBounds
<1>5. submit'.phase \in Splitting => Completed(session') + 1 <= session'.allowed
  BY <1>1, <1>2, <1>3 DEF Window
<1> QED BY <1>2, <1>4, <1>5 DEF Window, WindowBounds

LEMMA WindowKept ==
    ASSUME TypeOK, Window, session'.active = session.active, session'.mode = session.mode,
           session'.opened = session.opened, session'.done = session.done,
           session'.allowed = session.allowed,
           ~session.opened => /\ resident'.list = "none" /\ recorder'.phase # "prepare"
                              /\ submit'.phase \notin Chosen,
           submit'.phase \in Splitting => Completed(session) + 1 <= session.allowed
    PROVE  Window'
<1>1. Completed(session') = Completed(session)
  BY DEF Completed
<1> QED BY <1>1 DEF Window, WindowBounds

LEMMA WindowHolds ==
    ASSUME TypeOK, Order, Calls, Choice, Window, Next
    PROVE  Window'
<1> USE DEF Chosen, Splitting
<1>1. session \in SessionRecords
  BY TypesNamed
<1>2. ~session.opened => /\ resident.list = "none" /\ recorder.phase # "prepare"
                         /\ submit.phase \notin Chosen /\ ~session.mode /\ ~session.active
  BY DEF Window
<1>3. submit.phase \in Splitting => Completed(session) + 1 <= session.allowed
  BY DEF Window
<1>4. SessionMay /\ session' # session => session.opened /\ Ends(session, session')
  BY <1>2 DEF SessionMay
<1>5. CASE Start
  <2>1. /\ session'.active /\ session'.mode /\ session'.opened /\ ~session.opened
        /\ session'.done = session.done /\ session'.allowed = session.allowed /\ submit' = submit
    BY <1>5, StartDoes DEF HandsKept
  <2>2. Completed(session') = 0 /\ session'.allowed = Limit /\ Limit >= 1 /\ Limit \in Nat
    BY <2>1, Bounds, DoneCounts DEF Window, Completed
  <2> QED BY <1>2, <2>1, <2>2 DEF Window, WindowBounds
<1>6. CASE Stop \/ Expire \/ HookRaises
  BY <1>2, <1>6, EndingDoes, WindowEnds DEF HandsKept
<1>7. CASE OtherEnters \/ OtherSubmits
  BY <1>2, <1>3, <1>7, OtherDoes, WindowKept
<1>8. CASE GpuStep
  BY <1>2, <1>3, <1>8, GpuDoes, WindowKept
<1>9. CASE Reset
  <2>1. /\ UNCHANGED <<resident, submit>> /\ recorder'.phase # "prepare" /\ SessionMay
    BY <1>9, ResetDoes DEF SubmitterKept
  <2> QED BY <1>2, <1>3, <1>4, <2>1, WindowKept, WindowEnds
<1>10. CASE DispatchEnter \/ DispatchLeave
  BY <1>2, <1>3, <1>10, DispatchEnterDoes, DispatchLeaveDoes, WindowKept DEF SubmitterKept
<1>11. CASE BarrierEnter \/ LaterBarrier \/ Enhanced
  <2>1. /\ UNCHANGED <<resident, submit>> /\ recorder'.phase # "prepare" /\ SessionMay
    BY <1>11, BarrierEnterDoes, MovedOnDoes DEF SubmitterKept
  <2> QED BY <1>2, <1>3, <1>4, <2>1, WindowKept, WindowEnds
<1>12. CASE BarrierLeave
  <2>1. submit' = submit
    BY <1>12, BarrierLeaveDoes DEF SubmitterKept
  <2>2. CASE recorder'.phase = "readable" /\ UNCHANGED <<session, resident>>
    BY <1>2, <1>3, <2>1, <2>2, WindowKept
  <2>3. CASE session.active /\ session' = [session EXCEPT !.preparing = TRUE]
    BY <1>1, <1>2, <1>3, <2>1, <2>3, FlagsDo, WindowKept
  <2> QED BY <1>12, <2>2, <2>3, BarrierLeaveDoes
<1>13. CASE Prepare
  <2>1. /\ UNCHANGED <<resident, submit>> /\ recorder'.phase # "prepare" /\ session.opened
    BY <1>2, <1>13, PrepareDoes DEF SubmitterKept
  <2>2. CASE session' = [session EXCEPT !.preparing = FALSE]
    BY <1>1, <1>2, <1>3, <2>1, <2>2, FlagsDo, WindowKept
  <2>3. CASE Ends(session, session')
    BY <2>1, <2>3, WindowEnds
  <2> QED BY <1>13, <2>2, <2>3, PrepareDoes
<1>14. CASE Close \/ Drop
  BY <1>2, <1>3, <1>14, CloseDoes, DropDoes, WindowKept DEF SubmitterKept
<1>15. CASE Submit
  BY <1>2, <1>3, <1>15, SubmitDoes, WindowKept DEF ThreadsKept
<1>16. CASE Acquire
  BY <1>2, <1>3, <1>16, AcquireDoes, WindowKept DEF ThreadsKept, SubmitTo
<1>17. CASE Choose
  <2>1. UNCHANGED <<resident, recorder>> /\ submit.phase \notin Splitting /\ TypeOK
    BY <1>17, ChooseDoes DEF ThreadsKept
  <2>2. CASE SubmitTo("use") /\ SessionMay
    BY <1>2, <1>4, <2>1, <2>2, WindowKept, WindowEnds DEF SubmitTo
  <2>3. CASE SubmitTo("split") /\ session' = [session EXCEPT !.busy = TRUE] /\ session.active
    <3>1. Completed(session) + 1 <= session.allowed
      BY <2>3, CompletedIs DEF Window
    <3> QED BY <1>1, <1>2, <2>1, <2>3, <3>1, FlagsDo, WindowKept
  <2> QED BY <1>17, <2>2, <2>3, ChooseDoes
<1>18. CASE SubmitRead
  <2>1. UNCHANGED <<resident, recorder>> /\ submit.phase = "split"
    BY <1>18, SubmitReadDoes DEF ThreadsKept
  <2>2. CASE SubmitTo("reading") /\ session' = session
    BY <1>2, <1>3, <2>1, <2>2, WindowKept DEF SubmitTo
  <2>3. CASE SubmitTo("suffix") /\ Ends(session, session')
    BY <1>2, <2>1, <2>3, WindowEnds DEF SubmitTo
  <2> QED BY <1>18, <2>2, <2>3, SubmitReadDoes
<1>19. CASE ReadDone \/ SubmitWrite
  BY <1>2, <1>3, <1>19, ReadDoneDoes, SubmitWriteDoes, WindowKept DEF ThreadsKept, SubmitTo
<1>20. CASE TimeOut \/ Ask \/ Answer
  <2>1. UNCHANGED <<resident, recorder>> /\ submit.phase \in {"reading", "writing", "ask", "answer"}
    BY <1>20, TimeOutDoes, AskDoes, AnswerDoes DEF ThreadsKept
  <2>2. CASE GaveUp
    BY <1>2, <2>1, <2>2, WindowEnds DEF SubmitTo, GaveUp
  <2>3. CASE (SubmitTo("answer") \/ SubmitTo("write")) /\ session' = session
    BY <1>2, <1>3, <2>1, <2>3, WindowKept DEF SubmitTo
  <2> QED BY <1>20, <2>2, <2>3, TimeOutDoes, AskDoes, AnswerDoes
<1>21. CASE WriteDone
  <2>1. submit.phase = "writing" /\ submit'.phase \notin Splitting /\ session.opened
    BY <1>2, <1>21, WriteDoneDoes DEF SubmitTo
  <2>2. CASE Ends(session, session')
    BY <2>1, <2>2, WindowEnds
  <2>3. CASE Counts
    <3>1. session.done \in SUBSET Frames /\ submit.frame \in Frames
      BY SessionIs, SubmitIs
    <3>2. /\ Completed(session') <= Completed(session) + 1
          /\ Completed(session') \in Nat /\ Completed(session) \in Nat
      BY <2>3, <3>1, DoneCounts DEF Counts, Completed
    <3>3. session.allowed \in 0 .. Limit /\ Limit \in Nat /\ session'.allowed = session.allowed
      BY <2>3, CompletedIs DEF Counts
    <3>4. Completed(session') <= session'.allowed
      BY <1>3, <2>1, <3>2, <3>3
    <3>5. session'.active => /\ session'.mode /\ session'.opened /\ session'.allowed = Limit
                             /\ Completed(session') < Limit
      BY <2>3 DEF Counts, Window
    <3>6. session'.opened
      BY <2>1, <2>3 DEF Counts
    <3> QED BY <2>1, <3>4, <3>5, <3>6 DEF Window, WindowBounds
  <2> QED BY <1>21, <2>2, <2>3, WriteDoneDoes
<1>22. CASE Suffix
  BY <1>2, <1>3, <1>22, SuffixDoes, WindowKept DEF ThreadsKept, SubmitTo
<1>23. CASE Retire
  BY <1>1, <1>2, <1>23, RetireDoes, FlagsDo, WindowKept DEF ThreadsKept, SubmitTo
<1>24. CASE Return
  BY <1>2, <1>24, ReturnDoes, WindowKept DEF ThreadsKept
<1> QED BY <1>5, <1>6, <1>7, <1>8, <1>9, <1>10, <1>11, <1>12, <1>13, <1>14, <1>15, <1>16, <1>17,
           <1>18, <1>19, <1>20, <1>21, <1>22, <1>23, <1>24 DEF Next, RecorderStep, SubmitStep

-----------------------------------------------------------------------------
(* The line of work on the queue.                                               *)
LEMMA LinedKept ==
    ASSUME Lined, queue' = queue, target' = target,
           submit'.phase \in Produced => /\ submit.phase \in Produced /\ submit'.frame = submit.frame
                                         /\ submit'.readable = submit.readable
    PROVE  Lined'
BY DEF Lined, Follows

LEMMA AddsLined ==
    ASSUME TypeOK, Lined, NEW ops \in Seq(OpNames), Adds(ops), target' = target,
           Len(ops) > 0 => ops[1] = "produce" \/ submit.phase \in Produced,
           submit'.phase \in Produced => /\ submit'.frame = submit.frame
                                         /\ submit'.readable = submit.readable,
           Len(ops) = 0 /\ submit'.phase \in Produced => submit.phase \in Produced
    PROVE  Lined'
<1>1. /\ DOMAIN queue' = 1 .. Len(queue') /\ Len(queue') = Len(queue) + Len(ops)
      /\ Len(queue) \in Nat /\ Len(ops) \in Nat /\ DOMAIN queue = 1 .. Len(queue)
      /\ \A i \in DOMAIN queue' :
            \/ i \in DOMAIN queue /\ queue'[i] = queue[i]
            \/ /\ i \notin DOMAIN queue /\ i > Len(queue)
               /\ queue'[i].frame = submit.frame /\ queue'[i].readable = submit.readable
               /\ i - Len(queue) \in 1 .. Len(ops) /\ queue'[i].op = ops[i - Len(queue)]
  BY AddsIs
<1>2. queue = <<>> <=> Len(queue) = 0
  BY QueueIs
<1>3. queue' = <<>> <=> Len(queue') = 0
  BY DEF Adds
<1>4. ASSUME NEW i \in DOMAIN queue', queue'[i].op # "produce"
      PROVE  IF i = 1
             THEN target'.picture.frame = queue'[i].frame /\ target'.readable = queue'[i].readable
             ELSE queue'[i - 1].frame = queue'[i].frame /\ queue'[i - 1].readable = queue'[i].readable
  <2>1. i \in 1 .. Len(queue')
    BY <1>1
  <2>2. CASE i \in DOMAIN queue /\ queue'[i] = queue[i]
    <3>1. Follows(i)
      BY <1>4, <2>2 DEF Lined
    <3>2. i # 1 => i - 1 \in DOMAIN queue /\ i - 1 \in DOMAIN queue'
      BY <1>1, <2>1, <2>2
    <3>3. i # 1 => queue'[i - 1] = queue[i - 1]
      BY <1>1, <3>2
    <3> QED BY <2>2, <3>1, <3>3 DEF Follows
  <2>3. CASE /\ i \notin DOMAIN queue /\ i > Len(queue)
             /\ queue'[i].frame = submit.frame /\ queue'[i].readable = submit.readable
             /\ i - Len(queue) \in 1 .. Len(ops) /\ queue'[i].op = ops[i - Len(queue)]
    <3>1. CASE i = Len(queue) + 1
      <4>1. i - Len(queue) = 1 /\ Len(ops) > 0
        BY <1>1, <2>1, <2>3, <3>1
      <4>2. submit.phase \in Produced
        BY <1>4, <2>3, <4>1
      <4>3. CASE i = 1
        <5>1. queue = <<>>
          BY <1>1, <1>2, <3>1, <4>3
        <5> QED BY <2>3, <4>2, <4>3, <5>1 DEF Lined
      <4>4. CASE i # 1
        <5>1. queue # <<>> /\ i - 1 = Len(queue) /\ i - 1 \in DOMAIN queue /\ i - 1 \in DOMAIN queue'
          BY <1>1, <1>2, <2>1, <3>1, <4>4
        <5>2. queue'[i - 1] = queue[Len(queue)]
          BY <1>1, <5>1
        <5> QED BY <2>3, <4>2, <4>4, <5>1, <5>2 DEF Lined
      <4> QED BY <4>3, <4>4
    <3>2. CASE i # Len(queue) + 1
      <4>1. i # 1 /\ i - 1 \in DOMAIN queue' /\ i - 1 \notin DOMAIN queue
        BY <1>1, <2>1, <2>3, <3>2
      <4> QED BY <1>1, <2>3, <4>1
    <3> QED BY <3>1, <3>2
  <2> QED BY <1>1, <2>2, <2>3
<1>5. ASSUME submit'.phase \in Produced
      PROVE  IF queue' = <<>>
             THEN target'.picture.frame = submit'.frame /\ target'.readable = submit'.readable
             ELSE /\ queue'[Len(queue')].frame = submit'.frame
                  /\ queue'[Len(queue')].readable = submit'.readable
  <2>1. CASE Len(ops) = 0
    <3>1. submit.phase \in Produced /\ submit'.frame = submit.frame /\ submit'.readable = submit.readable
      BY <1>5, <2>1
    <3>2. Len(queue') = Len(queue) /\ (queue' = <<>> <=> queue = <<>>)
      BY <1>1, <1>2, <1>3, <2>1
    <3>3. queue # <<>> => Len(queue) \in DOMAIN queue /\ Len(queue) \in DOMAIN queue'
      BY <1>1, <1>2, <3>2
    <3>4. queue # <<>> => queue'[Len(queue)] = queue[Len(queue)]
      BY <1>1, <3>3
    <3> QED BY <3>1, <3>2, <3>4 DEF Lined
  <2>2. CASE Len(ops) > 0
    <3>1. queue' # <<>> /\ Len(queue') \in DOMAIN queue' /\ Len(queue') \notin DOMAIN queue
      BY <1>1, <1>3, <2>2
    <3>2. queue'[Len(queue')].frame = submit.frame /\ queue'[Len(queue')].readable = submit.readable
      BY <1>1, <3>1
    <3> QED BY <1>5, <2>2, <3>1, <3>2
  <2> QED BY <1>1, <2>1, <2>2
<1> QED BY <1>4, <1>5 DEF Lined, Follows

(* The GPU leaves the texture as the work it executed names it.                   *)
LEMMA GpuLeaves ==
    ASSUME TypeOK, Lined, Surfaces, GpuStep
    PROVE  target'.picture.frame = queue[1].frame /\ target'.readable = queue[1].readable
<1>1. 1 \in DOMAIN queue /\ queue[1].op \in OpNames /\ queue[1].frame \in Frames
  <2>1. queue # <<>>
    BY GpuDoes
  <2> QED BY <2>1, QueueIs, TypesNamed, TailIs
<1>2. queue[1].op # "produce" =>
         target.picture.frame = queue[1].frame /\ target.readable = queue[1].readable
  BY <1>1 DEF Lined, Follows
<1>3. CASE queue[1].op = "produce"
  BY <1>1, <1>3, GpuDoes, PictureFields
<1>4. CASE queue[1].op = "write"
  <2>1. surface.upload.frame = queue[1].frame
    BY <1>1, <1>4 DEF Surfaces, Queued
  <2> QED BY <1>2, <1>4, <2>1, GpuDoes
<1>5. CASE queue[1].op \in {"read", "use"}
  BY <1>2, <1>5, GpuDoes
<1> QED BY <1>1, <1>3, <1>4, <1>5 DEF OpNames

LEMMA PopIs ==
    ASSUME TypeOK, GpuStep
    PROVE  /\ Len(queue) \in Nat \ {0} /\ Len(queue') = Len(queue) - 1 /\ 1 \in DOMAIN queue
           /\ queue # <<>> /\ (queue' = <<>> <=> Len(queue) = 1)
           /\ DOMAIN queue = 1 .. Len(queue) /\ DOMAIN queue' = 1 .. (Len(queue) - 1)
           /\ \A i \in DOMAIN queue' : i + 1 \in DOMAIN queue /\ queue'[i] = queue[i + 1]
           /\ \A i \in DOMAIN queue : i = 1 \/ (i - 1 \in DOMAIN queue' /\ queue'[i - 1] = queue[i])
           /\ queue' # <<>> => queue'[Len(queue')] = queue[Len(queue)]
<1>1. queue \in Seq(WorkRecords) /\ queue # <<>> /\ queue' = Tail(queue)
  BY TypesNamed, GpuDoes
<1>2. /\ Len(queue) \in Nat \ {0} /\ Len(queue') = Len(queue) - 1 /\ 1 \in DOMAIN queue
      /\ DOMAIN queue = 1 .. Len(queue) /\ DOMAIN queue' = 1 .. (Len(queue) - 1)
      /\ queue' \in Seq(WorkRecords)
      /\ \A i \in DOMAIN queue' : i + 1 \in DOMAIN queue /\ queue'[i] = queue[i + 1]
      /\ \A i \in DOMAIN queue : i = 1 \/ i - 1 \in DOMAIN queue'
  BY <1>1, TailIs
<1>3. queue' = <<>> <=> Len(queue) = 1
  BY <1>2
<1>4. \A i \in DOMAIN queue : i = 1 \/ (i - 1 \in DOMAIN queue' /\ queue'[i - 1] = queue[i])
  BY <1>2
<1>5. queue' # <<>> => queue'[Len(queue')] = queue[Len(queue)]
  BY <1>2, <1>3
<1> QED BY <1>1, <1>2, <1>3, <1>4, <1>5

LEMMA GpuLined ==
    ASSUME TypeOK, Lined, Surfaces, GpuStep
    PROVE  Lined'
<1>1. submit' = submit
  BY GpuDoes
<1>2. ASSUME NEW i \in DOMAIN queue', queue'[i].op # "produce"
      PROVE  IF i = 1
             THEN target'.picture.frame = queue'[i].frame /\ target'.readable = queue'[i].readable
             ELSE queue'[i - 1].frame = queue'[i].frame /\ queue'[i - 1].readable = queue'[i].readable
  <2>1. i + 1 \in DOMAIN queue /\ queue'[i] = queue[i + 1] /\ i \in Nat /\ i >= 1 /\ i + 1 - 1 = i
    BY PopIs
  <2>2. queue[i].frame = queue[i + 1].frame /\ queue[i].readable = queue[i + 1].readable
    BY <1>2, <2>1 DEF Lined, Follows
  <2>3. CASE i = 1
    BY <2>1, <2>2, <2>3, GpuLeaves
  <2>4. CASE i # 1
    <3>1. i - 1 \in DOMAIN queue' /\ i - 1 + 1 = i
      BY <2>1, <2>4, PopIs
    <3>2. queue'[i - 1] = queue[i]
      BY <3>1, PopIs
    <3> QED BY <2>1, <2>2, <2>4, <3>2
  <2> QED BY <2>3, <2>4
<1>3. ASSUME submit.phase \in Produced
      PROVE  IF queue' = <<>>
             THEN target'.picture.frame = submit.frame /\ target'.readable = submit.readable
             ELSE /\ queue'[Len(queue')].frame = submit.frame
                  /\ queue'[Len(queue')].readable = submit.readable
  <2>1. queue[Len(queue)].frame = submit.frame /\ queue[Len(queue)].readable = submit.readable
    BY <1>3, PopIs DEF Lined
  <2>2. CASE queue' = <<>>
    <3>1. Len(queue) = 1
      BY <2>2, PopIs
    <3> QED BY <2>1, <2>2, <3>1, GpuLeaves
  <2>3. CASE queue' # <<>>
    BY <2>1, <2>3, PopIs
  <2> QED BY <2>2, <2>3
<1> QED BY <1>1, <1>2, <1>3 DEF Lined, Follows

LEMMA LinedHolds ==
    ASSUME TypeOK, Order, Calls, Choice, Lined, Surfaces, Next
    PROVE  Lined'
<1> USE DEF Produced
<1>1. /\ Len(<<>>) = 0 /\ Len(<<"use">>) > 0 /\ Len(<<"write">>) > 0
      /\ <<"produce">>[1] = "produce" /\ <<"produce", "read">>[1] = "produce"
      /\ Len(<<"produce">>) > 0 /\ Len(<<"produce", "read">>) > 0
      /\ Batch[1] = "produce" /\ Len(Batch) > 0
  <2>1. Len(Batch) \in Nat
    BY OpsNamed
  <2> QED BY <2>1, OpsNamed
<1>2. CASE Start \/ Stop \/ Expire \/ HookRaises \/ OtherEnters \/ OtherSubmits
  BY <1>2, StartDoes, EndingDoes, OtherDoes, LinedKept DEF HandsKept
<1>3. CASE Reset \/ DispatchEnter \/ DispatchLeave \/ BarrierEnter \/ BarrierLeave
  BY <1>3, ResetDoes, DispatchEnterDoes, DispatchLeaveDoes, BarrierEnterDoes,
     BarrierLeaveDoes, LinedKept DEF SubmitterKept
<1>4. CASE Prepare \/ LaterBarrier \/ Enhanced \/ Close \/ Drop
  BY <1>4, PrepareDoes, MovedOnDoes, CloseDoes, DropDoes, LinedKept DEF SubmitterKept
<1>5. CASE GpuStep
  BY <1>5, GpuLined
<1>6. CASE Submit \/ Acquire
  BY <1>6, SubmitDoes, AcquireDoes, LinedKept DEF SubmitTo
<1>7. CASE Choose
  <2>1. CASE SubmitTo("use") /\ Adds(Batch) /\ target' = target
    BY <1>1, <2>1, OpsNamed, AddsLined DEF SubmitTo
  <2>2. CASE SubmitTo("split") /\ queue' = queue /\ target' = target
    BY <2>2, LinedKept DEF SubmitTo
  <2> QED BY <1>7, <2>1, <2>2, ChooseDoes
<1>8. CASE SubmitRead
  <2> DEFINE ops == <<"produce", "read">>  one == <<"produce">>
  <2>3. ops \in Seq(OpNames) /\ Len(ops) > 0 /\ ops[1] = "produce" /\ Len(ops) # 0
    BY OpsNamed
  <2>4. one \in Seq(OpNames) /\ Len(one) > 0 /\ one[1] = "produce" /\ Len(one) # 0
    BY OpsNamed
  <2> HIDE DEF ops, one
  <2>1. CASE SubmitTo("reading") /\ Adds(ops) /\ target' = target
    BY <2>1, <2>3, AddsLined DEF SubmitTo
  <2>2. CASE SubmitTo("suffix") /\ Adds(one) /\ target' = target
    BY <2>2, <2>4, AddsLined DEF SubmitTo
  <2> QED BY <1>8, <2>1, <2>2, SubmitReadDoes DEF ops, one
<1>9. CASE ReadDone \/ TimeOut \/ Ask \/ Answer \/ WriteDone \/ Retire
  BY <1>9, ReadDoneDoes, TimeOutDoes, AskDoes, AnswerDoes, WriteDoneDoes, RetireDoes, LinedKept
     DEF SubmitTo, GaveUp, QueueKept
<1>10. CASE SubmitWrite
  BY <1>1, <1>10, SubmitWriteDoes, OpsNamed, AddsLined DEF SubmitTo
<1>11. CASE Suffix
  BY <1>1, <1>11, SuffixDoes, OpsNamed, AddsLined DEF SubmitTo
<1>12. CASE Return
  BY <1>1, <1>12, ReturnDoes, OpsNamed, AddsLined DEF SubmitTo
<1> QED BY <1>2, <1>3, <1>4, <1>5, <1>6, <1>7, <1>8, <1>9, <1>10, <1>11, <1>12
           DEF Next, RecorderStep, SubmitStep

-----------------------------------------------------------------------------
(* The Surface and the lists on the queue that touch it.                         *)
NoWork == \A i \in DOMAIN queue : queue[i].op \notin {"read", "write"}

LEMMA CertainIdle ==
    ASSUME Surfaces, ~surface.uncertain
    PROVE  NoWork
BY DEF Surfaces, NoWork

LEMMA SurfacesKept ==
    ASSUME Surfaces, queue' = queue, surface' = surface,
           submit'.phase \in Splitting => submit' = submit
    PROVE  Surfaces'
BY DEF Surfaces, Splitting, Queued

LEMMA SurfacesIdle ==
    ASSUME NoWork, queue' = queue, submit'.phase \notin Splitting
    PROVE  Surfaces'
BY DEF Surfaces, Splitting, Queued, NoWork

LEMMA SurfacesAdd ==
    ASSUME TypeOK, Surfaces, NEW ops \in Seq(OpNames), Adds(ops), surface' = surface,
           \A i \in 1 .. Len(ops) : ops[i] \notin {"read", "write"},
           submit'.phase \notin Splitting
    PROVE  Surfaces'
<1>1. \A i \in DOMAIN queue' :
         queue'[i].op \in {"read", "write"} => i \in DOMAIN queue /\ queue'[i] = queue[i]
  <2>1. TAKE i \in DOMAIN queue'
  <2>2. HAVE queue'[i].op \in {"read", "write"}
  <2>3. \/ i \in DOMAIN queue /\ queue'[i] = queue[i]
        \/ i - Len(queue) \in 1 .. Len(ops) /\ queue'[i].op = ops[i - Len(queue)]
    BY AddsIs
  <2> QED BY <2>2, <2>3
<1>2. Queued("write")' => Queued("write")
  BY <1>1 DEF Queued
<1> QED BY <1>1, <1>2 DEF Surfaces, Splitting

LEMMA ReadSurfaces ==
    ASSUME TypeOK, Order, Choice, Surfaces, SubmitRead
    PROVE  Surfaces'
<1> DEFINE pair == <<"produce", "read">>
           one == <<"produce">>
<1>1. /\ pair \in Seq(OpNames) /\ Len(pair) = 2 /\ pair[1] = "produce" /\ pair[2] = "read"
      /\ \A i \in 1 .. Len(pair) : pair[i] # "write"
      /\ one \in Seq(OpNames) /\ \A i \in 1 .. Len(one) : one[i] \notin {"read", "write"}
  BY OpsNamed
<1> HIDE DEF pair, one
<1>2. submit.phase = "split" /\ NoWork /\ surface.frame = submit.frame
  <2>1. submit.phase = "split"
    BY SubmitReadDoes
  <2> QED BY <2>1, CertainIdle, ChosenRuns DEF Surfaces, Chosen, Splitting
<1>3. CASE /\ SubmitTo("reading") /\ Adds(pair)
           /\ surface'.uncertain /\ surface'.frame = surface.frame
  <2>1. \A i \in DOMAIN queue' :
           queue'[i].op \in {"read", "write"} =>
              queue'[i].frame = submit.frame /\ queue'[i].op = "read"
    <3>1. TAKE i \in DOMAIN queue'
    <3>2. HAVE queue'[i].op \in {"read", "write"}
    <3>3. \/ i \in DOMAIN queue /\ queue'[i] = queue[i]
          \/ /\ queue'[i].frame = submit.frame
             /\ i - Len(queue) \in 1 .. Len(pair) /\ queue'[i].op = pair[i - Len(queue)]
      BY <1>1, <1>3, AddsIs
    <3> QED BY <1>1, <1>2, <3>2, <3>3 DEF NoWork
  <2>2. Queued("read")'
    <3>1. /\ DOMAIN queue' = 1 .. (Len(queue) + 2) /\ Len(queue) \in Nat
          /\ DOMAIN queue = 1 .. Len(queue)
      BY <1>1, <1>3, AddsIs
    <3>2. PICK i \in DOMAIN queue' : i = Len(queue) + 2
      BY <3>1
    <3>3. i \notin DOMAIN queue /\ i - Len(queue) = 2
      BY <3>1, <3>2
    <3>4. queue'[i].op = "read"
      BY <1>1, <1>3, <3>3, AddsIs
    <3> QED BY <3>4 DEF Queued
  <2>3. ~Queued("write")'
    BY <2>1 DEF Queued
  <2> QED BY <1>2, <1>3, <2>1, <2>2, <2>3 DEF Surfaces, SubmitTo
<1>4. CASE SubmitTo("suffix") /\ Adds(one) /\ surface' = surface
  BY <1>1, <1>4, SurfacesAdd DEF SubmitTo, Splitting
<1> QED BY <1>3, <1>4, SubmitReadDoes DEF pair, one

LEMMA WriteSurfaces ==
    ASSUME TypeOK, Order, Choice, Surfaces, SubmitWrite
    PROVE  Surfaces'
<1>1. /\ submit.phase = "write" /\ SubmitTo("writing") /\ Adds(<<"write">>)
      /\ surface'.uncertain /\ surface'.frame = surface.frame /\ surface'.upload = surface.upload
  BY SubmitWriteDoes
<1>2. /\ NoWork /\ surface.frame = submit.frame
      /\ surface.upload.frame = surface.frame /\ surface.upload.net
  BY <1>1, CertainIdle, ChosenRuns DEF Surfaces, Chosen, Splitting
<1>3. \A i \in DOMAIN queue' :
         queue'[i].op \in {"read", "write"} =>
            queue'[i].frame = submit.frame /\ queue'[i].op = "write"
  <2> DEFINE ops == <<"write">>
  <2>1. ops \in Seq(OpNames) /\ \A i \in 1 .. Len(ops) : ops[i] = "write"
    BY OpsNamed
  <2> HIDE DEF ops
  <2>2. Adds(ops)
    BY <1>1 DEF ops
  <2>3. TAKE i \in DOMAIN queue'
  <2>4. HAVE queue'[i].op \in {"read", "write"}
  <2>5. \/ i \in DOMAIN queue /\ queue'[i] = queue[i]
        \/ /\ queue'[i].frame = submit.frame
           /\ i - Len(queue) \in 1 .. Len(ops) /\ queue'[i].op = ops[i - Len(queue)]
    BY <2>1, <2>2, AddsIs
  <2> QED BY <1>2, <2>1, <2>4, <2>5 DEF NoWork
<1>4. ~Queued("read")'
  BY <1>3 DEF Queued
<1> QED BY <1>1, <1>2, <1>3, <1>4 DEF Surfaces, SubmitTo

(* The reader takes the image of its frame; nothing on the GPU touches the rest.   *)
LEMMA GpuSurfaces ==
    ASSUME TypeOK, Order, Choice, Lined, Surfaces, GpuStep
    PROVE  Surfaces'
<1>1. /\ submit' = submit /\ surface'.frame = surface.frame
      /\ surface'.uncertain = surface.uncertain /\ surface'.upload = surface.upload
      /\ IF queue[1].op = "read" THEN surface'.read = target.picture ELSE surface' = surface
  BY GpuDoes
<1>2. /\ 1 \in DOMAIN queue
      /\ \A i \in DOMAIN queue' : i + 1 \in DOMAIN queue /\ queue'[i] = queue[i + 1]
      /\ \A i \in DOMAIN queue : i = 1 \/ (i - 1 \in DOMAIN queue' /\ queue'[i - 1] = queue[i])
  BY PopIs
<1>3. \A i \in DOMAIN queue' :
         queue'[i].op \in {"read", "write"} => /\ surface'.frame = queue'[i].frame
                                               /\ surface'.uncertain
  BY <1>1, <1>2 DEF Surfaces
<1>4. /\ Queued("read")' => Queued("read")
      /\ Queued("write")' => Queued("write")
  BY <1>2 DEF Queued
<1>5. submit.phase = "reading" => Queued("read")' \/ surface'.read.frame = submit.frame
  <2>1. HAVE submit.phase = "reading"
  <2>2. CASE queue[1].op = "read"
    <3>1. target.picture.frame = queue[1].frame /\ surface.frame = queue[1].frame
      BY <1>2, <2>2 DEF Lined, Follows, Surfaces
    <3>2. surface.frame = submit.frame
      BY <2>1, ChosenRuns DEF Chosen, Splitting
    <3> QED BY <1>1, <2>2, <3>1, <3>2
  <2>3. CASE queue[1].op # "read"
    <3>1. CASE surface.read.frame = submit.frame
      BY <1>1, <2>3, <3>1
    <3>2. CASE Queued("read")
      <4>1. PICK i \in DOMAIN queue : queue[i].op = "read"
        BY <3>2 DEF Queued
      <4>2. i - 1 \in DOMAIN queue' /\ queue'[i - 1].op = "read"
        BY <1>2, <2>3, <4>1
      <4> QED BY <4>2 DEF Queued
    <3> QED BY <2>1, <3>1, <3>2 DEF Surfaces
  <2> QED BY <2>2, <2>3
<1>6. submit.phase \in {"ask", "answer"} => surface'.read.frame = submit.frame
  <2>1. HAVE submit.phase \in {"ask", "answer"}
  <2>2. queue[1].op # "read" /\ surface.read.frame = submit.frame
    BY <1>2, <2>1 DEF Surfaces
  <2> QED BY <1>1, <2>2
<1> QED BY <1>1, <1>3, <1>4, <1>5, <1>6 DEF Surfaces

LEMMA RestIs ==
    ASSUME Adds(<<"use">>) \/ Adds(<<>>)
    PROVE  \E ops \in Seq(OpNames) :
              Adds(ops) /\ \A i \in 1 .. Len(ops) : ops[i] \notin {"read", "write"}
<1>1. PICK use : use = <<"use">>
  OBVIOUS
<1>2. PICK none : none = <<>>
  OBVIOUS
<1>3. use \in Seq(OpNames) /\ none \in Seq(OpNames)
  BY <1>1, <1>2, OpsNamed
<1>4. /\ \A i \in 1 .. Len(use) : use[i] \notin {"read", "write"}
      /\ \A i \in 1 .. Len(none) : none[i] \notin {"read", "write"}
  BY <1>1, <1>2
<1>5. Adds(use) \/ Adds(none)
  BY <1>1, <1>2, Zenon
<1> QED BY <1>3, <1>4, <1>5, Zenon

LEMMA SurfacesHold ==
    ASSUME TypeOK, Order, Calls, Choice, Lined, Surfaces, Next
    PROVE  Surfaces'
<1> USE DEF Splitting
<1>1. CASE Start \/ Stop \/ Expire \/ HookRaises \/ OtherEnters \/ OtherSubmits
  BY <1>1, StartDoes, EndingDoes, OtherDoes, SurfacesKept DEF HandsKept
<1>2. CASE Reset \/ DispatchEnter \/ DispatchLeave \/ BarrierEnter \/ BarrierLeave
  BY <1>2, ResetDoes, DispatchEnterDoes, DispatchLeaveDoes, BarrierEnterDoes,
     BarrierLeaveDoes, SurfacesKept DEF SubmitterKept
<1>3. CASE LaterBarrier \/ Enhanced \/ Close \/ Drop
  BY <1>3, MovedOnDoes, CloseDoes, DropDoes, SurfacesKept DEF SubmitterKept
<1>4. CASE Prepare
  <2>1. recorder.phase = "prepare" /\ UNCHANGED <<submit, queue>>
    BY <1>4, PrepareDoes DEF SubmitterKept
  <2>2. ~surface.uncertain /\ submit.phase \notin Chosen
    BY <2>1 DEF Choice
  <2> QED BY <2>1, <2>2, CertainIdle, SurfacesIdle DEF Chosen
<1>5. CASE GpuStep
  BY <1>5, GpuSurfaces
<1>6. CASE Submit \/ Acquire
  BY <1>6, SubmitDoes, AcquireDoes, SurfacesKept DEF SubmitTo
<1>7. CASE Choose
  <2>1. submit.phase = "choose" /\ surface' = surface
    BY <1>7, ChooseDoes
  <2>2. CASE SubmitTo("use") /\ Adds(Batch)
    <3>1. \A i \in 1 .. Len(Batch) : Batch[i] \notin {"read", "write"}
      BY OpsNamed
    <3> QED BY <2>1, <2>2, <3>1, OpsNamed, SurfacesAdd DEF SubmitTo
  <2>3. CASE /\ SubmitTo("split") /\ queue' = queue /\ ~session.busy
             /\ ListOf(submit.frame) = resident.list
    <3>1. resident.list # "none"
      <4>1. submit.frame >= 1 /\ submit.frame \in Frames
        BY <2>1, SubmitIs DEF Order
      <4>2. plan \in [1 .. MaxFrame -> Lists]
        BY TypesNamed, Bounds
      <4> QED BY <2>3, <4>1, <4>2, Bounds DEF ListOf
    <3>2. ~surface.uncertain
      BY <2>3, <3>1 DEF Choice
    <3>3. NoWork
      BY <3>2, CertainIdle
    <3> QED BY <2>1, <2>3, <3>2, <3>3 DEF Surfaces, NoWork, Queued, SubmitTo
  <2> QED BY <1>7, <2>2, <2>3, ChooseDoes
<1>8. CASE SubmitRead
  BY <1>8, ReadSurfaces
<1>9. CASE ReadDone
  <2>1. /\ submit.phase = "reading" /\ ~Queued("read") /\ SubmitTo("ask") /\ queue' = queue
        /\ ~surface'.uncertain /\ surface'.read = surface.read
    BY <1>9, ReadDoneDoes DEF QueueKept
  <2>2. ~Queued("write") /\ surface.read.frame = submit.frame
    BY <2>1 DEF Surfaces
  <2>3. \A i \in DOMAIN queue : queue[i].op \notin {"read", "write"}
    BY <2>1, <2>2 DEF Queued
  <2> QED BY <2>1, <2>2, <2>3 DEF Surfaces, Queued, SubmitTo
<1>10. CASE TimeOut
  BY <1>10, TimeOutDoes, SurfacesKept DEF GaveUp, SubmitTo, QueueKept
<1>11. CASE Ask
  <2>1. submit.phase = "ask" /\ queue' = queue
    BY <1>11, AskDoes DEF QueueKept
  <2>2. CASE GaveUp
    BY <2>1, <2>2, SurfacesKept DEF GaveUp, SubmitTo
  <2>3. CASE SubmitTo("answer") /\ surface' = surface
    BY <2>1, <2>3 DEF Surfaces, Queued, SubmitTo
  <2> QED BY <1>11, <2>2, <2>3, AskDoes
<1>12. CASE Answer
  <2>1. submit.phase = "answer" /\ queue' = queue
    BY <1>12, AnswerDoes DEF QueueKept
  <2>2. CASE GaveUp
    BY <2>1, <2>2, SurfacesKept DEF GaveUp, SubmitTo
  <2>3. CASE /\ SubmitTo("write") /\ surface'.frame = surface.frame
             /\ surface'.uncertain = surface.uncertain
             /\ surface'.upload.frame = surface.read.frame /\ surface'.upload.net
    <3>1. ~surface.uncertain /\ surface.read.frame = submit.frame
      BY <2>1 DEF Surfaces
    <3>2. NoWork /\ surface.frame = submit.frame
      BY <2>1, <3>1, CertainIdle, ChosenRuns DEF Chosen
    <3> QED BY <2>1, <2>3, <3>1, <3>2 DEF Surfaces, NoWork, Queued, SubmitTo
  <2> QED BY <1>12, <2>2, <2>3, AnswerDoes
<1>13. CASE SubmitWrite
  BY <1>13, WriteSurfaces
<1>14. CASE WriteDone
  <2>1. submit.phase = "writing" /\ ~Queued("write") /\ SubmitTo("suffix") /\ queue' = queue
    BY <1>14, WriteDoneDoes DEF QueueKept
  <2>2. NoWork
    BY <2>1 DEF Surfaces, Queued, NoWork
  <2> QED BY <2>1, <2>2, SurfacesIdle DEF SubmitTo
<1>15. CASE Suffix
  <2>1. submit'.phase = "retire" /\ surface' = surface
    BY <1>15, SuffixDoes DEF SubmitTo
  <2>2. PICK ops \in Seq(OpNames) : Adds(ops) /\ \A i \in 1 .. Len(ops) : ops[i] \notin {"read", "write"}
    <3>1. Adds(<<"use">>) \/ Adds(<<>>)
      BY <1>15, SuffixDoes, SubmitIs
    <3> QED BY <3>1, RestIs
  <2> QED BY <2>1, <2>2, SurfacesAdd
<1>16. CASE Retire
  <2>1. submit'.phase = "use" /\ queue' = queue
    BY <1>16, RetireDoes DEF SubmitTo, QueueKept
  <2>2. CASE surface.uncertain
    BY <1>16, <2>1, <2>2, RetireDoes, SurfacesKept
  <2>3. CASE ~surface.uncertain
    BY <2>1, <2>3, CertainIdle, SurfacesIdle
  <2> QED BY <2>2, <2>3
<1>17. CASE Return
  <2>1. submit'.phase = "idle" /\ surface' = surface
    BY <1>17, ReturnDoes
  <2>2. PICK ops \in Seq(OpNames) : Adds(ops) /\ \A i \in 1 .. Len(ops) : ops[i] \notin {"read", "write"}
    <3>1. Adds(<<"use">>) \/ Adds(<<>>)
      BY <1>17, ReturnDoes, SubmitIs
    <3> QED BY <3>1, RestIs
  <2> QED BY <2>1, <2>2, SurfacesAdd
<1> QED BY <1>1, <1>2, <1>3, <1>4, <1>5, <1>6, <1>7, <1>8, <1>9, <1>10, <1>11, <1>12, <1>13, <1>14,
           <1>15, <1>16, <1>17 DEF Next, RecorderStep, SubmitStep

-----------------------------------------------------------------------------
(* What is counted, and what the consumers find.                                 *)
UsesDue ==
    \A i \in DOMAIN queue : queue[i].op = "use" /\ queue[i].frame \in session.done =>
          i = 1 /\ target.picture.net
FrameDue ==
    /\ submit.frame \notin session.done /\ used[submit.frame] = Raw(0)
    /\ \A i \in DOMAIN queue : queue[i].op = "use" => queue[i].frame # submit.frame
WriteDue == IF queue = <<>> THEN target.picture.net ELSE queue[Len(queue)].op = "write"
RestDue ==
    /\ submit.phase = "suffix" /\ submit.frame \in session.done => Shown
    /\ submit.phase \in {"retire", "use"} /\ submit.frame \in session.done /\ ~submit.suffix => Shown

LEMMA CountedParts ==
    /\ Counted <=> /\ submit.phase \in Before => FrameDue
                   /\ submit.phase = "writing" => WriteDue
                   /\ RestDue /\ UsesDue
    /\ Counted' <=> /\ submit'.phase \in Before => FrameDue'
                    /\ submit'.phase = "writing" => WriteDue'
                    /\ RestDue' /\ UsesDue'
BY DEF Counted, FrameDue, WriteDue, RestDue, UsesDue

LEMMA CountedKept ==
    ASSUME Counted, queue' = queue, target' = target, used' = used,
           session'.done = session.done,
           \/ submit' = submit
           \/ /\ submit'.frame = submit.frame /\ submit'.suffix = submit.suffix
              /\ \/ submit.phase \in Before
                 \/ submit.phase = "retire" /\ submit'.phase = "use"
              /\ submit'.phase # "writing"
    PROVE  Counted'
BY DEF Counted, Shown, Before, Splitting

(* A consumer behind the rest of its batch, and one on an empty queue.            *)
LEMMA UsesAdd ==
    ASSUME TypeOK, UsesDue, NEW ops \in Seq(OpNames), Adds(ops), target' = target,
           session'.done = session.done,
           submit.frame \in session.done /\ Len(ops) > 0 => Shown /\ Len(ops) = 1
    PROVE  UsesDue'
<1>1. ASSUME NEW i \in DOMAIN queue', queue'[i].op = "use", queue'[i].frame \in session.done
      PROVE  i = 1 /\ target.picture.net
  <2>1. CASE i \in DOMAIN queue /\ queue'[i] = queue[i]
    BY <1>1, <2>1 DEF UsesDue
  <2>2. CASE /\ queue'[i].frame = submit.frame /\ i > Len(queue)
             /\ i - Len(queue) \in 1 .. Len(ops)
    <3>1. Len(ops) \in Nat /\ Len(queue) \in Nat /\ i \in 1 .. Len(queue')
      BY AddsIs
    <3>2. Len(ops) > 0
      BY <2>2, <3>1
    <3>3. Shown /\ Len(ops) = 1
      BY <1>1, <2>2, <3>2
    <3>4. Len(queue) = 0
      BY <3>3, QueueIs DEF Shown
    <3> QED BY <2>2, <3>1, <3>3, <3>4 DEF Shown
  <2> QED BY <2>1, <2>2, AddsIs
<1> QED BY <1>1 DEF UsesDue

LEMMA FrameAdd ==
    ASSUME TypeOK, FrameDue, NEW ops \in Seq(OpNames), Adds(ops), used' = used,
           session'.done = session.done, submit'.frame = submit.frame,
           \A i \in 1 .. Len(ops) : ops[i] # "use"
    PROVE  FrameDue'
<1>1. ASSUME NEW i \in DOMAIN queue', queue'[i].op = "use"
      PROVE  queue'[i].frame # submit.frame
  <2>1. \/ i \in DOMAIN queue /\ queue'[i] = queue[i]
        \/ i - Len(queue) \in 1 .. Len(ops) /\ queue'[i].op = ops[i - Len(queue)]
    BY AddsIs
  <2> QED BY <1>1, <2>1 DEF FrameDue
<1> QED BY <1>1 DEF FrameDue

LEMMA SubmitCounted ==
    ASSUME TypeOK, Order, Counted, Submit
    PROVE  Counted'
<1>1. /\ submit.phase = "idle" /\ ready # <<>> /\ submit'.phase = "lock"
      /\ submit'.frame = ready[1].frame /\ UNCHANGED <<session, queue, target, used>>
  BY SubmitDoes
<1>2. 1 \in DOMAIN ready /\ ready[1].frame \in Frames /\ ready[1].frame >= 1
  <2>1. 1 \in DOMAIN ready
    BY <1>1, TypesNamed, TailIs
  <2> QED BY <2>1, ReadyIs DEF Order
<1>3. ready[1].frame \in 1 .. MaxFrame /\ ready[1].frame \in Nat
  BY <1>2, Bounds
<1>4. \A n \in Frames : Past(n) => n # ready[1].frame
  <2>1. TAKE n \in Frames
  <2>2. HAVE Past(n)
  <2>3. n < ready[1].frame /\ n \in Nat
    BY <1>2, <2>1, <2>2, Bounds DEF Past
  <2> QED BY <1>3, <2>3
<1>5. ~Past(ready[1].frame)
  BY <1>2, <1>4
<1>6. submit'.frame \notin session.done /\ used[submit'.frame] = Raw(0)
  BY <1>1, <1>3, <1>5 DEF Order
<1>7. \A i \in DOMAIN queue : queue[i].frame # submit'.frame
  BY <1>1, <1>5 DEF Order
<1>8. FrameDue'
  BY <1>1, <1>6, <1>7 DEF FrameDue
<1>9. RestDue' /\ UsesDue'
  BY <1>1, CountedParts DEF RestDue, UsesDue
<1> QED BY <1>1, <1>8, <1>9, CountedParts

LEMMA GpuCounted ==
    ASSUME TypeOK, Order, Surfaces, Counted, GpuStep
    PROVE  Counted'
<1>1. submit' = submit /\ session' = session
  BY GpuDoes
<1>2. /\ queue # <<>> /\ 1 \in DOMAIN queue /\ (queue' = <<>> <=> Len(queue) = 1)
      /\ \A i \in DOMAIN queue' : i + 1 \in DOMAIN queue /\ queue'[i] = queue[i + 1]
      /\ queue' # <<>> => queue'[Len(queue')] = queue[Len(queue)]
  BY PopIs
<1>3. \A i \in DOMAIN queue' : i + 1 # 1
  <2>1. DOMAIN queue' = 1 .. (Len(queue) - 1) /\ Len(queue) \in Nat \ {0}
    BY PopIs
  <2> QED BY <2>1
<1>4. UsesDue'
  BY <1>1, <1>2, <1>3, CountedParts DEF UsesDue
<1>5. RestDue'
  BY <1>1, <1>2, CountedParts DEF RestDue, Shown
<1>6. submit.phase = "writing" => WriteDue'
  <2>1. HAVE submit.phase = "writing"
  <2>2. queue[Len(queue)].op = "write"
    BY <1>2, <2>1, CountedParts DEF WriteDue
  <2>3. CASE queue' = <<>>
    <3>1. queue[1].op = "write"
      BY <1>2, <2>2, <2>3
    <3>2. surface.upload.net
      BY <2>1 DEF Surfaces
    <3>3. target'.picture = surface.upload
      BY <3>1, GpuDoes
    <3> QED BY <2>3, <3>2, <3>3 DEF WriteDue
  <2>4. CASE queue' # <<>>
    BY <1>2, <2>2, <2>4 DEF WriteDue
  <2> QED BY <2>3, <2>4
<1>7. submit.phase \in Before => FrameDue'
  <2>1. HAVE submit.phase \in Before
  <2>2. FrameDue
    BY <2>1, CountedParts
  <2>3. used'[submit.frame] = used[submit.frame]
    <3>1. used \in [1 .. MaxFrame -> Pictures]
      BY TypesNamed
    <3>2. submit.frame \in 1 .. MaxFrame
      <4>1. submit.frame >= 1
        BY <2>1 DEF Order, Before, Splitting
      <4> QED BY <4>1, SubmitIs, Bounds
    <3>3. CASE queue[1].op = "use"
      <4>1. queue[1].frame # submit.frame
        BY <1>2, <2>2, <3>3 DEF FrameDue
      <4>2. used' = [used EXCEPT ![queue[1].frame] = target.picture]
        BY <3>3, GpuDoes
      <4> QED BY <3>1, <3>2, <4>1, <4>2
    <3>4. CASE queue[1].op # "use"
      BY <3>4, GpuDoes
    <3> QED BY <3>3, <3>4
  <2> QED BY <1>1, <1>2, <2>2, <2>3 DEF FrameDue
<1> QED BY <1>1, <1>4, <1>5, <1>6, <1>7, CountedParts

LEMMA WriteDoneCounted ==
    ASSUME TypeOK, Counted, WriteDone
    PROVE  Counted'
<1>1. /\ submit.phase = "writing" /\ ~Queued("write") /\ SubmitTo("suffix")
      /\ UNCHANGED <<queue, target, used>>
  BY WriteDoneDoes DEF QueueKept
<1>2. FrameDue /\ WriteDue /\ UsesDue
  BY <1>1, CountedParts DEF Before, Splitting
<1>3. Shown
  <2>1. queue # <<>> => Len(queue) \in DOMAIN queue
    BY QueueIs
  <2> QED BY <1>1, <1>2, <2>1 DEF WriteDue, Queued, Shown
<1>4. UsesDue'
  <2>1. DOMAIN queue = {}
    BY <1>3, QueueIs DEF Shown
  <2> QED BY <1>1, <2>1 DEF UsesDue
<1>5. RestDue'
  BY <1>1, <1>3 DEF RestDue, Shown, SubmitTo
<1> QED BY <1>1, <1>4, <1>5, CountedParts DEF SubmitTo, Before, Splitting

(* The rest of the batch, and the consumer by itself.                             *)
LEMMA RestCounted ==
    ASSUME TypeOK, Counted, Suffix \/ Return
    PROVE  Counted'
<1> DEFINE use == <<"use">>
           none == <<>>
<1>1. use \in Seq(OpNames) /\ none \in Seq(OpNames) /\ Len(use) = 1 /\ Len(none) = 0
  BY OpsNamed
<1> HIDE DEF use, none
<1>2. UNCHANGED <<session, target, used>>
  BY SuffixDoes, ReturnDoes
<1>3. submit.suffix \in BOOLEAN /\ RestDue /\ UsesDue
  BY SubmitIs, CountedParts
<1>4. Adds(none) => UsesDue' /\ (Shown => Shown')
  <2>1. HAVE Adds(none)
  <2>2. UsesDue'
    <3>1. ~(Len(none) > 0)
      BY <1>1
    <3>2. session'.done = session.done /\ target' = target
      BY <1>2
    <3> QED BY <1>1, <1>3, <2>1, <3>1, <3>2, UsesAdd
  <2>3. Len(queue') = Len(queue) /\ queue' \in Seq(WorkRecords)
    <3>1. Len(queue) \in Nat
      BY QueueIs
    <3> QED BY <1>1, <2>1, <3>1 DEF Adds
  <2>4. queue = <<>> => queue' = <<>>
    BY <2>3
  <2> QED BY <1>2, <2>2, <2>4 DEF Shown
<1>5. Adds(use) /\ (submit.frame \in session.done => Shown) => UsesDue'
  BY <1>1, <1>2, <1>3, UsesAdd
<1>6. CASE Suffix
  <2>1. /\ submit.phase = "suffix" /\ SubmitTo("retire")
        /\ submit.suffix => Adds(use)
        /\ ~submit.suffix => Adds(none)
    BY <1>6, SuffixDoes DEF use, none
  <2>2. submit.frame \in session.done => Shown
    BY <1>3, <2>1 DEF RestDue
  <2>3. UsesDue'
    BY <1>4, <1>5, <2>1, <2>2
  <2>4. RestDue'
    BY <1>2, <1>4, <2>1, <2>2 DEF RestDue, SubmitTo
  <2> QED BY <2>1, <2>3, <2>4, CountedParts DEF SubmitTo, Before, Splitting
<1>7. CASE Return
  <2>1. /\ submit.phase = "use" /\ submit'.phase = "idle"
        /\ submit.suffix => Adds(none)
        /\ ~submit.suffix => Adds(use)
    BY <1>7, ReturnDoes DEF use, none
  <2>2. submit.frame \in session.done /\ ~submit.suffix => Shown
    BY <1>3, <2>1 DEF RestDue
  <2>3. UsesDue'
    BY <1>4, <1>5, <2>1, <2>2
  <2> QED BY <2>1, <2>3, CountedParts DEF Before, Splitting, RestDue
<1> QED BY <1>6, <1>7

LEMMA AddCounted ==
    ASSUME TypeOK, Counted, submit.phase \in Before, NEW ops \in Seq(OpNames), Adds(ops),
           target' = target, used' = used, session'.done = session.done,
           submit'.frame = submit.frame,
           submit'.phase \in Before => \A i \in 1 .. Len(ops) : ops[i] # "use",
           submit'.phase = "writing" => Len(ops) = 1 /\ ops[1] = "write"
    PROVE  Counted'
<1>1. FrameDue /\ UsesDue
  BY CountedParts
<1>2. submit.frame \notin session.done
  BY <1>1 DEF FrameDue
<1>3. UsesDue'
  BY <1>1, <1>2, UsesAdd
<1>4. submit'.phase \in Before => FrameDue'
  BY <1>1, FrameAdd
<1>5. RestDue'
  BY <1>2 DEF RestDue
<1>6. submit'.phase = "writing" => WriteDue'
  <2>1. HAVE submit'.phase = "writing"
  <2>2. /\ Len(queue') = Len(queue) + 1 /\ Len(queue) \in Nat /\ DOMAIN queue = 1 .. Len(queue)
        /\ DOMAIN queue' = 1 .. Len(queue')
    BY <2>1, AddsIs
  <2>3. Len(queue') \in DOMAIN queue' /\ Len(queue') \notin DOMAIN queue
        /\ Len(queue') - Len(queue) = 1
    BY <2>2
  <2>4. queue'[Len(queue')].op = "write"
    BY <2>1, <2>3, AddsIs
  <2>5. queue' # <<>>
    BY <2>2, <2>3
  <2> QED BY <2>4, <2>5 DEF WriteDue
<1> QED BY <1>3, <1>4, <1>5, <1>6, CountedParts

LEMMA CountedHolds ==
    ASSUME TypeOK, Order, Calls, Choice, Lined, Surfaces, Counted, Next
    PROVE  Counted'
<1> USE DEF Before, Splitting
<1>1. session \in SessionRecords
  BY TypesNamed
<1>2. SessionMay => session'.done = session.done
  BY DEF SessionMay, Ends
<1>3. CASE Start \/ Stop \/ Expire \/ HookRaises \/ OtherEnters \/ OtherSubmits
  BY <1>3, StartDoes, EndingDoes, OtherDoes, CountedKept DEF HandsKept, Ends
<1>4. CASE Reset \/ DispatchEnter \/ DispatchLeave \/ BarrierEnter \/ LaterBarrier \/ Enhanced
  BY <1>2, <1>4, ResetDoes, DispatchEnterDoes, DispatchLeaveDoes, BarrierEnterDoes,
     MovedOnDoes, CountedKept DEF SubmitterKept
<1>5. CASE BarrierLeave
  <2>1. session'.done = session.done
    BY <1>1, <1>5, BarrierLeaveDoes, FlagsDo
  <2> QED BY <1>5, <2>1, BarrierLeaveDoes, CountedKept DEF SubmitterKept
<1>6. CASE Prepare
  <2>1. session'.done = session.done
    BY <1>1, <1>6, PrepareDoes, FlagsDo DEF Ends
  <2> QED BY <1>6, <2>1, PrepareDoes, CountedKept DEF SubmitterKept
<1>7. CASE Close \/ Drop
  BY <1>7, CloseDoes, DropDoes, CountedKept DEF SubmitterKept
<1>8. CASE GpuStep
  BY <1>8, GpuCounted
<1>9. CASE Submit
  BY <1>9, SubmitCounted
<1>10. CASE Acquire
  BY <1>10, AcquireDoes, CountedKept DEF SubmitTo
<1>11. CASE Choose
  <2>1. submit.phase = "choose" /\ UNCHANGED <<target, used>>
    BY <1>11, ChooseDoes
  <2>2. CASE SubmitTo("use") /\ Adds(Batch) /\ SessionMay
    BY <1>2, <2>1, <2>2, OpsNamed, AddCounted DEF SubmitTo
  <2>3. CASE SubmitTo("split") /\ queue' = queue /\ session' = [session EXCEPT !.busy = TRUE]
    <3>1. session'.done = session.done
      BY <1>1, <2>3, FlagsDo
    <3> QED BY <2>1, <2>3, <3>1, CountedKept DEF SubmitTo
  <2> QED BY <1>11, <2>2, <2>3, ChooseDoes
<1>12. CASE SubmitRead
  <2> DEFINE pair == <<"produce", "read">>
             one == <<"produce">>
  <2>1. /\ pair \in Seq(OpNames) /\ \A i \in 1 .. Len(pair) : pair[i] # "use"
        /\ one \in Seq(OpNames) /\ \A i \in 1 .. Len(one) : one[i] # "use"
    BY OpsNamed
  <2> HIDE DEF pair, one
  <2>2. submit.phase = "split" /\ UNCHANGED <<target, used>>
    BY <1>12, SubmitReadDoes
  <2>3. CASE SubmitTo("reading") /\ Adds(pair) /\ session' = session
    BY <2>1, <2>2, <2>3, AddCounted DEF SubmitTo
  <2>4. CASE SubmitTo("suffix") /\ Adds(one) /\ Ends(session, session')
    BY <2>1, <2>2, <2>4, AddCounted DEF SubmitTo, Ends
  <2> QED BY <1>12, <2>3, <2>4, SubmitReadDoes DEF pair, one
<1>13. CASE ReadDone
  BY <1>13, ReadDoneDoes, CountedKept DEF SubmitTo, QueueKept
<1>14. CASE TimeOut
  BY <1>14, TimeOutDoes, CountedKept DEF SubmitTo, QueueKept, GaveUp, Ends
<1>15. CASE Ask
  BY <1>15, AskDoes, CountedKept DEF SubmitTo, QueueKept, GaveUp, Ends
<1>16. CASE Answer
  BY <1>16, AnswerDoes, CountedKept DEF SubmitTo, QueueKept, GaveUp, Ends
<1>17. CASE SubmitWrite
  <2> DEFINE one == <<"write">>
  <2>1. one \in Seq(OpNames) /\ Len(one) = 1 /\ one[1] = "write"
        /\ \A i \in 1 .. Len(one) : one[i] # "use"
    BY OpsNamed
  <2>2. /\ submit.phase = "write" /\ UNCHANGED <<session, target, used>>
        /\ SubmitTo("writing") /\ Adds(one)
    BY <1>17, SubmitWriteDoes
  <2> HIDE DEF one
  <2> QED BY <2>1, <2>2, AddCounted DEF SubmitTo
<1>18. CASE WriteDone
  BY <1>18, WriteDoneCounted
<1>19. CASE Suffix \/ Return
  BY <1>19, RestCounted
<1>20. CASE Retire
  <2>1. session'.done = session.done
    BY <1>1, <1>20, RetireDoes, FlagsDo
  <2> QED BY <1>20, <2>1, RetireDoes, CountedKept DEF SubmitTo, QueueKept
<1> QED BY <1>3, <1>4, <1>5, <1>6, <1>7, <1>8, <1>9, <1>10, <1>11, <1>12, <1>13, <1>14, <1>15,
           <1>16, <1>17, <1>18, <1>19, <1>20 DEF Next, RecorderStep, SubmitStep

(* The consumer finds its own frame.                                             *)
LEMMA OwnHolds ==
    ASSUME TypeOK, Order, Calls, Lined, Counted, ConsumerFindsOwn, Next
    PROVE  ConsumerFindsOwn'
<1>1. session \in SessionRecords
  BY TypesNamed
<1>2. CASE used' = used /\ session'.done = session.done
  BY <1>2 DEF ConsumerFindsOwn
<1>3. CASE GpuStep
  <2>1. session' = session /\ 1 \in DOMAIN queue
    BY <1>3, GpuDoes, PopIs
  <2>2. CASE queue[1].op # "use"
    BY <1>2, <1>3, <2>1, <2>2, GpuDoes
  <2>3. CASE queue[1].op = "use"
    <3>1. used' = [used EXCEPT ![queue[1].frame] = target.picture]
      BY <1>3, <2>3, GpuDoes
    <3>2. used \in [1 .. MaxFrame -> Pictures]
      BY TypesNamed
    <3>3. target.picture.frame = queue[1].frame
      BY <2>1, <2>3 DEF Lined, Follows
    <3>4. queue[1].frame \in session.done => target.picture.net
      BY <2>1, <2>3 DEF Counted
    <3>5. \A n \in 1 .. MaxFrame :
             used'[n] = IF n = queue[1].frame THEN target.picture ELSE used[n]
      BY <3>1, <3>2
    <3> QED BY <2>1, <3>3, <3>4, <3>5 DEF ConsumerFindsOwn
  <2> QED BY <2>2, <2>3
<1>4. CASE SubmitStep
  <2>1. used' = used /\ (session'.done = session.done \/ (Counts /\ submit.phase = "writing"))
    BY <1>4, ExecuteDoes DEF Executes
  <2>2. CASE Counts /\ submit.phase = "writing"
    <3>1. used[submit.frame] = Raw(0)
      BY <2>2 DEF Counted, Before, Splitting
    <3>2. session'.done = session.done \cup {submit.frame}
      BY <2>2 DEF Counts
    <3> QED BY <2>1, <3>1, <3>2 DEF ConsumerFindsOwn
  <2> QED BY <1>2, <2>1, <2>2
<1>5. CASE Submit
  BY <1>2, <1>5, SubmitDoes
<1>6. CASE Start \/ Stop \/ Expire \/ HookRaises \/ OtherEnters \/ OtherSubmits
  BY <1>2, <1>6, StartDoes, EndingDoes, OtherDoes DEF HandsKept, Ends
<1>7. CASE \/ Reset \/ DispatchEnter \/ DispatchLeave \/ BarrierEnter \/ LaterBarrier
           \/ Enhanced \/ Close \/ Drop
  <2>1. SessionMay => session'.done = session.done
    BY DEF SessionMay, Ends
  <2> QED BY <1>2, <1>7, <2>1, ResetDoes, DispatchEnterDoes, DispatchLeaveDoes, BarrierEnterDoes,
             MovedOnDoes, CloseDoes, DropDoes DEF SubmitterKept
<1>8. CASE BarrierLeave \/ Prepare
  <2>1. session'.done = session.done
    BY <1>1, <1>8, BarrierLeaveDoes, PrepareDoes, FlagsDo DEF Ends
  <2> QED BY <1>2, <1>8, <2>1, BarrierLeaveDoes, PrepareDoes DEF SubmitterKept
<1> QED BY <1>3, <1>4, <1>5, <1>6, <1>7, <1>8 DEF Next, RecorderStep

-----------------------------------------------------------------------------
(* The initial state.                                                            *)
LEMMA InitTypes == Init => TypeOK
<1> SUFFICES ASSUME Init PROVE TypeOK
  OBVIOUS
<1>1. PICK off \in BOOLEAN : off = FALSE
  OBVIOUS
<1>2. PICK none \in Frames : none = 0
  BY Bounds
<1>3. PICK bare \in Pictures : bare = Raw(0)
  BY PictureFields, Bounds
<1>4. PICK zero \in 0 .. 2 : zero = 0
  OBVIOUS
<1>5. PICK all \in 0 .. Limit : all = Limit
  BY Bounds
<1>6. session \in SessionRecords
  <2>1. session = [mode |-> off, active |-> off, failed |-> off, preparing |-> off,
                   busy |-> off, opened |-> off, installed |-> off, done |-> {},
                   allowed |-> all]
    BY <1>1, <1>5, Zenon DEF Init
  <2> QED BY <2>1 DEF SessionRecords
<1>7. track \in [Lists -> TrackRecords]
  <2>1. PICK t : t = [gen |-> none, reset |-> off, closed |-> off, calls |-> zero, boundary |-> off]
    OBVIOUS
  <2>2. t \in TrackRecords
    BY <2>1 DEF TrackRecords
  <2>3. t = [gen |-> 0, reset |-> FALSE, closed |-> FALSE, calls |-> 0, boundary |-> FALSE]
    BY <1>1, <1>2, <1>4, <2>1, Zenon
  <2>4. track = [l \in Lists |-> t]
    BY <2>3, Zenon DEF Init
  <2> QED BY <2>2, <2>4
<1>8. resident \in ResidentRecords
  <2>1. resident = [list |-> "none", gen |-> none]
    BY <1>2, Zenon DEF Init, NoList
  <2> QED BY <2>1 DEF ResidentRecords
<1>9. surface \in SurfaceRecords
  BY PictureFields DEF Init
<1>10. recorder \in RecorderRecords
  <2>1. recorder = [phase |-> "next", frame |-> none, seen |-> off, again |-> off, readable |-> off]
    BY <1>1, <1>2, Zenon DEF Init
  <2> QED BY <2>1 DEF RecorderRecords, RecorderPhases
<1>11. submit \in SubmitRecords
  BY IdleFits DEF Init
<1>12. other \in OtherRecords
  <2>1. other = [phase |-> "idle", locks |-> off, done |-> none]
    BY <1>1, <1>2, Zenon DEF Init
  <2> QED BY <2>1 DEF OtherRecords
<1>13. target \in TargetRecords
  <2>1. target = [picture |-> bare, readable |-> off]
    BY <1>1, <1>3, Zenon DEF Init
  <2> QED BY <2>1 DEF TargetRecords
<1>14. used \in [1 .. MaxFrame -> Pictures]
  <2>1. used = [n \in 1 .. MaxFrame |-> bare]
    BY <1>3 DEF Init
  <2> QED BY <2>1
<1>15. /\ mayFail \in Scenarios /\ plan \in Plans /\ lock \in {"none", "submit"}
       /\ ready \in Seq(ReadyRecords) /\ queue \in Seq(WorkRecords)
  BY DEF Init
<1> QED BY <1>6, <1>7, <1>8, <1>9, <1>10, <1>11, <1>12, <1>13, <1>14, <1>15, TypesNamed

LEMMA InitHolds == Init => CaptureInv
<1> SUFFICES ASSUME Init PROVE CaptureInv
  OBVIOUS
<1>1. TypeOK
  BY InitTypes
<1>2. /\ ~session.mode /\ ~session.active /\ ~session.preparing /\ ~session.busy /\ ~session.opened
      /\ session.done = {} /\ session.allowed = Limit
  BY DEF Init
<1>3. recorder.phase = "next" /\ recorder.frame = 0 /\ ~recorder.again
  BY DEF Init
<1>4. submit.phase = "idle" /\ other.phase = "idle" /\ resident.list = "none"
  BY DEF Init, NoExecute, NoList
<1>5. surface.frame = 0 /\ ~surface.uncertain
  BY PictureFields DEF Init
<1>6. ready = <<>> /\ queue = <<>> /\ DOMAIN ready = {} /\ DOMAIN queue = {}
  BY DEF Init
<1>7. /\ \A n \in 1 .. MaxFrame : used[n] = Raw(0)
      /\ \A l \in Lists : track[l].gen = 0
  BY DEF Init
<1>8. Order
  BY <1>2, <1>3, <1>4, <1>6, <1>7 DEF Order
<1>9. Calls
  BY <1>2, <1>3 DEF Calls
<1>10. OneFrame
  BY <1>3, <1>4, <1>6 DEF OneFrame, Alive
<1>11. Choice
  BY <1>2, <1>3, <1>4, <1>5, <1>6 DEF Choice, Chosen, Splitting, Current, Alive
<1>12. Readable
  BY <1>2, <1>4, <1>6 DEF Readable, Current, Chosen, Splitting
<1>13. Lined
  BY <1>4, <1>6 DEF Lined, Produced
<1>14. Surfaces
  BY <1>4, <1>5, <1>6 DEF Surfaces, Queued
<1>15. Counted
  BY <1>4, <1>6 DEF Counted, Before, Splitting
<1>16. Window
  <2>1. Completed(session) = 0
    BY <1>2, Bounds, DoneCounts DEF Completed
  <2> QED BY <1>2, <1>3, <1>4, <2>1, Bounds DEF Window, WindowBounds, Chosen, Splitting
<1>17. ConsumerFindsOwn
  BY <1>7 DEF ConsumerFindsOwn
<1> QED BY <1>1, <1>8, <1>9, <1>10, <1>11, <1>12, <1>13, <1>14, <1>15, <1>16, <1>17 DEF CaptureInv

(* A step that changes nothing keeps the invariant.                               *)
LEMMA StutterHolds ==
    ASSUME CaptureInv, UNCHANGED vars
    PROVE  CaptureInv'
<1>1. UNCHANGED <<mayFail, plan, session, track, resident, surface, recorder, ready, submit, other,
                  lock, queue, target, used>>
  BY DEF vars, scenario, hookVars, gpuVars
<1>2. TypeOK' /\ Order' /\ Calls' /\ OneFrame'
  BY <1>1 DEF CaptureInv, TypeOK, Order, Past, Calls, TheList, ListOf, OneFrame, Alive
<1>3. Choice'
  BY <1>1 DEF CaptureInv, Choice, Current, Alive, Candidate
<1>4. Readable'
  BY <1>1 DEF CaptureInv, Readable, Current, TheList, ListOf
<1>5. Lined' /\ Surfaces'
  BY <1>1 DEF CaptureInv, Lined, Follows, Surfaces, Queued
<1>6. Counted' /\ Window' /\ ConsumerFindsOwn'
  BY <1>1 DEF CaptureInv, Counted, Shown, Window, WindowBounds, Completed, ConsumerFindsOwn
<1> QED BY <1>2, <1>3, <1>4, <1>5, <1>6 DEF CaptureInv

LEMMA StepHolds == CaptureInv /\ [Next]_vars => CaptureInv'
<1> SUFFICES ASSUME CaptureInv, [Next]_vars PROVE CaptureInv'
  OBVIOUS
<1>1. CASE Next
  <2>1. TypeOK' /\ Order'
    BY <1>1, OrderHolds DEF CaptureInv
  <2>2. Calls' /\ OneFrame'
    BY <1>1, CallsHolds, OneFrameHolds DEF CaptureInv
  <2>3. Choice' /\ Window'
    BY <1>1, ChoiceHolds, WindowHolds DEF CaptureInv
  <2>4. Readable' /\ Lined'
    BY <1>1, ReadableHolds, LinedHolds DEF CaptureInv
  <2>5. Surfaces' /\ Counted' /\ ConsumerFindsOwn'
    BY <1>1, SurfacesHold, CountedHolds, OwnHolds DEF CaptureInv
  <2> QED BY <2>1, <2>2, <2>3, <2>4, <2>5 DEF CaptureInv
<1>2. CASE UNCHANGED vars
  BY <1>2, StutterHolds
<1> QED BY <1>1, <1>2

-----------------------------------------------------------------------------
(* The theorems.                                                                *)

(* CaptureInv holds in every reachable state of the session, for every number of  *)
(* lists, frames and counted frames, every plan and every scenario of failures.   *)
THEOREM Invariance == Spec => []CaptureInv
<1>1. Init => CaptureInv
  BY InitHolds
<1>2. CaptureInv /\ [Next]_vars => CaptureInv'
  BY StepHolds
<1> QED BY <1>1, <1>2, PTL DEF Spec

(* The flags, the tracked lists, the Surface, the threads and the queue keep their *)
(* types: the hooks never count a third upscale of a list or a frame past the last. *)
THEOREM TypeCorrect == Spec => []TypeOK
<1>1. CaptureInv => TypeOK
  BY DEF CaptureInv
<1> QED BY <1>1, Invariance, PTL

(* Retire and Prepare never delete or replace a Surface that a reader or a writer  *)
(* on the queue may still touch: whoever gave up waiting, it is retained.          *)
THEOREM Outlives == Spec => []SurfaceOutlivesWork
<1>1. CaptureInv => SurfaceOutlivesWork
  BY DEF CaptureInv, Surfaces, SurfaceOutlivesWork
<1> QED BY <1>1, Invariance, PTL

(* The consumer of a frame finds that frame in the texture, processed when the     *)
(* frame was counted complete: prefix, reader, writer and suffix stay in order on   *)
(* the queue whatever the hooks and the commands of other threads do in between.    *)
THEOREM OwnFrame == Spec => []ConsumerFindsOwn
<1>1. CaptureInv => ConsumerFindsOwn
  BY DEF CaptureInv
<1> QED BY <1>1, Invariance, PTL

(* The reader and the writer of a chosen list execute on a readable texture where   *)
(* only the legacy barriers move it: a list that moves it on, or is recorded again, *)
(* ends the session before its Execute could split it.                              *)
THEOREM FindsReadable == Spec => []ReaderFindsReadable
<1>1. CaptureInv => ReaderFindsReadable
  <2> SUFFICES ASSUME CaptureInv, "enhanced" \notin mayFail, queue # <<>>,
                      Head(queue).op \in {"read", "write"}
               PROVE  target.readable
    BY DEF ReaderFindsReadable
  <2>1. 1 \in DOMAIN queue /\ Head(queue) = queue[1]
    BY TypesNamed, TailIs DEF CaptureInv
  <2>2. queue[1].readable
    BY <2>1 DEF CaptureInv, Readable
  <2>3. target.readable = queue[1].readable
    BY <2>1 DEF CaptureInv, Lined, Follows
  <2> QED BY <2>2, <2>3
<1> QED BY <1>1, Invariance, PTL

(* However the session ends, no more frames complete than were allowed then: those  *)
(* counted and the one in flight, and at most the limit.                            *)
THEOREM Bounded == Spec => []WindowBounds
<1>1. CaptureInv => WindowBounds
  BY DEF CaptureInv, Window
<1> QED BY <1>1, Invariance, PTL
=============================================================================
