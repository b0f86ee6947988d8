---------------------- MODULE DocumentIndexing_proofs ----------------------
(* Theorems about DocumentIndexing, for every value of its constants.       *)
EXTENDS DocumentIndexing, SequenceTheorems, TLAPS

LEMMA InitTypeOK == Init => TypeOK
  BY BoundsAssumption
     DEF Init, TypeOK, Status, SegmentStatus, WorkerState, WorkerPC, NoWork,
         ClientState, ClientPC, NoRequest

LEMMA RequestTypeOK ==
    ASSUME TypeOK, NEW c \in Clients, NEW d \in Documents,
           StartRequest(c, d) \/ ContinueRequest(c, d)
    PROVE  TypeOK'
  <1> USE DEF TypeOK, Accept, Step, Request, NoRequest, ClientState, ClientPC,
              sharedVars, rowVars, historyVars
  <1>1. CASE PauseRequest(c, d)
    BY <1>1, BoundsAssumption DEF PauseRequest
  <1>2. CASE RecoverRequest(c, d)
    BY <1>2, BoundsAssumption DEF RecoverRequest
  <1>3. CASE DeleteRequest(c, d)
    BY <1>3, BoundsAssumption DEF DeleteRequest, Task
  <1>4. CASE UpdateRequest(c, d)
    BY <1>4, BoundsAssumption DEF UpdateRequest
  <1>5. CASE PauseCommit(c, d)
    BY <1>5 DEF PauseCommit
  <1>6. CASE PauseSetFlag(c, d)
    BY <1>6 DEF PauseSetFlag
  <1>7. CASE RecoverCommit(c, d)
    BY <1>7 DEF RecoverCommit
  <1>8. CASE RecoverClearFlag(c, d)
    BY <1>8 DEF RecoverClearFlag
  <1>9. CASE RecoverEnqueue(c, d)
    BY <1>9 DEF RecoverEnqueue, Task
  <1>10. CASE DeleteCommit(c, d)
    BY <1>10 DEF DeleteCommit, Status
  <1>11. CASE UpdateCommit(c, d)
    BY <1>11 DEF UpdateCommit, Status
  <1>12. CASE UpdateMark(c, d)
    BY <1>12 DEF UpdateMark, SegmentsSet, SegmentStatus
  <1>13. CASE UpdateEnqueue(c, d)
    BY <1>13 DEF UpdateEnqueue, Task
  <1>14. CASE RequestFails(c, d)
    BY <1>14 DEF RequestFails
  <1>15. QED
    BY <1>1, <1>2, <1>3, <1>4, <1>5, <1>6, <1>7, <1>8, <1>9, <1>10, <1>11,
       <1>12, <1>13, <1>14 DEF StartRequest, ContinueRequest

LEMMA TakeTaskTypeOK ==
    ASSUME TypeOK, NEW w \in Workers, TakeTask(w)
    PROVE  TypeOK'
  <1> USE DEF TypeOK, Take, NoWork, WorkerState, WorkerPC, Status
  <1>0. queue # <<>> => Tail(queue) \in Seq(Task) /\ Head(queue) \in Task
    OBVIOUS
  <1>1. CASE TakeIndex(w)
    <2> DEFINE ds == {d \in Head(queue).docs : Exists(d)}
    <2>1. ds \in SUBSET Documents
      BY <1>0, <1>1 DEF TakeIndex, Task
    <2>2. [NoWork EXCEPT !.pc = "next", !.batch = ds] \in WorkerState
      BY <2>1
    <2>3. worker' \in [Workers -> WorkerState]
      BY <1>1, <2>2 DEF TakeIndex
    <2>4. disturbed' \in SUBSET Documents
      BY <1>1, <2>1 DEF TakeIndex
    <2>5. status' \in [Documents -> Status]
      BY <1>1 DEF TakeIndex
    <2>6. Take(w, "index")
      BY <1>1 DEF TakeIndex
    <2> HIDE DEF ds, NoWork, WorkerState, WorkerPC, Status
    <2>7. QED
      BY <1>0, <2>3, <2>4, <2>5, <2>6
  <1>2. ASSUME NEW d \in Documents, TakeRecover(w, d)
        PROVE  TypeOK'
    <2>1. Take(w, "recover") /\ status' = status /\ disturbed' \in SUBSET Documents
      BY <1>2 DEF TakeRecover
    <2>2. /\ [NoWork EXCEPT !.pc = "next", !.batch = {d}] \in WorkerState
          /\ [NoWork EXCEPT !.pc = "purge", !.doc = d] \in WorkerState
          /\ [NoWork EXCEPT !.pc = "collect", !.doc = d] \in WorkerState
      OBVIOUS
    <2>3. worker' \in [Workers -> WorkerState]
      <3> HIDE DEF NoWork, WorkerState
      <3>1. QED
        BY <1>2, <2>2 DEF TakeRecover
    <2> HIDE DEF NoWork, WorkerState, WorkerPC, Status
    <2>4. QED
      BY <1>0, <2>1, <2>3
  <1>3. ASSUME NEW d \in Documents, TakeUpdate(w, d)
        PROVE  TypeOK'
    BY <1>0, <1>3 DEF TakeUpdate
  <1>4. ASSUME NEW d \in Documents, TakeClean(w, d)
        PROVE  TypeOK'
    BY <1>0, <1>4 DEF TakeClean
  <1>5. ASSUME NEW d \in Documents, TakeNothing(w, d)
        PROVE  TypeOK'
    BY <1>0, <1>5 DEF TakeNothing
  <1>6. QED
    BY <1>1, <1>2, <1>3, <1>4, <1>5 DEF TakeTask

(* What a worker step leaves to be shown of TypeOK'. *)
RestTypeOK ==
    /\ status \in [Documents -> Status]
    /\ segment \in [Segment -> SegmentStatus]
    /\ enabled \in SUBSET Segment
    /\ index \in SUBSET Segment
    /\ splits \in [Documents -> 0..MaxSplits]
    /\ crashes \in 0..MaxCrashes
    /\ disturbed \in SUBSET Documents

LEMMA WorkerSetType ==
    ASSUME TypeOK, NEW w \in Workers, NEW state \in WorkerState,
           WorkerSet(w, state), RestTypeOK'
    PROVE  TypeOK'
  BY DEF TypeOK, RestTypeOK, WorkerSet

LEMMA WorkerStates ==
    ASSUME TypeOK, NEW w \in Workers
    PROVE  /\ NoWork \in WorkerState
           /\ EndDocument(w) \in WorkerState
           /\ \A pc \in WorkerPC : [worker[w] EXCEPT !.pc = pc] \in WorkerState
           /\ \A d \in Documents : [NoWork EXCEPT !.pc = "next", !.batch = {d}] \in WorkerState
  <1>1. worker[w] \in WorkerState
    BY DEF TypeOK
  <1>2. NoWork \in WorkerState
    BY DEF NoWork, WorkerState, WorkerPC
  <1>3. EndDocument(w) \in WorkerState
    BY <1>1 DEF EndDocument, WorkerState, WorkerPC
  <1>4. \A pc \in WorkerPC : [worker[w] EXCEPT !.pc = pc] \in WorkerState
    BY <1>1 DEF WorkerState
  <1>5. \A d \in Documents : [NoWork EXCEPT !.pc = "next", !.batch = {d}] \in WorkerState
    BY DEF NoWork, WorkerState, WorkerPC
  <1>6. QED
    BY <1>2, <1>3, <1>4, <1>5

LEMMA GoToType ==
    ASSUME TypeOK, NEW w \in Workers, NEW pc \in WorkerPC, GoTo(w, pc), RestTypeOK'
    PROVE  TypeOK'
  BY WorkerStates, WorkerSetType DEF GoTo

LEMMA ReleaseType ==
    ASSUME TypeOK, NEW w \in Workers, Release(w)
    PROVE  TypeOK'
  <1>1. RestTypeOK'
    BY DEF TypeOK, RestTypeOK, Release
  <1>2. QED
    BY <1>1, WorkerStates, WorkerSetType DEF Release

LEMMA RunDocumentTypeOK ==
    ASSUME TypeOK, NEW w \in Workers, NEW d \in Documents, RunDocument(w, d)
    PROVE  TypeOK'
  <1>0. worker[w] \in WorkerState
    BY DEF TypeOK
  <1>1. CASE NextDocument(w, d)
    <2>1. RestTypeOK'
      BY <1>1 DEF NextDocument, TypeOK, RestTypeOK
    <2> DEFINE after == [worker[w] EXCEPT !.pc = "load", !.doc = d, !.batch = @ \ {d}]
    <2>2. after \in WorkerState
      BY <1>1, <1>0 DEF NextDocument, WorkerState, WorkerPC
    <2>3. WorkerSet(w, after)
      BY <1>1 DEF NextDocument
    <2>4. QED
      BY <2>1, <2>2, <2>3, WorkerSetType
  <1>2. CASE Load(w, d)
    <2>1. RestTypeOK'
      BY <1>2 DEF Load, TypeOK, RestTypeOK
    <2>2. GoTo(w, "set_splitting")
      BY <1>2 DEF Load
    <2>3. QED
      BY <2>1, <2>2, GoToType DEF WorkerPC
  <1>3. CASE SetSplitting(w, d)
    <2>1. RestTypeOK'
      BY <1>3 DEF SetSplitting, TypeOK, RestTypeOK, WriteStatus, Status
    <2>2. GoTo(w, "split")
      BY <1>3 DEF SetSplitting
    <2>3. QED
      BY <2>1, <2>2, GoToType DEF WorkerPC
  <1>4. CASE Split(w, d)
    <2>1. RestTypeOK'
      BY <1>4, BoundsAssumption DEF Split, TypeOK, RestTypeOK
    <2> DEFINE fresh == [doc : {d}, split : {splits[d] + 1}, piece : Pieces]
               after == [worker[w] EXCEPT !.pc = "save", !.todo = fresh, !.part = fresh]
    <2>2. fresh \subseteq Segment
      BY <1>4, BoundsAssumption DEF Split, Segment, TypeOK
    <2>3. after \in WorkerState
      BY <1>0, <2>2 DEF WorkerState, WorkerPC
    <2>4. WorkerSet(w, after)
      BY <1>4 DEF Split
    <2>5. QED
      BY <2>1, <2>3, <2>4, WorkerSetType
  <1>5. CASE EndSplit(w, d)
    <2>1. RestTypeOK'
      BY <1>5 DEF EndSplit, TypeOK, RestTypeOK
    <2>2. GoTo(w, "set_indexing")
      BY <1>5 DEF EndSplit
    <2>3. QED
      BY <2>1, <2>2, GoToType DEF WorkerPC
  <1>6. CASE SetIndexing(w, d)
    <2>1. RestTypeOK'
      BY <1>6 DEF SetIndexing, TypeOK, RestTypeOK, WriteStatus, Status
    <2>2. GoTo(w, "mark")
      BY <1>6 DEF SetIndexing
    <2>3. QED
      BY <2>1, <2>2, GoToType DEF WorkerPC
  <1>7. CASE MarkSegments(w, d)
    <2>1. RestTypeOK'
      BY <1>7 DEF MarkSegments, TypeOK, RestTypeOK, SegmentsSet, SegmentStatus
    <2>2. GoTo(w, "chunk")
      BY <1>7 DEF MarkSegments
    <2>3. QED
      BY <2>1, <2>2, GoToType DEF WorkerPC
  <1>8. CASE BeginChunk(w, d)
    <2>1. RestTypeOK'
      BY <1>8 DEF BeginChunk, TypeOK, RestTypeOK
    <2>2. PICK C \in Chunks(worker[w].todo) :
              WorkerSet(w, [worker[w] EXCEPT !.pc = "embed", !.part = C])
      BY <1>8 DEF BeginChunk
    <2>3. C \subseteq Segment
      BY <1>0, <2>2 DEF Chunks, WorkerState
    <2>4. [worker[w] EXCEPT !.pc = "embed", !.part = C] \in WorkerState
      BY <1>0, <2>3 DEF WorkerState, WorkerPC
    <2>5. QED
      BY <2>1, <2>2, <2>4, WorkerSetType
  <1>9. CASE FinishChunk(w, d)
    <2>1. RestTypeOK'
      BY <1>9, <1>0
         DEF FinishChunk, TypeOK, RestTypeOK, SegmentsSet, SegmentStatus, WorkerState
    <2> DEFINE after == [worker[w] EXCEPT !.pc = "chunk", !.todo = @ \ worker[w].part, !.part = {}]
    <2>2. after \in WorkerState
      BY <1>9, <1>0 DEF FinishChunk, WorkerState, WorkerPC
    <2>3. WorkerSet(w, after)
      BY <1>9 DEF FinishChunk
    <2>4. QED
      BY <2>1, <2>2, <2>3, WorkerSetType
  <1>10. CASE EndBuild(w, d)
    <2>1. RestTypeOK'
      BY <1>10 DEF EndBuild, TypeOK, RestTypeOK
    <2>2. GoTo(w, "set_completed")
      BY <1>10 DEF EndBuild
    <2>3. QED
      BY <2>1, <2>2, GoToType DEF WorkerPC
  <1>11. CASE SetCompleted(w, d)
    <2>1. RestTypeOK'
      BY <1>11 DEF SetCompleted, TypeOK, RestTypeOK, WriteStatus, Status
    <2>2. WorkerSet(w, EndDocument(w))
      BY <1>11 DEF SetCompleted
    <2>3. QED
      BY <2>1, <2>2, WorkerStates, WorkerSetType
  <1>12. CASE StopPaused(w, d)
    BY <1>12, ReleaseType DEF StopPaused
  <1>13. CASE StopDeleted(w, d)
    BY <1>13, ReleaseType DEF StopDeleted
  <1>14. CASE Fail(w, d)
    <2>1. RestTypeOK'
      BY <1>14, <1>0 DEF Fail, TypeOK, RestTypeOK, WriteStatus, Status, WorkerState
    <2>2. WorkerSet(w, IF Exists(d) THEN EndDocument(w) ELSE NoWork)
      BY <1>14 DEF Fail
    <2>3. QED
      BY <2>1, <2>2, WorkerStates, WorkerSetType
  <1>15. CASE PurgeSegments(w, d)
    <2>1. RestTypeOK'
      BY <1>15 DEF PurgeSegments, TypeOK, RestTypeOK, SegmentsSet, SegmentStatus
    <2>2. GoTo(w, "load")
      BY <1>15 DEF PurgeSegments
    <2>3. QED
      BY <2>1, <2>2, GoToType DEF WorkerPC
  <1>16. CASE CollectSegments(w, d)
    <2>1. RestTypeOK'
      BY <1>16 DEF CollectSegments, TypeOK, RestTypeOK
    <2> DEFINE after == [worker[w] EXCEPT !.pc = "chunk", !.todo = {s \in Rows(d) : segment[s] # "completed"}]
    <2>2. after \in WorkerState
      BY <1>16, <1>0 DEF CollectSegments, WorkerState, WorkerPC, Rows
    <2>3. WorkerSet(w, after)
      BY <1>16 DEF CollectSegments
    <2>4. QED
      BY <2>1, <2>2, <2>3, WorkerSetType
  <1>17. CASE DropIndex(w, d)
    <2>1. RestTypeOK'
      BY <1>17 DEF DropIndex, TypeOK, RestTypeOK
    <2>2. PICK pc \in {"update_rows", "clean_rows"} :
              WorkerSet(w, [worker[w] EXCEPT !.pc = pc, !.part = Rows(d)])
      BY <1>17 DEF DropIndex
    <2>3. [worker[w] EXCEPT !.pc = pc, !.part = Rows(d)] \in WorkerState
      BY <1>0 DEF WorkerState, WorkerPC, Rows
    <2>4. QED
      BY <2>1, <2>2, <2>3, WorkerSetType
  <1>18. CASE DropRows(w, d)
    <2>1. RestTypeOK'
      BY <1>18 DEF DropRows, TypeOK, RestTypeOK, SegmentsSet, SegmentStatus
    <2>2. \/ WorkerSet(w, [NoWork EXCEPT !.pc = "next", !.batch = {d}])
          \/ WorkerSet(w, NoWork)
      BY <1>18 DEF DropRows
    <2>3. QED
      BY <2>1, <2>2, WorkerStates, WorkerSetType
  <1>19. CASE NothingToClean(w, d)
    BY <1>19, ReleaseType DEF NothingToClean
  <1>20. CASE CleanUpFails(w, d)
    <2>1. RestTypeOK'
      BY <1>20 DEF CleanUpFails, TypeOK, RestTypeOK
    <2>2. \/ WorkerSet(w, [NoWork EXCEPT !.pc = "next", !.batch = {d}])
          \/ WorkerSet(w, NoWork)
      BY <1>20 DEF CleanUpFails
    <2>3. QED
      BY <2>1, <2>2, WorkerStates, WorkerSetType
  <1>21. QED
    BY <1>1, <1>2, <1>3, <1>4, <1>5, <1>6, <1>7, <1>8, <1>9, <1>10, <1>11, <1>12, <1>13, <1>14, <1>15, <1>16, <1>17, <1>18, <1>19, <1>20
       DEF RunDocument

LEMMA RunTaskTypeOK ==
    ASSUME TypeOK, NEW w \in Workers, RunTask(w)
    PROVE  TypeOK'
  <1>0. worker[w] \in WorkerState
    BY DEF TypeOK
  <1>1. CASE EndTask(w)
    BY <1>1, ReleaseType DEF EndTask
  <1>2. CASE AddTexts(w)
    <2>1. RestTypeOK'
      BY <1>0, <1>2 DEF AddTexts, TypeOK, RestTypeOK, WorkerState
    <2>2. QED
      BY <1>2, <2>1, GoToType DEF AddTexts, WorkerPC
  <1>3. ASSUME NEW s \in Segment, SaveSegment(w, s)
        PROVE  TypeOK'
    <2>1. RestTypeOK'
      BY <1>3 DEF SaveSegment, TypeOK, RestTypeOK, SegmentsSet, SegmentStatus
    <2>2. PICK state \in WorkerState : WorkerSet(w, state)
      BY <1>0, <1>3 DEF SaveSegment, WorkerState
    <2>3. QED
      BY <2>1, <2>2, WorkerSetType
  <1>4. QED
    BY <1>1, <1>2, <1>3, RunDocumentTypeOK DEF RunTask

LEMMA NextTypeOK == TypeOK /\ [Next]_vars => TypeOK'
  <1> SUFFICES ASSUME TypeOK, [Next]_vars
               PROVE  TypeOK'
    OBVIOUS
  <1>1. ASSUME NEW c \in Clients, NEW ds \in SUBSET Documents, UploadCommit(c, ds)
        PROVE  TypeOK'
    BY <1>1 DEF UploadCommit, TypeOK, Status, ClientState, ClientPC, historyVars
  <1>2. ASSUME NEW c \in Clients, UploadEnqueue(c)
        PROVE  TypeOK'
    BY <1>2 DEF UploadEnqueue, TypeOK, Task, ClientState, ClientPC, NoRequest,
                sharedVars, historyVars
  <1>3. ASSUME NEW w \in Workers, Crash(w)
        PROVE  TypeOK'
    BY <1>3, BoundsAssumption
       DEF Crash, TypeOK, WorkerSet, NoWork, WorkerState, WorkerPC, At
  <1>4. CASE UNCHANGED vars
    BY <1>4 DEF vars, TypeOK
  <1>5. QED
    BY <1>1, <1>2, <1>3, <1>4, RequestTypeOK, TakeTaskTypeOK, RunTaskTypeOK DEF Next

(* Every variable keeps its type in every reachable state. *)
THEOREM TypeCorrect == Spec => []TypeOK
  BY InitTypeOK, NextTypeOK, PTL DEF Spec
-----------------------------------------------------------------------------
(* CompletedRowIsIndexed.  Alone it is not inductive: that FinishChunk marks *)
(* only indexed rows takes what AddTexts did before it (FinishIndexed), that *)
(* no other worker has dropped the entries since (OneWorkerPerDocument), and *)
(* that a worker only handles rows of the document it has at hand (Owns).    *)

Dropping == {"update_rows", "clean_rows"}

Owns(state) ==
    /\ \A s \in state.todo \cup state.part : s.doc = state.doc
    /\ state.pc = "next" => state.todo = {} /\ state.part = {}

WorkersOwn == \A w \in Workers : Owns(worker[w])

OneWorkerPerDocument ==
    \A v, w \in Workers, d \in Documents :
      v # w /\ Holds(v, d) /\ Holds(w, d) => d \in disturbed

FinishIndexed ==
    \A w \in Workers :
      worker[w].pc = "finish" /\ worker[w].doc \notin disturbed =>
        worker[w].part \subseteq index

IndexInv ==
    /\ TypeOK
    /\ WorkersOwn
    /\ OneWorkerPerDocument
    /\ FinishIndexed
    /\ CompletedRowIsIndexed

(* A request, like any step that moves no worker, marks no row completed and *)
(* takes nothing out of the index.                                           *)
LEMMA QuietStep ==
    ASSUME IndexInv, TypeOK', UNCHANGED worker,
           index \subseteq index', disturbed \subseteq disturbed',
           \A s \in Segment : segment'[s] = "completed" => segment[s] = "completed"
    PROVE  IndexInv'
  <1>1. WorkersOwn' /\ OneWorkerPerDocument'
    BY DEF IndexInv, WorkersOwn, OneWorkerPerDocument, Holds
  <1>2. FinishIndexed'
    BY DEF IndexInv, FinishIndexed
  <1>3. CompletedRowIsIndexed'
    BY DEF IndexInv, CompletedRowIsIndexed
  <1>4. QED
    BY <1>1, <1>2, <1>3 DEF IndexInv

(* What the step of a worker that drops no entry has to respect.  *)
LEMMA WorkerStep ==
    ASSUME IndexInv, TypeOK', NEW w \in Workers, NEW state \in WorkerState,
           worker' = [worker EXCEPT ![w] = state], Owns(state),
           index \subseteq index', disturbed \subseteq disturbed',
           \A d \in Documents : state.doc = d \/ d \in state.batch =>
             Holds(w, d) \/ \A v \in Workers \ {w} : Holds(v, d) => d \in disturbed',
           state.pc = "finish" => state.part \subseteq index',
           \A s \in Segment : segment'[s] = "completed" /\ s.doc \notin disturbed' =>
             \/ s \in index'
             \/ /\ segment[s] = "completed"
                /\ worker[w].pc \in Dropping => s \notin worker[w].part
    PROVE  IndexInv'
  <1>0. /\ \A v \in Workers : worker[v] \in WorkerState
        /\ worker'[w] = state
        /\ \A v \in Workers : v # w => worker'[v] = worker[v]
    BY DEF IndexInv, TypeOK
  <1>1. WorkersOwn'
    BY <1>0 DEF IndexInv, WorkersOwn
  <1>2. OneWorkerPerDocument'
    <2> SUFFICES ASSUME NEW u \in Workers, NEW v \in Workers, NEW d \in Documents,
                        u # v, Holds(u, d)', Holds(v, d)'
                 PROVE  d \in disturbed'
      BY DEF OneWorkerPerDocument
    <2>1. \A x, y \in Workers : x # y /\ Holds(x, d) /\ Holds(y, d) => d \in disturbed'
      BY DEF IndexInv, OneWorkerPerDocument
    <2>2. \A x \in Workers : x # w /\ Holds(x, d)' => Holds(x, d)
      BY <1>0 DEF Holds
    <2>3. Holds(w, d)' => Holds(w, d) \/ \A x \in Workers \ {w} : Holds(x, d) => d \in disturbed'
      BY <1>0 DEF Holds
    <2>4. QED
      BY <2>1, <2>2, <2>3
  <1>3. FinishIndexed'
    BY <1>0 DEF IndexInv, FinishIndexed
  <1>4. CompletedRowIsIndexed'
    <2> SUFFICES ASSUME NEW s \in Segment, segment'[s] = "completed", s.doc \notin disturbed',
                        s \notin index'
                 PROVE  \E v \in Workers : /\ worker'[v].pc \in {"update_rows", "clean_rows"}
                                           /\ s \in worker'[v].part
      BY DEF CompletedRowIsIndexed
    <2>1. segment[s] = "completed" /\ s.doc \notin disturbed /\ s \notin index
      OBVIOUS
    <2>2. PICK v \in Workers : worker[v].pc \in Dropping /\ s \in worker[v].part
      BY <2>1 DEF IndexInv, CompletedRowIsIndexed, Dropping
    <2>3. v # w
      BY <2>2
    <2>4. QED
      BY <1>0, <2>2, <2>3 DEF Dropping
  <1>5. QED
    BY <1>1, <1>2, <1>3, <1>4 DEF IndexInv

(* The same for a step that marks no row completed, finishes no chunk, and   *)
(* goes on with documents that the worker holds already.                     *)
LEMMA PlainStep ==
    ASSUME IndexInv, TypeOK', NEW w \in Workers, NEW state \in WorkerState,
           WorkerSet(w, state), Owns(state), state.pc # "finish",
           \A d \in Documents : state.doc = d \/ d \in state.batch => Holds(w, d),
           index \subseteq index', disturbed \subseteq disturbed',
           \A s \in Segment : segment'[s] = "completed" => segment[s] = "completed",
           worker[w].pc \notin Dropping
    PROVE  IndexInv'
  BY WorkerStep DEF WorkerSet

LEMMA GoToStep ==
    ASSUME IndexInv, TypeOK', NEW w \in Workers, NEW pc \in WorkerPC \ {"next", "finish"},
           GoTo(w, pc), UNCHANGED <<index, disturbed>>,
           \A s \in Segment : segment'[s] = "completed" => segment[s] = "completed",
           worker[w].pc \notin Dropping
    PROVE  IndexInv'
  <1> DEFINE after == [worker[w] EXCEPT !.pc = pc]
  <1>0. worker[w] \in WorkerState /\ Owns(worker[w])
    BY DEF IndexInv, TypeOK, WorkersOwn
  <1>1. after \in WorkerState
    BY <1>0 DEF WorkerState
  <1>2. Owns(after) /\ after.pc # "finish"
    BY <1>0 DEF Owns, WorkerState
  <1>3. \A d \in Documents : after.doc = d \/ d \in after.batch => Holds(w, d)
    BY <1>0 DEF Holds, WorkerState
  <1>4. WorkerSet(w, after)
    BY DEF GoTo
  <1> HIDE DEF after
  <1>5. QED
    BY <1>1, <1>2, <1>3, <1>4, PlainStep

LEMMA ReleaseStep ==
    ASSUME IndexInv, TypeOK', NEW w \in Workers, Release(w), worker[w].pc \notin Dropping
    PROVE  IndexInv'
  <1>1. NoWork \in WorkerState
    BY WorkerStates DEF IndexInv
  <1>2. Owns(NoWork) /\ NoWork.pc # "finish"
    BY DEF Owns, NoWork
  <1>3. \A d \in Documents : ~(NoWork.doc = d \/ d \in NoWork.batch)
    BY NoDocumentAssumption DEF NoWork
  <1>4. QED
    BY <1>1, <1>2, <1>3, PlainStep DEF Release

LEMMA EndDocumentOwns ==
    ASSUME NEW w \in Workers, worker[w] \in WorkerState, Owns(worker[w])
    PROVE  /\ Owns(EndDocument(w)) /\ EndDocument(w).pc # "finish"
           /\ Owns(NoWork) /\ NoWork.pc # "finish"
           /\ \A d \in Documents : EndDocument(w).doc = d \/ d \in EndDocument(w).batch => Holds(w, d)
           /\ \A d \in Documents : ~(NoWork.doc = d \/ d \in NoWork.batch)
  BY NoDocumentAssumption DEF EndDocument, NoWork, Owns, Holds, WorkerState

(* Entries leave the index only here, and the rows they belong to are those  *)
(* the worker is about to drop.                                              *)
LEMMA DropIndexIndexInv ==
    ASSUME IndexInv, TypeOK', NEW w \in Workers, NEW d \in Documents, DropIndex(w, d)
    PROVE  IndexInv'
  <1>0. /\ \A v \in Workers : worker[v] \in WorkerState /\ Owns(worker[v])
        /\ worker[w].doc = d /\ UNCHANGED <<segment, disturbed>>
    BY DEF IndexInv, TypeOK, WorkersOwn, DropIndex
  <1>1. PICK pc \in Dropping :
            worker' = [worker EXCEPT ![w] = [@ EXCEPT !.pc = pc, !.part = Rows(d)]]
    BY DEF DropIndex, Dropping, WorkerSet
  <1>2. /\ worker'[w].pc = pc /\ worker'[w].part = Rows(d)
        /\ worker'[w].doc = d /\ worker'[w].todo = worker[w].todo
        /\ worker'[w].batch = worker[w].batch
        /\ \A v \in Workers : v # w => worker'[v] = worker[v]
    BY <1>0, <1>1 DEF IndexInv, TypeOK, WorkerState
  <1>3. worker[w].pc \notin Dropping
    BY DEF DropIndex, At, Dropping
  <1>4. \A s \in Segment : s \in index /\ s \notin index' => s.doc = d
    BY DEF DropIndex, Rows
  <1>5. WorkersOwn'
    BY <1>0, <1>2 DEF WorkersOwn, Owns, Rows, Dropping
  <1>6. OneWorkerPerDocument'
    BY <1>0, <1>2 DEF IndexInv, OneWorkerPerDocument, Holds
  <1>7. FinishIndexed'
    <2> SUFFICES ASSUME NEW v \in Workers, worker'[v].pc = "finish",
                        worker'[v].doc \notin disturbed, NEW s \in worker'[v].part
                 PROVE  s \in index'
      BY <1>0 DEF FinishIndexed
    <2>1. v # w /\ worker'[v] = worker[v]
      BY <1>2 DEF Dropping
    <2>2. s \in Segment /\ s.doc = worker[v].doc /\ s \in index
      BY <1>0, <2>1 DEF IndexInv, FinishIndexed, Owns, WorkerState
    <2>3. s.doc # d
      BY <1>0, <2>1, <2>2 DEF IndexInv, OneWorkerPerDocument, Holds
    <2>4. QED
      BY <1>4, <2>2, <2>3
  <1>8. CompletedRowIsIndexed'
    <2> SUFFICES ASSUME NEW s \in Segment, segment[s] = "completed", s.doc \notin disturbed,
                        s \notin index'
                 PROVE  \E v \in Workers : /\ worker'[v].pc \in {"update_rows", "clean_rows"}
                                           /\ s \in worker'[v].part
      BY <1>0 DEF CompletedRowIsIndexed
    <2>1. CASE s \in index
      BY <1>2, <1>4, <2>1 DEF Rows, Dropping
    <2>2. CASE s \notin index
      BY <1>2, <1>3, <2>2 DEF IndexInv, CompletedRowIsIndexed, Dropping
    <2>3. QED
      BY <2>1, <2>2
  <1>9. QED
    BY <1>5, <1>6, <1>7, <1>8 DEF IndexInv

(* The two ways on from a clean-up: index the document again, or be done.    *)
LEMMA AfterCleanUp ==
    ASSUME NEW w \in Workers, NEW d \in Documents, worker[w].doc = d,
           NEW state \in {NoWork, [NoWork EXCEPT !.pc = "next", !.batch = {d}]}
    PROVE  /\ Owns(state) /\ state.pc # "finish"
           /\ \A e \in Documents : state.doc = e \/ e \in state.batch => Holds(w, e)
  <1>1. CASE state = NoWork
    BY <1>1, NoDocumentAssumption DEF NoWork, Owns
  <1>2. CASE state = [NoWork EXCEPT !.pc = "next", !.batch = {d}]
    <2>1. /\ state.pc = "next" /\ state.doc = NoDocument /\ state.batch = {d}
          /\ state.todo = {} /\ state.part = {}
      BY <1>2 DEF NoWork
    <2>2. QED
      BY <2>1, NoDocumentAssumption DEF Owns, Holds
  <1>3. QED
    BY <1>1, <1>2

LEMMA DropRowsIndexInv ==
    ASSUME IndexInv, TypeOK', NEW w \in Workers, NEW d \in Documents, DropRows(w, d)
    PROVE  IndexInv'
  <1>1. PICK state \in {NoWork, [NoWork EXCEPT !.pc = "next", !.batch = {d}]} :
            worker' = [worker EXCEPT ![w] = state]
    BY DEF DropRows, WorkerSet
  <1>2. state \in WorkerState
    BY WorkerStates DEF IndexInv
  <1>3. \A s \in Segment : segment'[s] = "completed" =>
           segment[s] = "completed" /\ s \notin worker[w].part
    BY DEF DropRows, SegmentsSet
  <1>4. worker[w].doc = d /\ UNCHANGED <<index, disturbed>>
    BY DEF DropRows
  <1>5. /\ Owns(state) /\ state.pc # "finish"
        /\ \A e \in Documents : state.doc = e \/ e \in state.batch => Holds(w, e)
    BY <1>4, AfterCleanUp
  <1>6. QED
    BY <1>1, <1>2, <1>3, <1>4, <1>5, WorkerStep

LEMMA CleanUpFailsIndexInv ==
    ASSUME IndexInv, TypeOK', NEW w \in Workers, NEW d \in Documents, CleanUpFails(w, d)
    PROVE  IndexInv'
  <1>1. PICK state \in {NoWork, [NoWork EXCEPT !.pc = "next", !.batch = {d}]} :
            worker' = [worker EXCEPT ![w] = state]
    BY DEF CleanUpFails, WorkerSet
  <1>2. state \in WorkerState
    BY WorkerStates DEF IndexInv
  <1>3. worker[w].doc = d /\ d \in disturbed' /\ UNCHANGED <<index, segment>>
        /\ disturbed \subseteq disturbed'
    BY DEF CleanUpFails
  <1>4. \A s \in worker[w].part : s.doc \in disturbed'
    BY <1>3 DEF IndexInv, WorkersOwn, Owns
  <1>5. \A s \in Segment : segment'[s] = "completed" /\ s.doc \notin disturbed' =>
           segment[s] = "completed" /\ s \notin worker[w].part
    BY <1>3, <1>4
  <1>6. /\ Owns(state) /\ state.pc # "finish"
        /\ \A e \in Documents : state.doc = e \/ e \in state.batch => Holds(w, e)
    BY <1>3, AfterCleanUp
  <1>7. QED
    BY <1>1, <1>2, <1>3, <1>5, <1>6, WorkerStep

LEMMA RunDocumentIndexInv ==
    ASSUME IndexInv, TypeOK', NEW w \in Workers, NEW d \in Documents, RunDocument(w, d)
    PROVE  IndexInv'
  <1>0. /\ worker[w] \in WorkerState
        /\ Owns(worker[w])
        /\ segment \in [Segment -> SegmentStatus]
        /\ d # NoDocument
    BY NoDocumentAssumption DEF IndexInv, TypeOK, WorkersOwn
  <1>1. CASE NextDocument(w, d)
    <2> DEFINE after == [worker[w] EXCEPT !.pc = "load", !.doc = d, !.batch = @ \ {d}]
    <2>1. after \in WorkerState
      BY <1>1, <1>0 DEF NextDocument, WorkerState, WorkerPC
    <2>2. Owns(after) /\ after.pc # "finish"
      BY <1>1, <1>0 DEF NextDocument, At, Owns, WorkerState
    <2>3. \A e \in Documents : after.doc = e \/ e \in after.batch => Holds(w, e)
      BY <1>1, <1>0 DEF NextDocument, At, Holds, WorkerState
    <2>4. WorkerSet(w, after) /\ UNCHANGED <<index, disturbed, segment>> /\ worker[w].pc \notin Dropping
      BY <1>1 DEF NextDocument, At, Dropping
    <2> HIDE DEF after
    <2>5. QED
      BY <2>1, <2>2, <2>3, <2>4, PlainStep
  <1>2. CASE Load(w, d)
    <2>1. GoTo(w, "set_splitting") /\ UNCHANGED <<index, disturbed>> /\ worker[w].pc \notin Dropping
      BY <1>2 DEF Load, At, Dropping
    <2>2. \A s \in Segment : segment'[s] = "completed" => segment[s] = "completed"
      BY <1>2, <1>0 DEF Load
    <2>3. QED
      BY <2>1, <2>2, GoToStep DEF WorkerPC
  <1>3. CASE SetSplitting(w, d)
    <2>1. GoTo(w, "split") /\ UNCHANGED <<index, disturbed>> /\ worker[w].pc \notin Dropping
      BY <1>3 DEF SetSplitting, At, Dropping
    <2>2. \A s \in Segment : segment'[s] = "completed" => segment[s] = "completed"
      BY <1>3, <1>0 DEF SetSplitting
    <2>3. QED
      BY <2>1, <2>2, GoToStep DEF WorkerPC
  <1>4. CASE Split(w, d)
    <2> DEFINE fresh == [doc : {d}, split : {splits[d] + 1}, piece : Pieces]
               after == [worker[w] EXCEPT !.pc = "save", !.todo = fresh, !.part = fresh]
    <2>1. fresh \subseteq Segment /\ \A s \in fresh : s.doc = d
      BY <1>4, BoundsAssumption DEF Split, Segment, IndexInv, TypeOK
    <2>2. WorkerSet(w, after) /\ UNCHANGED <<index, disturbed, segment>> /\ worker[w].pc = "split"
      BY <1>4 DEF Split, At
    <2> HIDE DEF fresh
    <2>3. after \in WorkerState
      BY <1>0, <2>1 DEF WorkerState, WorkerPC
    <2>4. Owns(after) /\ after.pc # "finish"
      BY <1>0, <1>4, <2>1 DEF Split, Owns, WorkerState
    <2>5. \A e \in Documents : after.doc = e \/ e \in after.batch => Holds(w, e)
      BY <1>0 DEF Holds, WorkerState
    <2> HIDE DEF after
    <2>6. QED
      BY <2>2, <2>3, <2>4, <2>5, PlainStep DEF Dropping
  <1>5. CASE EndSplit(w, d)
    <2>1. GoTo(w, "set_indexing") /\ UNCHANGED <<index, disturbed>> /\ worker[w].pc \notin Dropping
      BY <1>5 DEF EndSplit, At, Dropping
    <2>2. \A s \in Segment : segment'[s] = "completed" => segment[s] = "completed"
      BY <1>5, <1>0 DEF EndSplit
    <2>3. QED
      BY <2>1, <2>2, GoToStep DEF WorkerPC
  <1>6. CASE SetIndexing(w, d)
    <2>1. GoTo(w, "mark") /\ UNCHANGED <<index, disturbed>> /\ worker[w].pc \notin Dropping
      BY <1>6 DEF SetIndexing, At, Dropping
    <2>2. \A s \in Segment : segment'[s] = "completed" => segment[s] = "completed"
      BY <1>6, <1>0 DEF SetIndexing
    <2>3. QED
      BY <2>1, <2>2, GoToStep DEF WorkerPC
  <1>7. CASE MarkSegments(w, d)
    <2>1. GoTo(w, "chunk") /\ UNCHANGED <<index, disturbed>> /\ worker[w].pc \notin Dropping
      BY <1>7 DEF MarkSegments, At, Dropping
    <2>2. \A s \in Segment : segment'[s] = "completed" => segment[s] = "completed"
      BY <1>7, <1>0 DEF MarkSegments, SegmentsSet, SegmentStatus
    <2>3. QED
      BY <2>1, <2>2, GoToStep DEF WorkerPC
  <1>8. CASE BeginChunk(w, d)
    <2>1. PICK C \in Chunks(worker[w].todo) :
              WorkerSet(w, [worker[w] EXCEPT !.pc = "embed", !.part = C])
      BY <1>8 DEF BeginChunk
    <2> DEFINE after == [worker[w] EXCEPT !.pc = "embed", !.part = C]
    <2>2. C \subseteq worker[w].todo
      BY <2>1 DEF Chunks
    <2>3. after \in WorkerState
      BY <1>0, <2>2 DEF WorkerState, WorkerPC
    <2>4. Owns(after) /\ after.pc # "finish"
      BY <1>0, <2>2 DEF Owns, WorkerState
    <2>5. \A e \in Documents : after.doc = e \/ e \in after.batch => Holds(w, e)
      BY <1>0 DEF Holds, WorkerState
    <2>6. UNCHANGED <<index, disturbed, segment>> /\ worker[w].pc \notin Dropping
      BY <1>8 DEF BeginChunk, At, Dropping
    <2> HIDE DEF after
    <2>7. QED
      BY <2>1, <2>3, <2>4, <2>5, <2>6, PlainStep DEF after
  <1>9. CASE FinishChunk(w, d)
    <2> DEFINE after == [worker[w] EXCEPT !.pc = "chunk", !.todo = @ \ worker[w].part, !.part = {}]
    <2>1. worker[w].pc = "finish" /\ worker[w].doc = d /\ UNCHANGED <<index, disturbed>>
      BY <1>9 DEF FinishChunk, At
    <2>2. worker' = [worker EXCEPT ![w] = after]
      BY <1>9 DEF FinishChunk, WorkerSet
    <2>3. after \in WorkerState
      BY <1>0 DEF WorkerState, WorkerPC
    <2>4. Owns(after) /\ after.pc # "finish"
      BY <1>0 DEF Owns, WorkerState
    <2>5. \A e \in Documents : after.doc = e \/ e \in after.batch => Holds(w, e)
      BY <1>0 DEF Holds, WorkerState
    <2>6. \A s \in Segment : segment'[s] = "completed" /\ s.doc \notin disturbed' =>
             s \in index' \/ segment[s] = "completed"
      <3> SUFFICES ASSUME NEW s \in Segment, segment'[s] = "completed", s.doc \notin disturbed,
                          segment[s] # "completed"
                   PROVE  s \in index
        BY <2>1
      <3>1. s \in worker[w].part
        BY <1>0, <1>9 DEF FinishChunk, SegmentsSet
      <3>2. s.doc = d
        BY <1>0, <2>1, <3>1 DEF Owns
      <3>3. worker[w].part \subseteq index
        BY <2>1, <3>2 DEF IndexInv, FinishIndexed
      <3>4. QED
        BY <3>1, <3>3
    <2> HIDE DEF after
    <2>7. QED
      BY <2>1, <2>2, <2>3, <2>4, <2>5, <2>6, WorkerStep DEF Dropping
  <1>10. CASE EndBuild(w, d)
    <2>1. GoTo(w, "set_completed") /\ UNCHANGED <<index, disturbed>> /\ worker[w].pc \notin Dropping
      BY <1>10 DEF EndBuild, At, Dropping
    <2>2. \A s \in Segment : segment'[s] = "completed" => segment[s] = "completed"
      BY <1>10, <1>0 DEF EndBuild
    <2>3. QED
      BY <2>1, <2>2, GoToStep DEF WorkerPC
  <1>11. CASE SetCompleted(w, d)
    <2>1. WorkerSet(w, EndDocument(w)) /\ UNCHANGED <<index, disturbed, segment>>
      BY <1>11 DEF SetCompleted
    <2>2. worker[w].pc \notin Dropping
      BY <1>11 DEF SetCompleted, At, Dropping
    <2>3. QED
      BY <1>0, <2>1, <2>2, WorkerStates, EndDocumentOwns, PlainStep DEF IndexInv
  <1>12. CASE StopPaused(w, d)
    BY <1>12, ReleaseStep DEF StopPaused, At, Dropping
  <1>13. CASE StopDeleted(w, d)
    BY <1>13, ReleaseStep DEF StopDeleted, At, Dropping
  <1>14. CASE Fail(w, d)
    <2>1. /\ WorkerSet(w, IF Exists(d) THEN EndDocument(w) ELSE NoWork)
          /\ index \subseteq index' /\ UNCHANGED <<disturbed, segment>>
          /\ worker[w].pc \notin Dropping
      BY <1>14 DEF Fail, Dropping
    <2>2. QED
      BY <1>0, <2>1, WorkerStates, EndDocumentOwns, PlainStep DEF IndexInv
  <1>15. CASE PurgeSegments(w, d)
    <2>1. GoTo(w, "load") /\ UNCHANGED <<index, disturbed>> /\ worker[w].pc \notin Dropping
      BY <1>15 DEF PurgeSegments, At, Dropping
    <2>2. \A s \in Segment : segment'[s] = "completed" => segment[s] = "completed"
      BY <1>15, <1>0 DEF PurgeSegments, SegmentsSet
    <2>3. QED
      BY <2>1, <2>2, GoToStep DEF WorkerPC
  <1>16. CASE CollectSegments(w, d)
    <2> DEFINE after == [worker[w] EXCEPT !.pc = "chunk", !.todo = {s \in Rows(d) : segment[s] # "completed"}]
    <2>1. after \in WorkerState
      BY <1>16, <1>0 DEF CollectSegments, WorkerState, WorkerPC, Rows
    <2>2. Owns(after) /\ after.pc # "finish"
      BY <1>16, <1>0 DEF CollectSegments, At, Owns, WorkerState, Rows
    <2>3. \A e \in Documents : after.doc = e \/ e \in after.batch => Holds(w, e)
      BY <1>16, <1>0 DEF CollectSegments, At, Holds, WorkerState
    <2>4. WorkerSet(w, after) /\ UNCHANGED <<index, disturbed, segment>> /\ worker[w].pc \notin Dropping
      BY <1>16 DEF CollectSegments, At, Dropping
    <2> HIDE DEF after
    <2>5. QED
      BY <2>1, <2>2, <2>3, <2>4, PlainStep
  <1>17. CASE DropIndex(w, d)
    BY <1>17, DropIndexIndexInv
  <1>18. CASE DropRows(w, d)
    BY <1>18, DropRowsIndexInv
  <1>19. CASE NothingToClean(w, d)
    BY <1>19, ReleaseStep DEF NothingToClean, At, Dropping
  <1>20. CASE CleanUpFails(w, d)
    BY <1>20, CleanUpFailsIndexInv
  <1>21. QED
    BY <1>1, <1>2, <1>3, <1>4, <1>5, <1>6, <1>7, <1>8, <1>9, <1>10, <1>11, <1>12,
       <1>13, <1>14, <1>15, <1>16, <1>17, <1>18, <1>19, <1>20
       DEF RunDocument

(* A task on the documents ds begins without segments. *)
Begins(state, ds) ==
    /\ state \in WorkerState
    /\ state.pc \in {"next", "purge", "collect", "update_index", "clean_index"}
    /\ state.doc \in ds \cup {NoDocument} /\ state.batch \in SUBSET ds
    /\ state.todo = {} /\ state.part = {}

LEMMA Beginnings ==
    /\ \A ds \in SUBSET Documents : Begins([NoWork EXCEPT !.pc = "next", !.batch = ds], ds)
    /\ \A d \in Documents, pc \in {"purge", "collect", "update_index", "clean_index"} :
         Begins([NoWork EXCEPT !.pc = pc, !.doc = d], {d})
  <1>1. ASSUME NEW ds \in SUBSET Documents
        PROVE  Begins([NoWork EXCEPT !.pc = "next", !.batch = ds], ds)
    BY DEF Begins, NoWork, WorkerState, WorkerPC
  <1>2. ASSUME NEW d \in Documents,
               NEW pc \in {"purge", "collect", "update_index", "clean_index"}
        PROVE  Begins([NoWork EXCEPT !.pc = pc, !.doc = d], {d})
    BY DEF Begins, NoWork, WorkerState, WorkerPC
  <1>3. QED
    BY <1>1, <1>2

LEMMA BeginStep ==
    ASSUME IndexInv, TypeOK', NEW w \in Workers, NEW ds \in SUBSET Documents,
           NEW state, Begins(state, ds), worker' = [worker EXCEPT ![w] = state],
           worker[w].pc = "idle", UNCHANGED <<segment, index>>, disturbed \subseteq disturbed',
           \A v \in Workers \ {w}, d \in ds : Holds(v, d) => d \in disturbed'
    PROVE  IndexInv'
  <1>1. Owns(state) /\ state.pc # "finish" /\ state \in WorkerState
    BY DEF Begins, Owns
  <1>2. \A d \in Documents : state.doc = d \/ d \in state.batch =>
           \A v \in Workers \ {w} : Holds(v, d) => d \in disturbed'
    BY NoDocumentAssumption DEF Begins
  <1>3. QED
    BY <1>1, <1>2, WorkerStep DEF Dropping

LEMMA TakeTaskIndexInv ==
    ASSUME IndexInv, TypeOK', NEW w \in Workers, TakeTask(w)
    PROVE  IndexInv'
  <1>0. queue # <<>> => Head(queue) \in Task
    BY DEF IndexInv, TypeOK
  <1>1. CASE TakeIndex(w)
    <2> DEFINE ds == {d \in Head(queue).docs : Exists(d)}
               state == [NoWork EXCEPT !.pc = "next", !.batch = ds]
    <2>1. ds \in SUBSET Documents
      BY <1>0, <1>1 DEF TakeIndex, Take, Task
    <2>2. /\ worker' = [worker EXCEPT ![w] = state]
          /\ disturbed' = disturbed \cup {d \in ds : Busy(w, d)}
          /\ worker[w].pc = "idle" /\ UNCHANGED <<segment, index>>
      BY <1>1 DEF TakeIndex, Take
    <2> HIDE DEF ds
    <2>3. Begins(state, ds)
      BY <2>1, Beginnings
    <2>4. \A v \in Workers \ {w}, d \in ds : Holds(v, d) => d \in disturbed'
      BY <2>1, <2>2 DEF Busy
    <2>5. disturbed \subseteq disturbed'
      BY <2>2
    <2> HIDE DEF state
    <2>6. QED
      BY <2>1, <2>2, <2>3, <2>4, <2>5, BeginStep
  <1>2. ASSUME NEW d \in Documents, TakeRecover(w, d) \/ TakeUpdate(w, d) \/ TakeClean(w, d)
        PROVE  IndexInv'
    <2>1. /\ worker[w].pc = "idle" /\ UNCHANGED <<segment, index>>
          /\ disturbed \subseteq disturbed'
      BY <1>2 DEF TakeRecover, TakeUpdate, TakeClean, Take
    <2>2. \A v \in Workers \ {w}, e \in {d} : Holds(v, e) => e \in disturbed'
      BY <1>2 DEF TakeRecover, TakeUpdate, TakeClean, Busy
    <2>3. PICK state : Begins(state, {d}) /\ worker' = [worker EXCEPT ![w] = state]
      <3>1. CASE TakeRecover(w, d)
        BY <3>1, Beginnings DEF TakeRecover
      <3>2. CASE TakeUpdate(w, d)
        BY <3>2, Beginnings DEF TakeUpdate
      <3>3. CASE TakeClean(w, d)
        BY <3>3, Beginnings DEF TakeClean
      <3>4. QED
        BY <1>2, <3>1, <3>2, <3>3
    <2>4. {d} \in SUBSET Documents
      OBVIOUS
    <2>5. QED
      BY <2>1, <2>2, <2>3, <2>4, BeginStep
  <1>3. ASSUME NEW d \in Documents, TakeNothing(w, d)
        PROVE  IndexInv'
    BY <1>3, QuietStep DEF TakeNothing, Take
  <1>4. QED
    BY <1>1, <1>2, <1>3 DEF TakeTask

LEMMA RunTaskIndexInv ==
    ASSUME IndexInv, TypeOK', NEW w \in Workers, RunTask(w)
    PROVE  IndexInv'
  <1>0. /\ worker[w] \in WorkerState /\ Owns(worker[w])
        /\ segment \in [Segment -> SegmentStatus]
    BY DEF IndexInv, TypeOK, WorkersOwn
  <1>1. CASE EndTask(w)
    BY <1>1, ReleaseStep DEF EndTask, At, Dropping
  <1>2. CASE AddTexts(w)
    <2> DEFINE after == [worker[w] EXCEPT !.pc = "finish"]
    <2>1. /\ worker[w].pc = "embed" /\ index' = index \cup worker[w].part
          /\ worker' = [worker EXCEPT ![w] = after] /\ UNCHANGED <<segment, disturbed>>
      BY <1>2 DEF AddTexts, At, GoTo, WorkerSet
    <2>2. after \in WorkerState /\ Owns(after) /\ after.part = worker[w].part
      BY <1>0 DEF WorkerState, WorkerPC, Owns
    <2>3. \A d \in Documents : after.doc = d \/ d \in after.batch => Holds(w, d)
      BY <1>0 DEF Holds, WorkerState
    <2> HIDE DEF after
    <2>4. QED
      BY <2>1, <2>2, <2>3, WorkerStep DEF Dropping
  <1>3. ASSUME NEW s \in Segment, SaveSegment(w, s)
        PROVE  IndexInv'
    <2> DEFINE after == [worker[w] EXCEPT !.part = @ \ {s}]
    <2>1. /\ worker[w].pc = "save" /\ WorkerSet(w, after) /\ UNCHANGED <<index, disturbed>>
      BY <1>3 DEF SaveSegment, At
    <2>2. after \in WorkerState /\ Owns(after) /\ after.pc # "finish"
      BY <1>0, <2>1 DEF WorkerState, Owns
    <2>3. \A d \in Documents : after.doc = d \/ d \in after.batch => Holds(w, d)
      BY <1>0 DEF Holds, WorkerState
    <2>4. \A t \in Segment : segment'[t] = "completed" => segment[t] = "completed"
      BY <1>3 DEF SaveSegment, SegmentsSet
    <2> HIDE DEF after
    <2>5. QED
      BY <2>1, <2>2, <2>3, <2>4, PlainStep DEF Dropping
  <1>4. QED
    BY <1>1, <1>2, <1>3, RunDocumentIndexInv DEF RunTask

LEMMA CrashIndexInv ==
    ASSUME IndexInv, TypeOK', NEW w \in Workers, Crash(w)
    PROVE  IndexInv'
  <1>0. worker[w] \in WorkerState /\ Owns(worker[w])
    BY DEF IndexInv, TypeOK, WorkersOwn
  <1>1. /\ worker' = [worker EXCEPT ![w] = NoWork] /\ UNCHANGED <<segment, index>>
        /\ disturbed' = disturbed \cup {d \in Documents : Holds(w, d)}
    BY DEF Crash, WorkerSet
  <1>2. \A s \in Segment : s \in worker[w].part => s.doc \in disturbed'
    BY <1>0, <1>1 DEF Owns, Holds, Segment
  <1>3. \A s \in Segment : segment'[s] = "completed" /\ s.doc \notin disturbed' =>
           segment[s] = "completed" /\ s \notin worker[w].part
    BY <1>1, <1>2
  <1>4. NoWork \in WorkerState
    BY WorkerStates DEF IndexInv
  <1>5. QED
    BY <1>0, <1>1, <1>3, <1>4, EndDocumentOwns, WorkerStep

LEMMA InitIndexInv == Init => IndexInv
  BY InitTypeOK, NoDocumentAssumption
     DEF Init, IndexInv, WorkersOwn, Owns, OneWorkerPerDocument, Holds, FinishIndexed,
         CompletedRowIsIndexed, NoWork

LEMMA NextIndexInv == IndexInv /\ [Next]_vars => IndexInv'
  <1> SUFFICES ASSUME IndexInv, [Next]_vars
               PROVE  IndexInv'
    OBVIOUS
  <1>0. TypeOK'
    BY NextTypeOK DEF IndexInv
  <1>1. ASSUME NEW c \in Clients, NEW ds \in SUBSET Documents, UploadCommit(c, ds)
        PROVE  IndexInv'
    BY <1>0, <1>1, QuietStep DEF UploadCommit, historyVars
  <1>2. ASSUME NEW c \in Clients, UploadEnqueue(c)
        PROVE  IndexInv'
    BY <1>0, <1>2, QuietStep DEF UploadEnqueue, sharedVars, historyVars
  <1>3. ASSUME NEW c \in Clients, NEW d \in Documents, StartRequest(c, d)
        PROVE  IndexInv'
    BY <1>0, <1>3, QuietStep
       DEF StartRequest, PauseRequest, RecoverRequest, DeleteRequest, UpdateRequest, Accept, sharedVars
  <1>4. ASSUME NEW c \in Clients, NEW d \in Documents, ContinueRequest(c, d)
        PROVE  IndexInv'
    <2>1. UNCHANGED <<worker, index>> /\ disturbed \subseteq disturbed'
      BY <1>4
         DEF ContinueRequest, PauseCommit, PauseSetFlag, RecoverCommit, RecoverClearFlag,
             RecoverEnqueue, DeleteCommit, UpdateCommit, UpdateMark, UpdateEnqueue,
             RequestFails, Step, sharedVars, historyVars
    <2>2. segment' = segment \/ segment' = SegmentsSet(Rows(d), "re_segment")
      BY <1>4
         DEF ContinueRequest, PauseCommit, PauseSetFlag, RecoverCommit, RecoverClearFlag,
             RecoverEnqueue, DeleteCommit, UpdateCommit, UpdateMark, UpdateEnqueue,
             RequestFails, sharedVars, rowVars
    <2>3. QED
      BY <1>0, <2>1, <2>2, QuietStep DEF SegmentsSet
  <1>5. CASE UNCHANGED vars
    BY <1>0, <1>5, QuietStep DEF vars
  <1>6. QED
    BY <1>0, <1>1, <1>2, <1>3, <1>4, <1>5, TakeTaskIndexInv, RunTaskIndexInv, CrashIndexInv DEF Next

(* Whatever requests, pauses, resumptions, updates, deletions and failures    *)
(* interleave, a row marked completed has its entry in the vector index or is *)
(* about to be dropped by a clean-up, but for the documents of disturbed.     *)
THEOREM CompletedRowsAreIndexed == Spec => []CompletedRowIsIndexed
  <1>1. IndexInv => CompletedRowIsIndexed
    BY DEF IndexInv
  <1>2. QED
    BY <1>1, InitIndexInv, NextIndexInv, PTL DEF Spec
=============================================================================
