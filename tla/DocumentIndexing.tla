-------------------------- MODULE DocumentIndexing --------------------------
(***************************************************************************)
(* The indexing life cycle of the documents of one dataset.                *)
(*                                                                         *)
(* Clients are requests in flight at the API server (upload, pause,        *)
(* recover, delete, update: services/dataset_service.py).  Workers are     *)
(* Celery workers consuming the queue "dataset" (tasks/*.py), which drive  *)
(* core/indexing_runner.py.  They share the documents and segments tables, *)
(* the Redis key document_{id}_is_paused, the vector index and the queue.  *)
(* Every action is what happens between two commits, Redis calls or index  *)
(* calls, so requests and workers interleave at exactly those points.      *)
(*                                                                         *)
(* The vector index is the index of this module; the keyword table, whose  *)
(* read-modify-write loses updates of its own, is a component by itself.   *)
(***************************************************************************)
EXTENDS Naturals, Sequences, FiniteSets

CONSTANTS
    Documents,      \* documents that may be uploaded
    NoDocument,     \* the worker's "no current document"
    Workers,        \* Celery workers
    Clients,        \* API requests that may be in flight at a time
    Pieces,         \* the pieces a document is split into
    ChunkSize,      \* segments indexed between two pause checks (100)
    Operations,     \* which requests the clients make after the upload
    MaxRequests,    \* bound: requests after the uploads
    MaxCrashes,     \* bound: workers killed in the middle of a task
    MaxSplits       \* bound: times one document is split

ASSUME NoDocumentAssumption == NoDocument \notin Documents
ASSUME PiecesAssumption == Pieces \subseteq Nat /\ IsFiniteSet(Pieces)
ASSUME ChunkSizeAssumption == ChunkSize \in Nat \ {0}
ASSUME OperationsAssumption == Operations \subseteq {"pause", "recover", "delete", "update"}
ASSUME BoundsAssumption == MaxRequests \in Nat /\ MaxCrashes \in Nat /\ MaxSplits \in Nat

VARIABLES
    status,     \* Document.indexing_status, "absent" and "deleted" are no row
    is_paused,  \* Document.is_paused
    pauseFlag,  \* Redis key document_{id}_is_paused is set
    segment,    \* DocumentSegment.status, "none" is no row
    enabled,    \* the segments whose row is enabled
    index,      \* the segments the vector index has an entry of
    splits,     \* how often a document was split: makes node ids fresh
    queue,      \* the Celery queue "dataset"
    worker,     \* what each worker is doing
    client,     \* what each request in flight is doing
    requests,   \* requests made so far
    crashes,    \* workers killed so far
    disturbed   \* history: documents hit by one of the races of Busy, a
                \* stale update, a crash or a failed clean-up

rowVars == <<status, is_paused, segment, enabled>>
sharedVars == <<status, is_paused, pauseFlag, segment, enabled, index, splits>>
historyVars == <<requests, crashes, disturbed>>
vars == <<status, is_paused, pauseFlag, segment, enabled, index, splits,
          queue, worker, client, requests, crashes, disturbed>>

-----------------------------------------------------------------------------
(* Types *)

Status == {"absent", "waiting", "parsing", "splitting", "indexing",
           "completed", "error", "deleted"}

\* A segment row is known by its index_node_id, a fresh uuid at every split.
Segment == [doc : Documents, split : 1..MaxSplits, piece : Pieces]

SegmentStatus == {"none", "waiting", "indexing", "completed", "re_segment"}

Task == [kind : {"index", "recover", "update", "clean"}, docs : SUBSET Documents]

WorkerPC == {"idle", "next", "load", "set_splitting", "split", "save",
             "set_indexing", "mark", "chunk", "embed", "finish",
             "set_completed", "purge", "collect", "update_index",
             "update_rows", "clean_index", "clean_rows"}

WorkerState == [pc : WorkerPC,
                doc : Documents \cup {NoDocument},  \* the document at hand
                batch : SUBSET Documents,           \* documents still to come
                todo : SUBSET Segment,              \* segments not indexed yet
                part : SUBSET Segment]              \* segments of this step

NoWork == [pc |-> "idle", doc |-> NoDocument, batch |-> {}, todo |-> {}, part |-> {}]

ClientPC == {"idle", "upload_enqueue", "pause_commit", "pause_flag",
             "recover_commit", "recover_flag", "recover_enqueue",
             "delete_commit", "update_commit", "update_mark", "update_enqueue"}

ClientState == [pc : ClientPC, docs : SUBSET Documents,
                seen : BOOLEAN]         \* is_paused as the request loaded it

NoRequest == [pc |-> "idle", docs |-> {}, seen |-> FALSE]

TypeOK ==
    /\ status \in [Documents -> Status]
    /\ is_paused \in [Documents -> BOOLEAN]
    /\ pauseFlag \in [Documents -> BOOLEAN]
    /\ segment \in [Segment -> SegmentStatus]
    /\ enabled \in SUBSET Segment
    /\ index \in SUBSET Segment
    /\ splits \in [Documents -> 0..MaxSplits]
    /\ queue \in Seq(Task)
    /\ worker \in [Workers -> WorkerState]
    /\ client \in [Clients -> ClientState]
    /\ requests \in 0..MaxRequests
    /\ crashes \in 0..MaxCrashes
    /\ disturbed \in SUBSET Documents

Init ==
    /\ status = [d \in Documents |-> "absent"]
    /\ is_paused = [d \in Documents |-> FALSE]
    /\ pauseFlag = [d \in Documents |-> FALSE]
    /\ segment = [s \in Segment |-> "none"]
    /\ enabled = {}
    /\ index = {}
    /\ splits = [d \in Documents |-> 0]
    /\ queue = <<>>
    /\ worker = [w \in Workers |-> NoWork]
    /\ client = [c \in Clients |-> NoRequest]
    /\ requests = 0
    /\ crashes = 0
    /\ disturbed = {}

-----------------------------------------------------------------------------
(* Helpers *)

Exists(d) == status[d] \notin {"absent", "deleted"}

Rows(d) == {s \in Segment : s.doc = d /\ segment[s] # "none"}

SegmentsSet(S, st) == [s \in Segment |-> IF s \in S THEN st ELSE segment[s]]

Holds(w, d) == worker[w].doc = d \/ d \in worker[w].batch

Request(c, pc, d) == client[c].pc = pc /\ client[c].docs = {d}

\* Somebody else is at work on d, or about to be, when w takes a task of d.
Busy(w, d) ==
    \/ \E v \in Workers \ {w} : Holds(v, d)
    \/ \E c \in Clients :
         /\ d \in client[c].docs
         /\ client[c].pc \in {"upload_enqueue", "delete_commit", "update_commit",
                              "update_mark", "update_enqueue"}
    \/ \E i \in 2..Len(queue) : queue[i].kind \in {"index", "update"} /\ d \in queue[i].docs

-----------------------------------------------------------------------------
(* Requests *)

\* save_document_with_dataset_id: the rows are committed, then the task is sent.
UploadCommit(c, ds) ==
    /\ client[c].pc = "idle"
    /\ ds # {} /\ \A d \in ds : status[d] = "absent"
    /\ status' = [d \in Documents |-> IF d \in ds THEN "waiting" ELSE status[d]]
    /\ client' = [client EXCEPT ![c] = [pc |-> "upload_enqueue", docs |-> ds, seen |-> FALSE]]
    /\ UNCHANGED <<is_paused, pauseFlag, segment, enabled, index, splits,
                   queue, worker, historyVars>>

UploadEnqueue(c) ==
    /\ client[c].pc = "upload_enqueue"
    /\ queue' = Append(queue, [kind |-> "index", docs |-> client[c].docs])
    /\ client' = [client EXCEPT ![c] = NoRequest]
    /\ UNCHANGED <<sharedVars, worker, historyVars>>

\* A request loads the document and passes its check; what follows acts on it.
Accept(c, d, op, pc) ==
    /\ client[c].pc = "idle"
    /\ op \in Operations
    /\ requests < MaxRequests
    /\ Exists(d)
    /\ requests' = requests + 1
    /\ client' = [client EXCEPT ![c] = [pc |-> pc, docs |-> {d}, seen |-> is_paused[d]]]
    /\ UNCHANGED <<sharedVars, worker, crashes, disturbed>>

Step(c, from, to, d) ==
    /\ Request(c, from, d)
    /\ client' = [client EXCEPT ![c] = IF to = "idle" THEN NoRequest ELSE [@ EXCEPT !.pc = to]]
    /\ UNCHANGED <<worker, requests, crashes>>

\* The row is gone when the request touches it again: the request fails.
RequestFails(c, d) ==
    /\ client[c].docs = {d}
    /\ client[c].pc \in {"pause_commit", "pause_flag", "recover_commit", "recover_flag",
                         "update_commit", "update_mark", "update_enqueue"}
    /\ ~Exists(d)
    /\ client' = [client EXCEPT ![c] = NoRequest]
    /\ UNCHANGED <<sharedVars, queue, worker, historyVars>>

PauseRequest(c, d) ==
    /\ status[d] \in {"waiting", "parsing", "splitting", "indexing"}
    /\ Accept(c, d, "pause", "pause_commit")
    /\ UNCHANGED queue

\* The ORM writes is_paused only when the request changed the loaded value.
PauseCommit(c, d) ==
    /\ Step(c, "pause_commit", "pause_flag", d)
    /\ Exists(d)
    /\ is_paused' = [is_paused EXCEPT ![d] = @ \/ ~client[c].seen]
    /\ UNCHANGED <<status, pauseFlag, segment, enabled, index, splits, queue, disturbed>>

PauseSetFlag(c, d) ==
    /\ Step(c, "pause_flag", "idle", d)
    /\ Exists(d)
    /\ pauseFlag' = [pauseFlag EXCEPT ![d] = TRUE]
    /\ UNCHANGED <<rowVars, index, splits, queue, disturbed>>

RecoverRequest(c, d) ==
    /\ is_paused[d]
    /\ Accept(c, d, "recover", "recover_commit")
    /\ UNCHANGED queue

RecoverCommit(c, d) ==
    /\ Step(c, "recover_commit", "recover_flag", d)
    /\ Exists(d)
    /\ is_paused' = [is_paused EXCEPT ![d] = FALSE]
    /\ UNCHANGED <<status, pauseFlag, segment, enabled, index, splits, queue, disturbed>>

\* Mutant: the Redis key outlives the pause.
RecoverClearFlag_Kept(c, d) ==
    /\ Step(c, "recover_flag", "recover_enqueue", d)
    /\ Exists(d)
    /\ UNCHANGED <<sharedVars, queue, disturbed>>

RecoverClearFlag(c, d) ==
    /\ Step(c, "recover_flag", "recover_enqueue", d)
    /\ Exists(d)
    /\ pauseFlag' = [pauseFlag EXCEPT ![d] = FALSE]
    /\ UNCHANGED <<rowVars, index, splits, queue, disturbed>>

RecoverEnqueue(c, d) ==
    /\ Step(c, "recover_enqueue", "idle", d)
    /\ queue' = Append(queue, [kind |-> "recover", docs |-> {d}])
    /\ UNCHANGED <<sharedVars, disturbed>>

\* The signal document_was_deleted sends the clean-up before the row is deleted.
DeleteRequest(c, d) ==
    /\ Accept(c, d, "delete", "delete_commit")
    /\ queue' = Append(queue, [kind |-> "clean", docs |-> {d}])

DeleteCommit(c, d) ==
    /\ Step(c, "delete_commit", "idle", d)
    /\ status' = [status EXCEPT ![d] = "deleted"]
    /\ is_paused' = [is_paused EXCEPT ![d] = FALSE]
    /\ UNCHANGED <<pauseFlag, segment, enabled, index, splits, queue, disturbed>>

\* display_status = 'available', of a document neither disabled nor archived
UpdateRequest(c, d) ==
    /\ status[d] = "completed"
    /\ Accept(c, d, "update", "update_commit")
    /\ UNCHANGED queue

UpdateCommit(c, d) ==
    /\ Step(c, "update_commit", "update_mark", d)
    /\ Exists(d)
    /\ status' = [status EXCEPT ![d] = "waiting"]
    /\ disturbed' = IF status[d] = "completed" THEN disturbed ELSE disturbed \cup {d}
    /\ UNCHANGED <<is_paused, pauseFlag, segment, enabled, index, splits, queue>>

UpdateMark(c, d) ==
    /\ Step(c, "update_mark", "update_enqueue", d)
    /\ Exists(d)
    /\ segment' = SegmentsSet(Rows(d), "re_segment")
    /\ UNCHANGED <<status, is_paused, pauseFlag, enabled, index, splits, queue, disturbed>>

UpdateEnqueue(c, d) ==
    /\ Step(c, "update_enqueue", "idle", d)
    /\ Exists(d)
    /\ queue' = Append(queue, [kind |-> "update", docs |-> {d}])
    /\ UNCHANGED <<sharedVars, disturbed>>

-----------------------------------------------------------------------------
(* Tasks *)

Take(w, kind) ==
    /\ worker[w].pc = "idle"
    /\ queue # <<>> /\ Head(queue).kind = kind
    /\ queue' = Tail(queue)
    /\ UNCHANGED <<is_paused, pauseFlag, segment, enabled, index, splits,
                   client, requests, crashes>>

\* document_indexing_task: one commit moves the whole batch to parsing.
TakeIndex(w) ==
    /\ Take(w, "index")
    /\ LET ds == {d \in Head(queue).docs : Exists(d)} IN
         /\ status' = [d \in Documents |-> IF d \in ds THEN "parsing" ELSE status[d]]
         /\ worker' = [worker EXCEPT ![w] = [NoWork EXCEPT !.pc = "next", !.batch = ds]]
         /\ disturbed' = disturbed \cup {d \in ds : Busy(w, d)}

\* Mutant: a finished document is run again.
TakeRecover_Again(w, d) ==
    /\ Take(w, "recover")
    /\ Head(queue).docs = {d}
    /\ status[d] \in {"waiting", "parsing", "completed"}
    /\ worker' = [worker EXCEPT ![w] = [NoWork EXCEPT !.pc = "next", !.batch = {d}]]
    /\ disturbed' = IF Busy(w, d) THEN disturbed \cup {d} ELSE disturbed
    /\ UNCHANGED status

\* Mutant: a document in indexing starts over as one in splitting does.
TakeRecover_StartsOver(w, d) ==
    /\ Take(w, "recover")
    /\ Head(queue).docs = {d}
    /\ status[d] \in {"splitting", "indexing"}
    /\ worker' = [worker EXCEPT ![w] = [NoWork EXCEPT !.pc = "purge", !.doc = d]]
    /\ disturbed' = IF Busy(w, d) THEN disturbed \cup {d} ELSE disturbed
    /\ UNCHANGED status

\* recover_document_indexing_task: where it resumes depends on the status.
TakeRecover(w, d) ==
    /\ Take(w, "recover")
    /\ Head(queue).docs = {d}
    /\ \/ /\ status[d] \in {"waiting", "parsing"}
          /\ worker' = [worker EXCEPT ![w] = [NoWork EXCEPT !.pc = "next", !.batch = {d}]]
       \/ /\ status[d] = "splitting"
          /\ worker' = [worker EXCEPT ![w] = [NoWork EXCEPT !.pc = "purge", !.doc = d]]
       \/ /\ status[d] = "indexing"
          /\ worker' = [worker EXCEPT ![w] = [NoWork EXCEPT !.pc = "collect", !.doc = d]]
    /\ disturbed' = IF Busy(w, d) THEN disturbed \cup {d} ELSE disturbed
    /\ UNCHANGED status

\* document_indexing_update_task
TakeUpdate(w, d) ==
    /\ Take(w, "update")
    /\ Head(queue).docs = {d}
    /\ Exists(d)
    /\ status' = [status EXCEPT ![d] = "parsing"]
    /\ worker' = [worker EXCEPT ![w] = [NoWork EXCEPT !.pc = "update_index", !.doc = d]]
    /\ disturbed' = IF Busy(w, d) THEN disturbed \cup {d} ELSE disturbed

\* clean_document_task runs whether or not the document still has a row.
TakeClean(w, d) ==
    /\ Take(w, "clean")
    /\ Head(queue).docs = {d}
    /\ worker' = [worker EXCEPT ![w] = [NoWork EXCEPT !.pc = "clean_index", !.doc = d]]
    /\ disturbed' = IF \E v \in Workers \ {w} : Holds(v, d)
                      THEN disturbed \cup {d} ELSE disturbed
    /\ UNCHANGED status

\* Mutant: the clean-up, too, looks for the document first.
TakeNothing_NorClean(w, d) ==
    /\ Take(w, "clean") /\ ~Exists(d)
    /\ Head(queue).docs = {d}
    /\ UNCHANGED <<status, worker, disturbed>>

\* Nothing to do: the document is gone, or a recovered one has finished.
TakeNothing(w, d) ==
    /\ \/ Take(w, "recover") /\ status[d] \in {"completed", "error", "deleted"}
       \/ Take(w, "update") /\ ~Exists(d)
    /\ Head(queue).docs = {d}
    /\ UNCHANGED <<status, worker, disturbed>>

-----------------------------------------------------------------------------
(* IndexingRunner *)

\* w moves on from pc, at the document it has at hand.
At(w, pc) == worker[w].pc = pc

WorkerSet(w, state) ==
    /\ worker' = [worker EXCEPT ![w] = state]
    /\ UNCHANGED <<pauseFlag, is_paused, queue, client, requests>>

GoTo(w, pc) == WorkerSet(w, [worker[w] EXCEPT !.pc = pc])

\* The task ends here, and with it what it had not come to of its batch.
Release(w) ==
    /\ WorkerSet(w, NoWork)
    /\ UNCHANGED <<status, segment, enabled, index, splits, crashes, disturbed>>

\* _update_document_index_status, after its checks; no row, no effect.
WriteStatus(d, st) == status' = [status EXCEPT ![d] = IF Exists(d) THEN st ELSE @]

EndDocument(w) == [worker[w] EXCEPT !.pc = "next", !.doc = NoDocument, !.todo = {}, !.part = {}]

\* The loop of run() over the batch, in any order of its documents.
NextDocument(w, d) ==
    /\ At(w, "next")
    /\ d \in worker[w].batch
    /\ Exists(d)
    /\ WorkerSet(w, [worker[w] EXCEPT !.pc = "load", !.doc = d, !.batch = @ \ {d}])
    /\ UNCHANGED <<status, segment, enabled, index, splits, crashes, disturbed>>

EndTask(w) ==
    /\ At(w, "next")
    /\ worker[w].batch = {}
    /\ Release(w)

\* _load_data up to the check of the pause in _update_document_index_status
Load(w, d) ==
    /\ At(w, "load") /\ worker[w].doc = d
    /\ Exists(d) /\ ~is_paused[d]
    /\ GoTo(w, "set_splitting")
    /\ UNCHANGED <<status, segment, enabled, index, splits, crashes, disturbed>>

\* Mutant: a status that nothing but the pause check knows.
SetSplitting_AsCleaning(w, d) ==
    /\ At(w, "set_splitting") /\ worker[w].doc = d
    /\ WriteStatus(d, "cleaning")
    /\ GoTo(w, "split")
    /\ UNCHANGED <<segment, enabled, index, splits, crashes, disturbed>>

SetSplitting(w, d) ==
    /\ At(w, "set_splitting") /\ worker[w].doc = d
    /\ WriteStatus(d, "splitting")
    /\ GoTo(w, "split")
    /\ UNCHANGED <<segment, enabled, index, splits, crashes, disturbed>>

\* _split_to_documents gives every piece a node id nobody used before.
Split(w, d) ==
    /\ At(w, "split") /\ worker[w].doc = d
    /\ Exists(d)
    /\ splits[d] < MaxSplits
    /\ splits' = [splits EXCEPT ![d] = @ + 1]
    /\ LET fresh == [doc : {d}, split : {splits[d] + 1}, piece : Pieces] IN
         WorkerSet(w, [worker[w] EXCEPT !.pc = "save", !.todo = fresh, !.part = fresh])
    /\ UNCHANGED <<status, segment, enabled, index, crashes, disturbed>>

\* add_documents commits the rows one by one, disabled.
SaveSegment(w, s) ==
    /\ At(w, "save")
    /\ s \in worker[w].part
    /\ \A t \in worker[w].part : s.piece <= t.piece
    /\ segment' = SegmentsSet({s}, "waiting")
    /\ WorkerSet(w, [worker[w] EXCEPT !.part = @ \ {s}])
    /\ UNCHANGED <<status, enabled, index, splits, crashes, disturbed>>

EndSplit(w, d) ==
    /\ At(w, "save") /\ worker[w].doc = d
    /\ worker[w].part = {}
    /\ Exists(d) /\ ~is_paused[d]
    /\ GoTo(w, "set_indexing")
    /\ UNCHANGED <<status, segment, enabled, index, splits, crashes, disturbed>>

SetIndexing(w, d) ==
    /\ At(w, "set_indexing") /\ worker[w].doc = d
    /\ WriteStatus(d, "indexing")
    /\ GoTo(w, "mark")
    /\ UNCHANGED <<segment, enabled, index, splits, crashes, disturbed>>

\* _update_segments_by_document: every row of the document, whoever made it
MarkSegments(w, d) ==
    /\ At(w, "mark") /\ worker[w].doc = d
    /\ Exists(d)
    /\ segment' = SegmentsSet(Rows(d), "indexing")
    /\ GoTo(w, "chunk")
    /\ UNCHANGED <<status, enabled, index, splits, crashes, disturbed>>

Chunks(S) == {C \in SUBSET S : IF Cardinality(S) <= ChunkSize
                                 THEN C = S ELSE Cardinality(C) = ChunkSize}

\* The loop of _build_index: the Redis flag is checked before every chunk.
\* Asking for the id of a document that was committed and then deleted fails.  Left out: a
\* recovery that goes straight to the index has committed nothing yet, and its first chunk
\* is embedded before the deletion is noticed.
BeginChunk(w, d) ==
    /\ At(w, "chunk") /\ worker[w].doc = d
    /\ worker[w].todo # {}
    /\ Exists(d) /\ ~pauseFlag[d]
    /\ \E C \in Chunks(worker[w].todo) :
         WorkerSet(w, [worker[w] EXCEPT !.pc = "embed", !.part = C])
    /\ UNCHANGED <<status, segment, enabled, index, splits, crashes, disturbed>>

AddTexts(w) ==
    /\ At(w, "embed")
    /\ index' = index \cup worker[w].part
    /\ GoTo(w, "finish")
    /\ UNCHANGED <<status, segment, enabled, splits, crashes, disturbed>>

\* Mutant: without the filter on the node ids of the chunk.
FinishChunk_AllRows(w, d) ==
    /\ At(w, "finish") /\ worker[w].doc = d
    /\ Exists(d)
    /\ LET done == {s \in Rows(d) : segment[s] = "indexing"} IN
         /\ segment' = SegmentsSet(done, "completed")
         /\ enabled' = enabled \cup done
    /\ WorkerSet(w, [worker[w] EXCEPT !.pc = "chunk", !.todo = @ \ worker[w].part, !.part = {}])
    /\ UNCHANGED <<status, index, splits, crashes, disturbed>>

FinishChunk(w, d) ==
    /\ At(w, "finish") /\ worker[w].doc = d
    /\ Exists(d)
    /\ LET done == {s \in worker[w].part : segment[s] = "indexing"} IN
         /\ segment' = SegmentsSet(done, "completed")
         /\ enabled' = enabled \cup done
    /\ WorkerSet(w, [worker[w] EXCEPT !.pc = "chunk", !.todo = @ \ worker[w].part, !.part = {}])
    /\ UNCHANGED <<status, index, splits, crashes, disturbed>>

EndBuild(w, d) ==
    /\ At(w, "chunk") /\ worker[w].doc = d
    /\ worker[w].todo = {}
    /\ Exists(d) /\ ~is_paused[d]
    /\ GoTo(w, "set_completed")
    /\ UNCHANGED <<status, segment, enabled, index, splits, crashes, disturbed>>

SetCompleted(w, d) ==
    /\ At(w, "set_completed") /\ worker[w].doc = d
    /\ WriteStatus(d, "completed")
    /\ WorkerSet(w, EndDocument(w))
    /\ UNCHANGED <<segment, enabled, index, splits, crashes, disturbed>>

\* Mutant: one more check, before the rows are marked.
StopPaused_BeforeMark(w, d) ==
    /\ worker[w].doc = d
    /\ worker[w].pc \in {"mark", "chunk"} /\ pauseFlag[d]
    /\ Release(w)

\* DocumentIsPausedException ends the whole task.
StopPaused(w, d) ==
    /\ worker[w].doc = d
    /\ \/ At(w, "load") /\ is_paused[d]
       \/ At(w, "save") /\ worker[w].part = {} /\ is_paused[d]
       \/ At(w, "chunk") /\ worker[w].todo # {} /\ pauseFlag[d]
       \/ At(w, "chunk") /\ worker[w].todo = {} /\ is_paused[d]
    /\ Release(w)

\* The row is gone when the runner refreshes the document it holds.  The
\* handlers of run() touch the same object and fail as well: the task ends.
StopDeleted(w, d) ==
    /\ \/ /\ worker[w].doc = d
          /\ \/ worker[w].pc \in {"load", "split", "mark", "chunk", "finish"}
             \/ At(w, "save") /\ worker[w].part = {}
       \/ At(w, "next") /\ d \in worker[w].batch
    /\ ~Exists(d)
    /\ Release(w)

\* Mutant: the error of one document ends the batch.
Fail_EndsBatch(w, d) ==
    /\ worker[w].doc = d
    /\ worker[w].pc \in {"load", "split", "save", "chunk", "embed"}
    /\ WriteStatus(d, "error")
    /\ WorkerSet(w, NoWork)
    /\ UNCHANGED <<segment, enabled, index, splits, crashes, disturbed>>

\* Any other exception: the source cannot be read, the model is not configured,
\* or the vector store fails, after it took some of the chunk or none of it.
Fail(w, d) ==
    /\ worker[w].doc = d
    /\ worker[w].pc \in {"load", "split", "save", "chunk", "embed"}
    /\ \E taken \in IF At(w, "embed") THEN SUBSET worker[w].part ELSE {{}} :
         index' = index \cup taken
    /\ WriteStatus(d, "error")
    /\ WorkerSet(w, IF Exists(d) THEN EndDocument(w) ELSE NoWork)
    /\ UNCHANGED <<segment, enabled, splits, crashes, disturbed>>

\* Mutant: the rows of the interrupted split stay.
PurgeSegments_Kept(w, d) ==
    /\ At(w, "purge") /\ worker[w].doc = d
    /\ GoTo(w, "load")
    /\ UNCHANGED <<status, segment, enabled, index, splits, crashes, disturbed>>

\* run_in_splitting_status starts over: the rows go, then as run() does.
PurgeSegments(w, d) ==
    /\ At(w, "purge") /\ worker[w].doc = d
    /\ segment' = SegmentsSet(Rows(d), "none")
    /\ enabled' = enabled \ Rows(d)
    /\ GoTo(w, "load")
    /\ UNCHANGED <<status, index, splits, crashes, disturbed>>

\* run_in_indexing_status takes up the rows that are not completed.
CollectSegments(w, d) ==
    /\ At(w, "collect") /\ worker[w].doc = d
    /\ WorkerSet(w, [worker[w] EXCEPT !.pc = "chunk",
                                      !.todo = {s \in Rows(d) : segment[s] # "completed"}])
    /\ UNCHANGED <<status, segment, enabled, index, splits, crashes, disturbed>>

-----------------------------------------------------------------------------
(* Clean-up of an updated or a deleted document *)

\* The update deletes the entries of the rows it reads, the deletion every
\* entry of the document, provided it has a row.
DropIndex(w, d) ==
    /\ worker[w].doc = d
    /\ \/ /\ At(w, "update_index")
          /\ index' = index \ Rows(d)
          /\ WorkerSet(w, [worker[w] EXCEPT !.pc = "update_rows", !.part = Rows(d)])
       \/ /\ At(w, "clean_index")
          /\ Rows(d) # {}
          /\ index' = {s \in index : s.doc # d}
          /\ WorkerSet(w, [worker[w] EXCEPT !.pc = "clean_rows", !.part = Rows(d)])
    /\ UNCHANGED <<status, segment, enabled, splits, crashes, disturbed>>

\* Mutant: the deletion of the rows is not committed before the next run.
DropRows_Uncommitted(w, d) ==
    /\ worker[w].doc = d
    /\ At(w, "update_rows")
    /\ WorkerSet(w, [NoWork EXCEPT !.pc = "next", !.batch = {d}])
    /\ UNCHANGED <<status, segment, enabled, index, splits, crashes, disturbed>>

DropRows(w, d) ==
    /\ worker[w].doc = d
    /\ \/ /\ At(w, "update_rows")
          /\ WorkerSet(w, [NoWork EXCEPT !.pc = "next", !.batch = {d}])
       \/ /\ At(w, "clean_rows")
          /\ WorkerSet(w, NoWork)
    /\ segment' = SegmentsSet(worker[w].part, "none")
    /\ enabled' = enabled \ worker[w].part
    /\ UNCHANGED <<status, index, splits, crashes, disturbed>>

NothingToClean(w, d) ==
    /\ At(w, "clean_index") /\ worker[w].doc = d
    /\ Rows(d) = {}
    /\ Release(w)

\* A failed clean-up is logged; an update goes on and indexes all the same.
CleanUpFails(w, d) ==
    /\ worker[w].doc = d
    /\ \/ /\ worker[w].pc \in {"update_index", "update_rows"}
          /\ WorkerSet(w, [NoWork EXCEPT !.pc = "next", !.batch = {d}])
       \/ /\ worker[w].pc \in {"clean_index", "clean_rows"}
          /\ WorkerSet(w, NoWork)
    /\ disturbed' = disturbed \cup {d}
    /\ UNCHANGED <<status, segment, enabled, index, splits, crashes>>

\* Celery acknowledges a task before it runs it: a killed worker loses it.
Crash(w) ==
    /\ ~At(w, "idle")
    /\ crashes < MaxCrashes
    /\ crashes' = crashes + 1
    /\ disturbed' = disturbed \cup {d \in Documents : Holds(w, d)}
    /\ WorkerSet(w, NoWork)
    /\ UNCHANGED <<status, segment, enabled, index, splits>>

-----------------------------------------------------------------------------

StartRequest(c, d) ==
    \/ PauseRequest(c, d) \/ RecoverRequest(c, d)
    \/ DeleteRequest(c, d) \/ UpdateRequest(c, d)

ContinueRequest(c, d) ==
    \/ PauseCommit(c, d) \/ PauseSetFlag(c, d)
    \/ RecoverCommit(c, d) \/ RecoverClearFlag(c, d) \/ RecoverEnqueue(c, d)
    \/ DeleteCommit(c, d)
    \/ UpdateCommit(c, d) \/ UpdateMark(c, d) \/ UpdateEnqueue(c, d)
    \/ RequestFails(c, d)

TakeTask(w) ==
    \/ TakeIndex(w)
    \/ \E d \in Documents :
         \/ TakeRecover(w, d) \/ TakeUpdate(w, d) \/ TakeClean(w, d)
         \/ TakeNothing(w, d)

RunDocument(w, d) ==
    \/ NextDocument(w, d) \/ Load(w, d) \/ SetSplitting(w, d) \/ Split(w, d)
    \/ EndSplit(w, d) \/ SetIndexing(w, d) \/ MarkSegments(w, d)
    \/ BeginChunk(w, d) \/ FinishChunk(w, d) \/ EndBuild(w, d)
    \/ SetCompleted(w, d) \/ StopPaused(w, d) \/ StopDeleted(w, d)
    \/ Fail(w, d) \/ PurgeSegments(w, d) \/ CollectSegments(w, d)
    \/ DropIndex(w, d) \/ DropRows(w, d) \/ NothingToClean(w, d)
    \/ CleanUpFails(w, d)

RunTask(w) ==
    \/ EndTask(w) \/ AddTexts(w)
    \/ \E s \in Segment : SaveSegment(w, s)
    \/ \E d \in Documents : RunDocument(w, d)

Next ==
    \/ \E c \in Clients : \/ \E ds \in SUBSET Documents : UploadCommit(c, ds)
                           \/ UploadEnqueue(c)
                           \/ \E d \in Documents : StartRequest(c, d) \/ ContinueRequest(c, d)
    \/ \E w \in Workers : TakeTask(w) \/ RunTask(w) \/ Crash(w)

\* A request that was accepted runs to its end and workers keep consuming;
\* nobody has to make a request and no worker has to crash.
Fairness ==
    /\ \A c \in Clients : WF_vars(UploadEnqueue(c) \/ \E d \in Documents : ContinueRequest(c, d))
    /\ \A w \in Workers : WF_vars(TakeTask(w) \/ RunTask(w))

Spec == Init /\ [][Next]_vars

FairSpec == Spec /\ Fairness

-----------------------------------------------------------------------------
(* Properties *)

Idle(d) ==
    /\ \A w \in Workers : ~Holds(w, d)
    /\ \A c \in Clients : d \notin client[c].docs
    /\ \A i \in 1..Len(queue) : d \notin queue[i].docs

\* A row is marked completed only when the vector index has its entry, and
\* loses the entry only together with the row: retrieval trusts the status
\* (dataset_retriever_tool.py), so a completed row without an entry is never
\* found again and nothing repairs it.
CompletedRowIsIndexed ==
    \A s \in Segment :
      segment[s] = "completed" /\ s.doc \notin disturbed =>
        \/ s \in index
        \/ \E w \in Workers : /\ worker[w].pc \in {"update_rows", "clean_rows"}
                              /\ s \in worker[w].part

\* A completed document, however often it was paused, resumed or updated on
\* the way, has each of its pieces in exactly one row, completed and enabled,
\* and in the index, and no other entry in the index.
CompletedDocumentIsWhole ==
    \A d \in Documents :
      status[d] = "completed" /\ d \notin disturbed
        /\ (\A w \in Workers : ~Holds(w, d))
        /\ (\A c \in Clients : ~Request(c, "delete_commit", d)) =>
        /\ \A p \in Pieces : Cardinality({s \in Rows(d) : s.piece = p}) = 1
        /\ \A s \in Rows(d) : segment[s] = "completed" /\ s \in enabled
        /\ {s \in index : s.doc = d} = Rows(d)

\* Whenever a pause takes hold, what it leaves can be resumed to the whole
\* document: an interrupted split is thrown away, and after the split every
\* piece has one row, indexed or in the status that the next run completes.
PausedIsResumable ==
    \A d \in Documents :
      Idle(d) /\ is_paused[d] /\ d \notin disturbed =>
        /\ status[d] \in {"waiting", "parsing"} => Rows(d) = {}
        /\ status[d] = "splitting" => {s \in index : s.doc = d} = {}
        /\ status[d] = "indexing" =>
             /\ \A p \in Pieces : Cardinality({s \in Rows(d) : s.piece = p}) = 1
             /\ \A s \in Rows(d) : segment[s] \in {"indexing", "completed"}

\* Once the clean-up of a deleted document is over, nothing of it is left
\* for a search to return.
DeletedLeavesNothing ==
    \A d \in Documents :
      Idle(d) /\ status[d] = "deleted" /\ d \notin disturbed =>
        Rows(d) = {} /\ {s \in index : s.doc = d} = {}

\* Every change of the status of a document goes along the life cycle that
\* the statuses name.  A task that runs too late or twice would move it back.
Lifecycle ==
    LET order == <<"absent", "waiting", "parsing", "splitting", "indexing", "completed">>
        working == {"waiting", "parsing", "splitting", "indexing"} IN
      {<<order[i], order[i + 1]>> : i \in 1..5}
        \cup {<<"waiting", "splitting">>, <<"completed", "waiting">>}
        \cup (working \X {"error"})
        \cup ((working \cup {"completed", "error"}) \X {"deleted"})

StatusFollowsLifecycle ==
    [][\A d \in Documents :
         d \notin disturbed' /\ status'[d] # status[d] =>
           <<status[d], status'[d]>> \in Lifecycle]_vars

\* Resuming continues where the pause left off: a completed segment is not
\* taken back by a later run, it goes only with an update or a deletion.
ResumeKeepsCompleted ==
    [][\A s \in Segment :
         segment[s] = "completed" /\ s.doc \notin disturbed' =>
           \/ segment'[s] \in {"completed", "re_segment"}
           \/ \E w \in Workers : /\ worker[w].pc \in {"update_rows", "clean_rows"}
                                 /\ s \in worker[w].part]_vars

\* A batch that nobody pauses, deletes or kills is indexed to the end: each of
\* its documents completes or ends in error, and one's error stops no other.
UninterruptedFinishes ==
    [](\A d \in Documents : ~is_paused[d] /\ status[d] # "deleted" /\ d \notin disturbed)
      => \A d \in Documents : status[d] = "waiting" ~> status[d] \in {"completed", "error"}

\* A recovery that was accepted is carried out: whatever status the pause left
\* the document in, it ends, unless it is paused or deleted again.
RecoverResumes ==
    \A c \in Clients, d \in Documents :
      Request(c, "recover_flag", d) ~>
        \/ status[d] \in {"completed", "error", "deleted"}
        \/ is_paused[d]
        \/ d \in disturbed

\* What the API answers to a pause ("Cannot pause completed document.",
\* controllers/console/datasets/datasets_document.py:820).
CompletedNeverPaused ==
    \A d \in Documents : ~(status[d] = "completed" /\ is_paused[d])

\* What the API answers to a deletion ("Cannot delete document during
\* indexing.", controllers/console/datasets/datasets_document.py:644).
DeleteNotDuringIndexing ==
    [][\A c \in Clients, d \in Documents :
         client[c].pc = "idle" /\ Request(c, "delete_commit", d)' =>
           status[d] \notin {"parsing", "splitting", "indexing"}]_vars

\* What the console says of a stop ("If you need to resume processing later,
\* you will continue from where you left off", web/i18n/lang/
\* dataset-documents.en.ts:57): with pauses and resumes alone, no completed
\* segment is taken back.
ResumeContinues ==
    [][\A s \in Segment : segment[s] = "completed" => segment'[s] = "completed"]_vars
=============================================================================
