# Verification of dify: document indexing, the keyword table, streamed answers and the pages over them

TLA+ modules, TLC runs and TLAPS proofs for the parts of dify whose behaviour depends on
interleavings: on the server API requests, Celery workers, Redis keys, database rows and search
indexes; in the browser clicks, requests in flight, streams, timers and arrays that callbacks share.
Every definition is translated from the code under `src/`; `PROJECT.json` names the lines
(`map`), the runs, a mutant for each property, the hazards and the findings.

| file | content |
| --- | --- |
| `DocumentIndexing.tla` | requests on documents, the queue, the indexing tasks and `IndexingRunner`; properties |
| `MCDocumentIndexing.tla` | instances for TLC |
| `DocumentIndexing_proofs.tla` | type correctness and `CompletedRowIsIndexed`, proved |
| `DocumentLifecycle_proofs.tla` | the other safety and action properties of `DocumentIndexing`, proved |
| `KeywordIndex.tla` | what the keyword index of a dataset promises, as an abstract specification |
| `KeywordTable.tla` | the keyword table, its calls and the jobs made of them; properties |
| `MCKeywordTable.tla` | instances for TLC |
| `KeywordTable_proofs.tla` | type correctness, the refinement of `KeywordIndex` and `ShownKeywordsFind`, proved |
| `BatchGeneration.tla` | the text generation page: runs, batches in groups, retries, time-outs; properties |
| `MCBatchGeneration.tla` | instances for TLC |
| `BatchGeneration_proofs.tla` | types, completed rows stay, what the groups bound, a batch goes on, proved |
| `ChatPage.tla` | the four chat pages: messages, streams, switching conversations; properties |
| `MCChatPage.tla` | instances for TLC |
| `ChatPage_proofs.tla` | types, one answer at a time, no wait for nothing, the page shows its conversation, an answer given up is silent, proved |
| `FileUploader.tla` | the file list of the dataset wizard and its uploads |
| `FileUploader_proofs.tla` | the invariant of the list, kept by every operation |
| `DatasetWizard.tla` | the three steps of the wizard over `FileUploader`; properties of both |
| `MCDatasetWizard.tla` | instances for TLC |
| `DatasetWizard_proofs.tla` | all safety properties of the wizard and its uploader, proved |
| `CompletionStream.tla` | a streamed answer: worker, moderation thread, countdown, reader, stop; properties |
| `MCCompletionStream.tla` | instance for TLC |
| `CompletionStream_proofs.tla` | types and all safety properties of the stream, proved |
| `IndexingRaces.cfg`, `IndexingUpdate.cfg`, `IndexingBatch.cfg`, `KeywordWriters.cfg`, `BatchGeneration.cfg`, `ChatPage.cfg`, `DatasetWizard.cfg`, `CompletionStream.cfg` | runs that pass |
| `PauseCompleted.cfg`, `DeleteDuringIndexing.cfg`, `ResumeRace.cfg`, `KeywordEdit.cfg` | runs that refute a statement of the API or the console |

    tlc -config IndexingRaces.cfg MCDocumentIndexing.tla
    tlc -config KeywordWriters.cfg MCKeywordTable.tla
    tlc -config BatchGeneration.cfg MCBatchGeneration.tla
    tlc -config ChatPage.cfg MCChatPage.tla
    tlc -config DatasetWizard.cfg MCDatasetWizard.tla
    tlc -config CompletionStream.cfg MCCompletionStream.tla
    tlapm DocumentIndexing_proofs.tla        (and the other *_proofs.tla)

## Inventory

dify is a Flask API (`api/`), Celery workers that run the same code (`api/tasks`), PostgreSQL,
Redis (broker, locks, flags, the channel of a streamed answer), a vector store, and a web
frontend (`web/`).

| component | state | operations | what is hard | what makes it correct |
| --- | --- | --- | --- | --- |
| Document indexing (`core/indexing_runner.py`, `tasks/*document*`) | `documents.indexing_status`, `is_paused`, segments and their status, Redis `document_{id}_is_paused`, vector index, queue | run, resume in splitting, resume in indexing, update, clean | pauses between any two steps, two workers on one document, deletions below a running task, lost tasks | a completed document is whole; a paused one can be resumed; a deleted one leaves nothing; the status follows its life cycle; a batch finishes |
| Requests on documents (`services/dataset_service.py`) | the request's loaded row | upload, pause, recover, delete, update | check, commit, Redis and task are separate steps | what the API answers holds |
| Keyword table (`core/index/keyword_table_index`) | one JSON value per dataset | add, delete, search | read-modify-write without a lock; insertion of the first row | a call changes its own nodes alone, unless it overlaps others; the keywords shown are those that find |
| Vector index (`core/index/vector_index`) | entries by node id | add, delete, recreate | rebuild of an old collection below other writers; duplicate filter | entries are those of the enabled segments |
| Availability of documents and segments (`datasets_document.py`, `datasets_segments.py`, `add_/remove_/enable_/disable_*` tasks) | `enabled`, `archived`, Redis `document_{id}_indexing`, `segment_{id}_indexing` | enable, disable, archive, un-archive | key read and set apart, expiring after 600 s, left by early returns | flags and index agree once tasks are done |
| Segment edits, CSV import (`services/vector_service.py`, `batch_create_segment_to_index_task.py`) | segments, both indexes, job key | create, update, delete, import | positions read and then used; rows committed before the index | unique positions; row and entries agree |
| Notion sync (`document_indexing_sync_task.py`) | as an update | sync | clean-up not committed before the run | as an update |
| Dataset deletion, change of technique (`clean_dataset_task.py`, `deal_dataset_vector_index_task.py`) | everything of a dataset | clean, add, remove | runs beside indexing | nothing is left |
| Collection binding, embedding cache | a row per model, a row per hash | get or create | two creators | one row |
| Completion streaming (`services/completion_service.py`, `core/conversation_message_task.py`) | Redis channel, stop key, message row, thread | start, publish, stop, time out, read | a late reader, a closed channel, a missing end | one message, then one end; what is shown is what is kept |
| Output moderation (`llm_callback_handler.py`) | buffer, final output, thread flag | append, check, replace, stop | two threads on unlocked fields | what is saved is shielded, and it is what is shown |
| Text generation page (`web/app/components/share/text-generation`) | task list, number of the group, one view with a timer per row | run once, run a file, retry, retry all, report | reports that come twice, late or after a new list | every row gets its turn; groups bound the first requests; completed rows stay so |
| Chat pages (`web/app/components/share/chat`, `share/chatbot`, `explore/universal-chat`) | current conversation, list, flags, the stream of a message | send, stop, switch, new chat, reload; what a stream and the requests after it bring | everything awaited lands after the page has moved on | the list is that of the conversation shown; one answer at a time; every wait ends |
| Dataset creation wizard (`web/app/components/datasets/create`) | file list (shown, in a ref, in the closures of uploads), settings, estimates, creations, polling | choose, remove, upload, next, back, switch, estimate, create, poll | arrays shared by callbacks, answers out of order, uploads under later steps | what is created is what was accepted, once; the preview is that of the settings; polling ends with the end |
| Configuration and debugging pages, the rest of the frontend | see `PROJECT.json` | | forms and lists over cached requests | |
| Memory, prompts, agents, model providers, accounts, files, billing | see `PROJECT.json` | | mostly sequential, or remote calls | |

Components meet in the tables, Redis and the queue: the requests commit a row, set or delete a
Redis key and send a task; the signal `document_was_deleted` sends the clean-up; a task writes
rows and both indexes; retrieval (`dataset_retriever_tool.py:165`) asks the vector index for node
ids and keeps those whose row is completed and enabled. The pages meet the server in requests and
streams: the wizard's last step polls what `DocumentIndexing` writes, the text and chat pages read
the streams of the completion service; of both they see only answers, errors and silence, in any
order the network allows, and that is how the server appears in their modules.

## Plan

Done, in this order:

1. `DocumentIndexing` with its runs and proofs.
2. `KeywordTable` with its contract `KeywordIndex`, checked and proved to implement it.
3. `BatchGeneration`, with its proofs.
4. `ChatPage`, one module for the four copies of the page, with its proofs.
5. `FileUploader` and, over it, `DatasetWizard`, with the proofs of both.
6. `CompletionStream`, the producing side of the streams that the pages read, with the moderation thread and proofs.

Left, in the order of what it would add:

1. Availability of documents and segments under their expiring keys, composed with the tasks of
   `DocumentIndexing` where they meet.
2. Notion sync, dataset deletion and change of technique as further actions over the index.
3. The segment list's paging and its stale closures; its positions that `multi_create_segment` makes equal.

## DocumentIndexing

### State

`status`, `is_paused` are the columns of `documents` ("absent" and "deleted" are no row);
`pauseFlag` is the Redis key; `segment` and `enabled` the rows of `document_segments`, known by
their `index_node_id`, which is fresh for every split (`[doc, split, piece]`); `index` the entries
of the vector index; `queue` the Celery queue `dataset`. `worker[w]` holds the program counter and
the locals of a task: the document at hand, the rest of the batch, `todo` (the segments the run was
given and has not indexed) and `part` (segments of the current step: still to be saved, the
current chunk, or the rows a clean-up read). `client[c]` is a request in flight, `seen` the value of
`is_paused` that it loaded.

### Actions

An action is what happens between two commits, Redis calls or index calls.

| code | actions |
| --- | --- |
| `save_document_with_dataset_id` | `UploadCommit`, `UploadEnqueue` |
| `pause_document` | `PauseRequest`, `PauseCommit`, `PauseSetFlag` |
| `recover_document` | `RecoverRequest`, `RecoverCommit`, `RecoverClearFlag`, `RecoverEnqueue` |
| `delete_document` and its signal | `DeleteRequest`, `DeleteCommit` |
| `update_document_with_dataset_id` | `UpdateRequest`, `UpdateCommit`, `UpdateMark`, `UpdateEnqueue` |
| the four tasks | `TakeIndex`, `TakeRecover`, `TakeUpdate`, `TakeClean`, `TakeNothing` |
| `run` | `NextDocument`, `Load`, `SetSplitting`, `Split`, `SaveSegment`, `EndSplit`, `SetIndexing`, `MarkSegments`, `BeginChunk`, `AddTexts`, `FinishChunk`, `EndBuild`, `SetCompleted`, `EndTask` |
| its handlers | `StopPaused`, `StopDeleted`, `Fail` |
| `run_in_splitting_status`, `run_in_indexing_status` | `PurgeSegments`, `CollectSegments` |
| clean-up of an update or deletion | `DropIndex`, `DropRows`, `NothingToClean`, `CleanUpFails` |
| a killed worker | `Crash`: Celery acknowledges a message on receipt, the task is lost |

Details that are easily missed and are modelled: the two pause checks read different things (the
column before a status change, the Redis key before a chunk); the ORM writes `is_paused` only if the
request changed the value it had loaded; a status update of a deleted row has no effect and the
runner notices at the next refresh; the handler of a deleted document fails as well and drops the
rest of the batch, as a pause does; the clean-up of a deletion does nothing to the index when the
document has no rows; an update whose clean-up fails is indexed all the same; "cleaning" is tested
for but never written.

### Abstractions

- The keyword table is left to its own module; a failing keyword table is one way for `Fail` and
  `CleanUpFails` to happen. `Fail` records the error on the document. After the failed insertion of
  the first row of a keyword table the record is lost as well, since the session needs a rollback that
  nobody does; that case is not modelled.
- One step: the read and the commit at the start of a task; the reading and deletion of the rows of
  an interrupted split; a whole `add_texts` (a failure may leave any part of a chunk in the index).
- The queue is FIFO and loses a message only with the worker that took it. The order of the
  documents of a batch is arbitrary. A request that dies between its commit and its task is not
  modelled.
- After a recovery that goes straight to the index (`run_in_indexing_status`) nothing has been committed, so
  `indexing_runner.py:673` does not notice that the document was deleted: the code embeds the first chunk and
  notices at the next check, the model notices before it. Both end in the same handler.
- `DocumentProcessingApi` (`datasets_document.py:603-619`), a second way to pause and resume that writes the
  column alone, without the Redis key and without a task, is not modelled. Its route
  `.../processing/<string:action>` (line 869) is hidden for both actions by the routes of `DocumentPauseApi` and
  `DocumentRecoverApi` (lines 877-878), since the router prefers a fixed path to a variable one; were it reached, its
  resumption would leave the document without a task.
- Documents are enabled and not archived. The content of a piece does not matter: a split yields a
  row per piece, an update replaces them all.
- `MaxRequests`, `MaxCrashes` bound the requests and crashes; `MaxSplits` never binds in the runs
  (a document is split at most once per upload, recovery or update).

### disturbed

Nothing in the code keeps two workers from the same document, and some of what then happens is
wrong (run `resume_race`). The history variable `disturbed` collects the documents that met one of
these: a task taken while another worker holds the document, or while a request or a queued task
is about to start another run of it (`Busy`); an update committed on a status that is no longer
"completed"; a crash; a failed clean-up. Properties speak of the other documents. Everything
else - pauses, recoveries, deletions and updates at any step, failures of loading, splitting,
embedding, deleted rows under a running task, batches - is inside.

### Properties

| property | meaning |
| --- | --- |
| `TypeOK` | types |
| `CompletedRowIsIndexed` | a completed row has its vector entry, or a clean-up is about to drop both |
| `CompletedDocumentIsWhole` | a completed document has each piece in exactly one completed, enabled row, the index holds exactly these |
| `PausedIsResumable` | what a pause leaves can be carried on to a whole document |
| `DeletedLeavesNothing` | after the clean-up of a deleted document no row and no entry remain |
| `StatusFollowsLifecycle` | no step moves a status back or past a stage |
| `ResumeKeepsCompleted` | only an update or a deletion takes a completed row back |
| `UninterruptedFinishes` | a batch nobody interferes with ends, every document completed or in error |
| `RecoverResumes` | an accepted recovery is carried out, unless the document is paused again, deleted or disturbed |

### Runs

| run | instance | shows |
| --- | --- | --- |
| `indexing_races` | 1 document, 2 chunks of 1 piece, 2 workers, 2 requests at a time, 3 requests | the safety and action properties under pause, recovery, deletion |
| `indexing_update` | the same with updates, one request at a time and one crash | that an update replaces the document, whatever pauses, resumes, deletes or kills it |
| `indexing_batch` | 2 documents in one batch, 1 worker, 1 request at a time, 3 requests | liveness |
| `pause_completed` | 1 worker, 1 request | a document completed and paused |
| `delete_during_indexing` | 1 worker, 1 request | a deletion during indexing |
| `resume_race` | 2 workers, 1 request | a completed segment taken back with pauses and recoveries alone |

Two workers and two requests are the smallest number for each race between two of a kind and
between the kinds; two chunks put a pause between two completed parts; three requests make
pause-recover-delete and pause-recover-pause sequences. More documents only meet in a batch, which has a
run of its own. The runs allow termination: a state where all requests are spent and all workers
idle has no successor, hence `CHECK_DEADLOCK FALSE`.

Fairness (`indexing_batch`): weak fairness of each request once accepted, which is a thread of the
API server running to its end, and of each worker, which consumes its queue as long as it lives
(`docker/entrypoint.sh:10`). No fairness for starting a request or for a crash. `RecoverResumes` is
checked with one request at a time. With two, a pause and a recovery can interleave their writes so
that the Redis key stays set with the column clear, and the document stops with nobody able to
recover it: `recover_document` refuses a document that is not paused.

### Findings

1. A document can be completed and paused: the pause is decided on the status it read and
   committed later, the completion likewise. The API answers such a pause with "Cannot pause
   completed document." (`datasets_document.py:820`).
2. A document can be deleted while it is indexed; the handler that answers "Cannot delete document
   during indexing." (`datasets_document.py:644`) is never reached.
3. A recovery soon after a pause runs beside the paused worker, which has not come to a check, and
   takes back segments it completed; the console promises "you will continue from where you left
   off" (`web/i18n/lang/dataset-documents.en.ts:57`).

## KeywordTable

### State

`exists` and `table` are the row of `dataset_keyword_tables` and its JSON dictionary from keywords to
node ids; `keywords` the column of the segments. `writer[w]` is a task or a request: where it is in
its call, the call at hand and those after it (`calls`), the dictionary as the call has it in memory,
and the texts still to add (`todo`).

Three history variables: `missed[w]`, the nodes others wrote since `w` read the table; `unsure`,
the nodes that a save may have undone; `doubtful`, these and the nodes whose column and table
may differ for a reason the code does not handle - a job that ended in the middle, an edit that
failed, a column changed between its loading and the call it was loaded for. A deletion of the node
that nobody else is at work on clears it.

### Actions

| code | actions |
| --- | --- |
| the jobs of tasks and services | `IndexTexts`, `CreateSegments`, `Remove`, `Rewrite`, `Edit`, `EditFails` |
| `_get_dataset_keyword_table` | `ReadTable`, `InsertRow`, `InsertFails` |
| `_update_segment_keywords`, `_add_text_to_keyword_table` | `AddText` |
| `segment.keywords` of an edit | `LoadKeywords` |
| `_save_dataset_keyword_table` | `Save`, `SaveFails` |
| `delete` | `DropTable` |
| end of a job, killed process | `EndJob`, `Kill` |

An action is what happens between two commits. The save queries the row again - the identity map of
the session is weak, and nobody keeps the row that was read - and so it overwrites what is there
by then, and fails if the row has gone. Easily missed and modelled: `add_texts` commits the column of
each text before the table is saved, `multi_create_segment_keywords` commits columns and table
together, and after a failed save the handler of `multi_create_segment` commits the columns alone; an
edit passes on the column as it is then, not the keywords of the request; `_delete_ids_...` removes a
keyword with its last node.

### Abstractions

- Extracting keywords is a choice of a set of keywords (`WordSets`) for each text. The segments
  exist as long as a call names them. `create_segment_keywords` is `add_texts` of one text.
- `delete` reads and deletes the row in one step. Deleting the whole dataset is left out.
- Transactions are READ COMMITTED; the reads and writes between two commits are one step.
- The vector index beside it is left out: a failure there ends a job as `Kill` does.
- Bounds: `MaxJobs` jobs and `MaxKills` kills.

### KeywordIndex

The contract knows calls and returns only. A call takes effect at its return, all at once, on the
nodes it names: an addition adds its keywords, a deletion leaves none. The nodes that others wrote
between its begin and its return may be undone and become `unsure`; nothing is said of them until
they are deleted. A failed call has no effect. `entries` is mapped to the keywords that find a
node (none for an unsure one), `open` to the call of each writer that has read the table and not
saved it. The contract is the strongest that overlapping writers allow: which writer wins is not
said, but a node that nobody else touched is never lost, brought back or given other keywords.

### Properties

| property | meaning |
| --- | --- |
| `TypeOK` | types; a keyword in the table has a node |
| `KeepsContract` | the table implements `KeywordIndex` |
| `ShownKeywordsFind` | outside `doubtful`, once no job is at work on a segment, either the table has nothing of it or the keywords shown with it find it |

### Runs

| run | instance | shows |
| --- | --- | --- |
| `keyword_writers` | 2 writers, 2 nodes, 2 keywords, 3 jobs of any kind, 1 kill | the three properties |
| `keyword_edit` | 1 writer, 1 node, jobs to index and to edit | an edit without `enabled` |

Two writers are enough for an overlap, two nodes for one that is named and one that is not, two
keywords for one that loses its last node and one that stays; three jobs make an entry, an overlap on
it and what comes after. All three are proved for any number. A writer is idle when its jobs are spent, hence
`CHECK_DEADLOCK FALSE`. There is no liveness: every call is a straight line.

### Finding

An edit of a segment whose content stays, given keywords and no `enabled`, raises `KeyError` in
`update_segment` (`dataset_service.py:1109`) after the column was set; the handler disables the
segment and commits the column, and the table keeps the old keywords. The API documents the field
as "not required" (`template.en.mdx:944`), and the console never sends it.

## BatchGeneration

### State

`tasks` is `allTaskList`; `isCallBatchAPI`, `currGroupNum` and `controlRetry` are the page's. A cell is
a row, or 0 for the single result of "run once". Each cell has at most one mounted `Result` (`view`, named by
its first try) with its flag `busy` (`isResponsing`); `attempts[i][k]` is the k-th request of
a cell: the view it was sent from and whether it is open, given up (`late`) or gone.
`inherited` and `quiet` are history: the group number that a list began with, and whether requests of an
earlier list were still open then.

### Actions

One action is one callback of the browser with the rendering and the effects that follow it: `Report`
computes the list twice if `handleCompleted` is called twice, then mounts the views of rows that are no
longer pending and lets views send on their effects (`controlSend`, `controlRetry`).

| code | actions |
| --- | --- |
| `handleSend` with the view's `checkCanSend`, `handleRunBatch` with `checkBatchInputs` | `RunOnce`, `RunBatch` |
| `handleRetryAllFailedTask`, `onRetry` | `RetryAll`, `Retry` |
| `onCompleted`, `onError` of `Result`, `handleStream` of `service/base.ts` | `Complete`, `Refuse`, `FailInStream` |
| the one-minute interval of `Result` | `TimeOut` |
| `handleCompleted` of the page | `ListAfter`, `GroupAfter` in `Report` |

Left out: what the texts say, feedback, saved messages, the export. A view that is gone keeps its
callbacks, as its promises do. A connection that breaks after the response began calls nobody
(`reader.read()` is rejected in `handleStream`): the request stays open and only its time-out reports.

### Properties and run

| property | meaning |
| --- | --- |
| `StuckOnlyByStaleGroup` | rows stay pending with nobody left to report only if the list took over the group number of an earlier one |
| `GroupsBoundTheRequests` | in a list made while no request was open, a row has at most one request its view waits for, and at most `GROUP_SIZE + 1` rows wait for their first report |
| `CompletedStays` | a completed row is not taken back by a request that was given up |
| `EveryRowGetsItsTurn` | each row of the first list gets its turn |

`batch_generation`: groups of 2 (5 in the code), 4 rows, so two groups and a rest; files of 4 and 2 rows and three that
are refused; 2 clicks, so a second list or a retry at any point of the first; 3 requests
per cell, which never stops a report on this instance. With 2 clicks only the request of a single run can be open when a list
is made. Requests of an earlier list take a third click ("run once" clears the list in between, and its
requests go on): one of them then reports on a row that was not started, and with groups of 2 and 5 rows 4 rows run at
a time. `GroupsBoundTheRequests` and `CompletedStays` are about lists without such requests (`quiet`), and their proofs
hold for any number of clicks. Fairness: the intervals of the views run, as the
browser runs them; nobody has to answer. The page may stop, hence `CHECK_DEADLOCK FALSE`.

What the model shows of the code, and the properties except: the groups do not bound all requests, although the comment
on `GROUP_SIZE` gives the rate limit as their reason ("to avoid RPM(Request per minute) limit. The group task finished
then the next group.", `index.tsx:32`) - "retry all" sends for every failed row at once, on top of the group that runs, and
a request that its view gave up after a minute goes on beside its retry; neither is counted by
`GroupsBoundTheRequests`; `currGroupNum` is never reset, so a
second batch can stop before its second group (`StuckOnlyByStaleGroup` allows it); callbacks of an
earlier list report into the new one (`quiet`); an error line in a stream reports failed and then
completed; after one "retry all", every later failure is sent again by itself, since the effect
depends on a counter that reaches the view only then.

## ChatPage

### State

`curr`, `chatStarted`, `becauseOfNew`, `list`, `responding` and the other flags are the React state of
the page; `loads` the conversations whose messages are being fetched; `sends[k]` the k-th message: its
phase, the conversation it was sent from (the closure's value) and the one the page will go to when it is answered.
Conversation `Existing + k` is the one that the server makes for message k. A new chat has no id: the code knows
each as '-1' and cannot tell one from the next, so the history variable `earlier` holds the messages sent before the last
new chat was begun. More history: `slipped`, the list
was written by something of another conversation; `early`, a stop or a request after an older answer
freed the page during an answer; `givenUp`, the message that "new chat" aborted last.

### Actions

| code | actions |
| --- | --- |
| `handleStartChat`, `handleConversationIdChange`, `handleReload`, `createNewChat` | `StartChat`, `NewChat`, `Switch`, `Reload` |
| `handleSend` | `Send`, `Respond`, `Refuse` |
| `onData`, `onThought`, `onMessageEnd`, `onAnnotationReply` | `Data`, `Thought`, `MessageEnd`, `AnnotationReply` |
| `onCompleted` and the requests it awaits | `Complete`, `Named`, `Suggested` |
| `onError`, a broken connection | `FailInStream`, `OnError`, `Break` |
| `abortResponsing` | `Stop`, `Stopped` |
| `handleConversationSwitch` | `GoTo`, `Load`, `LoadFails` |

The four pages are copies that have drifted apart; `page` chooses one, and the guards name where they
differ. Left out: texts, inputs, `onMessageReplace` (text in place), pinning, renaming, deleting.

### Properties and run

| property | meaning |
| --- | --- |
| `ShownIsCurrent` | with nothing being loaded, every item shown belongs to the current conversation; in a new chat, to this one and not to one begun before |
| `StuckOnlyAfterFailure` | the page waits only while something under way can end the wait |
| `OneAtATime` | two answers are not in flight together |
| `GivenUpIsSilent` | nothing of an answer given up by "new chat" is shown afterwards |
| `RespondingEnds` | every wait ends |

`chat_page`: all four pages, 1 existing conversation beside the new chats and the conversations that the messages
make, 2 messages, 3 other clicks: enough to leave a conversation or a new chat and come back, or to begin a second new
chat, while the first answer streams, and to stop and send again (848,334 states). The safety properties were also checked
with 2 existing conversations (3,200,652 states). Fairness: each message comes forward, which is the server closing
every stream and answering or refusing every request; the user owes nothing, `Data` owes nothing.

`TypeOK`, the types of all variables, is proved and not a run's property.

What else the code does and the properties except: `onMessageEnd` (installed, universal) and
`onAnnotationReply` (web, installed) write into whatever list is shown, and a load that comes late
replaces it (`slipped`); on the universal page the stream of a new chat that was left can write into the next new
chat - after "stop" has freed the page during the first answer and a second message has moved the abort controller, "new
chat" aborts the second only, and `onData` of the first compares '-1' with '-1' (`WentOn`, noted in `slipped`; this takes a
page freed too early, so that two answers are in flight); the request for the name or the suggestions of an older answer resets
`isResponsing` while a newer one streams, and "stop" frees the page before the stream has ended and
names the last task seen, which may be the message before (`early`); the end of an answer takes the
page back to its conversation; after a broken connection or a failing follow-up request the page
waits for good (`Broken`). `onError` says "role back placeholder answer" (`share/chat/index.tsx:636`);
when the user has switched away before the request is refused, the placeholder is not in the list,
`findIndex` gives -1 and `splice(-1, 1)` removes the last message of the conversation shown
(`WithoutPlaceholder` does this; no property denies it).

## FileUploader and DatasetWizard

### State

JavaScript arrays are changed in place by several callbacks, so they have an identity here: `lists` holds
every array that was ever in a ref, `fileListRef[m]` the one in the ref of the m-th mount of the uploader,
`fileListCopy[f]` the one the upload of `f` took with it, `fileList` what the wizard shows. `phase[f]`
is where the upload is. `DatasetWizard` adds the step, the requests that create documents, the settings
and the two estimate slots of step two with the requests for them (`asked`), and step three's polls
(`asking`, `answers`) with the documents they are about. A creation has a state on
the page (open, done, failed, given up) and, apart from it, `made`: whether the server has committed its documents.
History: `overlapped`, a ref was replaced under an
upload; `anyFailed`; `lostEstimate`, `overtakenEstimate`, a request for an estimate failed, or was answered before
an earlier one of the same rules; `blankStop`, `overtaken`, how polling ended.

### Actions

| code | actions |
| --- | --- |
| `initialUpload`, `removeFile` | `Select`, `Remove` |
| `onUploadProgress`, `fileUpload`, `uploadBatchFiles`, `uploadMultipleFiles` | `Progress`, `Sent`, `Uploaded`, `UploadFailed`, `NextBatch` |
| `nextStep`, `changeStep` | `nextStep`, `Back` |
| controls of step two and the effect of `[segmentationType, indexType]` | `setSegmentationType`, `setIndexType`, `handleSwitch`, `confirmChangeCustomConfig`, `previewSwitch`, `hidePreview`, `ModeEffect` |
| `fetchFileIndexingEstimate` | `FetchEstimate`, `Estimated`, `EstimateFails` |
| `createHandle`, the server's part and the time-out of `service/base.ts` | `createHandle`, `Make`, `Created`, `CreationFails`, `GiveUp` |
| `startQueryStatus`, `fetchIndexingStatus` | `Tick`, `Serve`, `PollFails`, `Answer`; the workers are `Indexed` |

Left out: Notion pages, adding to an existing dataset, the values of the rules, the retrieval settings.

### Properties and run

| property | meaning |
| --- | --- |
| `ShownIsKept` | what is shown is what the ref holds |
| `NextRefusedForAReason` | "next" stays refused only after a failure or a replaced ref |
| `EveryFileIsSent` | every file chosen is sent |
| `CreatedIsAccepted` | the documents are made of the files that were accepted on entering step two |
| `OneCreationPerVisit` | one visit to step two makes no two datasets, unless the page gave the first creation up |
| `PreviewIsOfTheSettings` | once nothing more is asked for under the rules on the page, the preview is that of the index type and form on the page, unless an answer overtook an earlier one of the same rules or a request failed |
| `CalculatingMeansAsked` | "calculating" is shown only while an estimate is on its way |
| `StoppedShowsTheEnd`, `PollingEnds` | polling stops, and then shows how every document ended |

`dataset_wizard`: 2 files in batches of 1 (20 in the code), so one waits for the other; 3 selections and
removals, so a file can be added or removed under an upload and after it; one visit to step two, 2
creations, 2 clicks on the settings per visit, which is what it takes to switch there and back; 2 polls
in flight, one lost estimate or poll (574,533 states). The safety properties were also checked with two visits
(2,875,282 states) and,
of the uploader, with 3 files, 5 changes and 3 visits; they and `TypeOK` are proved for all bounds. Fairness: a browser ends every upload, the interval of step three
runs, the server answers or a poll fails, workers end documents. Estimates, creations and users owe
nothing. The wizard may stop, hence `CHECK_DEADLOCK FALSE`.

What the code does and the properties except: a creation that the page takes for failed may have succeeded or succeed
later - every request is raced with a time-out of 100 s (`service/base.ts:229-234`), an answer can be lost, and the server can
fail after a commit - while `finally` of `createHandle` (`step-two/index.tsx:395-403`) frees the button, so that a second
click makes a second dataset (`"given up"` in `OneCreationPerVisit`); an upload that ends with an old copy of the list brings
removed files back and hides later ones, and those without an id keep "next" disabled
(`overlapped`); a failed upload has no remove icon; after "previous" the uploader is mounted with an
empty ref, so adding a file drops the earlier ones; an upload that ends under step two changes what is
created (`.filter(Boolean)` drops what has no id); a creation answered after "previous" jumps to step
three, and two visits can make two datasets, of which step three lists one and polls the other; polling stops
before any answer when the first takes more than 2.5 s (`[].every` is true; `blankStop`); an estimate of
the text that overtakes one of questions and answers leaves that preview loading, and more generally an older answer that comes
last stays in its slot (`overtakenEstimate`).

Not modelled: the server commits the dataset with its process rule (`dataset_service.py:510`) before it has looked at the
files, so that an error after it leaves a nameless dataset without documents.

## CompletionStream

### State

`worker` is where the thread of `generate_worker` is, from the start of the answer over each token of the model to
the last publication; `completion` what it has of the answer, `stored` the column `messages.answer`. `chan` is
the channel of Redis as the reader has not read it; who is not subscribed gets nothing. `stopKey` is
`generate_result_stopped:...`, `countdown` the thread that waits ten minutes. `reviewer`, `buffered`, `running`,
`direct`, `looked`, `reviewed` and `outcome` are the moderation thread and the unlocked fields it shares
with the worker. `reader`, `shown` are the request of the client and the text the client has. A text is a sequence of
tokens, masks, the preset response, an annotation. What `save_message` keeps of a text is not the text:
`remove_template_variables(completion.strip())` (`conversation_message_task.py:220-221`) takes off the white space around it and
one pair of the braces of every `{{name}}` in it (`prompt_template.py:37-39`). `AsKept` does this on tokens: `Blank` are the
tokens that are white space, `Variables` the words that hold a variable, `Single(w)` such a word with one pair of braces less.
Every way of saving goes through it (`Save`, `StopSave`, `Interrupt`) but the annotation, which is saved as it is. History: `saved`, by which way the answer was saved; `slips`,
how the threads missed each other; `afterStop`, texts published under the key, per thread.

### Actions

Between two actions a thread can be overtaken: at each publication, at each look at the key and at each field it shares.

| code | actions |
| --- | --- |
| `generate_worker`, `Completion.generate` | `Begin`, `BeginFails`, `ModelFails`, `PubError` |
| `query_app_annotations_to_reply` | `BeginAnnotation`, `AnnotationEnd`, `AddAnnotationHistory` |
| `on_llm_new_token` | `NewToken`, `PublishToken`, `TokenDone`, `TokenStopped` |
| `on_llm_error` | `StopSave`, `Interrupt` |
| `on_llm_end` | `ModelEnds`, `ReviewFlags`, `ReviewPasses`, `PublishWhole`, `LastTextDone` |
| `save_message`, `end` | `Save`, `PubMessageEnd`, `End` |
| `OutputModerationHandler.worker` | `Look`, `Reviewed`, `Decide`, `Replace`, `ReplaceDone` |
| `countdown_and_close` | `TimeOut`, `Close`, `CountdownEnds` |
| `compact_response`, both modes | `Receive` (`ReceiveStreaming`, `ReceiveBlocking`), `Leave` |
| `ChatStopApi` and its key | `Stop`, `StopExpires` |

Left out: a token that is white space in part, and a variable spread over several tokens, of which the conversion changes
a part of a token or several at once; `is_final_chunk`, by which a turn of the moderation thread that
began before `stop_thread` may review less than a buffer, and whose outcome is kept back; the error that clients which take
every exception for a failure of the model (`zhipuai_model.py:57-58`) make `generate_worker` publish after the end, when no
reader hears it any more; thoughts of agents and chains, which are published before the answer; the pings of the countdown, which
are passed on and change nothing; tokens counted and prices; the names of conversations. That the client of the model (langchain) calls `on_llm_error` for an exception a callback has
raised, and has handled by itself already, is taken from its use here and appears as `reports`.

### Properties and run

| property | meaning |
| --- | --- |
| `KeptAsShown` | without moderation, what the client got to the end is what the database keeps, but for the white space around it and the braces of variables; a stop costs it one token |
| `ModeratedAsShown` | the same, with the same conversion, under moderation, unless the threads missed each other |
| `SavedIsShielded` | nothing flagged is saved as a whole answer, with or without its braces |
| `StopIsPrompt` | after a stop each thread publishes at most one more text (the worker two after an annotation) |
| `ReaderIsReleased` | the request of the client ends, unless the connection to the model breaks |
| `ReviewerEnds` | the moderation thread ends with the worker |

`completion_stream`: 2 tokens, of which the second is white space and the first holds a variable, as the preset response does; a buffer of 1, one review that gets no answer (691,488 states). With two tokens one is reviewed while the other is
on its way, and trails the replacement or finds the final output; each excuse of `slips` occurs. Both
modes, both actions of moderation and every set of bad tokens are initial states. The invariants were also checked with 3
tokens (5,777,612 states). `TypeOK` is proved and
not a run's property. The system may stop, hence `CHECK_DEADLOCK FALSE`.

Fairness: the steps of the worker and of the moderation thread that wait for nobody outside, the countdown (time passes), and the reader. The
model owes nothing: it may be silent for ever, and then it is the countdown that releases the reader. The
user owes nothing.

What the code does and the properties except: the moderation thread sets `final_output`, the worker sees it at the next
token, stops the thread and ends the stream, and the thread then keeps its replacement back ("kept back"), so
that the client keeps the flagged text, although `core/moderation/base.py:69` says that "the output content will be
shielded if the review fails"; when the connection to the model breaks half-way
(`core/completion.py:222`, "Interrupt by LLM (like OpenAI), handle it.") nothing is published, the countdown ends because the
worker did, and the request never does (`worker = "broken"` in `ReaderIsReleased`); a replacement decided before the last one is published after it, and
shows less masked text ("late"); a token under way when the replacement is published trails it ("trailing"); a stop that
meets an annotation is taken for a failed search, and the query is answered by the model too ("again"); a stop at the very
last text leaves the message unsaved; after an interrupt the end is saved and published twice.

## Proofs

`DocumentIndexing_proofs` proves, for all values of the constants under the named assumptions of
`DocumentIndexing` (a null document outside `Documents`, pieces a finite set of naturals, bounds
natural):

- `TypeCorrect`: `Spec => []TypeOK`. `TypeOK` is inductive; one lemma each for requests, for
  taking a task and for the steps of a worker, the last over `WorkerSetType`, which splits the typing of
  the worker's new state from that of the shared variables.
- `CompletedRowsAreIndexed`: `Spec => []CompletedRowIsIndexed`. The property is not inductive:
  `FinishChunk` marks rows on the strength of an `AddTexts` several steps earlier, and
  `DropIndex` of another worker may have come between. `IndexInv` adds that a worker's segments
  belong to the document it has at hand (`WorkersOwn`), that two workers hold one document only if it
  is in `disturbed` (`OneWorkerPerDocument`), and that the chunk about to be marked is indexed
  (`FinishIndexed`). `WorkerStep` states once what a step of a worker has to respect, and each
  action is shown to respect it; only `DropIndex`, which takes entries away, is treated by itself.
  TLC checked `IndexInv` on the instances of `indexing_races` and `indexing_update` before the proof.

`DocumentLifecycle_proofs`, over it, proves under the same assumptions the properties that speak of a whole document:

- `CompletedDocumentsAreWhole`, `PausedDocumentsAreResumable`, `DeletedDocumentsLeaveNothing`:
  `Spec => []CompletedDocumentIsWhole`, `[]PausedIsResumable`, `[]DeletedLeavesNothing`.
- `StatusChangesFollowLifecycle`, `ResumptionsKeepCompleted`: `Spec => StatusFollowsLifecycle` and
  `ResumeKeepsCompleted`, action properties.

They share one inductive invariant, `LifeInv`, because none can do without the others: a document is whole at its completion
only because its rows were one split's when they were marked, which they were because an earlier, interrupted
split was purged, which in turn nobody may overtake with a second start. `LifeInv` says of every undisturbed document d
that `Fits(x, d)`, where x is the state of the worker that has d, or `NoWork` when none has (`OneWorkerPerDocument`
leaves no third case). `Fits` has two parts. `Stage` is what the worker relies on at each place: under "save" the rows
are the pieces of its split already saved and the index has nothing of d; under "chunk" the rows are those of one split
and exactly the ones not completed are still to do; and so on. `Settled` is what holds whoever has d: what
each status says of the rows, that no start of a run is pending but on a status "waiting" and with nobody at work, and that,
once the deletion is decided, a clean-up is queued or under way as long as there are rows. Wherever `Stage` names a status
it also allows "deleted", since a deletion may come between any two steps of a worker. The argument has four kinds of step:
a worker's own document (`MoveFits`, one lemma per action), a document it does not touch (`FrameFits`), a request
(`OneRequestLifeInv`, with the tasks and requests that name a document counted by `InQueue` and `AtClient`), and the
taking of a task (`TakeFits`, where `~Busy` is what makes the new holder the only one). That the document has one row for
each piece follows from the form of a split (`OneRowPerPiece`). TLC checked `LifeInv` before the proof on the
instances of `indexing_races` and `indexing_update` and on one with two documents, two requests at a time and four
requests.

`KeywordTable_proofs` proves, for all values of the constants (sets of words within the keywords,
natural bounds, `NoCall` not a call):

- `TypeCorrect`: `Spec => []TypeOK`. Needs `CallsAtHand`: a writer past the start of a call has one.
- `TableKeepsContract`: `Spec => KeepsContract`. The invariant `TableInv` adds to these `NoRowNoTable`
  and `MemoryAgrees`: the dictionary of a writer is the table with its own additions so far, except on
  nodes it missed and on unsure ones. `SaveEffect` draws from it that a save is the effect of its call;
  the other steps are a begin, a failure, a drop or a stutter of `KeywordIndex`. The results of the two
  operations on the dictionary are lemmas of their own (`AddTextsResult`, `DeleteIdsResult`).
- `ShownKeywordsAreFound`: `Spec => []ShownKeywordsFind`. Column and table are written at different times, so the
  property says nothing of the time between. `ColumnInv` bridges it: what a writer has committed to a column, or loaded
  from it, is there still when it saves (`WrittenAgrees`, `LoadedAgrees`), unless it missed a write, the node is doubtful, or
  another writer is at work on it. The last case is what makes it inductive: a writer that changes a
  column mentions the node until it saves, and then the first has missed it, or until it ends without, and then the
  node is doubtful. `ColumnStep` states once what a step has to respect, `QuietColumns` and `DoubtingStep` its two usual
  forms; only `Save`, `AddText`, `Edit` and `DropTable` are treated by themselves. `SaveEffect` serves again to
  say what a save leaves in the table.
  TLC checked `ColumnInv` on the instance of `keyword_writers` before the proof.

`BatchGeneration_proofs` proves, for any size of the groups, any files, rows, clicks and requests:

- `TypeCorrect`: `Spec => []TypeOK`. The number of a group is at most that of the rows, since a group is only started
  while a row is pending (`GroupAfterType`).
- `CompletedRowsStay`: `Spec => CompletedStays`, an action property. `OpenIsAwaited` carries it: when no request of an
  earlier list reports, a row has one open request at most, its mounted view is responding for it, and the row
  is not completed. It needs that exactly the rows no longer pending have a view (`ViewsFollowRows`) and that
  without a batch the list is empty (`NoListNoRows`). A time-out ends the view's wait and makes the request late in one step,
  so that the retry after it is again the only open one.
- `LoadIsBounded`: `Spec => []GroupsBoundTheRequests`, and `BatchGoesOn`: `Spec => []StuckOnlyByStaleGroup` for groups of more than
  one row. That a row has one open request is `OpenIsAwaited` again, and a row with one that is not retried runs
  (`UnretriedRun`). Both theorems count the pending, running and finished rows, p, r and f. `LoadFits` says that while rows are pending, at most what is
  left of the group under way runs, `GROUP_SIZE + 1 - (1 + f) % GROUP_SIZE`; where `1 + f` is a multiple, at most one row,
  unless the group of that number has just been started. `GroupsGoOn` says that whole groups have been started, `(r + f) % GROUP_SIZE = 0`,
  and that a group is under way beyond `currGroupNum`, unless that number is the one inherited: so the last report of a group finds
  `hadRunedTaskNum` a multiple and not the number of a group started before. `ReportCounts` says what one `handleCompleted` does
  to the three numbers (`NextPendingCount`: `slice` takes a whole group or all that is left, by a bijection that numbers the
  pending rows, `Ranks`), `LoadStillFits` and `GroupsStillGoOn` are arithmetic on remainders, and a double report is two such
  steps. That nobody is left to report then means that no row runs (`RunningHasOpen`), which needs that
  a view only responds while a request of it is open (`BusyHasOpen`): else `handleRunBatch` would leave a row without a request.
  `BatchGoesOn` assumes `GROUP_SIZE # 1`, the code having 5: with groups of one row TLC finds a batch that stops by itself, as the second
  report of a row that is reported twice starts the next row under the number that this row's own end will count.
  TLC checked the invariant with groups of 2 and 5 rows, and in part with groups of 3 and 6 rows,
  before the proof.

`ChatPage_proofs` proves, for any number of messages, conversations and clicks and any set of the pages:

- `TypeCorrect`: `Spec => []TypeOK`.
- `OneAnswerAtATime`: `Spec => []OneAtATime`, and `NoWaitForNothing`: `Spec => []StuckOnlyAfterFailure`.
  The invariant adds `Alone`: unless freed early, a message in flight is the one whose controller is kept, and
  the page is responding.
- `PageShowsItsConversation`: `Spec => []ShownIsCurrent`. The property only speaks of a page that loads nothing; while it
  loads, the list is that of any conversation it was on before. `ShownInv` keeps the two apart: a page that shows a chat and
  has no slip either shows its own conversation or is loading just that one, whatever else it is loading. `LeftInv` is about
  the new chats, which the code cannot tell apart: a message of an earlier one is in flight only if the page was freed too early,
  since a new chat is only begun when the one message in flight is aborted with it or is over (`EarlierStep`). So what
  `onData` writes into a new chat is that chat's own, or `WentOn` has noted it. It also needs that every item is of a message
  that was sent (`ListInv`), so that the next message cannot change whose an item is (`SendsKept`). A step that
  writes into the list leaves the conversation alone (`ShownStays`), and one that goes to another leaves the list
  alone, begins a new one or starts a load (`ShownGoTo`).
- `GivenUpAnswersAreSilent`: `Spec => GivenUpIsSilent`, an action property. A message that was given up was aborted or is over
  (`SilentInv`), so that the answer a step writes is another's; and filtering the list adds nothing of any message.

`Without` is `filter` by positions, the n-th item kept at place n, because nothing can be proved here of the library's
`SelectSeq`: that there is an n-th (`NthExists`) follows from a smallest number up to which n items are kept (`SmallestOf`, from
the well-founded order of the library), and a list without some items is then an injective selection of it (`WithoutResult`,
`Selected`), which is all that the two theorems need of it. TLC found `Without` equal to `SelectSeq` on all the lists of
the instance with three clicks, and checked `ListInv`, `ShownInv` and `SilentInv` there before
the proof.

`DatasetWizard_proofs`, over `FileUploader_proofs`, proves for all values of the bounds (natural, a batch of at
least one file, at least one poll):

- `TypeCorrect`: `Spec => []TypeOK`, for `DatasetWizard` and its uploader.
- `OneDatasetPerVisit`: `[]OneCreationPerVisit`. `FollowedOnlyAfterFailure` carries it: a creation that another of its visit
  followed was refused, and then made nothing, or was given up. It needs `VisitOfCreations`: the visit still in
  step two has no creation whose success was reported, since that leads to step three.
- `PreviewFollowsTheSettings` and `CalculatingComesFromARequest`: `[]PreviewIsOfTheSettings` and
  `[]CalculatingMeansAsked`. The first speaks of a page that waits for nothing; `LastIsForThePage` adds what is true
  meanwhile: of the requests under the rules on the page, the last is for the settings on the page. Every
  control that changes the rules, the index type or the form of a preview that is shown sends a request or hides the
  preview, and an answer takes away the first request of its rules, unless it overtook one (`AnsweredResult`, `FirstAnswered`).
- `PollingStopsAtTheEnd`: `[]StoppedShowsTheEnd`. `AnswersOfTheEnd` carries it: an answer without a document
  being indexed equals what the server would answer now, and so do all the later ones, since documents only
  leave "indexing"; `DetailOfTheEnd` moves this to what is shown, in order.
- `ShownListIsKept`, `RefusalHasAReason`, `DatasetOfAcceptedFiles`: `[]ShownIsKept`,
  `[]NextRefusedForAReason` and `CreatedIsAccepted`. None is inductive: an upload writes into an array that it took many
  steps before. `OneListUnderWay` says that without an overlap all uploads under way hold one array, the one
  in the ref of their mount and the one shown, and that no other array has their files; `ChosenInOrder` that a file not yet
  chosen is in no array, which needs that the files chosen are the first ones (`ChosenAreFirst`, by
  cardinality); `AcceptedIsShown` that in step two nothing is under way any more. TLC checked this invariant on the
  instances named above before the proof.

The frames of the wizard's four parts (which actions change what) are lemmas, so that each invariant
is proved over its own actions alone.

`CompletionStream_proofs` proves for any number of tokens and failing reviews and any buffer of at least one token:

- `TypeCorrect`: `Spec => []TypeOK`, with `ReportsInv`: an exception is handled once before the worker is at its end for it,
  so that the second handling is the last.
- `SavedAnswersAreShielded`: `Spec => []SavedIsShielded`. The flagged answer is dealt with at two places far apart, the last
  review and the final output of the other thread; `SetupInv` says what moderation is set up for each place, and
  `ShieldInv` that at every place from which an answer is saved as a whole it is shielded, or no review was answered. What is
  kept of a clean text is clean (`KeptIsClean`), since every word of it is one of the text or that word less its braces
  (`AsKeptIs`, `StripIs`; that a text that is not all white space has a first and a last word that is not, `Ends`, comes
  from the well-founded order of the library).
- `StopsArePrompt`: `Spec => []StopIsPrompt`. `PromptInv` ties the count of each thread to where it is: none at a place from
  which it may still publish, one between a publication and the look at the key.
- `AnswersAreKeptAsShown`: `Spec => []KeptAsShown`, and `ModeratedAnswersAreKept`: `Spec => []ModeratedAsShown`. Both compare,
  up to `AsKept`, what was read over the life of the channel with what is saved, and need no history for it: at every moment what the
  client has and what waits on its channel say together what it will have. `KeptInv` says so for the four ways of an
  answer. An annotation is the only text of its channel (`NoteInv`). A blocking answer comes whole, before the end
  (`BlockInv`). A stream in which nothing is flagged is the tokens in their order, those the client has and those on the channel, and
  after them no text (`PlainInv`, with `InOrder`). In a stream in which something is flagged, the last replacement on the
  channel, or on the client's page if none waits, is what will be saved: the final output from its publication on, else what
  the last review made of the answer (`ShieldedInv`, with `Last`). `ThreadInv` is what makes this one inductive: once the
  worker is past its end, the other thread has ended or was stopped, so that a replacement of its own is kept back or late; and the final
  output exists only if something is flagged, so that the four ways exclude each other. `EndsText` says that no text follows the
  message's end. A stream passes from the third way to the fourth with the token that is flagged, before that token is published.
  `Adds` and `Silent`, with `Publishing` and `Silences`, say once what each step does to the channel. Taking an
  excuse (`"trailing"`, `"late"`) out of the model makes the proof fail at the step that earns it. TLC checked `KeptInv` with 3 tokens
  before the proof (5,777,612 states).

TLC checked these invariants on the instances above before the proofs.

Every invariant and action property that a passing run checks is thus a theorem (`StuckOnlyByStaleGroup` for groups of
more than one row). Model-checked only: the liveness
properties, which need fairness and ENABLED and are out of the prover's reach.

## Not modelled

See the inventory and the notes of `PROJECT.json`. The availability
of documents and segments, Notion sync, dataset deletion and annotation jobs have
interleavings worth checking and are left (see the plan). CRUD without concurrency, remote model calls,
file and mail services, billing, migrations and deployment have no state of their own that outlives a call. The
rest of the frontend - configuration forms, logs, lists, settings - renders cached requests.
