-------------------------- MODULE CompletionStream --------------------------
(***************************************************************************)
(* One answer on its way from the language model to the client             *)
(* (api/services/completion_service.py, api/core/conversation_message_     *)
(* task.py, api/core/callback_handler/llm_callback_handler.py).            *)
(*                                                                         *)
(* Four threads and a user take part.  The worker runs the model, whose    *)
(* callbacks publish what comes on a channel of Redis and save the message *)
(* at the end.  With output moderation, a moderation thread reviews the    *)
(* growing text and publishes replacements of it on the same channel.  The *)
(* countdown gives up after ten minutes.  The reader is the request of the *)
(* client, which passes on what the channel brings until an end.  The user *)
(* can stop the answer through a key in Redis, which publishing looks at.  *)
(*                                                                         *)
(* A text is the sequence of what is seen of it: tokens of the model, the  *)
(* mask that moderation puts over one, its preset response, an annotation. *)
(* What is saved has lost the white space around it and one pair of braces *)
(* of every template variable in it: some tokens are white space, and some *)
(* hold a variable.  A token that is white space in part, and a variable   *)
(* that comes in several tokens, are left out.                             *)
(* Agents and chains, which publish their thoughts before the model runs,  *)
(* token counts, prices, the name of the conversation, and the pings of     *)
(* the countdown, which are passed on and change nothing, are left out.    *)
(***************************************************************************)
EXTENDS Integers, Sequences, Functions, FiniteSetsExt

CONSTANTS
    MaxTokens,     \* bound: tokens of an answer
    Blank,         \* the tokens that are white space
    Variables,     \* the words that hold a template variable, {{name}}
    BufferSize,    \* MODERATION_BUFFER_SIZE, in tokens
    MaxFailures    \* bound: reviews that get no answer

ASSUME BoundsAssumption ==
    /\ MaxTokens \in Nat
    /\ BufferSize \in Nat \ {0}
    /\ MaxFailures \in Nat

Tokens == 1..MaxTokens
Masked == 0
Preset == -1          \* preset_response
Note == -2            \* the content of an annotation
Words == -2..MaxTokens
Texts == Seq(Words)
Raw(n) == [i \in 1..n |-> i]

ASSUME WordsAssumption ==
    /\ Blank \subseteq Tokens
    /\ Variables \subseteq (Tokens \ Blank) \cup {Preset}

Single(word) == word + MaxTokens + 3      \* the word with {name} in it
KeptWords == Words \cup {Single(word) : word \in Words}

\* str.strip
strip(text) ==
    LET inside == {i \in DOMAIN text : text[i] \notin Blank}
    IN  IF inside = {} THEN <<>> ELSE SubSeq(text, Min(inside), Max(inside))

remove_template_variables(text) ==
    [i \in DOMAIN text |-> IF text[i] \in Variables THEN Single(text[i]) ELSE text[i]]

\* What save_message makes of a text
AsKept(text) == remove_template_variables(strip(text))

VARIABLES
    streaming,          \* response_mode
    moderation,         \* sensitive_word_avoidance: "none", or the ModerationAction
    bad,                \* the tokens that a review flags
    worker,             \* where the worker is
    got,                \* tokens the model has produced
    completion,         \* llm_message.completion
    reports,            \* how often on_llm_error has handled the end by exception
    interrupted,        \* that exception is ConversationTaskInterruptException
    stored,             \* message.answer in the database
    saved,              \* history: what saved it, "none", "ended", "stopped", "note"
    stopKey,            \* generate_result_stopped: in Redis
    stops,              \* clicks on "stop"
    countdown,          \* the countdown thread
    buffered,           \* buffer: as many tokens
    running,            \* thread_running
    direct,             \* final_output has been set
    reviewer,           \* where the moderation thread is
    looked,             \* moderation_buffer: as many tokens
    reviewed,           \* current_length
    outcome,            \* the final_output of the moderation thread's turn
    chan,               \* what was published and the reader has not taken yet
    reader,             \* where the request of the client is
    shown,              \* the answer as the client has it
    sawMessageEnd,      \* message_end has been passed on
    failures,           \* reviews that got no answer
    slips,              \* history: ways in which the two threads missed each other
    afterStop           \* history: texts published while the key is set, per thread

setupVars == <<streaming, moderation, bad>>
answerVars == <<completion, reports, interrupted, stored, saved>>
stopVars == <<stopKey, stops, countdown>>
reviewVars == <<reviewer, looked, reviewed, outcome>>
readerVars == <<reader, shown, sawMessageEnd>>
vars == <<setupVars, worker, got, answerVars, stopVars, buffered, running, direct,
          reviewVars, chan, readerVars, failures, slips, afterStop>>

WorkerPlaces == {"begin", "annotated", "history", "model", "token", "sent", "review",
                 "replaced", "whole", "wholeSent", "save", "stopSave", "interrupted",
                 "messageEnd", "endSent", "failing", "done", "broken"}
Alive == worker \notin {"done", "broken"}      \* worker_thread.is_alive()

Flagged(text) == Range(text) \cap bad # {}

\* What moderation makes of a flagged text: the preset response, or the text with a mask
Shield(text) ==
    IF moderation = "direct" THEN <<Preset>>
    ELSE [i \in DOMAIN text |-> IF text[i] \in bad THEN Masked ELSE text[i]]

-----------------------------------------------------------------------------
(* The channel.  Redis hands what is published to whoever is subscribed at that time.  *)

Event(kind, text) == [event |-> kind, text |-> text]

published(e) == IF reader = "reading" THEN Append(chan, e) ELSE chan

Publish(e) == chan' = published(e)

\* pub_text, pub_message_replace and pub_annotation up to the look at the key
PublishText(thread, kind, text) ==
    /\ Publish(Event(kind, text))
    /\ afterStop' = IF stopKey THEN [afterStop EXCEPT ![thread] = @ + 1] ELSE afterStop

PubEnd == Publish(Event("end", <<>>))

-----------------------------------------------------------------------------
(* The worker: generate_worker, Completion.generate and the callbacks of the model.    *)

GoTo(place) == worker' = place

\* ConversationMessageTask.init writes the message; no annotation answers the query
Begin ==
    /\ worker = "begin"
    /\ GoTo("model")
    /\ UNCHANGED <<setupVars, got, answerVars, stopVars, buffered, running, direct,
                   reviewVars, chan, readerVars, failures, slips, afterStop>>

\* The input is refused, the quota is used up, the prompt is too long
BeginFails ==
    /\ worker = "begin"
    /\ GoTo("failing")
    /\ UNCHANGED <<setupVars, got, answerVars, stopVars, buffered, running, direct,
                   reviewVars, chan, readerVars, failures, slips, afterStop>>

\* annotation_end: pub_annotation saves the answer and publishes it
BeginAnnotation ==
    /\ worker = "begin"
    /\ GoTo("annotated")
    /\ stored' = <<Note>>
    /\ saved' = "note"
    /\ PublishText("worker", "annotation", <<Note>>)
    /\ UNCHANGED <<setupVars, got, completion, reports, interrupted, stopVars, buffered,
                   running, direct, reviewVars, readerVars, failures, slips>>

\* The look at the key, and pub_end in either case.  The exception of a stop ends in the
\* handler of query_app_annotations_to_reply, which goes on as if there were no annotation.
AnnotationEnd ==
    /\ worker = "annotated"
    /\ PubEnd
    /\ GoTo(IF stopKey THEN "model" ELSE "history")
    /\ slips' = IF stopKey THEN slips \cup {"again"} ELSE slips
    /\ UNCHANGED <<setupVars, got, answerVars, stopVars, buffered, running, direct,
                   reviewVars, readerVars, failures, afterStop>>

\* add_annotation_history, in the reach of the same handler
AddAnnotationHistory ==
    /\ worker = "history"
    /\ \/ GoTo("done") /\ UNCHANGED slips
       \/ GoTo("model") /\ slips' = slips \cup {"again"}
    /\ UNCHANGED <<setupVars, got, answerVars, stopVars, buffered, running, direct,
                   reviewVars, chan, readerVars, failures, afterStop>>

\* Mutant: only a thread that has ended is stopped
StopThreadThatEnded == running' = (running /\ reviewer # "dead")

\* stop_thread
StopThread == running' = (running /\ reviewer \in {"none", "dead"})

\* The model produces a token: on_llm_new_token, whose first step is to look whether
\* moderation already has the final output
NewToken ==
    /\ worker = "model"
    /\ streaming
    /\ got < MaxTokens
    /\ got' = got + 1
    /\ GoTo(IF direct THEN "interrupted" ELSE "token")
    /\ UNCHANGED <<setupVars, answerVars, stopVars, buffered, running, direct,
                   reviewVars, chan, readerVars, failures, slips, afterStop>>

\* append_message_text
PublishToken ==
    /\ worker = "token"
    /\ PublishText("worker", "message", <<got>>)
    /\ GoTo("sent")
    /\ slips' = IF direct /\ reviewer \in {"replaced", "dead"} THEN slips \cup {"trailing"}
                ELSE slips
    /\ UNCHANGED <<setupVars, got, answerVars, stopVars, buffered, running, direct,
                   reviewVars, readerVars, failures>>

\* The rest of on_llm_new_token: append_new_token starts the thread with the first token
TokenDone ==
    /\ worker = "sent"
    /\ ~stopKey
    /\ completion' = Append(completion, got)
    /\ IF moderation # "none"
       THEN /\ buffered' = got
            /\ reviewer' = IF reviewer = "none" THEN "loop" ELSE reviewer
       ELSE UNCHANGED <<buffered, reviewer>>
    /\ GoTo("model")
    /\ UNCHANGED <<setupVars, got, reports, interrupted, stored, saved, stopVars,
                   running, direct, looked, reviewed, outcome, chan, readerVars,
                   failures, slips, afterStop>>

\* Mutant: the exception does not come to on_llm_error
TokenStoppedUnsaved ==
    /\ worker = "sent"
    /\ stopKey
    /\ PubEnd
    /\ GoTo("done")
    /\ UNCHANGED <<setupVars, got, answerVars, stopVars, buffered, running, direct,
                   reviewVars, readerVars, failures, slips, afterStop>>

TokenStopped ==
    /\ worker = "sent"
    /\ stopKey
    /\ PubEnd
    /\ GoTo("stopSave")
    /\ UNCHANGED <<setupVars, got, answerVars, stopVars, buffered, running, direct,
                   reviewVars, readerVars, failures, slips, afterStop>>

\* on_llm_error for a stop: save_message by_stopped, without end.  The handler calls it
\* before it lets the exception go, the model's client calls it once more.  The clients
\* that take every exception for a failure of the model make of it an error after the end,
\* which no reader hears any more.
StopSave ==
    /\ worker = "stopSave"
    /\ StopThread
    /\ stored' = AsKept(completion)
    /\ saved' = IF interrupted THEN saved ELSE "stopped"
    /\ reports' = reports + 1
    /\ GoTo(IF reports = 0 THEN "stopSave" ELSE "done")
    /\ UNCHANGED <<setupVars, got, completion, interrupted, stopVars, buffered, direct,
                   reviewVars, chan, readerVars, failures, slips, afterStop>>

\* Mutant: what the model said is saved, not the final output
InterruptAsSaid ==
    /\ worker = "interrupted"
    /\ StopThread
    /\ interrupted' = TRUE
    /\ reports' = reports + 1
    /\ stored' = AsKept(completion)
    /\ saved' = "ended"
    /\ GoTo("messageEnd")
    /\ UNCHANGED <<setupVars, got, completion, stopVars, buffered, direct, reviewVars,
                   chan, readerVars, failures, slips, afterStop>>

\* on_llm_error for an interrupt: save_message with the final output, called twice as well
Interrupt ==
    /\ worker = "interrupted"
    /\ StopThread
    /\ interrupted' = TRUE
    /\ reports' = reports + 1
    /\ completion' = <<Preset>>
    /\ stored' = AsKept(<<Preset>>)
    /\ saved' = "ended"
    /\ GoTo("messageEnd")
    /\ UNCHANGED <<setupVars, got, stopVars, buffered, direct, reviewVars, chan,
                   readerVars, failures, slips, afterStop>>

\* The model's client fails or its connection breaks: on_llm_error stops the moderation.
\* Completion.generate swallows a ChunkedEncodingError.
ModelFails ==
    /\ worker = "model"
    /\ StopThread
    /\ worker' \in {"failing", "broken"}
    /\ UNCHANGED <<setupVars, got, answerVars, stopVars, buffered, direct, reviewVars,
                   chan, readerVars, failures, slips, afterStop>>

\* pub_error
PubError ==
    /\ worker = "failing"
    /\ Publish(Event("error", <<>>))
    /\ GoTo("done")
    /\ UNCHANGED <<setupVars, got, answerVars, stopVars, buffered, running, direct,
                   reviewVars, readerVars, failures, slips, afterStop>>

\* The model is at its end: on_llm_end up to the last review
ModelEnds ==
    /\ worker = "model"
    /\ IF streaming THEN got' = got ELSE got' \in 0..MaxTokens
    /\ StopThread
    /\ completion' = Raw(got')
    /\ IF moderation # "none"
       THEN GoTo("review") /\ buffered' = got'
       ELSE GoTo(IF streaming THEN "save" ELSE "whole") /\ UNCHANGED buffered
    /\ UNCHANGED <<setupVars, reports, interrupted, stored, saved, stopVars, direct,
                   reviewVars, chan, readerVars, failures, slips, afterStop>>

\* moderation: None when the service does not answer, which counts as not flagged
ReviewFails == failures < MaxFailures /\ failures' = failures + 1

\* Mutant: public_event is taken for the opposite mode
ReviewFlagsSilently ==
    /\ worker = "review"
    /\ Flagged(completion)
    /\ completion' = Shield(completion)
    /\ GoTo(IF streaming THEN "save" ELSE "whole")
    /\ UNCHANGED <<setupVars, got, reports, interrupted, stored, saved, stopVars,
                   buffered, running, direct, reviewVars, chan, readerVars, failures,
                   slips, afterStop>>

\* moderation_completion and on_message_replace up to the look at the key
ReviewFlags ==
    /\ worker = "review"
    /\ Flagged(completion)
    /\ completion' = Shield(completion)
    /\ IF streaming
       THEN PublishText("worker", "message_replace", completion') /\ GoTo("replaced")
       ELSE GoTo("whole") /\ UNCHANGED <<chan, afterStop>>
    /\ UNCHANGED <<setupVars, got, reports, interrupted, stored, saved, stopVars,
                   buffered, running, direct, reviewVars, readerVars, failures, slips>>

ReviewPasses ==
    /\ worker = "review"
    /\ \/ ~Flagged(completion) /\ UNCHANGED failures
       \/ ReviewFails
    /\ GoTo(IF streaming THEN "save" ELSE "whole")
    /\ UNCHANGED <<setupVars, got, answerVars, stopVars, buffered, running, direct,
                   reviewVars, chan, readerVars, slips, afterStop>>

\* append_message_text of the whole answer, in blocking mode
PublishWhole ==
    /\ worker = "whole"
    /\ PublishText("worker", "message", completion)
    /\ GoTo("wholeSent")
    /\ UNCHANGED <<setupVars, got, answerVars, stopVars, buffered, running, direct,
                   reviewVars, readerVars, failures, slips>>

\* The look at the key after either of them.  An exception of on_llm_end does not come
\* back to on_llm_error: the message is not saved.
LastTextDone ==
    /\ worker \in {"replaced", "wholeSent"}
    /\ IF stopKey THEN PubEnd /\ GoTo("done") ELSE UNCHANGED chan /\ GoTo("save")
    /\ UNCHANGED <<setupVars, got, answerVars, stopVars, buffered, running, direct,
                   reviewVars, readerVars, failures, slips, afterStop>>

\* save_message up to end
Save ==
    /\ worker = "save"
    /\ stored' = AsKept(completion)
    /\ saved' = "ended"
    /\ GoTo("messageEnd")
    /\ UNCHANGED <<setupVars, got, completion, reports, interrupted, stopVars, buffered,
                   running, direct, reviewVars, chan, readerVars, failures, slips, afterStop>>

\* pub_message_end up to the look at the key
PubMessageEnd ==
    /\ worker = "messageEnd"
    /\ Publish(Event("message_end", <<>>))
    /\ GoTo("endSent")
    /\ UNCHANGED <<setupVars, got, answerVars, stopVars, buffered, running, direct,
                   reviewVars, readerVars, failures, slips, afterStop>>

\* The look at the key, and pub_end in either case.  After the first handling of an
\* exception, the client of the model reports it again: the interrupt, or the stop.
End ==
    /\ worker = "endSent"
    /\ PubEnd
    /\ GoTo(IF ~(interrupted /\ reports = 1) THEN "done"
            ELSE IF stopKey THEN "stopSave" ELSE "interrupted")
    /\ UNCHANGED <<setupVars, got, answerVars, stopVars, buffered, running, direct,
                   reviewVars, readerVars, failures, slips, afterStop>>

-----------------------------------------------------------------------------
(* The moderation thread: OutputModerationHandler.worker.                              *)

\* The head of the loop.  A turn that would sleep changes nothing.  A turn that began
\* before stop_thread may take less than a buffer (is_final_chunk); what comes of it is
\* kept back.
Look ==
    /\ reviewer = "loop"
    /\ IF running
       THEN /\ buffered - reviewed >= BufferSize
            /\ reviewer' = "calling"
            /\ looked' = buffered
            /\ reviewed' = buffered
       ELSE /\ reviewer' = "dead"
            /\ UNCHANGED <<looked, reviewed>>
    /\ UNCHANGED <<setupVars, worker, got, answerVars, stopVars, buffered, running,
                   direct, outcome, chan, readerVars, failures, slips, afterStop>>

\* The answer of the review, and what it makes of the buffer as it is by then
Reviewed ==
    /\ reviewer = "calling"
    /\ \/ /\ Flagged(Raw(looked))
          /\ outcome' = IF moderation = "direct" THEN <<Preset>>
                        ELSE Shield(Raw(looked)) \o SubSeq(Raw(buffered), looked + 1, buffered)
          /\ direct' = (moderation = "direct")
          /\ reviewer' = "flagged"
          /\ UNCHANGED failures
       \/ /\ \/ ~Flagged(Raw(looked)) /\ UNCHANGED failures
             \/ ReviewFails
          /\ reviewer' = "loop"
          /\ UNCHANGED <<outcome, direct>>
    /\ UNCHANGED <<setupVars, worker, got, answerVars, stopVars, buffered, running,
                   looked, reviewed, chan, readerVars, slips, afterStop>>

AfterOutcome == IF moderation = "direct" THEN "dead" ELSE "loop"

\* if self.thread_running: the replacement is published, or the client never hears of it
Decide ==
    /\ reviewer = "flagged"
    /\ reviewer' = IF running THEN "publishing" ELSE AfterOutcome
    /\ slips' = IF running THEN slips ELSE slips \cup {"kept back"}
    /\ UNCHANGED <<setupVars, worker, got, answerVars, stopVars, buffered, running,
                   direct, looked, reviewed, outcome, chan, readerVars, failures, afterStop>>

\* on_message_replace up to the look at the key
Replace ==
    /\ reviewer = "publishing"
    /\ reviewer' = "replaced"
    /\ PublishText("reviewer", "message_replace", outcome)
    /\ slips' = IF running THEN slips ELSE slips \cup {"late"}
    /\ UNCHANGED <<setupVars, worker, got, answerVars, stopVars, buffered, running,
                   direct, looked, reviewed, outcome, readerVars, failures>>

\* Mutant: pub_message_replace does not look at the key
ReplaceDoneAnyway ==
    /\ reviewer = "replaced"
    /\ reviewer' = AfterOutcome
    /\ UNCHANGED <<setupVars, worker, got, answerVars, stopVars, buffered, running,
                   direct, looked, reviewed, outcome, chan, readerVars, failures, slips,
                   afterStop>>

\* The exception of a stop ends the thread
ReplaceDone ==
    /\ reviewer = "replaced"
    /\ IF stopKey THEN PubEnd /\ reviewer' = "dead"
       ELSE UNCHANGED chan /\ reviewer' = AfterOutcome
    /\ UNCHANGED <<setupVars, worker, got, answerVars, stopVars, buffered, running,
                   direct, looked, reviewed, outcome, readerVars, failures, slips, afterStop>>

-----------------------------------------------------------------------------
(* The countdown: close_pubsub.                                                        *)

\* PubHandler.stop after ten minutes
TimeOut ==
    /\ countdown = "counting"
    /\ Alive
    /\ stopKey' = TRUE
    /\ countdown' = "closing"
    /\ UNCHANGED <<setupVars, worker, got, answerVars, stops, buffered, running,
                   direct, reviewVars, chan, readerVars, failures, slips, afterStop>>

\* Mutant: the key is set and the channel left open
CloseNothing ==
    /\ countdown = "closing"
    /\ countdown' = "over"
    /\ UNCHANGED <<setupVars, worker, got, answerVars, stopKey, stops, buffered,
                   running, direct, reviewVars, chan, readerVars, failures, slips, afterStop>>

\* pubsub.close: a reader that waits leaves its loop, by an exception or at its condition
Close ==
    /\ countdown = "closing"
    /\ countdown' = "over"
    /\ reader' = IF reader = "reading" THEN "closed" ELSE reader
    /\ chan' = <<>>
    /\ UNCHANGED <<setupVars, worker, got, answerVars, stopKey, stops, buffered,
                   running, direct, reviewVars, shown, sawMessageEnd, failures, slips, afterStop>>

\* The worker has ended in time
CountdownEnds ==
    /\ countdown = "counting"
    /\ ~Alive
    /\ countdown' = "over"
    /\ UNCHANGED <<setupVars, worker, got, answerVars, stopKey, stops, buffered,
                   running, direct, reviewVars, chan, readerVars, failures, slips, afterStop>>

\* The key expires 600 s after it was set, which is after the ten minutes of the countdown
StopExpires ==
    /\ stopKey
    /\ countdown = "over"
    /\ Alive
    /\ stopKey' = FALSE
    /\ afterStop' = [t \in DOMAIN afterStop |-> 0]
    /\ UNCHANGED <<setupVars, worker, got, answerVars, stops, countdown, buffered,
                   running, direct, reviewVars, chan, readerVars, failures, slips>>

-----------------------------------------------------------------------------
(* The client: compact_response, in its two modes, and the user behind it.             *)

NextEvent == Head(chan)

\* generate() inside compact_response, and the page that reads it
ReceiveStreaming ==
    /\ streaming
    /\ shown' = CASE NextEvent.event = "message" -> shown \o NextEvent.text
                  [] NextEvent.event \in {"message_replace", "annotation"} -> NextEvent.text
                  [] OTHER -> shown
    /\ reader' = CASE NextEvent.event = "end" -> "ended"
                   [] NextEvent.event = "error" -> "errored"
                   [] OTHER -> "reading"

\* The loop of blocking mode answers with what it holds; "end" means nothing to it
ReceiveBlocking ==
    /\ ~streaming
    /\ shown' = IF NextEvent.event \in {"message", "annotation"} THEN NextEvent.text ELSE shown
    /\ reader' = CASE NextEvent.event \in {"message_end", "annotation"} -> "ended"
                   [] NextEvent.event = "error" -> "errored"
                   [] OTHER -> "reading"

\* The reader takes the next event.  When it leaves, it unsubscribes.
Receive ==
    /\ reader = "reading"
    /\ chan # <<>>
    /\ ReceiveStreaming \/ ReceiveBlocking
    /\ sawMessageEnd' = (sawMessageEnd \/ NextEvent.event = "message_end")
    /\ chan' = IF reader' = "reading" THEN Tail(chan) ELSE <<>>
    /\ UNCHANGED <<setupVars, worker, got, answerVars, stopVars, buffered, running,
                   direct, reviewVars, failures, slips, afterStop>>

\* The client closes the connection, and the generator with it
Leave ==
    /\ reader = "reading"
    /\ reader' = "gone"
    /\ chan' = <<>>
    /\ UNCHANGED <<setupVars, worker, got, answerVars, stopVars, buffered, running,
                   direct, reviewVars, shown, sawMessageEnd, failures, slips, afterStop>>

\* ChatStopApi: the id of the task comes with the first event
Stop ==
    /\ stops = 0
    /\ streaming
    /\ shown # <<>>
    /\ stops' = 1
    /\ stopKey' = TRUE
    /\ UNCHANGED <<setupVars, worker, got, answerVars, countdown, buffered, running,
                   direct, reviewVars, chan, readerVars, failures, slips, afterStop>>

-----------------------------------------------------------------------------

Init ==
    /\ streaming \in BOOLEAN
    /\ moderation \in {"none", "direct", "override"}
    /\ bad \in SUBSET Tokens
    /\ moderation = "none" => bad = {}
    /\ worker = "begin"
    /\ got = 0
    /\ completion = <<>>
    /\ reports = 0
    /\ interrupted = FALSE
    /\ stored = <<>>
    /\ saved = "none"
    /\ stopKey = FALSE
    /\ stops = 0
    /\ countdown = "counting"
    /\ buffered = 0
    /\ running = TRUE
    /\ direct = FALSE
    /\ reviewer = "none"
    /\ looked = 0
    /\ reviewed = 0
    /\ outcome = <<>>
    /\ chan = <<>>
    /\ reader = "reading"
    /\ shown = <<>>
    /\ sawMessageEnd = FALSE
    /\ failures = 0
    /\ slips = {}
    /\ afterStop = [t \in {"worker", "reviewer"} |-> 0]

\* What the model and its service decide, and what the worker does of itself
Model == Begin \/ BeginFails \/ BeginAnnotation \/ NewToken \/ ModelFails \/ ModelEnds

WorkerStep ==
    \/ AnnotationEnd \/ AddAnnotationHistory
    \/ PublishToken \/ TokenDone \/ TokenStopped \/ StopSave \/ Interrupt
    \/ PubError \/ ReviewFlags \/ ReviewPasses \/ PublishWhole \/ LastTextDone
    \/ Save \/ PubMessageEnd \/ End

ReviewerStep == Look \/ Reviewed \/ Decide \/ Replace \/ ReplaceDone

Countdown == TimeOut \/ Close \/ CountdownEnds

User == Leave \/ Stop

Next == Model \/ WorkerStep \/ ReviewerStep \/ Countdown \/ StopExpires
            \/ Receive \/ User

\* Threads run, and time passes; the model may be silent for ever, and the user too.
Fairness ==
    /\ WF_vars(WorkerStep)
    /\ WF_vars(ReviewerStep)
    /\ WF_vars(Countdown)
    /\ WF_vars(Receive)

Spec == Init /\ [][Next]_vars /\ Fairness

-----------------------------------------------------------------------------

TypeOK ==
    /\ streaming \in BOOLEAN
    /\ moderation \in {"none", "direct", "override"}
    /\ bad \in SUBSET Tokens
    /\ worker \in WorkerPlaces
    /\ got \in 0..MaxTokens
    /\ completion \in Texts
    /\ reports \in 0..2
    /\ interrupted \in BOOLEAN
    /\ stored \in Seq(KeptWords)
    /\ saved \in {"none", "ended", "stopped", "note"}
    /\ stopKey \in BOOLEAN
    /\ stops \in 0..1
    /\ countdown \in {"counting", "closing", "over"}
    /\ buffered \in 0..MaxTokens
    /\ running \in BOOLEAN
    /\ direct \in BOOLEAN
    /\ reviewer \in {"none", "loop", "calling", "flagged", "publishing", "replaced", "dead"}
    /\ looked \in 0..MaxTokens
    /\ reviewed \in 0..MaxTokens
    /\ outcome \in Texts
    /\ chan \in Seq([event : {"message", "message_replace", "annotation", "message_end",
                              "end", "error"}, text : Texts])
    /\ reader \in {"reading", "ended", "errored", "closed", "gone"}
    /\ shown \in Texts
    /\ sawMessageEnd \in BOOLEAN
    /\ failures \in 0..MaxFailures
    /\ slips \in SUBSET {"again", "kept back", "late", "trailing"}
    /\ afterStop \in [{"worker", "reviewer"} -> 0..2]

WorkerIsDone == worker = "done"
ReviewerIsDone == reviewer \in {"none", "dead"}

\* The column of a text that was not an annotation, which is stored as it is
Kept(text) == IF saved = "note" THEN text ELSE AsKept(text)

(* Without moderation of a stream, what the client has been given in full is what the  *)
(* database keeps and the model is shown as history, but for the white space around it *)
(* and the braces of variables.  When it was stopped, the client has one token more:   *)
(* the one whose publication found the key.  Only an annotation whose end went wrong   *)
(* is answered again, behind the client's back.                                        *)
KeptAsShown ==
    WorkerIsDone /\ reader = "ended" /\ (moderation = "none" \/ ~streaming)
        /\ "again" \notin slips
        => \/ stored = Kept(shown)
           \/ /\ saved = "stopped" /\ shown # <<>> /\ shown[Len(shown)] = got
              /\ stored = AsKept(SubSeq(shown, 1, Len(shown) - 1))

(* A stream that was moderated to its end shows what the database keeps, in the same   *)
(* sense, unless the two threads missed each other in one of three ways: the           *)
(* replacement is kept back because the worker has just stopped the thread, it is late *)
(* and replaces the worker's own, or the worker was already past its look at the final *)
(* output.                                                                             *)
ModeratedAsShown ==
    WorkerIsDone /\ ReviewerIsDone /\ reader = "ended" /\ sawMessageEnd
        /\ saved = "ended" /\ slips = {} /\ failures = 0
        => stored = AsKept(shown)

(* What is saved as a whole answer is shielded, whichever of the two threads flagged   *)
(* it and however far the client's text had come, as long as every review is answered. *)
(* An answer that is stopped is saved as it is.                                        *)
SavedIsShielded ==
    saved = "ended" /\ failures = 0
        => \A word \in bad : {word, Single(word)} \cap Range(stored) = {}

(* Once the key is set, each thread publishes at most one more text.  The worker does  *)
(* so twice when the stop met an annotation: its exception is taken for a failure of   *)
(* the search.                                                                         *)
StopIsPrompt ==
    /\ afterStop["worker"] <= IF "again" \in slips THEN 2 ELSE 1
    /\ afterStop["reviewer"] <= 1

(* The client's request ends, though the model may be silent for ever and the key      *)
(* belongs to nobody in blocking mode, as long as the connection to the model does not *)
(* break half-way.                                                                     *)
ReaderIsReleased == <>(reader # "reading" \/ worker = "broken")

(* The moderation thread does not outlive the worker for ever, however it ended.       *)
ReviewerEnds == (~Alive) ~> ReviewerIsDone
=============================================================================
