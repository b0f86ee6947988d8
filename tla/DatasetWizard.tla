---------------------------- MODULE DatasetWizard ---------------------------
(***************************************************************************)
(* The wizard that makes a dataset out of files                            *)
(* (web/app/components/datasets/create/index.tsx): step one holds the      *)
(* FileUploader, step two asks for estimates and creates the documents,    *)
(* step three polls how they are indexed.  Uploads go on under the later   *)
(* steps, an estimate can be answered after it was asked for again, and a  *)
(* creation after the user went back.  Every request is raced with a       *)
(* time-out of 100 seconds (web/service/base.ts), after which the page     *)
(* takes it for failed while the server may still do what it asked for.    *)
(*                                                                         *)
(* The wizard of a new dataset with an embedding model, without a limit on *)
(* the vector space; Notion pages are left out, and so are the rules' own  *)
(* values, the language and the retrieval settings, which are passed on.   *)
(***************************************************************************)
EXTENDS FileUploader

CONSTANTS
    MaxVisits,     \* bound: visits to step two
    MaxCreations,  \* bound: requests that create documents
    MaxSwitches,   \* bound: clicks on the settings in a visit to step two
    MaxPolls,      \* bound: polls in flight
    MaxLost        \* bound: estimates that fail in a visit, polls that fail

ASSUME WizardAssumption ==
    /\ {MaxVisits, MaxCreations, MaxSwitches, MaxLost} \subseteq Nat
    /\ MaxPolls \in Nat \ {0}

VARIABLES
    step,
    visits,      \* visits to step two; the last one is the one on the page
    accepted,    \* the files that were shown when it began
    creations,   \* the requests that create documents
    result,      \* the creation whose documents step three lists
    settings,    \* of step two: segmentationType, indexType, docForm, previewSwitched, showPreview
    estimates,   \* automaticFileIndexingEstimate and customFileIndexingEstimate
    asked,       \* the estimates that step two waits for, in the order they were asked
    switches,    \* clicks on the settings on this visit
    lost,        \* polls and estimates that failed in this step
    lostEstimate,\* history: an estimate of this visit failed
    overtakenEstimate, \* history: one was answered before an earlier one of its rules
    watched,     \* the creation that step three polls
    docs,        \* how its documents are indexed
    detail,      \* indexingStatusBatchDetail: the statuses of the last answer
    polling,     \* "off", "on" or "stopped"
    asking,      \* polls the server has not seen yet
    answers,     \* its answers on their way, in the order it gave them
    blankStop,   \* history: polling stopped before any answer came
    overtaken    \* history: an answer came before an earlier one

history == <<lostEstimate, overtakenEstimate>>
estimateVars == <<settings, estimates, asked, switches, history>>
progressVars == <<watched, docs, detail, polling, asking, answers, blankStop, overtaken>>
wizardVars == <<step, visits, accepted, creations, result>>
vars == <<uploaderVars, wizardVars, estimateVars, lost, progressVars>>

-----------------------------------------------------------------------------
(* Step two: estimates *)

Modes == {"automatic", "custom"}
IndexTypes == {"high_quality", "economy"}
Forms == {"text", "qa"}

\* What an estimate was asked for.
Ask == [mode : Modes, indexType : IndexTypes, form : Forms]
NoEstimate == [mode |-> "none", indexType |-> "none", form |-> "none"]

Settings == [mode : Modes, indexType : IndexTypes, form : Forms,
             previewSwitched : BOOLEAN, showPreview : BOOLEAN]

\* Mutant: nothing is asked while an estimate of these rules is under way.
FetchEstimateOnce(s, form) ==
    /\ asked' = IF \E i \in DOMAIN asked : asked[i].mode = s.mode THEN asked
                ELSE Append(asked, [mode |-> s.mode, indexType |-> s.indexType, form |-> form])
    /\ estimates' = [estimates EXCEPT ![s.mode] = NoEstimate]

\* fetchFileIndexingEstimate of the settings s, after the slot of its mode was emptied
FetchEstimate(s, form) ==
    /\ asked' = Append(asked, [mode |-> s.mode, indexType |-> s.indexType, form |-> form])
    /\ estimates' = [estimates EXCEPT ![s.mode] = NoEstimate]

\* Mutant: the effect does not look at indexType, and the estimate is only emptied.
ModeEffectForgettingFetch(s) ==
    /\ settings' = [s EXCEPT !.previewSwitched = FALSE, !.showPreview = s.mode = "automatic"]
    /\ estimates' = [estimates EXCEPT ![s.mode] = NoEstimate]
    /\ IF s.mode = "automatic" /\ s.mode # settings.mode
       THEN asked' = Append(asked, [mode |-> s.mode, indexType |-> s.indexType, form |-> "text"])
       ELSE UNCHANGED asked

\* The effect of [segmentationType, indexType]: the automatic rules are estimated at
\* once, the custom ones when the user asks for it.
ModeEffect(s) ==
    /\ settings' = [s EXCEPT !.previewSwitched = FALSE, !.showPreview = s.mode = "automatic"]
    /\ IF s.mode = "automatic" THEN FetchEstimate(s, "text")
       ELSE /\ estimates' = [estimates EXCEPT ![s.mode] = NoEstimate]
            /\ UNCHANGED asked

Switch ==
    /\ step = 2
    /\ switches < MaxSwitches
    /\ switches' = switches + 1
    /\ UNCHANGED <<uploaderVars, wizardVars, lost, history, progressVars>>

setSegmentationType(mode) ==
    /\ Switch
    /\ mode # settings.mode
    /\ ModeEffect([settings EXCEPT !.mode = mode])

\* The click on an index type; changeToEconomicalType also gives up question and answer.
setIndexType(type) ==
    /\ Switch
    /\ type # settings.indexType
    /\ ModeEffect([settings EXCEPT !.indexType = type,
                                   !.form = IF type = "economy" THEN "text" ELSE @])

\* handleSwitch, offered with the high quality index
handleSwitch ==
    /\ Switch
    /\ settings.indexType = "high_quality"
    /\ settings' = [settings EXCEPT !.form = IF @ = "text" THEN "qa" ELSE "text"]
    /\ UNCHANGED <<asked, estimates>>

confirmChangeCustomConfig ==
    /\ Switch
    /\ settings.mode = "custom"
    /\ settings' = [settings EXCEPT !.showPreview = TRUE, !.previewSwitched = FALSE]
    /\ FetchEstimate(settings, "text")

previewSwitch ==
    /\ Switch
    /\ settings.showPreview /\ settings.form = "qa" /\ ~settings.previewSwitched
    /\ settings' = [settings EXCEPT !.previewSwitched = TRUE]
    /\ FetchEstimate(settings, "qa")

hidePreview ==
    /\ Switch
    /\ settings.showPreview
    /\ settings' = [settings EXCEPT !.showPreview = FALSE]
    /\ UNCHANGED <<asked, estimates>>

WithoutItem(seq, i) == SubSeq(seq, 1, i - 1) \o SubSeq(seq, i + 1, Len(seq))

\* The answers may come in any order; each goes where its request was made from.
Estimated(i) ==
    /\ estimates' = [estimates EXCEPT ![asked[i].mode] = asked[i]]
    /\ asked' = WithoutItem(asked, i)
    /\ overtakenEstimate' = (overtakenEstimate
                               \/ \E j \in 1..(i - 1) : asked[j].mode = asked[i].mode)
    /\ UNCHANGED <<uploaderVars, wizardVars, settings, switches, lost, lostEstimate,
                   progressVars>>

\* An error, or the end of the time-out.
EstimateFails(i) ==
    /\ lost < MaxLost
    /\ lost' = lost + 1
    /\ lostEstimate' = TRUE
    /\ asked' = WithoutItem(asked, i)
    /\ UNCHANGED <<uploaderVars, wizardVars, settings, estimates, switches,
                   overtakenEstimate, progressVars>>

-----------------------------------------------------------------------------
(* The steps *)

FirstSettings == [mode |-> "automatic", indexType |-> "high_quality", form |-> "text",
                  previewSwitched |-> FALSE, showPreview |-> TRUE]

\* Step two as it is mounted ("automatic" asked for at once) and when it is gone: a
\* component that is gone shows no answers.
StepTwo(asks) ==
    /\ settings' = FirstSettings
    /\ estimates' = [m \in Modes |-> NoEstimate]
    /\ asked' = asks
    /\ lostEstimate' = FALSE /\ overtakenEstimate' = FALSE
    /\ switches' = 0
    /\ lost' = 0

\* Mutant: "next" only asks for a file.
NextAllowedEarly(list) == Listed(list) # {}

\* ~nextDisabled
NextAllowed(list) ==
    Listed(list) # {} /\ \A f \in Listed(list) : list[f] = "uploaded"

nextStep ==
    /\ step = 1
    /\ visits < MaxVisits
    /\ NextAllowed(fileList)
    /\ step' = 2
    /\ visits' = visits + 1
    /\ accepted' = Listed(fileList)
    /\ StepTwo(<<[mode |-> "automatic", indexType |-> "high_quality", form |-> "text"]>>)
    /\ UNCHANGED <<uploaderVars, creations, result, progressVars>>

\* changeStep(-1): step one is mounted again, and with it an uploader with its own ref.
Back ==
    /\ step = 2
    /\ step' = 1
    /\ fileListRef' = Append(fileListRef, 0)
    /\ StepTwo(<<>>)
    /\ UNCHANGED <<lists, fileList, phase, fileListCopy, selection, mount, anyFailed,
                   overlapped, visits, accepted, creations, result, progressVars>>

-----------------------------------------------------------------------------
(* Creating the documents *)

isCreating ==
    \E c \in DOMAIN creations : creations[c].visit = visits /\ creations[c].state = "open"

NewCreation ==
    [visit |-> visits, state |-> "open", made |-> FALSE,
     files |-> {f \in Files : fileList[f] = "uploaded"}]

\* Mutant: the button works while a creation is open.
createHandleTwice ==
    /\ step = 2
    /\ Len(creations) < MaxCreations
    /\ creations' = Append(creations, NewCreation)
    /\ UNCHANGED <<uploaderVars, step, visits, accepted, result, estimateVars, lost,
                   progressVars>>

\* createHandle up to its request: the files without an id are dropped.
createHandle ==
    /\ step = 2
    /\ ~isCreating
    /\ Len(creations) < MaxCreations
    /\ creations' = Append(creations, NewCreation)
    /\ UNCHANGED <<uploaderVars, step, visits, accepted, result, estimateVars, lost,
                   progressVars>>

\* The creations as a step of c that does not change the page leaves them.
CreationBecomes(c, creation) ==
    /\ creations' = [creations EXCEPT ![c] = creation]
    /\ UNCHANGED <<uploaderVars, step, visits, accepted, result, estimateVars, lost,
                   progressVars>>

\* The server commits the documents, whether the page still waits for them or not; it
\* makes none of no files.
Make(c) ==
    /\ creations[c].state \in {"open", "given up"} /\ ~creations[c].made
    /\ creations[c].files # {}
    /\ CreationBecomes(c, [creations[c] EXCEPT !.made = TRUE])

\* The answer that the documents exist: step three is shown, wherever the user is by
\* now.  It polls the batch it was mounted with.
Created(c) ==
    /\ creations[c].state = "open" /\ creations[c].made
    /\ creations' = [creations EXCEPT ![c] = [@ EXCEPT !.state = "done"]]
    /\ result' = c
    /\ step' = 3
    /\ StepTwo(<<>>)
    /\ IF step = 3 THEN UNCHANGED progressVars
       ELSE /\ watched' = c
            /\ docs' = [f \in Files |-> IF f \in creations[c].files THEN "indexing" ELSE "none"]
            /\ polling' = "on"
            /\ asking' = 1
            /\ UNCHANGED <<detail, answers, blankStop, overtaken>>
    /\ UNCHANGED <<uploaderVars, visits, accepted>>

\* The server refuses: it made no documents and makes none.
CreationFails(c) ==
    /\ creations[c].state = "open" /\ ~creations[c].made
    /\ CreationBecomes(c, [creations[c] EXCEPT !.state = "failed"])

\* The page is told of a failure that leaves open what the server does: the time-out, an
\* answer that is lost, an error after the documents were committed.
GiveUp(c) ==
    /\ creations[c].state = "open"
    /\ CreationBecomes(c, [creations[c] EXCEPT !.state = "given up"])

-----------------------------------------------------------------------------
(* Step three: how the documents are indexed *)

Over == {"completed", "error"}

\* Mutant: one document that is over is enough.
isCompletedForOne(statuses) == statuses = {} \/ statuses \cap Over # {}

\* Mutant: a document that failed is waited for.
isCompletedButErrors(statuses) == statuses \subseteq {"completed"}

\* indexingStatusBatchDetail.every(...), which holds of the empty list
isCompleted(statuses) == statuses \subseteq Over

\* What the server answers a poll.
BatchStatus == {docs[f] : f \in creations[watched].files}

\* The interval of startQueryStatus
Tick ==
    /\ polling = "on"
    /\ IF isCompleted(detail)
       THEN /\ polling' = "stopped"
            /\ blankStop' = (detail = {})
            /\ UNCHANGED asking
       ELSE /\ asking + Len(answers) < MaxPolls
            /\ asking' = asking + 1
            /\ UNCHANGED <<polling, blankStop>>
    /\ UNCHANGED <<uploaderVars, wizardVars, estimateVars, lost, watched, docs, detail,
                   answers, overtaken>>

\* external: the server reads the documents
Serve ==
    /\ asking > 0
    /\ asking' = asking - 1
    /\ answers' = Append(answers, BatchStatus)
    /\ UNCHANGED <<uploaderVars, wizardVars, estimateVars, lost, watched, docs, detail,
                   polling, blankStop, overtaken>>

PollFails ==
    /\ asking > 0
    /\ lost < MaxLost
    /\ lost' = lost + 1
    /\ asking' = asking - 1
    /\ UNCHANGED <<uploaderVars, wizardVars, estimateVars, watched, docs, detail, polling,
                   answers, blankStop, overtaken>>

\* setIndexingStatusDetail(status.data)
Answer(i) ==
    /\ detail' = answers[i]
    /\ answers' = WithoutItem(answers, i)
    /\ overtaken' = (overtaken \/ i # 1)
    /\ UNCHANGED <<uploaderVars, wizardVars, estimateVars, lost, watched, docs, polling,
                   asking, blankStop>>

\* external: a worker ends the indexing of a document
Indexed(f, status) ==
    /\ docs[f] = "indexing"
    /\ docs' = [docs EXCEPT ![f] = status]
    /\ UNCHANGED <<uploaderVars, wizardVars, estimateVars, lost, watched, detail, polling,
                   asking, answers, blankStop, overtaken>>

-----------------------------------------------------------------------------

Init ==
    /\ UploaderInit
    /\ step = 1
    /\ visits = 0
    /\ accepted = {}
    /\ creations = <<>>
    /\ result = 0
    /\ settings = FirstSettings
    /\ estimates = [m \in Modes |-> NoEstimate]
    /\ asked = <<>>
    /\ switches = 0
    /\ lost = 0
    /\ lostEstimate = FALSE /\ overtakenEstimate = FALSE
    /\ watched = 0
    /\ docs = [f \in Files |-> "none"]
    /\ detail = {}
    /\ polling = "off"
    /\ asking = 0
    /\ answers = <<>>
    /\ blankStop = FALSE
    /\ overtaken = FALSE

\* Step one, and the uploads that go on under every step.
Upload(A) == A /\ UNCHANGED <<wizardVars, estimateVars, lost, progressVars>>

StepTwoSettings ==
    \/ \E mode \in Modes : setSegmentationType(mode)
    \/ \E type \in IndexTypes : setIndexType(type)
    \/ handleSwitch
    \/ confirmChangeCustomConfig
    \/ previewSwitch
    \/ hidePreview

Creating ==
    \/ createHandle
    \/ \E c \in DOMAIN creations : Make(c) \/ Created(c) \/ CreationFails(c) \/ GiveUp(c)

StepThree ==
    \/ Tick \/ Serve \/ PollFails
    \/ \E i \in DOMAIN answers : Answer(i)
    \/ \E f \in Files, status \in Over : Indexed(f, status)

Next ==
    \/ step = 1 /\ Upload(UploaderUser)
    \/ \E f \in Files : Upload(UploaderNetwork(f))
    \/ nextStep \/ Back
    \/ StepTwoSettings
    \/ \E i \in DOMAIN asked : Estimated(i) \/ EstimateFails(i)
    \/ Creating
    \/ StepThree

\* The browser ends every upload with a status or an error, the interval runs, the
\* server answers and the workers end; no creation, estimate or user has to do anything.
Fairness ==
    /\ \A f \in Files : WF_vars(Upload(Sent(f) \/ Ends(f)))
    /\ WF_vars(Tick) /\ WF_vars(Serve)
    /\ WF_vars(\E i \in DOMAIN answers : Answer(i))
    /\ \A f \in Files : WF_vars(\E status \in Over : Indexed(f, status))

Spec == Init /\ [][Next]_vars /\ Fairness

-----------------------------------------------------------------------------

Statuses == {"indexing", "completed", "error"}

Creation == [visit : 1..MaxVisits, state : {"open", "done", "failed", "given up"},
             made : BOOLEAN, files : SUBSET Files]

TypeOK ==
    /\ UploaderTypeOK
    /\ step \in 1..3 /\ visits \in 0..MaxVisits
    /\ accepted \in SUBSET Files
    /\ creations \in Seq(Creation) /\ result \in 0..Len(creations)
    /\ settings \in Settings
    /\ estimates \in [Modes -> Ask \cup {NoEstimate}]
    /\ asked \in Seq(Ask)
    /\ {lostEstimate, overtakenEstimate, blankStop, overtaken} \subseteq BOOLEAN
    /\ switches \in 0..MaxSwitches /\ lost \in 0..MaxLost
    /\ watched \in 0..Len(creations)
    /\ docs \in [Files -> Statuses \cup {"none"}]
    /\ detail \in SUBSET Statuses
    /\ polling \in {"off", "on", "stopped"}
    /\ asking \in 0..MaxPolls
    /\ answers \in Seq(SUBSET Statuses)

(* The documents are made of the very files that were shown when the user went on to   *)
(* step two, unless the ref was replaced under an upload: then one that ends under     *)
(* step two puts back its own list, with files that have no id and are dropped.        *)
CreatedIsAccepted ==
    [][Len(creations') > Len(creations) /\ ~overlapped
        => creations'[Len(creations')].files = accepted]_vars

(* However often "create" is clicked, one visit to step two makes no two sets of the   *)
(* same documents, unless the page gave up the first: only then is the button free     *)
(* while the server may still make its documents, or has made them.                    *)
OneCreationPerVisit ==
    \A c, d \in DOMAIN creations :
        /\ c < d /\ creations[c].visit = creations[d].visit
        /\ creations[c].made /\ creations[d].made
        => creations[c].state = "given up"

\* The estimate that belongs to the settings s and to the preview they show.
PreviewOf(s) ==
    [mode |-> s.mode, indexType |-> s.indexType,
     form |-> IF s.previewSwitched THEN "qa" ELSE "text"]

(* Once nothing more is asked for under the rules on the page, its preview is that of  *)
(* the settings on the page, their index type and the form last asked for, however     *)
(* often they were switched under the requests; only if an answer overtook an earlier  *)
(* one of the same rules, or a request failed, it may be older or missing.             *)
PreviewIsOfTheSettings ==
    /\ step = 2 /\ settings.showPreview
    /\ \A i \in DOMAIN asked : asked[i].mode # settings.mode
    /\ ~lostEstimate /\ ~overtakenEstimate
    => estimates[settings.mode] = PreviewOf(settings)

(* Under the automatic rules the page says "calculating" only while an estimate is     *)
(* asked for, whatever was switched meanwhile, unless one failed.                      *)
CalculatingMeansAsked ==
    step = 2 /\ settings.mode = "automatic" /\ estimates["automatic"] = NoEstimate
        => lostEstimate \/ \E i \in DOMAIN asked : asked[i].mode = "automatic"

(* When polling has stopped, step three shows how every document ended; it stays with  *)
(* something older only if it stopped before any answer or answers changed places.     *)
StoppedShowsTheEnd ==
    polling = "stopped" /\ ~blankStop /\ ~overtaken
        => detail = BatchStatus /\ BatchStatus \subseteq Over

(* Step three stops polling: documents that failed count as ended too.                 *)
PollingEnds == (polling = "on") ~> (polling = "stopped")
=============================================================================
