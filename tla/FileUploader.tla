---------------------------- MODULE FileUploader ----------------------------
(***************************************************************************)
(* The file list of the dataset creation wizard                            *)
(* (web/app/components/datasets/create): the list that the wizard shows,   *)
(* the list that the FileUploader keeps in a ref, and the copies of that   *)
(* ref that the uploads in flight hold.  The lists are JavaScript arrays   *)
(* that are shared and changed in place, so they have an identity: adding  *)
(* and removing make a new array, an upload writes into the one it took    *)
(* when it started, and whichever was written last is shown.               *)
(*                                                                         *)
(* Files are numbered in the order they are chosen; those that isValid     *)
(* turns down are never in the list and are left out.                      *)
(***************************************************************************)
EXTENDS Integers, Sequences, FiniteSets

CONSTANTS
    MaxFiles,     \* bound: files chosen
    BatchLimit,   \* batch_count_limit
    MaxChanges    \* bound: selections and removals

ASSUME UploaderAssumption ==
    MaxFiles \in Nat /\ MaxChanges \in Nat /\ BatchLimit \in Nat \ {0}

Files == 1..MaxFiles

VARIABLES
    lists,         \* the arrays that were ever in the ref, in order of creation
    fileListRef,   \* for each mount of the uploader the array in its ref, 0 the empty one
    fileList,      \* the contents shown by the wizard
    phase,         \* where the upload of each file is
    fileListCopy,  \* the array that the upload writes its result into
    selection,     \* the array that was made when the file was chosen
    mount,         \* the uploader it was chosen in
    anyFailed,     \* history: an upload failed
    overlapped     \* history: the ref changed while an upload was under way

uploaderVars == <<lists, fileListRef, fileList, phase, fileListCopy, selection, mount,
                  anyFailed, overlapped>>

\* A file in a list: progress below 100, progress 100 without and with the id that the
\* server gave it, progress -2.
Entry == {"waiting", "sent", "uploaded", "failed"}

List == [Files -> Entry \cup {"absent"}]

Phase == {"none", "queued", "uploading", "sent", "done"}

NoFiles == [f \in Files |-> "absent"]

Listed(list) == {f \in Files : list[f] # "absent"}

InPhase(S) == {f \in Files : phase[f] \in S}

UnderWay == InPhase({"queued", "uploading", "sent"})

ArrayAt(n) == IF n = 0 THEN NoFiles ELSE lists[n]

\* list[targetIndex] = ..., which touches no element when the file is not in the list
Put(list, f, entry) == IF list[f] = "absent" THEN list ELSE [list EXCEPT ![f] = entry]

FirstOf(S, n) == {f \in S : Cardinality({g \in S : g < f}) < n}

Uploader == Len(fileListRef)

-----------------------------------------------------------------------------
(* The user *)

\* A new array in the ref of the uploader on the page, shown at once.
Replace(list) ==
    /\ Len(lists) < MaxChanges
    /\ lists' = Append(lists, list)
    /\ fileListRef' = [fileListRef EXCEPT ![Uploader] = Len(lists) + 1]
    /\ fileList' = list
    /\ overlapped' = (overlapped \/ UnderWay # {})
    /\ UNCHANGED anyFailed

\* files.slice(start, end)
FirstBatch(S) == FirstOf(S, BatchLimit)

\* initialUpload: the files are added to the list, and the first batch of them starts.
Select(n) ==
    LET used == Cardinality(Files \ InPhase({"none"}))
        new  == (used + 1)..(used + n)
        id   == Len(lists) + 1
    IN  /\ new \subseteq Files
        /\ Replace([f \in Files |-> IF f \in new THEN "waiting"
                                    ELSE ArrayAt(fileListRef[Uploader])[f]])
        /\ phase' = [f \in Files |-> IF f \in FirstBatch(new) THEN "uploading"
                                     ELSE IF f \in new THEN "queued" ELSE phase[f]]
        /\ fileListCopy' = [f \in Files |-> IF f \in FirstBatch(new) THEN id
                                            ELSE fileListCopy[f]]
        /\ selection' = [f \in Files |-> IF f \in new THEN id ELSE selection[f]]
        /\ mount' = [f \in Files |-> IF f \in new THEN Uploader ELSE mount[f]]

\* Mutant: only what is shown changes.
RemoveFromShown(f) ==
    /\ fileList[f] \in {"sent", "uploaded"}
    /\ fileList' = [fileList EXCEPT ![f] = "absent"]
    /\ UNCHANGED <<lists, fileListRef, phase, fileListCopy, selection, mount, anyFailed,
                   overlapped>>

\* removeFile: the ref decides what is left, and the icon is there at progress 100.
Remove(f) ==
    /\ fileList[f] \in {"sent", "uploaded"}
    /\ Replace([ArrayAt(fileListRef[Uploader]) EXCEPT ![f] = "absent"])
    /\ UNCHANGED <<phase, fileListCopy, selection, mount>>

-----------------------------------------------------------------------------
(* The uploads *)

\* onUploadProgress before the end: the list that is in the ref by now is shown.
Progress(f) ==
    /\ phase[f] = "uploading"
    /\ fileList' = ArrayAt(fileListRef[mount[f]])
    /\ UNCHANGED <<lists, fileListRef, phase, fileListCopy, selection, mount, anyFailed,
                   overlapped>>

\* ... and at the end, before the server has answered.
Sent(f) ==
    LET array == fileListRef[mount[f]]
    IN  /\ phase[f] = "uploading"
        /\ phase' = [phase EXCEPT ![f] = "sent"]
        /\ lists' = [lists EXCEPT ![array] = Put(@, f, "sent")]
        /\ fileList' = lists'[array]
        /\ UNCHANGED <<fileListRef, fileListCopy, selection, mount, anyFailed, overlapped>>

\* The files of one selection that are being sent, once f is done.
OthersOf(f, S) == {g \in InPhase(S) \ {f} : selection[g] = selection[f]}

\* The next batch starts when the last upload of a batch has ended, whichever way.
NextBatch(f) ==
    IF OthersOf(f, {"uploading", "sent"}) = {} THEN FirstBatch(OthersOf(f, {"queued"}))
    ELSE {}

\* An upload ends: its own copy of the list gets the result and is shown.
Settle(f, entry, started) ==
    /\ lists' = [lists EXCEPT ![fileListCopy[f]] = Put(@, f, entry)]
    /\ fileList' = lists'[fileListCopy[f]]
    /\ phase' = [g \in Files |-> IF g = f THEN "done"
                                 ELSE IF g \in started THEN "uploading" ELSE phase[g]]
    /\ fileListCopy' = [g \in Files |-> IF g \in started THEN fileListRef[mount[f]]
                                        ELSE fileListCopy[g]]
    /\ anyFailed' = (anyFailed \/ entry = "failed")
    /\ UNCHANGED <<fileListRef, selection, mount, overlapped>>

\* Mutant: the file keeps its old entry, only the progress is set.
UploadedWithoutId(f) ==
    /\ phase[f] = "sent"
    /\ Settle(f, "sent", NextBatch(f))

Uploaded(f) ==
    /\ phase[f] = "sent"
    /\ Settle(f, "uploaded", NextBatch(f))

\* Mutant: the promise is rejected, and with it the loop over the batches.
UploadFailedRejecting(f) ==
    /\ phase[f] \in {"uploading", "sent"}
    /\ Settle(f, "failed", {})

UploadFailed(f) ==
    /\ phase[f] \in {"uploading", "sent"}
    /\ Settle(f, "failed", NextBatch(f))

-----------------------------------------------------------------------------

UploaderInit ==
    /\ lists = <<>>
    /\ fileListRef = <<0>>
    /\ fileList = NoFiles
    /\ phase = [f \in Files |-> "none"]
    /\ fileListCopy = [f \in Files |-> 0]
    /\ selection = [f \in Files |-> 0]
    /\ mount = [f \in Files |-> 0]
    /\ anyFailed = FALSE
    /\ overlapped = FALSE

UploaderUser == (\E n \in Files : Select(n)) \/ (\E f \in Files : Remove(f))

Ends(f) == Uploaded(f) \/ UploadFailed(f)

UploaderNetwork(f) == Progress(f) \/ Sent(f) \/ Ends(f)

UploaderTypeOK ==
    /\ lists \in Seq(List) /\ Len(lists) <= MaxChanges
    /\ fileListRef \in Seq(0..Len(lists)) /\ Uploader > 0
    /\ fileList \in List
    /\ phase \in [Files -> Phase]
    /\ fileListCopy \in [Files -> 0..Len(lists)]
    /\ selection \in [Files -> 0..Len(lists)]
    /\ mount \in [Files -> 0..Uploader]
    /\ anyFailed \in BOOLEAN
    /\ overlapped \in BOOLEAN

(* The list shown and the list in the ref are the same files in the same states unless *)
(* the ref was replaced under an upload; the one other exception is an uploader that   *)
(* was mounted again and still has its empty ref under the earlier files.              *)
ShownIsKept ==
    \/ overlapped
    \/ fileList = ArrayAt(fileListRef[Uploader])
    \/ fileListRef[Uploader] = 0 /\ Uploader > 1

(* With the uploads over, "next" is refused for a file without an id only if an upload *)
(* failed or the ref was replaced under one: such a file is never loaded any more.     *)
NextRefusedForAReason ==
    UnderWay = {} /\ ~anyFailed /\ ~overlapped
        => \A f \in Listed(fileList) : fileList[f] = "uploaded"

(* Every file that was chosen is sent: the files that wait for their batch come to an   *)
(* end. A failed upload before them does not stop the batches, nor does the user who   *)
(* removes files or goes on to the next step.                                          *)
EveryFileIsSent == InPhase({"queued"}) # {} ~> InPhase({"queued"}) = {}
=============================================================================
