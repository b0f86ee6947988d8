------------------------ MODULE FileUploader_proofs -------------------------
(***************************************************************************)
(* What holds of the file list of the dataset wizard for every number of   *)
(* files, selections, removals and files in a batch.  Every operation of   *)
(* the uploader keeps UploadsInv, and so does the wizard when it mounts    *)
(* the uploader again; DatasetWizard_proofs puts them together.            *)
(***************************************************************************)
EXTENDS FileUploader, SequenceTheorems, FiniteSetTheorems, TLAPS

-----------------------------------------------------------------------------
(* The invariant *)

\* Files are chosen in their order, and a file that was not chosen is in no list.
ChosenInOrder ==
    /\ \A f, g \in Files : f < g /\ phase[f] = "none" => phase[g] = "none"
    /\ \A f \in Files : phase[f] = "none" => \A n \in DOMAIN lists : lists[n][f] = "absent"

\* A chosen file has an uploader, whose ref is not empty, and shares it with the files of
\* its selection; a file that is being sent has a list to write into.
ChosenSomewhere ==
    \A f \in Files :
        /\ phase[f] # "none" => mount[f] \in 1..Uploader /\ fileListRef[mount[f]] > 0
        /\ phase[f] \in {"uploading", "sent"} => fileListCopy[f] > 0
        /\ \A g \in Files :
              phase[f] # "none" /\ phase[g] # "none" /\ selection[f] = selection[g]
                  => mount[f] = mount[g]

\* As long as the ref is not replaced under an upload, all uploads under way write into
\* one list, which is the one that is shown, and the only one that has their files.
OneListUnderWay ==
    ~overlapped =>
        \A f \in UnderWay :
            /\ mount[f] = Uploader \/ (fileListRef[Uploader] = 0 /\ Uploader > 1)
            /\ phase[f] # "queued" => fileListCopy[f] = fileListRef[mount[f]]
            /\ fileList = lists[fileListRef[mount[f]]]
            /\ fileList[f] \in {"waiting", "sent"}
            /\ \A g \in UnderWay : mount[g] = mount[f]
            /\ \A n \in DOMAIN lists \ {fileListRef[mount[f]]} : lists[n][f] = "absent"

Settled(list) == \A f \in Listed(list) \ UnderWay : list[f] = "uploaded"

\* Files that are no longer under way have their id in every list they are in.
SettledEverywhere ==
    ~overlapped /\ ~anyFailed
        => Settled(fileList) /\ \A n \in DOMAIN lists : Settled(lists[n])

UploadsInv ==
    /\ UploaderTypeOK /\ ChosenInOrder /\ ChosenSomewhere /\ OneListUnderWay
    /\ SettledEverywhere /\ ShownIsKept

\* The wizard mounts the uploader again.
Remount ==
    /\ fileListRef' = Append(fileListRef, 0)
    /\ UNCHANGED <<lists, fileList, phase, fileListCopy, selection, mount, anyFailed,
                   overlapped>>

-----------------------------------------------------------------------------
(* Types *)

LEMMA UploaderNats == MaxFiles \in Nat /\ MaxChanges \in Nat /\ BatchLimit \in Nat \ {0}
BY UploaderAssumption

LEMMA UploaderFacts ==
    ASSUME UploaderTypeOK
    PROVE  /\ lists \in Seq(List) /\ DOMAIN lists = 1..Len(lists) /\ Len(lists) \in Nat
           /\ \A n \in DOMAIN lists : lists[n] \in List
           /\ fileListRef \in Seq(0..Len(lists)) /\ DOMAIN fileListRef = 1..Uploader
           /\ Uploader \in Nat /\ Uploader > 0
           /\ \A m \in 1..Uploader : fileListRef[m] \in 0..Len(lists)
           /\ fileList \in List
           /\ phase \in [Files -> Phase]
           /\ fileListCopy \in [Files -> 0..Len(lists)]
           /\ selection \in [Files -> 0..Len(lists)]
           /\ mount \in [Files -> 0..Uploader]
BY LenProperties DEF UploaderTypeOK, Uploader

LEMMA NoFilesIsList == NoFiles \in List
BY DEF NoFiles, List

\* A result is written into one entry of one list, and only if the file is there.
LEMMA WriteResult ==
    ASSUME UploaderTypeOK, NEW a \in DOMAIN lists, NEW f \in Files, NEW entry \in Entry,
           lists' = [lists EXCEPT ![a] = Put(@, f, entry)]
    PROVE  /\ lists' \in Seq(List) /\ Len(lists') = Len(lists) /\ DOMAIN lists' = DOMAIN lists
           /\ \A n \in DOMAIN lists : lists'[n] \in List
           /\ \A n \in DOMAIN lists \ {a} : lists'[n] = lists[n]
           /\ \A g \in Files \ {f} : lists'[a][g] = lists[a][g]
           /\ lists'[a][f] = IF lists[a][f] = "absent" THEN "absent" ELSE entry
<1> DEFINE l == Put(lists[a], f, entry)
<1>1. lists \in Seq(List) /\ DOMAIN lists = 1..Len(lists) /\ lists[a] \in List
  BY UploaderFacts
<1>2. /\ l \in List
      /\ \A g \in Files \ {f} : l[g] = lists[a][g]
      /\ l[f] = IF lists[a][f] = "absent" THEN "absent" ELSE entry
  BY <1>1 DEF Put, List
<1>3. lists' = [lists EXCEPT ![a] = l]
  OBVIOUS
<1> HIDE DEF l
<1>4. /\ lists' \in Seq(List) /\ Len(lists') = Len(lists)
      /\ \A n \in 1..Len(lists) : lists'[n] = IF n = a THEN l ELSE lists[n]
  BY <1>1, <1>2, <1>3, ExceptSeq
<1>5. DOMAIN lists' = DOMAIN lists
  BY <1>1, <1>4, LenProperties
<1>6. \A n \in DOMAIN lists : lists'[n] \in List
  BY <1>1, <1>2, <1>4, UploaderFacts
<1> QED
  BY <1>1, <1>2, <1>4, <1>5, <1>6

\* A new list is put in the ref of the last uploader and shown.
LEMMA ReplaceResult ==
    ASSUME UploaderTypeOK, NEW list \in List, Replace(list)
    PROVE  /\ lists' \in Seq(List) /\ DOMAIN lists' = 1..(Len(lists) + 1)
           /\ Len(lists') = Len(lists) + 1 /\ Len(lists') <= MaxChanges
           /\ lists'[Len(lists) + 1] = list
           /\ \A n \in DOMAIN lists : lists'[n] = lists[n]
           /\ fileListRef' \in Seq(0..(Len(lists) + 1)) /\ Uploader' = Uploader
           /\ fileListRef'[Uploader] = Len(lists) + 1
           /\ \A m \in 1..Uploader : m # Uploader => fileListRef'[m] = fileListRef[m]
           /\ fileList' = list
           /\ overlapped' = (overlapped \/ UnderWay # {})
           /\ anyFailed' = anyFailed
<1>1. /\ Len(lists) < MaxChanges /\ lists' = Append(lists, list)
      /\ fileListRef' = [fileListRef EXCEPT ![Uploader] = Len(lists) + 1]
      /\ fileList' = list /\ anyFailed' = anyFailed
      /\ overlapped' = (overlapped \/ UnderWay # {})
  BY DEF Replace
<1>2. /\ lists \in Seq(List) /\ DOMAIN lists = 1..Len(lists) /\ Len(lists) \in Nat
      /\ fileListRef \in Seq(0..Len(lists)) /\ DOMAIN fileListRef = 1..Uploader
      /\ Uploader \in Nat /\ Uploader > 0
  BY UploaderFacts
<1>3. /\ lists' \in Seq(List) /\ Len(lists') = Len(lists) + 1
      /\ lists'[Len(lists) + 1] = list
      /\ \A n \in 1..Len(lists) : lists'[n] = lists[n]
  BY <1>1, <1>2, AppendProperties
<1>4. DOMAIN lists' = 1..(Len(lists) + 1) /\ Len(lists') <= MaxChanges
  BY <1>1, <1>2, <1>3, LenProperties, UploaderNats
<1>5. fileListRef \in Seq(0..(Len(lists) + 1))
  <2>1. \A m \in 1..Uploader : fileListRef[m] \in 0..(Len(lists) + 1)
    BY <1>2, UploaderFacts
  <2> QED BY <1>2, <2>1, IsASeq
<1>6. /\ fileListRef' \in Seq(0..(Len(lists) + 1)) /\ Len(fileListRef') = Len(fileListRef)
      /\ \A m \in 1..Len(fileListRef) :
            fileListRef'[m] = IF m = Uploader THEN Len(lists) + 1 ELSE fileListRef[m]
  <2>1. Len(lists) + 1 \in 0..(Len(lists) + 1) /\ Uploader \in 1..Len(fileListRef)
    BY <1>2 DEF Uploader
  <2> QED BY <1>1, <1>5, <2>1, ExceptSeq
<1>7. Uploader' = Uploader /\ Uploader = Len(fileListRef)
  BY <1>6 DEF Uploader
<1>8. /\ fileListRef'[Uploader] = Len(lists) + 1
      /\ \A m \in 1..Uploader : m # Uploader => fileListRef'[m] = fileListRef[m]
  <2>1. \A m \in 1..Uploader :
           fileListRef'[m] = IF m = Uploader THEN Len(lists) + 1 ELSE fileListRef[m]
    BY <1>6 DEF Uploader
  <2>2. Uploader \in 1..Uploader
    BY <1>2
  <2> QED BY <2>1, <2>2
<1> QED
  BY <1>1, <1>2, <1>3, <1>4, <1>6, <1>7, <1>8

LEMMA UploadsInit == UploaderInit => UploadsInv
<1> SUFFICES ASSUME UploaderInit PROVE UploadsInv
  OBVIOUS
<1>1. lists = << >> /\ lists \in Seq(List) /\ Len(lists) = 0
  BY EmptySeq DEF UploaderInit
<1>2. Uploader = 1 /\ fileListRef[Uploader] = 0 /\ fileListRef \in Seq(0..Len(lists))
  BY <1>1 DEF UploaderInit, Uploader
<1>3. \A f \in Files : phase[f] = "none"
  BY DEF UploaderInit
<1>4. UnderWay = {}
  BY <1>3 DEF UnderWay, InPhase
<1>5. UploaderTypeOK
  <2>1. /\ fileList \in List /\ phase \in [Files -> Phase]
        /\ fileListCopy \in [Files -> 0..Len(lists)]
        /\ selection \in [Files -> 0..Len(lists)]
        /\ mount \in [Files -> 0..Uploader]
    BY <1>1, <1>2, NoFilesIsList DEF UploaderInit, Phase
  <2>2. anyFailed \in BOOLEAN /\ overlapped \in BOOLEAN
    BY DEF UploaderInit
  <2> QED BY <1>1, <1>2, <2>1, <2>2, UploaderNats DEF UploaderTypeOK
<1>6. ChosenInOrder /\ ChosenSomewhere /\ OneListUnderWay
  BY <1>1, <1>3, <1>4 DEF ChosenInOrder, ChosenSomewhere, OneListUnderWay
<1>7. SettledEverywhere /\ ShownIsKept
  BY <1>1, <1>2 DEF SettledEverywhere, Settled, Listed, NoFiles, UploaderInit, ShownIsKept, ArrayAt
<1> QED
  BY <1>5, <1>6, <1>7 DEF UploadsInv

-----------------------------------------------------------------------------
(* The uploads *)

LEMMA ProgressKeepsInv ==
    ASSUME UploadsInv, NEW f \in Files, Progress(f)
    PROVE  UploadsInv'
<1>1. /\ phase[f] = "uploading" /\ fileList' = ArrayAt(fileListRef[mount[f]])
      /\ UNCHANGED <<lists, fileListRef, phase, fileListCopy, selection, mount, anyFailed,
                     overlapped>>
  BY DEF Progress
<1>2. UnderWay' = UnderWay /\ Uploader' = Uploader /\ f \in UnderWay
  BY <1>1 DEF UnderWay, InPhase, Uploader
<1>3. mount[f] \in 1..Uploader /\ fileListRef[mount[f]] \in DOMAIN lists
  BY <1>1, UploaderFacts DEF UploadsInv, ChosenSomewhere
<1>4. fileList' = lists[fileListRef[mount[f]]]
  BY <1>1, <1>3, UploaderFacts DEF UploadsInv, ArrayAt
<1>5. UploaderTypeOK'
  <2>1. fileList' \in List
    BY <1>3, <1>4, UploaderFacts DEF UploadsInv
  <2> QED BY <1>1, <1>2, <2>1 DEF UploadsInv, UploaderTypeOK
<1>6. ChosenInOrder' /\ ChosenSomewhere'
  BY <1>1, <1>2 DEF UploadsInv, ChosenInOrder, ChosenSomewhere
<1>7. ~overlapped => fileList' = fileList
  BY <1>2, <1>4 DEF UploadsInv, OneListUnderWay
<1>8. OneListUnderWay' /\ ShownIsKept'
  <2>1. CASE overlapped
    BY <1>1, <2>1 DEF OneListUnderWay, ShownIsKept
  <2>2. CASE ~overlapped
    BY <1>1, <1>2, <1>7, <2>2 DEF UploadsInv, OneListUnderWay, ShownIsKept, ArrayAt
  <2> QED BY <2>1, <2>2
<1>9. SettledEverywhere'
  <2>1. CASE overlapped
    BY <1>1, <2>1 DEF SettledEverywhere
  <2>2. CASE ~overlapped
    BY <1>1, <1>2, <1>7, <2>2 DEF UploadsInv, SettledEverywhere, Settled, Listed
  <2> QED BY <2>1, <2>2
<1> QED
  BY <1>5, <1>6, <1>8, <1>9 DEF UploadsInv

LEMMA SentKeepsInv ==
    ASSUME UploadsInv, NEW f \in Files, Sent(f)
    PROVE  UploadsInv'
<1> DEFINE a == fileListRef[mount[f]]
<1>1. /\ phase[f] = "uploading" /\ phase' = [phase EXCEPT ![f] = "sent"]
      /\ lists' = [lists EXCEPT ![a] = Put(@, f, "sent")] /\ fileList' = lists'[a]
      /\ UNCHANGED <<fileListRef, fileListCopy, selection, mount, anyFailed, overlapped>>
  BY DEF Sent
<1>2. /\ UploaderTypeOK /\ ChosenInOrder /\ ChosenSomewhere /\ OneListUnderWay
      /\ SettledEverywhere /\ ShownIsKept
  BY DEF UploadsInv
<1>3. mount[f] \in 1..Uploader /\ a \in DOMAIN lists /\ a > 0
  BY <1>1, <1>2, UploaderFacts DEF ChosenSomewhere
<1> HIDE DEF a
<1>4. /\ lists' \in Seq(List) /\ Len(lists') = Len(lists) /\ DOMAIN lists' = DOMAIN lists
      /\ \A n \in DOMAIN lists : lists'[n] \in List
      /\ \A n \in DOMAIN lists \ {a} : lists'[n] = lists[n]
      /\ \A g \in Files \ {f} : lists'[a][g] = lists[a][g]
      /\ lists'[a][f] = IF lists[a][f] = "absent" THEN "absent" ELSE "sent"
  BY <1>1, <1>2, <1>3, WriteResult DEF Entry
<1>5. /\ phase' \in [Files -> Phase] /\ phase'[f] = "sent"
      /\ \A g \in Files \ {f} : phase'[g] = phase[g]
  BY <1>1, <1>2, UploaderFacts DEF Phase
<1>6. UnderWay' = UnderWay /\ Uploader' = Uploader /\ f \in UnderWay
  BY <1>1, <1>5 DEF UnderWay, InPhase, Uploader
<1>7. UploaderTypeOK'
  BY <1>1, <1>2, <1>3, <1>4, <1>5, <1>6 DEF UploaderTypeOK
<1>8. ChosenInOrder'
  <2>1. \A g \in Files : phase'[g] = "none" => phase[g] = "none" /\ g # f
    BY <1>5
  <2>2. \A g \in Files : g # f => \A n \in DOMAIN lists : lists'[n][g] = lists[n][g]
    BY <1>4
  <2>3. \A g \in Files : phase[g] = "none" => phase'[g] = "none"
    BY <1>1, <1>5
  <2> QED BY <1>2, <1>4, <2>1, <2>2, <2>3 DEF ChosenInOrder
<1>9. ChosenSomewhere'
  BY <1>1, <1>2, <1>5, <1>6 DEF ChosenSomewhere
<1>10. ASSUME ~overlapped
       PROVE  /\ mount[f] = Uploader \/ (fileListRef[Uploader] = 0 /\ Uploader > 1)
              /\ fileList = lists[a] /\ fileList[f] \in {"waiting", "sent"}
              /\ \A g \in UnderWay : mount[g] = mount[f] /\ mount[f] = mount[g]
              /\ fileListCopy[f] = a
              /\ \A n \in DOMAIN lists \ {a} : lists[n][f] = "absent"
  BY <1>1, <1>2, <1>6, <1>10 DEF OneListUnderWay, a
<1>11. OneListUnderWay'
  <2> SUFFICES ASSUME ~overlapped, NEW g \in UnderWay
               PROVE  /\ mount[g] = Uploader \/ (fileListRef[Uploader] = 0 /\ Uploader > 1)
                      /\ phase'[g] # "queued" => fileListCopy[g] = fileListRef[mount[g]]
                      /\ fileList' = lists'[fileListRef[mount[g]]]
                      /\ fileList'[g] \in {"waiting", "sent"}
                      /\ \A h \in UnderWay : mount[h] = mount[g]
                      /\ \A n \in DOMAIN lists \ {fileListRef[mount[g]]} : lists'[n][g] = "absent"
    BY <1>1, <1>4, <1>6 DEF OneListUnderWay
  <2>1. g \in Files /\ fileListRef[mount[g]] = a
    BY <1>10 DEF UnderWay, InPhase, a
  <2>2. /\ phase[g] # "queued" => fileListCopy[g] = a
        /\ fileList[g] \in {"waiting", "sent"}
        /\ \A n \in DOMAIN lists \ {a} : lists[n][g] = "absent"
    BY <1>2, <2>1 DEF OneListUnderWay
  <2>3. phase'[g] # "queued" => fileListCopy[g] = a
    BY <1>5, <1>10, <2>1, <2>2
  <2>4. fileList'[g] \in {"waiting", "sent"}
    BY <1>1, <1>4, <1>10, <2>1, <2>2
  <2>5. \A n \in DOMAIN lists \ {a} : lists'[n][g] = "absent"
    BY <1>4, <2>2
  <2> QED BY <1>1, <1>10, <2>1, <2>3, <2>4, <2>5
<1>12. SettledEverywhere'
  <2> SUFFICES ASSUME ~overlapped, ~anyFailed
               PROVE  \A n \in DOMAIN lists : Settled(lists[n])'
    BY <1>1, <1>3, <1>4 DEF SettledEverywhere, Settled, Listed
  <2>1. \A n \in DOMAIN lists : Settled(lists[n])
    BY <1>2 DEF SettledEverywhere
  <2> SUFFICES ASSUME NEW n \in DOMAIN lists, NEW g \in Files,
                      lists'[n][g] # "absent", g \notin UnderWay
               PROVE  lists'[n][g] = "uploaded"
    BY <1>6 DEF Settled, Listed
  <2>2. lists'[n][g] = lists[n][g]
    BY <1>4, <1>6
  <2> QED BY <2>1, <2>2 DEF Settled, Listed
<1>13. ShownIsKept'
  BY <1>1, <1>3, <1>6, <1>10 DEF ShownIsKept, ArrayAt, a
<1> QED
  BY <1>7, <1>8, <1>9, <1>11, <1>12, <1>13 DEF UploadsInv

\* The batch that follows waits for it.
LEMMA NextBatchWaits ==
    ASSUME NEW f \in Files
    PROVE  \A g \in NextBatch(f) :
              g \in Files /\ g # f /\ phase[g] = "queued" /\ selection[g] = selection[f]
BY DEF NextBatch, FirstBatch, FirstOf, OthersOf, InPhase

\* An upload ends, with a failure or with the id of the file.
LEMMA SettleKeepsInv ==
    ASSUME UploadsInv, NEW f \in Files, phase[f] \in {"uploading", "sent"},
           NEW entry \in {"uploaded", "failed"}, Settle(f, entry, NextBatch(f))
    PROVE  UploadsInv'
<1> DEFINE a == fileListCopy[f]
           started == NextBatch(f)
<1>1. /\ lists' = [lists EXCEPT ![a] = Put(@, f, entry)] /\ fileList' = lists'[a]
      /\ phase' = [g \in Files |-> IF g = f THEN "done"
                                   ELSE IF g \in started THEN "uploading" ELSE phase[g]]
      /\ fileListCopy' = [g \in Files |-> IF g \in started THEN fileListRef[mount[f]]
                                          ELSE fileListCopy[g]]
      /\ UNCHANGED <<fileListRef, selection, mount, overlapped>>
  BY DEF Settle
<1>2. anyFailed' = (anyFailed \/ entry = "failed")
  BY DEF Settle
<1>3. \A g \in started :
         g \in Files /\ g # f /\ phase[g] = "queued" /\ selection[g] = selection[f]
  BY NextBatchWaits
<1>4. /\ UploaderTypeOK /\ ChosenInOrder /\ ChosenSomewhere /\ OneListUnderWay
      /\ SettledEverywhere /\ ShownIsKept
  BY DEF UploadsInv
<1>5. /\ a \in DOMAIN lists /\ a > 0 /\ mount[f] \in 1..Uploader
      /\ fileListRef[mount[f]] \in 1..Len(lists)
  BY <1>4, UploaderFacts DEF ChosenSomewhere
<1> HIDE DEF a, started
<1>6. /\ lists' \in Seq(List) /\ Len(lists') = Len(lists) /\ DOMAIN lists' = DOMAIN lists
      /\ \A n \in DOMAIN lists : lists'[n] \in List
      /\ \A n \in DOMAIN lists \ {a} : lists'[n] = lists[n]
      /\ \A g \in Files \ {f} : lists'[a][g] = lists[a][g]
      /\ lists'[a][f] = IF lists[a][f] = "absent" THEN "absent" ELSE entry
  BY <1>1, <1>4, <1>5, WriteResult DEF Entry
<1>7. /\ phase' \in [Files -> Phase]
      /\ fileListCopy' \in [Files -> 0..Len(lists)]
  BY <1>1, <1>4, <1>5, UploaderFacts DEF Phase
<1>8. /\ UnderWay' = UnderWay \ {f} /\ f \in UnderWay
      /\ \A g \in Files : phase'[g] = "none" <=> phase[g] = "none"
  <2>1. \A g \in Files :
           /\ g = f => phase'[g] = "done"
           /\ g \in started => phase'[g] = "uploading"
           /\ g # f /\ g \notin started => phase'[g] = phase[g]
    BY <1>1, <1>3
  <2> QED BY <1>3, <2>1 DEF UnderWay, InPhase
<1>9. Uploader' = Uploader
  BY <1>1 DEF Uploader
<1>10. UploaderTypeOK'
  BY <1>1, <1>2, <1>4, <1>5, <1>6, <1>7, <1>9 DEF UploaderTypeOK
<1>11. ChosenInOrder'
  <2>1. \A g \in Files : phase'[g] = "none" => g # f
    BY <1>1
  <2>2. \A g \in Files : g # f => \A n \in DOMAIN lists : lists'[n][g] = lists[n][g]
    BY <1>6
  <2> QED BY <1>4, <1>6, <1>8, <2>1, <2>2 DEF ChosenInOrder
<1>12. ChosenSomewhere'
  <2>1. \A g \in Files : phase'[g] \in {"uploading", "sent"} => fileListCopy'[g] > 0
    <3> SUFFICES ASSUME NEW g \in Files, phase'[g] \in {"uploading", "sent"}
                 PROVE  fileListCopy'[g] > 0
      OBVIOUS
    <3>1. CASE g \in started
      BY <1>1, <1>5, <3>1
    <3>2. CASE g \notin started
      BY <1>1, <1>4, <3>2 DEF ChosenSomewhere
    <3> QED BY <3>1, <3>2
  <2> QED BY <1>1, <1>4, <1>8, <1>9, <2>1 DEF ChosenSomewhere
<1>13. ASSUME ~overlapped
       PROVE  /\ mount[f] = Uploader \/ (fileListRef[Uploader] = 0 /\ Uploader > 1)
              /\ fileListRef[mount[f]] = a
              /\ fileList = lists[a] /\ fileList[f] \in {"waiting", "sent"}
              /\ \A g \in UnderWay : mount[g] = mount[f]
              /\ \A n \in DOMAIN lists \ {a} : lists[n][f] = "absent"
  BY <1>4, <1>8, <1>13 DEF OneListUnderWay, a
<1>14. OneListUnderWay'
  <2> SUFFICES ASSUME ~overlapped, NEW g \in UnderWay \ {f}
               PROVE  /\ mount[g] = Uploader \/ (fileListRef[Uploader] = 0 /\ Uploader > 1)
                      /\ phase'[g] # "queued" => fileListCopy'[g] = fileListRef[mount[g]]
                      /\ fileList' = lists'[fileListRef[mount[g]]]
                      /\ fileList'[g] \in {"waiting", "sent"}
                      /\ \A h \in UnderWay \ {f} : mount[h] = mount[g]
                      /\ \A n \in DOMAIN lists \ {fileListRef[mount[g]]} : lists'[n][g] = "absent"
    <3>1. /\ overlapped' = overlapped /\ mount' = mount /\ fileListRef' = fileListRef
          /\ DOMAIN lists' = DOMAIN lists /\ UnderWay' = UnderWay \ {f}
          /\ Uploader' = Uploader
      BY <1>1, <1>6, <1>8, <1>9
    <3> QED BY <3>1 DEF OneListUnderWay
  <2>1. g \in Files /\ mount[g] = mount[f] /\ fileListRef[mount[g]] = a
    BY <1>13 DEF UnderWay, InPhase
  <2>2. /\ phase[g] # "queued" => fileListCopy[g] = a
        /\ fileList[g] \in {"waiting", "sent"}
        /\ \A n \in DOMAIN lists \ {a} : lists[n][g] = "absent"
    BY <1>4, <2>1 DEF OneListUnderWay
  <2>3. phase'[g] # "queued" => fileListCopy'[g] = a
    <3>1. CASE g \in started
      BY <1>1, <1>13, <2>1, <3>1
    <3>2. CASE g \notin started
      BY <1>1, <2>1, <2>2, <3>2
    <3> QED BY <3>1, <3>2
  <2>4. fileList'[g] \in {"waiting", "sent"}
    BY <1>1, <1>6, <1>13, <2>1, <2>2
  <2>5. \A n \in DOMAIN lists \ {a} : lists'[n][g] = "absent"
    BY <1>6, <2>2
  <2> QED BY <1>1, <1>13, <2>1, <2>3, <2>4, <2>5
<1>15. SettledEverywhere'
  <2> SUFFICES ASSUME ~overlapped, ~anyFailed'
               PROVE  \A n \in DOMAIN lists : Settled(lists[n])'
    BY <1>1, <1>5, <1>6 DEF SettledEverywhere, Settled, Listed
  <2>1. ~anyFailed /\ entry = "uploaded"
    BY <1>2
  <2>2. \A n \in DOMAIN lists : Settled(lists[n])
    BY <1>4, <2>1 DEF SettledEverywhere
  <2> SUFFICES ASSUME NEW n \in DOMAIN lists, NEW g \in Files,
                      lists'[n][g] # "absent", g \notin UnderWay \ {f}
               PROVE  lists'[n][g] = "uploaded"
    BY <1>8 DEF Settled, Listed
  <2>3. CASE g = f
    <3>1. n = a
      BY <1>6, <1>13, <2>3
    <3> QED BY <1>6, <2>1, <2>3, <3>1
  <2>4. CASE g # f
    <3>1. lists'[n][g] = lists[n][g]
      BY <1>6, <2>4
    <3> QED BY <2>2, <2>4, <3>1 DEF Settled, Listed
  <2> QED BY <2>3, <2>4
<1>16. ShownIsKept'
  BY <1>1, <1>5, <1>9, <1>13 DEF ShownIsKept, ArrayAt
<1> QED
  BY <1>10, <1>11, <1>12, <1>14, <1>15, <1>16 DEF UploadsInv

-----------------------------------------------------------------------------
(* The user *)

\* The files that were chosen come first.
LEMMA ChosenAreFirst ==
    ASSUME UploaderTypeOK, ChosenInOrder
    PROVE  /\ Cardinality(Files \ InPhase({"none"})) \in Nat
           /\ \A f \in Files :
                 phase[f] = "none" <=> f > Cardinality(Files \ InPhase({"none"}))
<1> DEFINE C == Files \ InPhase({"none"})
<1>1. \A f \in Files : f \in C <=> phase[f] # "none"
  BY DEF InPhase
<1>2. \A f \in Files, i \in Nat \ {0} : i <= f => i \in Files /\ f \in Nat /\ f > 0
  BY UploaderNats DEF Files
<1>3. \A i \in Nat : IsFiniteSet(1..i) /\ Cardinality(1..i) = i
  <2> SUFFICES ASSUME NEW i \in Nat PROVE IsFiniteSet(1..i) /\ Cardinality(1..i) = i
    OBVIOUS
  <2>1. /\ IsFiniteSet(1..i)
        /\ Cardinality(1..i) = IF 1 > i THEN 0 ELSE i - 1 + 1
    BY FS_Interval
  <2> QED BY <2>1
<1>4. IsFiniteSet(C)
  <2>1. IsFiniteSet(Files) /\ C \subseteq Files
    BY <1>3, UploaderNats DEF Files
  <2> QED BY <2>1, FS_Subset
<1>5. Cardinality(C) \in Nat
  BY <1>4, FS_CardinalityType
<1>6. ASSUME NEW f \in C PROVE f <= Cardinality(C)
  <2>1. f \in Nat /\ f \in Files /\ C \subseteq Files
    BY UploaderNats DEF Files
  <2>2. 1..f \subseteq C
    <3> SUFFICES ASSUME NEW i \in 1..f PROVE i \in C
      OBVIOUS
    <3>1. i \in Files /\ (i = f \/ i < f)
      BY <1>2, <2>1
    <3>2. phase[i] # "none"
      BY <1>1, <2>1, <3>1 DEF ChosenInOrder
    <3> QED BY <1>1, <3>1, <3>2
  <2>3. Cardinality(1..f) <= Cardinality(C)
    BY <1>4, <2>2, FS_Subset
  <2> QED BY <1>3, <2>1, <2>3
<1>7. ASSUME NEW f \in Files, f \notin C PROVE f > Cardinality(C)
  <2>1. f \in Nat /\ f > 0 /\ f - 1 \in Nat
    BY UploaderNats DEF Files
  <2>2. C \subseteq 1..(f - 1)
    <3> SUFFICES ASSUME NEW g \in C PROVE g \in 1..(f - 1)
      OBVIOUS
    <3>1. g \in Files /\ g \in Nat /\ g > 0 /\ phase[g] # "none" /\ phase[f] = "none"
      BY <1>1, <1>7, UploaderNats DEF Files
    <3>2. ~(f < g) /\ f # g
      BY <3>1 DEF ChosenInOrder
    <3> QED BY <2>1, <3>1, <3>2
  <2>3. Cardinality(C) <= Cardinality(1..(f - 1)) /\ Cardinality(1..(f - 1)) = f - 1
    BY <1>3, <2>1, <2>2, FS_Subset
  <2> QED BY <1>5, <2>1, <2>3
<1>8. \A f \in Files : phase[f] = "none" <=> f > Cardinality(C)
  <2> SUFFICES ASSUME NEW f \in Files PROVE phase[f] = "none" <=> f > Cardinality(C)
    OBVIOUS
  <2>1. f \in Nat
    BY UploaderNats DEF Files
  <2>2. f \in C => f <= Cardinality(C)
    BY <1>6
  <2>3. f \notin C => f > Cardinality(C)
    BY <1>7
  <2>4. f <= Cardinality(C) <=> ~(f > Cardinality(C))
    BY <1>5, <2>1
  <2> QED BY <1>1, <2>2, <2>3, <2>4
<1> QED
  BY <1>5, <1>8

\* The list in the ref of the uploader on the page.
LEMMA ShownRef ==
    ASSUME UploadsInv
    PROVE  /\ ArrayAt(fileListRef[Uploader]) \in List
           /\ \A f \in Files :
                 /\ phase[f] = "none" => ArrayAt(fileListRef[Uploader])[f] = "absent"
                 /\ ~overlapped /\ ~anyFailed /\ f \notin UnderWay
                        => ArrayAt(fileListRef[Uploader])[f] \in {"absent", "uploaded"}
<1> DEFINE r == fileListRef[Uploader]
<1>1. r \in 0..Len(lists) /\ DOMAIN lists = 1..Len(lists) /\ Len(lists) \in Nat
  BY UploaderFacts DEF UploadsInv
<1>2. CASE r = 0
  BY <1>2, NoFilesIsList DEF ArrayAt, NoFiles
<1>3. CASE r # 0
  <2>1. r \in DOMAIN lists /\ ArrayAt(r) = lists[r]
    BY <1>1, <1>3 DEF ArrayAt
  <2> HIDE DEF r
  <2>2. lists[r] \in List
    BY <2>1, UploaderFacts DEF UploadsInv
  <2>3. \A f \in Files : phase[f] = "none" => lists[r][f] = "absent"
    BY <2>1 DEF UploadsInv, ChosenInOrder
  <2>4. ~overlapped /\ ~anyFailed
           => \A f \in Files \ UnderWay : lists[r][f] \in {"absent", "uploaded"}
    BY <2>1 DEF UploadsInv, SettledEverywhere, Settled, Listed
  <2> QED BY <2>1, <2>2, <2>3, <2>4 DEF r
<1> QED
  BY <1>2, <1>3

LEMMA RemoveKeepsInv ==
    ASSUME UploadsInv, NEW f \in Files, Remove(f)
    PROVE  UploadsInv'
<1> DEFINE list == [ArrayAt(fileListRef[Uploader]) EXCEPT ![f] = "absent"]
           L == Len(lists)
<1>1. Replace(list) /\ UNCHANGED <<phase, fileListCopy, selection, mount>>
  BY DEF Remove
<1>2. /\ UploaderTypeOK /\ ChosenInOrder /\ ChosenSomewhere /\ OneListUnderWay
      /\ SettledEverywhere /\ ShownIsKept
  BY DEF UploadsInv
<1>3. /\ list \in List
      /\ \A g \in Files : list[g] = "absent" \/ list[g] = ArrayAt(fileListRef[Uploader])[g]
  BY ShownRef DEF List
<1>4. /\ \A g \in Files : phase[g] = "none" => list[g] = "absent"
      /\ ~overlapped /\ ~anyFailed
            => \A g \in Files \ UnderWay : list[g] \in {"absent", "uploaded"}
  BY <1>3, ShownRef
<1> HIDE DEF list
<1>5. /\ lists' \in Seq(List) /\ DOMAIN lists' = 1..(L + 1)
      /\ Len(lists') = L + 1 /\ Len(lists') <= MaxChanges
      /\ lists'[L + 1] = list
      /\ \A n \in DOMAIN lists : lists'[n] = lists[n]
      /\ fileListRef' \in Seq(0..(L + 1)) /\ Uploader' = Uploader
      /\ fileListRef'[Uploader] = L + 1
      /\ \A m \in 1..Uploader : m # Uploader => fileListRef'[m] = fileListRef[m]
      /\ fileList' = list
      /\ overlapped' = (overlapped \/ UnderWay # {})
      /\ anyFailed' = anyFailed
  BY <1>1, <1>2, <1>3, ReplaceResult
<1>6. /\ L \in Nat /\ DOMAIN lists = 1..L /\ Uploader \in Nat /\ Uploader > 0
      /\ phase \in [Files -> Phase] /\ fileListCopy \in [Files -> 0..L]
      /\ selection \in [Files -> 0..L] /\ mount \in [Files -> 0..Uploader]
  BY <1>2, UploaderFacts
<1> HIDE DEF L
<1>7. \A n \in DOMAIN lists' : n \in DOMAIN lists \/ n = L + 1
  BY <1>5, <1>6
<1>8. UnderWay' = UnderWay
  BY <1>1 DEF UnderWay, InPhase
<1>9. ~overlapped' => ~overlapped /\ UnderWay = {}
  BY <1>5
<1>10. UploaderTypeOK'
  <2>1. 0..L \subseteq 0..(L + 1)
    BY <1>6
  <2>2. overlapped' \in BOOLEAN /\ anyFailed' \in BOOLEAN
    BY <1>2, <1>5 DEF UploaderTypeOK
  <2> QED BY <1>1, <1>3, <1>5, <1>6, <2>1, <2>2 DEF UploaderTypeOK
<1>11. ChosenInOrder'
  BY <1>1, <1>2, <1>4, <1>5, <1>7 DEF ChosenInOrder
<1>12. ChosenSomewhere'
  <2>1. \A m \in 1..Uploader : fileListRef[m] > 0 => fileListRef'[m] > 0
    BY <1>5, <1>6
  <2> QED BY <1>1, <1>2, <1>5, <2>1 DEF ChosenSomewhere
<1>13. OneListUnderWay'
  BY <1>8, <1>9 DEF OneListUnderWay
<1>14. SettledEverywhere'
  BY <1>2, <1>4, <1>5, <1>7, <1>8, <1>9 DEF SettledEverywhere, Settled, Listed
<1>15. ShownIsKept'
  BY <1>5, <1>6 DEF ShownIsKept, ArrayAt
<1> QED
  BY <1>10, <1>11, <1>12, <1>13, <1>14, <1>15 DEF UploadsInv

LEMMA SelectKeepsInv ==
    ASSUME UploadsInv, NEW k \in Files, Select(k)
    PROVE  UploadsInv'
<1> DEFINE L     == Len(lists)
           used  == Cardinality(Files \ InPhase({"none"}))
           new   == (used + 1)..(used + k)
           first == FirstBatch(new)
           list  == [f \in Files |-> IF f \in new THEN "waiting"
                                     ELSE ArrayAt(fileListRef[Uploader])[f]]
<1>1. /\ new \subseteq Files /\ Replace(list)
      /\ phase' = [f \in Files |-> IF f \in first THEN "uploading"
                                   ELSE IF f \in new THEN "queued" ELSE phase[f]]
      /\ fileListCopy' = [f \in Files |-> IF f \in first THEN L + 1 ELSE fileListCopy[f]]
      /\ selection' = [f \in Files |-> IF f \in new THEN L + 1 ELSE selection[f]]
      /\ mount' = [f \in Files |-> IF f \in new THEN Uploader ELSE mount[f]]
  BY DEF Select
<1>2. /\ UploaderTypeOK /\ ChosenInOrder /\ ChosenSomewhere /\ OneListUnderWay
      /\ SettledEverywhere /\ ShownIsKept
  BY DEF UploadsInv
<1>3. /\ \A f \in new : phase[f] = "none"
      /\ \A f, g \in Files : f < g /\ f \notin new /\ phase[f] = "none" => g \notin new
  <2>1. used \in Nat /\ \A f \in Files : phase[f] = "none" <=> f > used
    BY <1>2, ChosenAreFirst
  <2>2. k \in Nat /\ \A f \in Files : f \in Nat
    BY UploaderNats DEF Files
  <2> HIDE DEF used
  <2>3. \A f \in new : f \in Files /\ f > used
    BY <1>1, <2>1, <2>2
  <2>4. ASSUME NEW f \in Files, NEW g \in Files, f < g, f \notin new, phase[f] = "none"
        PROVE  g \notin new
    BY <2>1, <2>2, <2>4
  <2> QED BY <2>1, <2>3, <2>4
<1>4. first \subseteq new
  BY DEF FirstBatch, FirstOf
<1> HIDE DEF new, first
<1>5. /\ list \in List
      /\ \A f \in new : list[f] = "waiting"
      /\ \A f \in Files \ new : list[f] = ArrayAt(fileListRef[Uploader])[f]
  BY <1>1, ShownRef DEF List, Entry
<1>6. /\ \A f \in Files \ new : phase[f] = "none" => list[f] = "absent"
      /\ ~overlapped /\ ~anyFailed
            => \A f \in Files \ new : f \in UnderWay \/ list[f] \in {"absent", "uploaded"}
  BY <1>5, ShownRef
<1> HIDE DEF list
<1>7. /\ lists' \in Seq(List) /\ DOMAIN lists' = 1..(L + 1)
      /\ Len(lists') = L + 1 /\ Len(lists') <= MaxChanges
      /\ lists'[L + 1] = list
      /\ \A n \in DOMAIN lists : lists'[n] = lists[n]
      /\ fileListRef' \in Seq(0..(L + 1)) /\ Uploader' = Uploader
      /\ fileListRef'[Uploader] = L + 1
      /\ \A m \in 1..Uploader : m # Uploader => fileListRef'[m] = fileListRef[m]
      /\ fileList' = list
      /\ overlapped' = (overlapped \/ UnderWay # {})
      /\ anyFailed' = anyFailed
  BY <1>1, <1>2, <1>5, ReplaceResult
<1>8. /\ L \in Nat /\ DOMAIN lists = 1..L /\ Uploader \in Nat /\ Uploader > 0
      /\ phase \in [Files -> Phase] /\ fileListCopy \in [Files -> 0..L]
      /\ selection \in [Files -> 0..L] /\ mount \in [Files -> 0..Uploader]
  BY <1>2, UploaderFacts
<1> HIDE DEF L
<1>9. \A n \in DOMAIN lists' : n \in DOMAIN lists \/ n = L + 1
  BY <1>7, <1>8
<1>10. \A f \in Files :
          /\ f \in new => /\ phase'[f] \in {"uploading", "queued"}
                          /\ phase'[f] # "queued" => fileListCopy'[f] = L + 1
                          /\ selection'[f] = L + 1 /\ mount'[f] = Uploader
          /\ f \notin new => /\ phase'[f] = phase[f] /\ fileListCopy'[f] = fileListCopy[f]
                             /\ selection'[f] = selection[f] /\ mount'[f] = mount[f]
  BY <1>1, <1>4
<1>11. UnderWay' = UnderWay \cup new
  BY <1>1, <1>10 DEF UnderWay, InPhase
<1>12. ~overlapped' => ~overlapped /\ UnderWay = {}
  BY <1>7
<1>13. UploaderTypeOK'
  <2>1. /\ phase' \in [Files -> Phase] /\ fileListCopy' \in [Files -> 0..(L + 1)]
        /\ selection' \in [Files -> 0..(L + 1)] /\ mount' \in [Files -> 0..Uploader]
    BY <1>1, <1>8 DEF Phase
  <2>2. overlapped' \in BOOLEAN /\ anyFailed' \in BOOLEAN
    BY <1>2, <1>7 DEF UploaderTypeOK
  <2> QED BY <1>5, <1>7, <1>8, <2>1, <2>2 DEF UploaderTypeOK
<1>14. ChosenInOrder'
  <2>1. \A f \in Files : phase'[f] = "none" <=> f \notin new /\ phase[f] = "none"
    BY <1>3, <1>10
  <2>2. \A f, g \in Files : f < g /\ phase'[f] = "none" => phase'[g] = "none"
    BY <1>2, <1>3, <2>1 DEF ChosenInOrder
  <2>3. \A f \in Files : phase'[f] = "none" => \A n \in DOMAIN lists' : lists'[n][f] = "absent"
    BY <1>2, <1>6, <1>7, <1>9, <2>1 DEF ChosenInOrder
  <2> QED BY <2>2, <2>3 DEF ChosenInOrder
<1>15. ChosenSomewhere'
  <2>1. \A m \in 1..Uploader : fileListRef[m] > 0 => fileListRef'[m] > 0
    BY <1>7, <1>8
  <2>2. fileListRef'[Uploader] > 0 /\ Uploader \in 1..Uploader
    BY <1>7, <1>8
  <2> SUFFICES ASSUME NEW f \in Files
               PROVE  /\ phase'[f] # "none"
                            => mount'[f] \in 1..Uploader /\ fileListRef'[mount'[f]] > 0
                      /\ phase'[f] \in {"uploading", "sent"} => fileListCopy'[f] > 0
                      /\ \A g \in Files :
                            phase'[f] # "none" /\ phase'[g] # "none"
                                /\ selection'[f] = selection'[g] => mount'[f] = mount'[g]
    BY <1>7 DEF ChosenSomewhere
  <2>3. phase'[f] # "none" => mount'[f] \in 1..Uploader /\ fileListRef'[mount'[f]] > 0
    BY <1>2, <1>10, <2>1, <2>2 DEF ChosenSomewhere
  <2>4. phase'[f] \in {"uploading", "sent"} => fileListCopy'[f] > 0
    <3>1. CASE f \in new
      <4>1. phase'[f] \in {"uploading", "sent"} => fileListCopy'[f] = L + 1
        BY <1>10, <3>1
      <4> QED BY <1>8, <4>1
    <3>2. CASE f \notin new
      BY <1>2, <1>10, <3>2 DEF ChosenSomewhere
    <3> QED BY <3>1, <3>2
  <2>5. ASSUME NEW g \in Files, phase'[f] # "none", phase'[g] # "none",
               selection'[f] = selection'[g]
        PROVE  mount'[f] = mount'[g]
    <3>1. f \in new <=> g \in new
      <4>1. selection[f] # L + 1 /\ selection[g] # L + 1
        BY <1>8
      <4> QED BY <1>10, <2>5, <4>1
    <3> QED BY <1>2, <1>10, <2>5, <3>1 DEF ChosenSomewhere
  <2> QED BY <2>3, <2>4, <2>5
<1>16. OneListUnderWay'
  <2> SUFFICES ASSUME ~overlapped', NEW f \in UnderWay'
               PROVE  /\ mount'[f] = Uploader' \/ (fileListRef'[Uploader'] = 0 /\ Uploader' > 1)
                      /\ phase'[f] # "queued" => fileListCopy'[f] = fileListRef'[mount'[f]]
                      /\ fileList' = lists'[fileListRef'[mount'[f]]]
                      /\ fileList'[f] \in {"waiting", "sent"}
                      /\ \A g \in UnderWay' : mount'[g] = mount'[f]
                      /\ \A n \in DOMAIN lists' \ {fileListRef'[mount'[f]]} :
                            lists'[n][f] = "absent"
    BY DEF OneListUnderWay
  <2>0. UnderWay' = new /\ f \in new
    BY <1>11, <1>12
  <2>1. f \in Files /\ phase[f] = "none"
    BY <1>1, <1>3, <2>0
  <2>2. \A n \in DOMAIN lists' \ {L + 1} : lists'[n][f] = "absent"
    BY <1>2, <1>7, <1>9, <2>1 DEF ChosenInOrder
  <2>3. \A g \in new : mount'[g] = Uploader
    BY <1>1, <1>10
  <2>4. fileListRef'[mount'[f]] = L + 1 /\ mount'[f] = Uploader'
    BY <1>7, <2>0, <2>3
  <2>5. phase'[f] # "queued" => fileListCopy'[f] = L + 1
    BY <1>10, <2>0, <2>1
  <2>6. fileList' = lists'[L + 1] /\ fileList'[f] \in {"waiting", "sent"}
    BY <1>5, <1>7, <2>0
  <2> QED BY <2>0, <2>2, <2>3, <2>4, <2>5, <2>6
<1>17. SettledEverywhere'
  <2> SUFFICES ASSUME ~overlapped, ~anyFailed, UnderWay = {},
                      NEW n \in DOMAIN lists', NEW f \in Files \ new,
                      lists'[n][f] # "absent"
               PROVE  lists'[n][f] = "uploaded"
    <3>1. L + 1 \in DOMAIN lists' /\ fileList' = lists'[L + 1]
      BY <1>7, <1>8
    <3>2. ~overlapped' /\ ~anyFailed' => UnderWay' = new /\ ~overlapped /\ ~anyFailed
      BY <1>7, <1>11, <1>12
    <3> QED BY <1>12, <3>1, <3>2 DEF SettledEverywhere, Settled, Listed
  <2>1. CASE n \in DOMAIN lists
    BY <1>2, <1>7, <2>1 DEF SettledEverywhere, Settled, Listed
  <2>2. CASE n = L + 1
    BY <1>6, <1>7, <2>2
  <2> QED BY <1>9, <2>1, <2>2
<1>18. ShownIsKept'
  BY <1>7, <1>8 DEF ShownIsKept, ArrayAt
<1> QED
  BY <1>13, <1>14, <1>15, <1>16, <1>17, <1>18 DEF UploadsInv

-----------------------------------------------------------------------------
(* Together *)

\* What the user and the network do with the list keeps the invariant.
LEMMA UploaderKeepsInv ==
    ASSUME UploadsInv, UploaderUser \/ \E f \in Files : UploaderNetwork(f)
    PROVE  UploadsInv'
<1>1. ASSUME NEW f \in Files, UploaderNetwork(f) PROVE UploadsInv'
  <2>1. CASE Uploaded(f)
    <3>1. phase[f] \in {"uploading", "sent"} /\ Settle(f, "uploaded", NextBatch(f))
      BY <2>1 DEF Uploaded
    <3> QED BY <3>1, SettleKeepsInv
  <2>2. CASE UploadFailed(f)
    <3>1. phase[f] \in {"uploading", "sent"} /\ Settle(f, "failed", NextBatch(f))
      BY <2>2 DEF UploadFailed
    <3> QED BY <3>1, SettleKeepsInv
  <2>3. Progress(f) \/ Sent(f) => UploadsInv'
    BY ProgressKeepsInv, SentKeepsInv
  <2> QED BY <1>1, <2>1, <2>2, <2>3 DEF UploaderNetwork, Ends
<1>2. ASSUME NEW k \in Files, Select(k) PROVE UploadsInv'
  BY <1>2, SelectKeepsInv
<1>3. ASSUME NEW f \in Files, Remove(f) PROVE UploadsInv'
  BY <1>3, RemoveKeepsInv
<1> QED
  BY <1>1, <1>2, <1>3 DEF UploaderUser

LEMMA RemountKeepsInv ==
    ASSUME UploadsInv, Remount
    PROVE  UploadsInv'
<1>1. /\ fileListRef' = Append(fileListRef, 0)
      /\ UNCHANGED <<lists, fileList, phase, fileListCopy, selection, mount, anyFailed,
                     overlapped>>
  BY DEF Remount
<1>2. /\ UploaderTypeOK /\ ChosenInOrder /\ ChosenSomewhere /\ OneListUnderWay
      /\ SettledEverywhere /\ ShownIsKept
  BY DEF UploadsInv
<1>3. /\ fileListRef \in Seq(0..Len(lists)) /\ Len(lists) \in Nat
      /\ Uploader \in Nat /\ Uploader > 0 /\ Uploader = Len(fileListRef)
      /\ mount \in [Files -> 0..Uploader]
  BY <1>2, UploaderFacts DEF Uploader
<1>4. /\ fileListRef' \in Seq(0..Len(lists)) /\ Len(fileListRef') = Uploader + 1
      /\ fileListRef'[Uploader + 1] = 0
      /\ \A m \in 1..Uploader : fileListRef'[m] = fileListRef[m]
  BY <1>1, <1>3, AppendProperties
<1>5. Uploader' = Uploader + 1
  BY <1>4 DEF Uploader
<1>6. fileListRef'[Uploader'] = 0 /\ Uploader' > 1
  BY <1>3, <1>4, <1>5
<1>7. UnderWay' = UnderWay
  BY <1>1 DEF UnderWay, InPhase
<1>8. UploaderTypeOK'
  <2>1. mount \in [Files -> 0..(Uploader + 1)]
    BY <1>3
  <2> QED BY <1>1, <1>2, <1>3, <1>4, <1>5, <2>1 DEF UploaderTypeOK
<1>9. ChosenInOrder' /\ SettledEverywhere'
  BY <1>1, <1>2, <1>7 DEF ChosenInOrder, SettledEverywhere, Settled, Listed
<1>10. ChosenSomewhere'
  <2>1. 1..Uploader \subseteq 1..(Uploader + 1)
    BY <1>3
  <2> QED BY <1>1, <1>2, <1>4, <1>5, <2>1 DEF ChosenSomewhere
<1>11. OneListUnderWay'
  <2> SUFFICES ASSUME ~overlapped', NEW f \in UnderWay'
               PROVE  /\ mount'[f] = Uploader' \/ (fileListRef'[Uploader'] = 0 /\ Uploader' > 1)
                      /\ phase'[f] # "queued" => fileListCopy'[f] = fileListRef'[mount'[f]]
                      /\ fileList' = lists'[fileListRef'[mount'[f]]]
                      /\ fileList'[f] \in {"waiting", "sent"}
                      /\ \A g \in UnderWay' : mount'[g] = mount'[f]
                      /\ \A n \in DOMAIN lists' \ {fileListRef'[mount'[f]]} :
                            lists'[n][f] = "absent"
    BY DEF OneListUnderWay
  <2>1. f \in Files /\ f \in UnderWay /\ phase[f] # "none"
    BY <1>7 DEF UnderWay, InPhase
  <2>2. fileListRef'[mount[f]] = fileListRef[mount[f]]
    BY <1>2, <1>4, <2>1 DEF ChosenSomewhere
  <2>3. /\ phase[f] # "queued" => fileListCopy[f] = fileListRef[mount[f]]
        /\ fileList = lists[fileListRef[mount[f]]]
        /\ fileList[f] \in {"waiting", "sent"}
        /\ \A g \in UnderWay : mount[g] = mount[f]
        /\ \A n \in DOMAIN lists \ {fileListRef[mount[f]]} : lists[n][f] = "absent"
    BY <1>1, <1>2, <2>1 DEF OneListUnderWay
  <2> QED BY <1>1, <1>6, <1>7, <2>2, <2>3
<1>12. ShownIsKept'
  BY <1>6 DEF ShownIsKept
<1> QED
  BY <1>8, <1>9, <1>10, <1>11, <1>12 DEF UploadsInv

\* With the uploads over, a list that may not go on to step two has a reason.
LEMMA RefusedForAReason == UploadsInv => NextRefusedForAReason
BY DEF UploadsInv, SettledEverywhere, Settled, NextRefusedForAReason
=============================================================================
