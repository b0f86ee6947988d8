------------------------ MODULE DatasetWizard_proofs ------------------------
(***************************************************************************)
(* What holds of the dataset creation wizard for every number of files,    *)
(* batches, visits, creations and polls.  The state falls into four parts  *)
(* - the steps and creations, the estimates, the uploader, the polling -   *)
(* and every part has its types, its invariant and its own set of actions. *)
(***************************************************************************)
EXTENDS DatasetWizard, FileUploader_proofs

-----------------------------------------------------------------------------
(* Sequences *)

\* A sequence without one item has the other items in their order.
LEMMA WithoutItemResult ==
    ASSUME NEW S, NEW s \in Seq(S), NEW i \in DOMAIN s
    PROVE  /\ WithoutItem(s, i) \in Seq(S)
           /\ Len(WithoutItem(s, i)) = Len(s) - 1
           /\ \A j \in 1..(Len(s) - 1) :
                 WithoutItem(s, i)[j] = IF j < i THEN s[j] ELSE s[j + 1]
<1> DEFINE a == SubSeq(s, 1, i - 1)
           b == SubSeq(s, i + 1, Len(s))
<1>1. i \in 1..Len(s) /\ Len(s) \in Nat
  BY LenProperties
<1>2. /\ a \in Seq(S) /\ Len(a) = i - 1
      /\ \A j \in 1..(i - 1) : a[j] = s[j]
  BY <1>1, SubSeqProperties, Z3
<1>3. /\ b \in Seq(S) /\ Len(b) = Len(s) - i
      /\ \A j \in 1..(Len(s) - i) : b[j] = s[j + i]
  BY <1>1, SubSeqProperties, Z3
<1> HIDE DEF a, b
<1>4. /\ a \o b \in Seq(S) /\ Len(a \o b) = Len(s) - 1
      /\ \A j \in 1..(Len(s) - 1) :
            (a \o b)[j] = IF j <= i - 1 THEN a[j] ELSE b[j - (i - 1)]
  <2>1. /\ a \o b \in Seq(S) /\ Len(a \o b) = Len(a) + Len(b)
        /\ \A j \in 1..(Len(a) + Len(b)) :
              (a \o b)[j] = IF j <= Len(a) THEN a[j] ELSE b[j - Len(a)]
    BY <1>2, <1>3, ConcatProperties
  <2>2. Len(a) = i - 1 /\ Len(a) + Len(b) = Len(s) - 1
    BY <1>1, <1>2, <1>3
  <2> QED BY <2>1, <2>2
<1>5. WithoutItem(s, i) = a \o b
  BY DEF WithoutItem, a, b
<1>6. ASSUME NEW j \in 1..(Len(s) - 1)
      PROVE  (a \o b)[j] = IF j < i THEN s[j] ELSE s[j + 1]
  <2>1. CASE j < i
    <3>1. j \in 1..(i - 1) /\ j <= i - 1
      BY <1>1, <2>1
    <3> QED BY <1>2, <1>4, <2>1, <3>1
  <2>2. CASE ~(j < i)
    <3>1. j - (i - 1) \in 1..(Len(s) - i) /\ ~(j <= i - 1) /\ (j - (i - 1)) + i = j + 1
      BY <1>1, <2>2
    <3>2. b[j - (i - 1)] = s[(j - (i - 1)) + i]
      BY <1>3, <3>1
    <3> QED BY <1>4, <2>2, <3>1, <3>2
  <2> QED BY <2>1, <2>2
<1> QED
  BY <1>4, <1>5, <1>6

\* A sequence with one item more has the others where they were.
LEMMA AppendResult ==
    ASSUME NEW S, NEW s \in Seq(S), NEW e \in S
    PROVE  /\ Append(s, e) \in Seq(S)
           /\ DOMAIN Append(s, e) = 1..(Len(s) + 1)
           /\ Len(Append(s, e)) = Len(s) + 1
           /\ Append(s, e)[Len(s) + 1] = e
           /\ \A j \in DOMAIN s : Append(s, e)[j] = s[j]
           /\ DOMAIN s = 1..Len(s) /\ Len(s) \in Nat
BY AppendProperties, LenProperties

-----------------------------------------------------------------------------
(* The four parts of the state *)

\* The steps of a creation that do not change the page.
Quietly(c) == Make(c) \/ CreationFails(c) \/ GiveUp(c)

\* Which actions change the steps and the creations.
LEMMA WizardFrame ==
    ASSUME Next
    PROVE  \/ nextStep \/ Back \/ createHandle
           \/ \E c \in DOMAIN creations : Created(c) \/ Quietly(c)
           \/ UNCHANGED wizardVars
<1>1. CASE step = 1 /\ Upload(UploaderUser)
  BY <1>1 DEF Upload
<1>2. ASSUME NEW f \in Files, Upload(UploaderNetwork(f)) PROVE UNCHANGED wizardVars
  BY <1>2 DEF Upload
<1>3. CASE StepTwoSettings
  BY <1>3 DEF StepTwoSettings, setSegmentationType, setIndexType, handleSwitch,
              confirmChangeCustomConfig, previewSwitch, hidePreview, Switch
<1>4. ASSUME NEW i \in DOMAIN asked, Estimated(i) \/ EstimateFails(i)
      PROVE  UNCHANGED wizardVars
  BY <1>4 DEF Estimated, EstimateFails
<1>5. CASE StepThree
  BY <1>5 DEF StepThree, Tick, Serve, PollFails, Answer, Indexed
<1> QED
  BY <1>1, <1>2, <1>3, <1>4, <1>5 DEF Next, Creating, Quietly

\* Which actions change the estimates and the settings of step two.
LEMMA EstimateFrame ==
    ASSUME Next
    PROVE  \/ nextStep \/ Back \/ StepTwoSettings
           \/ \E c \in DOMAIN creations : Created(c)
           \/ \E i \in DOMAIN asked : Estimated(i) \/ EstimateFails(i)
           \/ UNCHANGED <<step, estimateVars>>
<1>1. CASE step = 1 /\ Upload(UploaderUser)
  BY <1>1 DEF Upload, wizardVars
<1>2. ASSUME NEW f \in Files, Upload(UploaderNetwork(f))
      PROVE  UNCHANGED <<step, estimateVars>>
  BY <1>2 DEF Upload, wizardVars
<1>3. CASE createHandle
  BY <1>3 DEF createHandle
<1>4. ASSUME NEW c \in DOMAIN creations, Quietly(c)
      PROVE  UNCHANGED <<step, estimateVars>>
  BY <1>4 DEF Quietly, Make, CreationFails, GiveUp, CreationBecomes
<1>5. CASE StepThree
  BY <1>5 DEF StepThree, Tick, Serve, PollFails, Answer, Indexed, wizardVars
<1> QED
  BY <1>1, <1>2, <1>3, <1>4, <1>5 DEF Next, Creating, Quietly

\* Which actions change the lists and the uploads.
LEMMA UploaderFrame ==
    ASSUME Next
    PROVE  \/ step = 1 /\ UploaderUser /\ UNCHANGED wizardVars
           \/ \E f \in Files : UploaderNetwork(f) /\ UNCHANGED wizardVars
           \/ nextStep \/ Back
           \/ UNCHANGED uploaderVars /\ (UNCHANGED <<step, accepted>> \/ step' = 3)
<1>1. CASE step = 1 /\ Upload(UploaderUser)
  BY <1>1 DEF Upload
<1>2. ASSUME NEW f \in Files, Upload(UploaderNetwork(f))
      PROVE  UploaderNetwork(f) /\ UNCHANGED wizardVars
  BY <1>2 DEF Upload
<1>3. CASE StepTwoSettings
  BY <1>3 DEF StepTwoSettings, setSegmentationType, setIndexType, handleSwitch,
              confirmChangeCustomConfig, previewSwitch, hidePreview, Switch, wizardVars
<1>4. ASSUME NEW i \in DOMAIN asked, Estimated(i) \/ EstimateFails(i)
      PROVE  UNCHANGED uploaderVars /\ UNCHANGED <<step, accepted>>
  BY <1>4 DEF Estimated, EstimateFails, wizardVars
<1>5. CASE Creating
  BY <1>5 DEF Creating, createHandle, Created, Make, CreationFails, GiveUp, CreationBecomes
<1>6. CASE StepThree
  BY <1>6 DEF StepThree, Tick, Serve, PollFails, Answer, Indexed, wizardVars
<1> QED
  BY <1>1, <1>2, <1>3, <1>4, <1>5, <1>6 DEF Next

\* Which actions change the polling.
LEMMA ProgressFrame ==
    ASSUME Next
    PROVE  \/ StepThree
           \/ \E c \in DOMAIN creations : Created(c)
           \/ UNCHANGED progressVars
<1>1. CASE step = 1 /\ Upload(UploaderUser)
  BY <1>1 DEF Upload
<1>2. ASSUME NEW f \in Files, Upload(UploaderNetwork(f)) PROVE UNCHANGED progressVars
  BY <1>2 DEF Upload
<1>3. CASE nextStep \/ Back
  BY <1>3 DEF nextStep, Back
<1>4. CASE StepTwoSettings
  BY <1>4 DEF StepTwoSettings, setSegmentationType, setIndexType, handleSwitch,
              confirmChangeCustomConfig, previewSwitch, hidePreview, Switch
<1>5. ASSUME NEW i \in DOMAIN asked, Estimated(i) \/ EstimateFails(i)
      PROVE  UNCHANGED progressVars
  BY <1>5 DEF Estimated, EstimateFails
<1>6. CASE createHandle
  BY <1>6 DEF createHandle
<1>7. ASSUME NEW c \in DOMAIN creations, Quietly(c) PROVE UNCHANGED progressVars
  BY <1>7 DEF Quietly, Make, CreationFails, GiveUp, CreationBecomes
<1> QED
  BY <1>1, <1>2, <1>3, <1>4, <1>5, <1>6, <1>7 DEF Next, Creating, Quietly

-----------------------------------------------------------------------------
(* Steps and creations *)

WizardTypes ==
    /\ step \in 1..3 /\ visits \in 0..MaxVisits
    /\ accepted \in SUBSET Files
    /\ creations \in Seq(Creation) /\ result \in 0..Len(creations)

\* Step two is a visit, creations belong to visits so far, and the visit that is still
\* in step two has had none whose success was reported.
VisitOfCreations ==
    /\ step = 2 => visits > 0
    /\ \A c \in DOMAIN creations :
          /\ creations[c].visit <= visits
          /\ step = 2 /\ creations[c].visit = visits => creations[c].state # "done"

\* A refused creation makes no documents, and one that another of its visit followed was
\* refused or given up.
FollowedOnlyAfterFailure ==
    /\ \A c \in DOMAIN creations : creations[c].state = "failed" => ~creations[c].made
    /\ \A c, d \in DOMAIN creations :
          c < d /\ creations[c].visit = creations[d].visit
              => creations[c].state \in {"failed", "given up"}

WizardInv == WizardTypes /\ VisitOfCreations /\ FollowedOnlyAfterFailure

LEMMA WizardNats ==
    /\ MaxVisits \in Nat /\ MaxCreations \in Nat /\ MaxSwitches \in Nat /\ MaxLost \in Nat
    /\ MaxPolls \in Nat \ {0}
BY WizardAssumption

LEMMA WizardInit == Init => WizardInv
BY WizardNats, EmptySeq DEF Init, WizardInv, WizardTypes, VisitOfCreations,
   FollowedOnlyAfterFailure

\* A step of a creation leaves the others, its visit and its files.
LEMMA CreationResult ==
    ASSUME WizardTypes, NEW c \in DOMAIN creations, Created(c) \/ Quietly(c)
    PROVE  /\ creations' \in Seq(Creation) /\ Len(creations') = Len(creations)
           /\ DOMAIN creations' = DOMAIN creations
           /\ \A d \in DOMAIN creations :
                 /\ creations'[d].visit = creations[d].visit
                 /\ creations'[d].files = creations[d].files
                 /\ d # c => creations'[d] = creations[d]
           /\ creations'[c].state # creations[c].state => creations[c].state = "open"
           /\ creations'[c].state = "done" => Created(c) \/ creations[c].state = "done"
           /\ creations'[c].state = "failed" => ~creations'[c].made \/ creations[c].state = "failed"
           /\ creations[c].state = "failed" => creations'[c] = creations[c]
<1>1. creations \in Seq(Creation) /\ DOMAIN creations = 1..Len(creations)
      /\ creations[c] \in Creation
  BY LenProperties DEF WizardTypes
<1>2. \E e \in Creation :
        /\ creations' = [creations EXCEPT ![c] = e]
        /\ e.visit = creations[c].visit /\ e.files = creations[c].files
        /\ e.state # creations[c].state => creations[c].state = "open"
        /\ e.state = "done" => Created(c) \/ creations[c].state = "done"
        /\ e.state = "failed" => ~e.made \/ creations[c].state = "failed"
        /\ creations[c].state = "failed" => e = creations[c]
  <2>1. CASE Created(c)
    <3> DEFINE e == [creations[c] EXCEPT !.state = "done"]
    <3>1. /\ e \in Creation /\ e.visit = creations[c].visit /\ e.files = creations[c].files
          /\ e.state = "done"
      BY <1>1 DEF Creation
    <3>2. creations[c].state = "open" /\ creations' = [creations EXCEPT ![c] = e]
      BY <2>1 DEF Created
    <3> HIDE DEF e
    <3> QED BY <2>1, <3>1, <3>2
  <2>2. CASE Make(c)
    <3> DEFINE e == [creations[c] EXCEPT !.made = TRUE]
    <3>1. /\ e \in Creation /\ e.visit = creations[c].visit /\ e.files = creations[c].files
          /\ e.state = creations[c].state
      BY <1>1 DEF Creation
    <3>2. creations[c].state # "failed" /\ creations' = [creations EXCEPT ![c] = e]
      BY <2>2 DEF Make, CreationBecomes
    <3> HIDE DEF e
    <3> QED BY <3>1, <3>2
  <2>3. CASE CreationFails(c)
    <3> DEFINE e == [creations[c] EXCEPT !.state = "failed"]
    <3>1. /\ e \in Creation /\ e.visit = creations[c].visit /\ e.files = creations[c].files
          /\ e.state = "failed" /\ (e.made <=> creations[c].made)
      BY <1>1 DEF Creation
    <3>2. /\ creations[c].state = "open" /\ ~creations[c].made
          /\ creations' = [creations EXCEPT ![c] = e]
      BY <2>3 DEF CreationFails, CreationBecomes
    <3> HIDE DEF e
    <3> QED BY <3>1, <3>2
  <2>4. CASE GiveUp(c)
    <3> DEFINE e == [creations[c] EXCEPT !.state = "given up"]
    <3>1. /\ e \in Creation /\ e.visit = creations[c].visit /\ e.files = creations[c].files
          /\ e.state = "given up"
      BY <1>1 DEF Creation
    <3>2. creations[c].state = "open" /\ creations' = [creations EXCEPT ![c] = e]
      BY <2>4 DEF GiveUp, CreationBecomes
    <3> HIDE DEF e
    <3> QED BY <3>1, <3>2
  <2> QED BY <2>1, <2>2, <2>3, <2>4 DEF Quietly
<1>3. PICK e \in Creation :
        /\ creations' = [creations EXCEPT ![c] = e]
        /\ e.visit = creations[c].visit /\ e.files = creations[c].files
        /\ e.state # creations[c].state => creations[c].state = "open"
        /\ e.state = "done" => Created(c) \/ creations[c].state = "done"
        /\ e.state = "failed" => ~e.made \/ creations[c].state = "failed"
        /\ creations[c].state = "failed" => e = creations[c]
  BY <1>2
<1>4. /\ creations' \in Seq(Creation) /\ Len(creations') = Len(creations)
      /\ \A d \in 1..Len(creations) : creations'[d] = IF d = c THEN e ELSE creations[d]
  BY <1>1, <1>3, ExceptSeq
<1>5. DOMAIN creations' = DOMAIN creations /\ creations'[c] = e
  BY <1>1, <1>4, LenProperties
<1> QED
  BY <1>1, <1>3, <1>4, <1>5

LEMMA AnsweredKeepsInv ==
    ASSUME WizardInv, NEW c \in DOMAIN creations, Created(c) \/ Quietly(c)
    PROVE  WizardInv'
<1>1. visits' = visits /\ accepted' = accepted
  BY DEF Created, Quietly, Make, CreationFails, GiveUp, CreationBecomes
<1>2. Created(c) => step' = 3 /\ result' = c
  BY DEF Created
<1>3. Quietly(c) => step' = step /\ result' = result
  BY DEF Quietly, Make, CreationFails, GiveUp, CreationBecomes
<1>4. WizardTypes /\ VisitOfCreations /\ FollowedOnlyAfterFailure
  BY DEF WizardInv
<1>5. /\ creations' \in Seq(Creation) /\ Len(creations') = Len(creations)
      /\ DOMAIN creations' = DOMAIN creations
      /\ \A d \in DOMAIN creations :
            /\ creations'[d].visit = creations[d].visit
            /\ d # c => creations'[d] = creations[d]
      /\ creations'[c].state # creations[c].state => creations[c].state = "open"
      /\ creations'[c].state = "done" => Created(c) \/ creations[c].state = "done"
      /\ creations'[c].state = "failed" => ~creations'[c].made \/ creations[c].state = "failed"
      /\ creations[c].state = "failed" => creations'[c] = creations[c]
  BY <1>4, CreationResult
<1>6. WizardTypes'
  <2>1. c \in 0..Len(creations)
    BY <1>4, LenProperties DEF WizardTypes
  <2>2. step' \in 1..3 /\ result' \in 0..Len(creations')
    BY <1>2, <1>3, <1>4, <1>5, <2>1 DEF WizardTypes
  <2> QED BY <1>1, <1>4, <1>5, <2>2 DEF WizardTypes
<1>7. VisitOfCreations'
  <2>1. CASE step' = 2
    <3>1. step = 2 /\ ~Created(c)
      BY <1>2, <1>3, <2>1
    <3>2. ASSUME NEW d \in DOMAIN creations, creations[d].visit = visits
          PROVE  creations'[d].state # "done"
      BY <1>4, <1>5, <3>1, <3>2 DEF VisitOfCreations
    <3> QED BY <1>1, <1>4, <1>5, <3>1, <3>2 DEF VisitOfCreations
  <2>2. CASE step' # 2
    BY <1>1, <1>4, <1>5, <2>2 DEF VisitOfCreations
  <2> QED BY <2>1, <2>2
<1>8. FollowedOnlyAfterFailure'
  <2>1. ASSUME NEW d \in DOMAIN creations, creations'[d].state = "failed"
        PROVE  ~creations'[d].made
    BY <1>4, <1>5, <2>1 DEF FollowedOnlyAfterFailure
  <2>2. ASSUME NEW a \in DOMAIN creations, NEW b \in DOMAIN creations, a < b,
               creations[a].visit = creations[b].visit
        PROVE  creations'[a].state \in {"failed", "given up"}
    <3>1. creations[a].state \in {"failed", "given up"}
      BY <1>4, <2>2 DEF FollowedOnlyAfterFailure
    <3> QED BY <1>5, <3>1
  <2> QED BY <1>5, <2>1, <2>2 DEF FollowedOnlyAfterFailure
<1> QED
  BY <1>6, <1>7, <1>8 DEF WizardInv

LEMMA CreateKeepsInv ==
    ASSUME WizardInv, createHandle
    PROVE  WizardInv'
<1>1. /\ step = 2 /\ ~isCreating
      /\ creations' = Append(creations, NewCreation)
      /\ UNCHANGED <<step, visits, accepted, result>>
  BY DEF createHandle
<1>2. WizardTypes /\ VisitOfCreations /\ FollowedOnlyAfterFailure
  BY DEF WizardInv
<1>3. NewCreation \in Creation /\ NewCreation.visit = visits /\ NewCreation.state = "open"
  <2>1. visits \in 1..MaxVisits
    BY <1>1, <1>2, WizardNats DEF WizardTypes, VisitOfCreations
  <2>2. {f \in Files : fileList[f] = "uploaded"} \in SUBSET Files
    OBVIOUS
  <2> QED BY <2>1, <2>2 DEF NewCreation, Creation
<1> DEFINE n == Len(creations)
<1>4. /\ creations' \in Seq(Creation)
      /\ DOMAIN creations' = 1..(n + 1) /\ Len(creations') = n + 1
      /\ creations'[n + 1] = NewCreation
      /\ \A j \in DOMAIN creations : creations'[j] = creations[j]
      /\ DOMAIN creations = 1..n /\ n \in Nat
  BY <1>1, <1>2, <1>3, AppendResult DEF WizardTypes
<1> HIDE DEF n
<1>5. WizardTypes'
  <2>1. result \in 0..(n + 1)
    BY <1>2, <1>4 DEF WizardTypes, n
  <2> QED BY <1>1, <1>2, <1>4, <2>1 DEF WizardTypes
<1>6. VisitOfCreations'
  <2>1. ASSUME NEW d \in DOMAIN creations'
        PROVE  creations'[d].visit <= visits
               /\ (creations'[d].visit = visits => creations'[d].state # "done")
    <3>1. CASE d = n + 1
      BY <1>2, <1>3, <1>4, <3>1 DEF WizardTypes
    <3>2. CASE d # n + 1
      <4>1. d \in DOMAIN creations
        BY <1>4, <3>2
      <4> QED BY <1>1, <1>2, <1>4, <4>1 DEF VisitOfCreations
    <3> QED BY <3>1, <3>2
  <2> QED BY <1>1, <1>2, <2>1 DEF VisitOfCreations
<1>7. ASSUME NEW d \in DOMAIN creations', creations'[d].state = "failed"
      PROVE  ~creations'[d].made
  <2>1. d # n + 1
    BY <1>3, <1>4, <1>7
  <2>2. d \in DOMAIN creations /\ creations'[d] = creations[d]
    BY <1>4, <2>1
  <2> QED BY <1>2, <1>7, <2>2 DEF FollowedOnlyAfterFailure
<1>8. ASSUME NEW a \in DOMAIN creations', NEW b \in DOMAIN creations', a < b,
             creations'[a].visit = creations'[b].visit
      PROVE  creations'[a].state \in {"failed", "given up"}
  <2>1. a \in DOMAIN creations /\ creations'[a] = creations[a]
    BY <1>4, <1>8
  <2>2. CASE b = n + 1
    <3>1. creations[a].visit = visits
      BY <1>3, <1>4, <1>8, <2>1, <2>2
    <3>2. creations[a].state # "done"
      BY <1>1, <1>2, <2>1, <3>1 DEF VisitOfCreations
    <3>3. creations[a].state # "open"
      BY <1>1, <2>1, <3>1 DEF isCreating
    <3>4. creations[a] \in Creation
      BY <1>2, <2>1, ElementOfSeq, <1>4 DEF WizardTypes, n
    <3> QED BY <2>1, <3>2, <3>3, <3>4 DEF Creation
  <2>3. CASE b # n + 1
    <3>1. b \in DOMAIN creations /\ creations'[b] = creations[b]
      BY <1>4, <2>3
    <3> QED BY <1>2, <1>8, <2>1, <3>1 DEF FollowedOnlyAfterFailure
  <2> QED BY <2>2, <2>3
<1>9. FollowedOnlyAfterFailure'
  BY <1>7, <1>8 DEF FollowedOnlyAfterFailure
<1> QED
  BY <1>5, <1>6, <1>9 DEF WizardInv

LEMMA NextStepKeepsInv ==
    ASSUME WizardInv, nextStep
    PROVE  WizardInv'
<1>1. /\ visits < MaxVisits /\ step' = 2 /\ visits' = visits + 1
      /\ accepted' = Listed(fileList) /\ UNCHANGED <<creations, result>>
  BY DEF nextStep
<1>2. WizardTypes /\ VisitOfCreations /\ FollowedOnlyAfterFailure
  BY DEF WizardInv
<1>3. WizardTypes'
  <2>1. Listed(fileList) \in SUBSET Files
    BY DEF Listed
  <2> QED BY <1>1, <1>2, <2>1, WizardNats DEF WizardTypes
<1>4. \A c \in DOMAIN creations : creations[c].visit \in Nat
  <2> SUFFICES ASSUME NEW c \in DOMAIN creations PROVE creations[c].visit \in Nat
    OBVIOUS
  <2>1. creations \in Seq(Creation)
    BY <1>2 DEF WizardTypes
  <2>2. creations[c] \in Creation
    BY <2>1, LenProperties
  <2>3. creations[c].visit \in 1..MaxVisits
    BY <2>2 DEF Creation
  <2> QED BY <2>3, WizardNats
<1>5. VisitOfCreations'
  BY <1>1, <1>2, <1>4, WizardNats DEF VisitOfCreations, WizardTypes
<1>6. FollowedOnlyAfterFailure'
  BY <1>1, <1>2 DEF FollowedOnlyAfterFailure
<1> QED
  BY <1>3, <1>5, <1>6 DEF WizardInv

LEMMA WizardStep ==
    ASSUME WizardInv, [Next]_vars
    PROVE  WizardInv'
<1>1. CASE Back
  <2>1. step' = 1 /\ UNCHANGED <<visits, accepted, creations, result>>
    BY <1>1 DEF Back
  <2>2. WizardTypes'
    BY <2>1 DEF WizardInv, WizardTypes
  <2>3. VisitOfCreations'
    BY <2>1 DEF WizardInv, VisitOfCreations
  <2>4. FollowedOnlyAfterFailure'
    BY <2>1 DEF WizardInv, FollowedOnlyAfterFailure
  <2> QED BY <2>2, <2>3, <2>4 DEF WizardInv
<1>2. CASE UNCHANGED wizardVars
  BY <1>2 DEF WizardInv, WizardTypes, VisitOfCreations, FollowedOnlyAfterFailure, wizardVars
<1>3. CASE Next
  <2>1. \/ nextStep \/ Back \/ createHandle
        \/ \E c \in DOMAIN creations : Created(c) \/ Quietly(c)
        \/ UNCHANGED wizardVars
    BY <1>3, WizardFrame
  <2>2. ASSUME NEW c \in DOMAIN creations, Created(c) \/ Quietly(c) PROVE WizardInv'
    BY <2>2, AnsweredKeepsInv
  <2>3. nextStep \/ createHandle => WizardInv'
    BY CreateKeepsInv, NextStepKeepsInv
  <2> QED BY <1>1, <1>2, <2>1, <2>2, <2>3
<1> QED
  BY <1>2, <1>3 DEF vars

(* However many visits, clicks and answers there are, one visit to step two makes no   *)
(* two sets of documents unless the page gave up the first (createHandle and the       *)
(* time-out of its request), whatever the server still does behind the page.           *)
THEOREM OneDatasetPerVisit == Spec => []OneCreationPerVisit
<1>1. Spec => []WizardInv
  BY WizardInit, WizardStep, PTL DEF Spec
<1>2. WizardInv => OneCreationPerVisit
  BY DEF WizardInv, FollowedOnlyAfterFailure, OneCreationPerVisit
<1> QED
  BY <1>1, <1>2, PTL

-----------------------------------------------------------------------------
(* Estimates *)

EstimateTypes ==
    /\ settings \in Settings
    /\ estimates \in [Modes -> Ask \cup {NoEstimate}]
    /\ asked \in Seq(Ask)

\* Of the requests seq, the last one under the rules m is r, or there is none.
LastIs(seq, m, r) ==
    \A i \in DOMAIN seq :
        seq[i].mode = m /\ (\A j \in DOMAIN seq : i < j => seq[j].mode # m) => seq[i] = r

NoneOf(seq, m) == \A i \in DOMAIN seq : seq[i].mode # m

\* While answers keep their order, the last request under the rules on the page is for
\* the settings on the page, and so is the estimate when no request is left.
LastIsForThePage ==
    /\ step = 2 /\ settings.showPreview /\ ~lostEstimate /\ ~overtakenEstimate
    => /\ LastIs(asked, settings.mode, PreviewOf(settings))
       /\ NoneOf(asked, settings.mode) => estimates[settings.mode] = PreviewOf(settings)

EstimateInv == EstimateTypes /\ LastIsForThePage /\ CalculatingMeansAsked

LEMMA EstimateInit == Init => EstimateInv
BY EmptySeq DEF Init, EstimateInv, EstimateTypes, LastIsForThePage, CalculatingMeansAsked,
   FirstSettings, Settings, Modes, IndexTypes, Forms, NoEstimate

\* A request that is asked is the last one of its rules.
LEMMA AskedIsLast ==
    ASSUME NEW seq \in Seq(Ask), NEW r \in Ask
    PROVE  LastIs(Append(seq, r), r.mode, r) /\ ~NoneOf(Append(seq, r), r.mode)
<1>1. /\ DOMAIN Append(seq, r) = 1..(Len(seq) + 1) /\ Append(seq, r)[Len(seq) + 1] = r
      /\ Len(seq) \in Nat
  BY AppendResult
<1>2. Len(seq) + 1 \in DOMAIN Append(seq, r)
  BY <1>1
<1>3. ASSUME NEW i \in DOMAIN Append(seq, r), i # Len(seq) + 1 PROVE i < Len(seq) + 1
  BY <1>1, <1>3
<1> QED
  BY <1>1, <1>2, <1>3 DEF LastIs, NoneOf

\* The first request of some rules is answered: the last one of every rules stays, or it
\* was the one that is answered.
LEMMA FirstAnswered ==
    ASSUME NEW seq \in Seq(Ask), NEW i \in DOMAIN seq, NEW m, NEW r, LastIs(seq, m, r),
           ~ \E j \in 1..(i - 1) : seq[j].mode = seq[i].mode
    PROVE  /\ LastIs(WithoutItem(seq, i), m, r)
           /\ NoneOf(WithoutItem(seq, i), m) /\ seq[i].mode # m => NoneOf(seq, m)
           /\ NoneOf(WithoutItem(seq, i), m) /\ seq[i].mode = m => seq[i] = r
<1> DEFINE w == WithoutItem(seq, i)
           n == Len(seq)
           At(k) == IF k < i THEN k ELSE k + 1
<1>1. /\ n \in Nat /\ DOMAIN seq = 1..n /\ i \in 1..n
      /\ w \in Seq(Ask) /\ DOMAIN w = 1..(n - 1)
      /\ \A k \in 1..(n - 1) : w[k] = seq[At(k)]
  BY WithoutItemResult, LenProperties
<1> HIDE DEF w, n
<1>2. \A k \in 1..(n - 1) : At(k) \in 1..n /\ At(k) # i
  BY <1>1
<1>3. \A j \in 1..n : j # i => \E k \in 1..(n - 1) : At(k) = j
  <2> SUFFICES ASSUME NEW j \in 1..n, j # i PROVE \E k \in 1..(n - 1) : At(k) = j
    OBVIOUS
  <2>1. CASE j < i
    <3>1. j \in 1..(n - 1) /\ At(j) = j
      BY <1>1, <2>1
    <3> QED BY <3>1
  <2>2. CASE j > i
    <3>1. j - 1 \in 1..(n - 1) /\ At(j - 1) = j
      BY <1>1, <2>2
    <3> QED BY <3>1
  <2> QED BY <1>1, <2>1, <2>2
<1>4. \A k, l \in 1..(n - 1) : At(k) < At(l) => k < l
  BY <1>1
<1> HIDE DEF At
<1>5. ASSUME NEW k \in DOMAIN w, w[k].mode = m,
             \A l \in DOMAIN w : k < l => w[l].mode # m
      PROVE  w[k] = r
  <2>1. At(k) \in DOMAIN seq /\ At(k) # i /\ w[k] = seq[At(k)] /\ k \in 1..(n - 1)
    BY <1>1, <1>2, <1>5
  <2>2. ASSUME NEW j \in DOMAIN seq, At(k) < j PROVE seq[j].mode # m
    <3>1. CASE j = i
      <4>1. At(k) \in 1..(i - 1)
        BY <1>1, <2>1, <2>2, <3>1
      <4> QED BY <1>5, <2>1, <3>1, <4>1
    <3>2. CASE j # i
      <4>1. PICK l \in 1..(n - 1) : At(l) = j
        BY <1>1, <1>3, <3>2
      <4>2. k < l
        BY <1>4, <2>1, <2>2, <4>1
      <4> QED BY <1>1, <1>5, <4>1, <4>2
    <3> QED BY <3>1, <3>2
  <2> QED BY <1>5, <2>1, <2>2 DEF LastIs
<1>6. LastIs(w, m, r)
  BY <1>5 DEF LastIs
<1>7. ASSUME NoneOf(w, m), NEW j \in DOMAIN seq, j # i PROVE seq[j].mode # m
  <2>1. PICK l \in 1..(n - 1) : At(l) = j
    BY <1>1, <1>3, <1>7
  <2> QED BY <1>1, <1>7, <2>1 DEF NoneOf
<1>8. NoneOf(w, m) /\ seq[i].mode # m => NoneOf(seq, m)
  BY <1>7 DEF NoneOf
<1>9. NoneOf(w, m) /\ seq[i].mode = m => seq[i] = r
  <2> SUFFICES ASSUME NoneOf(w, m), seq[i].mode = m PROVE seq[i] = r
    OBVIOUS
  <2>1. \A j \in DOMAIN seq : i < j => seq[j].mode # m
    BY <1>1, <1>7
  <2> QED BY <2>1 DEF LastIs
<1> QED
  BY <1>6, <1>8, <1>9 DEF w

\* Step two as it is mounted or left.
LEMMA StepTwoKeepsInv ==
    ASSUME NEW asks \in Seq(Ask), StepTwo(asks),
           step' = 2 => asks = <<PreviewOf(FirstSettings)>>
    PROVE  EstimateInv'
<1>1. /\ settings' = FirstSettings /\ estimates' = [m \in Modes |-> NoEstimate]
      /\ asked' = asks
  BY DEF StepTwo
<1>2. EstimateTypes'
  BY <1>1 DEF EstimateTypes, FirstSettings, Settings, Modes, IndexTypes, Forms
<1> DEFINE r == PreviewOf(FirstSettings)
<1>3. r \in Ask /\ r.mode = "automatic" /\ FirstSettings.mode = "automatic"
  BY DEF PreviewOf, FirstSettings, Ask, Modes, IndexTypes, Forms
<1>4. CASE step' = 2
  <2> HIDE DEF r
  <2>1. asked' = Append(<< >>, r) /\ << >> \in Seq(Ask)
    BY <1>1, <1>4, EmptySeq DEF r
  <2>2. LastIs(asked', "automatic", r) /\ ~NoneOf(asked', "automatic")
    BY <1>3, <2>1, AskedIsLast
  <2>3. LastIsForThePage'
    BY <1>1, <1>3, <2>2 DEF LastIsForThePage, r
  <2>4. CalculatingMeansAsked'
    BY <2>2 DEF CalculatingMeansAsked, NoneOf
  <2> QED BY <1>2, <2>3, <2>4 DEF EstimateInv
<1>5. CASE step' # 2
  BY <1>2, <1>5 DEF EstimateInv, LastIsForThePage, CalculatingMeansAsked
<1> QED
  BY <1>4, <1>5

\* One more estimate is asked for, and its slot emptied.
LEMMA FetchResult ==
    ASSUME EstimateTypes, NEW s \in Settings, NEW form \in Forms, FetchEstimate(s, form)
    PROVE  /\ asked' \in Seq(Ask)
           /\ \E i \in DOMAIN asked' : asked'[i].mode = s.mode
           /\ LastIs(asked', s.mode, [mode |-> s.mode, indexType |-> s.indexType, form |-> form])
           /\ estimates' = [estimates EXCEPT ![s.mode] = NoEstimate]
<1> DEFINE r == [mode |-> s.mode, indexType |-> s.indexType, form |-> form]
<1>1. r \in Ask /\ r.mode = s.mode
  BY DEF Ask, Settings
<1>2. asked' = Append(asked, r) /\ estimates' = [estimates EXCEPT ![s.mode] = NoEstimate]
  BY DEF FetchEstimate
<1>3. asked \in Seq(Ask)
  BY DEF EstimateTypes
<1>4. asked' \in Seq(Ask)
  BY <1>1, <1>2, <1>3, AppendResult
<1> HIDE DEF r
<1>5. LastIs(asked', s.mode, r) /\ ~NoneOf(asked', s.mode)
  BY <1>1, <1>2, <1>3, AskedIsLast
<1> QED
  BY <1>2, <1>4, <1>5 DEF NoneOf, r

\* A preview that is shown is asked for, and its slot emptied.
LEMMA FetchedKeepsInv ==
    ASSUME EstimateInv, NEW s \in Settings, NEW t \in Settings, NEW form \in Forms,
           FetchEstimate(s, form), settings' = t, t.mode = s.mode, t.indexType = s.indexType,
           form = (IF t.previewSwitched THEN "qa" ELSE "text")
    PROVE  EstimateInv'
<1>1. /\ asked' \in Seq(Ask)
      /\ \E i \in DOMAIN asked' : asked'[i].mode = s.mode
      /\ LastIs(asked', s.mode, [mode |-> s.mode, indexType |-> s.indexType, form |-> form])
      /\ estimates' = [estimates EXCEPT ![s.mode] = NoEstimate]
  BY FetchResult DEF EstimateInv
<1>2. PreviewOf(t) = [mode |-> s.mode, indexType |-> s.indexType, form |-> form]
  BY DEF PreviewOf
<1>3. EstimateTypes'
  BY <1>1 DEF EstimateInv, EstimateTypes
<1>4. LastIsForThePage'
  <2>1. ~NoneOf(asked', t.mode) /\ LastIs(asked', t.mode, PreviewOf(t))
    BY <1>1, <1>2 DEF NoneOf
  <2> QED BY <2>1 DEF LastIsForThePage
<1>5. CalculatingMeansAsked'
  BY <1>1 DEF CalculatingMeansAsked
<1> QED
  BY <1>3, <1>4, <1>5 DEF EstimateInv

LEMMA ModeEffectKeepsInv ==
    ASSUME EstimateInv, NEW s \in Settings, ModeEffect(s)
    PROVE  EstimateInv'
<1> DEFINE t == [s EXCEPT !.previewSwitched = FALSE, !.showPreview = s.mode = "automatic"]
<1>1. /\ t \in Settings /\ t.mode = s.mode /\ t.indexType = s.indexType
      /\ ~t.previewSwitched /\ (t.showPreview <=> s.mode = "automatic") /\ settings' = t
  BY DEF Settings, ModeEffect
<1> HIDE DEF t
<1>2. EstimateTypes
  BY DEF EstimateInv
<1>3. CASE s.mode = "automatic"
  <2>1. FetchEstimate(s, "text") /\ "text" \in Forms
    BY <1>3 DEF ModeEffect, Forms
  <2> QED BY <1>1, <2>1, FetchedKeepsInv
<1>4. CASE s.mode # "automatic"
  <2>1. asked' = asked /\ estimates' = [estimates EXCEPT ![s.mode] = NoEstimate]
    BY <1>4 DEF ModeEffect
  <2>2. EstimateTypes'
    BY <1>1, <1>2, <2>1 DEF EstimateTypes
  <2>3. LastIsForThePage' /\ CalculatingMeansAsked'
    BY <1>1, <1>4 DEF LastIsForThePage, CalculatingMeansAsked
  <2> QED BY <2>2, <2>3 DEF EstimateInv
<1> QED
  BY <1>3, <1>4

LEMMA SettingsKeepInv ==
    ASSUME EstimateInv, StepTwoSettings
    PROVE  EstimateInv'
<1>1. EstimateTypes /\ LastIsForThePage /\ CalculatingMeansAsked
  BY DEF EstimateInv
<1>2. ASSUME NEW mode \in Modes, setSegmentationType(mode) PROVE EstimateInv'
  <2>1. [settings EXCEPT !.mode = mode] \in Settings
    BY <1>1 DEF EstimateTypes, Settings
  <2> QED BY <1>2, <2>1, ModeEffectKeepsInv DEF setSegmentationType
<1>3. ASSUME NEW type \in IndexTypes, setIndexType(type) PROVE EstimateInv'
  <2> DEFINE s == [settings EXCEPT !.indexType = type,
                                   !.form = IF type = "economy" THEN "text" ELSE @]
  <2>1. s \in Settings
    BY <1>1 DEF EstimateTypes, Settings, Forms
  <2>2. ModeEffect(s)
    BY <1>3 DEF setIndexType
  <2> QED BY <2>1, <2>2, ModeEffectKeepsInv
<1>4. CASE handleSwitch
  <2>1. /\ UNCHANGED <<asked, estimates, step, lostEstimate, overtakenEstimate>>
        /\ settings' \in Settings /\ settings'.mode = settings.mode
        /\ PreviewOf(settings') = PreviewOf(settings)
        /\ settings'.showPreview <=> settings.showPreview
    BY <1>1, <1>4 DEF handleSwitch, Switch, wizardVars, history, EstimateTypes, Settings,
                      Forms, PreviewOf
  <2>2. EstimateTypes' /\ LastIsForThePage' /\ CalculatingMeansAsked'
    BY <1>1, <2>1 DEF EstimateTypes, LastIsForThePage, CalculatingMeansAsked
  <2> QED BY <2>2 DEF EstimateInv
<1>5. CASE hidePreview
  <2>1. /\ UNCHANGED <<asked, estimates, step, lostEstimate>>
        /\ settings' \in Settings /\ settings'.mode = settings.mode /\ ~settings'.showPreview
    BY <1>1, <1>5 DEF hidePreview, Switch, wizardVars, history, EstimateTypes, Settings
  <2>2. EstimateTypes' /\ LastIsForThePage' /\ CalculatingMeansAsked'
    BY <1>1, <2>1 DEF EstimateTypes, LastIsForThePage, CalculatingMeansAsked
  <2> QED BY <2>2 DEF EstimateInv
<1>6. CASE confirmChangeCustomConfig
  <2> DEFINE s == [settings EXCEPT !.showPreview = TRUE, !.previewSwitched = FALSE]
  <2>1. /\ s \in Settings /\ s.mode = settings.mode /\ s.indexType = settings.indexType
        /\ ~s.previewSwitched /\ "text" \in Forms /\ settings \in Settings
    BY <1>1 DEF EstimateTypes, Settings, Forms
  <2>2. settings' = s /\ FetchEstimate(settings, "text")
    BY <1>6 DEF confirmChangeCustomConfig
  <2> HIDE DEF s
  <2> QED BY <2>1, <2>2, FetchedKeepsInv
<1>7. CASE previewSwitch
  <2> DEFINE s == [settings EXCEPT !.previewSwitched = TRUE]
  <2>1. /\ s \in Settings /\ s.mode = settings.mode /\ s.indexType = settings.indexType
        /\ s.previewSwitched /\ "qa" \in Forms /\ settings \in Settings
    BY <1>1 DEF EstimateTypes, Settings, Forms
  <2>2. settings' = s /\ FetchEstimate(settings, "qa")
    BY <1>7 DEF previewSwitch
  <2> HIDE DEF s
  <2> QED BY <2>1, <2>2, FetchedKeepsInv
<1> QED
  BY <1>2, <1>3, <1>4, <1>5, <1>6, <1>7 DEF StepTwoSettings

\* The other requests stay asked for when one is answered or fails.
LEMMA AnsweredResult ==
    ASSUME EstimateTypes, NEW i \in DOMAIN asked, asked' = WithoutItem(asked, i)
    PROVE  /\ asked' \in Seq(Ask) /\ asked[i] \in Ask
           /\ \A j \in DOMAIN asked \ {i} : \E k \in DOMAIN asked' : asked'[k] = asked[j]
<1>1. asked \in Seq(Ask) /\ DOMAIN asked = 1..Len(asked) /\ Len(asked) \in Nat
      /\ asked[i] \in Ask
  BY LenProperties DEF EstimateTypes
<1>2. /\ asked' \in Seq(Ask) /\ Len(asked') = Len(asked) - 1
      /\ \A j \in 1..(Len(asked) - 1) :
            asked'[j] = IF j < i THEN asked[j] ELSE asked[j + 1]
  BY <1>1, WithoutItemResult
<1>3. DOMAIN asked' = 1..(Len(asked) - 1)
  BY <1>2, LenProperties
<1>4. ASSUME NEW j \in DOMAIN asked \ {i}
      PROVE  \E k \in DOMAIN asked' : asked'[k] = asked[j]
  <2>1. CASE j < i
    <3>1. j \in 1..(Len(asked) - 1)
      BY <1>1, <2>1
    <3> QED BY <1>2, <1>3, <2>1, <3>1
  <2>2. CASE j > i
    <3>1. j - 1 \in 1..(Len(asked) - 1) /\ ~(j - 1 < i) /\ (j - 1) + 1 = j
      BY <1>1, <2>2
    <3>2. asked'[j - 1] = asked[(j - 1) + 1]
      BY <1>2, <3>1
    <3> QED BY <1>3, <3>1, <3>2
  <2> QED BY <1>1, <2>1, <2>2
<1> QED
  BY <1>1, <1>2, <1>4

LEMMA EstimatedKeepsInv ==
    ASSUME EstimateInv, NEW i \in DOMAIN asked, Estimated(i)
    PROVE  EstimateInv'
<1>1. EstimateTypes /\ LastIsForThePage /\ CalculatingMeansAsked
  BY DEF EstimateInv
<1>2. /\ estimates' = [estimates EXCEPT ![asked[i].mode] = asked[i]]
      /\ asked' = WithoutItem(asked, i)
      /\ UNCHANGED <<settings, step, lostEstimate>>
      /\ overtakenEstimate' = (overtakenEstimate
                                \/ \E j \in 1..(i - 1) : asked[j].mode = asked[i].mode)
  BY DEF Estimated, wizardVars
<1> DEFINE a == asked[i]
<1>3. /\ asked' \in Seq(Ask) /\ a \in Ask
      /\ \A j \in DOMAIN asked \ {i} : \E k \in DOMAIN asked' : asked'[k] = asked[j]
  BY <1>1, <1>2, AnsweredResult
<1>4. estimates' = [estimates EXCEPT ![a.mode] = a]
  BY <1>2
<1>5. a.mode \in Modes /\ "automatic" \in Modes /\ DOMAIN estimates = Modes
  BY <1>1, <1>3 DEF Ask, Modes, EstimateTypes
<1> HIDE DEF a
<1>6. /\ estimates' \in [Modes -> Ask \cup {NoEstimate}] /\ estimates'[a.mode] = a
      /\ \A m \in Modes \ {a.mode} : estimates'[m] = estimates[m]
  BY <1>1, <1>3, <1>4, <1>5 DEF EstimateTypes
<1>7. EstimateTypes'
  BY <1>1, <1>2, <1>3, <1>6 DEF EstimateTypes
<1>8. LastIsForThePage'
  <2> SUFFICES ASSUME step = 2, settings.showPreview, ~lostEstimate, ~overtakenEstimate,
                      ~ \E j \in 1..(i - 1) : asked[j].mode = asked[i].mode
               PROVE  /\ LastIs(asked', settings.mode, PreviewOf(settings))
                      /\ NoneOf(asked', settings.mode)
                            => estimates'[settings.mode] = PreviewOf(settings)
    BY <1>2 DEF LastIsForThePage
  <2>1. /\ LastIs(asked, settings.mode, PreviewOf(settings))
        /\ NoneOf(asked, settings.mode) => estimates[settings.mode] = PreviewOf(settings)
    BY <1>1 DEF LastIsForThePage
  <2>2. asked \in Seq(Ask)
    BY <1>1 DEF EstimateTypes
  <2>3. /\ LastIs(asked', settings.mode, PreviewOf(settings))
        /\ NoneOf(asked', settings.mode) /\ a.mode # settings.mode
              => NoneOf(asked, settings.mode)
        /\ NoneOf(asked', settings.mode) /\ a.mode = settings.mode => a = PreviewOf(settings)
    BY <1>2, <2>1, <2>2, FirstAnswered DEF a
  <2>4. settings.mode \in Modes
    BY <1>1 DEF EstimateTypes, Settings
  <2> QED BY <1>6, <2>1, <2>3, <2>4
<1>9. CalculatingMeansAsked'
  <2> SUFFICES ASSUME step = 2, settings.mode = "automatic",
                      estimates'["automatic"] = NoEstimate, ~lostEstimate
               PROVE  \E k \in DOMAIN asked' : asked'[k].mode = "automatic"
    BY <1>2 DEF CalculatingMeansAsked
  <2>1. a.mode # "automatic"
    BY <1>5, <1>6 DEF NoEstimate
  <2>2. estimates["automatic"] = NoEstimate
    BY <1>5, <1>6, <2>1
  <2>3. PICK j \in DOMAIN asked : asked[j].mode = "automatic"
    BY <1>1, <2>2 DEF CalculatingMeansAsked
  <2>4. j # i
    BY <2>1, <2>3 DEF a
  <2> QED BY <1>3, <2>3, <2>4
<1> QED
  BY <1>7, <1>8, <1>9 DEF EstimateInv

LEMMA EstimateFailsKeepsInv ==
    ASSUME EstimateInv, NEW i \in DOMAIN asked, EstimateFails(i)
    PROVE  EstimateInv'
<1>1. EstimateTypes
  BY DEF EstimateInv
<1>2. asked' = WithoutItem(asked, i) /\ lostEstimate' /\ UNCHANGED <<settings, estimates>>
  BY DEF EstimateFails
<1>3. asked' \in Seq(Ask)
  BY <1>1, <1>2, AnsweredResult
<1> QED
  BY <1>1, <1>2, <1>3 DEF EstimateInv, EstimateTypes, LastIsForThePage,
                          CalculatingMeansAsked

LEMMA EstimateStep ==
    ASSUME EstimateInv, [Next]_vars
    PROVE  EstimateInv'
<1>1. CASE UNCHANGED <<step, estimateVars>>
  BY <1>1 DEF EstimateInv, EstimateTypes, LastIsForThePage, CalculatingMeansAsked,
              estimateVars, history
<1>2. CASE nextStep
  <2>1. StepTwo(<<PreviewOf(FirstSettings)>>)
    BY <1>2 DEF nextStep, PreviewOf, FirstSettings
  <2>2. PreviewOf(FirstSettings) \in Ask
    BY DEF PreviewOf, FirstSettings, Ask, Modes, IndexTypes, Forms
  <2>3. <<PreviewOf(FirstSettings)>> \in Seq(Ask)
    BY <2>2
  <2> QED BY <2>1, <2>3, StepTwoKeepsInv
<1>3. ASSUME StepTwo(<<>>), step' # 2 PROVE EstimateInv'
  <2>1. << >> \in Seq(Ask)
    BY EmptySeq
  <2> QED BY <1>3, <2>1, StepTwoKeepsInv
<1>4. CASE Back
  BY <1>3, <1>4 DEF Back
<1>5. ASSUME NEW c \in DOMAIN creations, Created(c) PROVE EstimateInv'
  BY <1>3, <1>5 DEF Created
<1>6. ASSUME NEW i \in DOMAIN asked, Estimated(i) \/ EstimateFails(i) PROVE EstimateInv'
  BY <1>6, EstimatedKeepsInv, EstimateFailsKeepsInv
<1>7. CASE Next
  <2>1. \/ nextStep \/ Back \/ StepTwoSettings
        \/ \E c \in DOMAIN creations : Created(c)
        \/ \E i \in DOMAIN asked : Estimated(i) \/ EstimateFails(i)
        \/ UNCHANGED <<step, estimateVars>>
    BY <1>7, EstimateFrame
  <2>2. StepTwoSettings => EstimateInv'
    BY SettingsKeepInv
  <2> QED BY <1>1, <1>2, <1>4, <1>5, <1>6, <2>1, <2>2
<1>8. CASE UNCHANGED vars
  BY <1>1, <1>8 DEF vars, wizardVars
<1> QED
  BY <1>7, <1>8

(* However the settings are switched under the requests (fetchFileIndexingEstimate and *)
(* its callers), the preview ends as the settings on the page say, unless an answer     *)
(* overtook an earlier one of the same rules or a request failed.                      *)
THEOREM PreviewFollowsTheSettings == Spec => []PreviewIsOfTheSettings
<1>1. Spec => []EstimateInv
  BY EstimateInit, EstimateStep, PTL DEF Spec
<1>2. EstimateInv => PreviewIsOfTheSettings
  BY DEF EstimateInv, LastIsForThePage, NoneOf, PreviewIsOfTheSettings
<1> QED
  BY <1>1, <1>2, PTL

(* The automatic rules' estimate is never left "calculating" without a request, for    *)
(* every sequence of switches (the effect of [segmentationType, indexType]).           *)
THEOREM CalculatingComesFromARequest == Spec => []CalculatingMeansAsked
<1>1. Spec => []EstimateInv
  BY EstimateInit, EstimateStep, PTL DEF Spec
<1>2. EstimateInv => CalculatingMeansAsked
  BY DEF EstimateInv
<1> QED
  BY <1>1, <1>2, PTL

-----------------------------------------------------------------------------
(* Polling *)

\* Step three is where polling happens, and it is never left.
PollingPlace ==
    /\ polling # "off" => step = 3 /\ watched \in DOMAIN creations
    /\ polling = "off" => detail = {} /\ answers = << >> /\ asking = 0

Some == SUBSET (Statuses \cup {"none"})

DocsTypes == docs \in [Files -> Statuses \cup {"none"}] /\ answers \in Seq(Some)

\* An answer with nothing left to index tells how the batch ended, and so do the ones
\* that the server gave after it.
AnswersOfTheEnd ==
    \A i \in DOMAIN answers :
        answers[i] \subseteq Over
            => /\ answers[i] = BatchStatus
               /\ \A j \in DOMAIN answers : i < j => answers[j] \subseteq Over

\* While answers come in order, what is shown is over only with the whole batch, and
\* what is still to come says the same.
DetailOfTheEnd ==
    ~overtaken /\ detail # {} /\ detail \subseteq Over
        => detail = BatchStatus /\ \A i \in DOMAIN answers : answers[i] \subseteq Over

StoppedAtTheEnd ==
    polling = "stopped" /\ ~blankStop /\ ~overtaken => detail # {} /\ detail \subseteq Over

ProgressInv ==
    PollingPlace /\ DocsTypes /\ AnswersOfTheEnd /\ DetailOfTheEnd /\ StoppedAtTheEnd

LEMMA ProgressInit == Init => ProgressInv
BY EmptySeq DEF Init, ProgressInv, PollingPlace, DocsTypes, Some, AnswersOfTheEnd,
   DetailOfTheEnd, StoppedAtTheEnd

LEMMA StopMeansEnd == ProgressInv => StoppedShowsTheEnd
BY DEF ProgressInv, DetailOfTheEnd, StoppedAtTheEnd, StoppedShowsTheEnd

\* Under step three a creation only changes its state.
LEMMA StepThreeStays ==
    ASSUME WizardTypes, Next, step = 3, NEW w \in DOMAIN creations
    PROVE  /\ step' = 3 /\ w \in DOMAIN creations'
           /\ creations'[w].files = creations[w].files
<1>1. ASSUME NEW c \in DOMAIN creations, Created(c) \/ Quietly(c)
      PROVE  w \in DOMAIN creations' /\ creations'[w].files = creations[w].files
  BY <1>1, CreationResult
<1>2. ASSUME NEW c \in DOMAIN creations, Created(c) \/ Quietly(c) PROVE step' = 3
  BY <1>2 DEF Created, Quietly, Make, CreationFails, GiveUp, CreationBecomes
<1>4. ~nextStep /\ ~Back /\ ~createHandle
  BY DEF nextStep, Back, createHandle
<1>5. CASE UNCHANGED wizardVars
  BY <1>5 DEF wizardVars
<1>6. \/ nextStep \/ Back \/ createHandle
      \/ \E c \in DOMAIN creations : Created(c) \/ Quietly(c)
      \/ UNCHANGED wizardVars
  BY WizardFrame
<1> QED
  BY <1>1, <1>2, <1>4, <1>5, <1>6

\* The steps that leave the polling alone.
LEMMA OtherStepsKeepPolling ==
    ASSUME WizardTypes, ProgressInv, Next, UNCHANGED progressVars
    PROVE  ProgressInv'
<1>1. UNCHANGED <<watched, docs, detail, polling, asking, answers, blankStop, overtaken>>
  BY DEF progressVars
<1>2. CASE polling = "off"
  BY <1>1, <1>2 DEF ProgressInv, PollingPlace, DocsTypes, AnswersOfTheEnd, DetailOfTheEnd,
                    StoppedAtTheEnd
<1>3. CASE polling # "off"
  <2>1. step = 3 /\ watched \in DOMAIN creations
    BY <1>3 DEF ProgressInv, PollingPlace
  <2>2. /\ step' = 3 /\ watched \in DOMAIN creations'
        /\ creations'[watched].files = creations[watched].files
    BY <2>1, StepThreeStays
  <2>3. BatchStatus' = BatchStatus
    BY <1>1, <2>2 DEF BatchStatus
  <2>4. PollingPlace'
    BY <1>1, <1>3, <2>2 DEF PollingPlace
  <2>5. DocsTypes' /\ AnswersOfTheEnd' /\ DetailOfTheEnd' /\ StoppedAtTheEnd'
    BY <1>1, <2>3 DEF ProgressInv, DocsTypes, AnswersOfTheEnd, DetailOfTheEnd, StoppedAtTheEnd
  <2> QED BY <2>4, <2>5 DEF ProgressInv
<1> QED
  BY <1>2, <1>3

\* Step three is mounted by the first creation that is answered.
LEMMA CreatedKeepsPolling ==
    ASSUME WizardTypes, ProgressInv, Next, NEW c \in DOMAIN creations, Created(c)
    PROVE  ProgressInv'
<1>1. CASE step = 3
  <2>1. UNCHANGED progressVars
    BY <1>1 DEF Created
  <2> QED BY <2>1, OtherStepsKeepPolling
<1>2. CASE step # 3
  <2>1. detail = {} /\ answers = << >>
    BY <1>2 DEF ProgressInv, PollingPlace
  <2>2. /\ watched' = c /\ polling' = "on" /\ step' = 3
        /\ docs' = [f \in Files |-> IF f \in creations[c].files THEN "indexing" ELSE "none"]
        /\ detail' = {} /\ answers' = << >>
    BY <1>2, <2>1 DEF Created
  <2>4. c \in DOMAIN creations'
    BY CreationResult
  <2>5. PollingPlace'
    BY <2>2, <2>4 DEF PollingPlace
  <2>6. DocsTypes'
    BY <2>2, EmptySeq DEF DocsTypes, Statuses
  <2>7. AnswersOfTheEnd' /\ DetailOfTheEnd' /\ StoppedAtTheEnd'
    BY <2>2 DEF AnswersOfTheEnd, DetailOfTheEnd, StoppedAtTheEnd
  <2> QED BY <2>5, <2>6, <2>7 DEF ProgressInv
<1> QED
  BY <1>1, <1>2

LEMMA TickKeepsPolling ==
    ASSUME ProgressInv, Tick
    PROVE  ProgressInv'
<1>1. /\ polling = "on"
      /\ UNCHANGED <<step, creations, watched, docs, detail, answers, overtaken>>
  BY DEF Tick, wizardVars
<1>2. BatchStatus' = BatchStatus
  BY <1>1 DEF BatchStatus
<1>3. DocsTypes' /\ AnswersOfTheEnd' /\ DetailOfTheEnd'
  BY <1>1, <1>2 DEF ProgressInv, DocsTypes, AnswersOfTheEnd, DetailOfTheEnd
<1>4. polling' # "off"
  BY <1>1 DEF Tick
<1>5. PollingPlace'
  BY <1>1, <1>4 DEF ProgressInv, PollingPlace
<1>6. StoppedAtTheEnd'
  <2> SUFFICES ASSUME polling' = "stopped", ~blankStop'
               PROVE  detail # {} /\ detail \subseteq Over
    BY <1>1 DEF StoppedAtTheEnd
  <2>1. isCompleted(detail) /\ blankStop' = (detail = {})
    BY <1>1 DEF Tick
  <2> QED BY <2>1 DEF isCompleted
<1> QED
  BY <1>3, <1>5, <1>6 DEF ProgressInv

LEMMA BatchOfFiles ==
    ASSUME WizardTypes, ProgressInv, polling # "off"
    PROVE  creations[watched].files \in SUBSET Files /\ BatchStatus \in Some
<1>1. creations \in Seq(Creation) /\ watched \in DOMAIN creations
  BY DEF WizardTypes, ProgressInv, PollingPlace
<1>2. creations[watched] \in Creation
  BY <1>1, LenProperties
<1>3. creations[watched].files \in SUBSET Files
  BY <1>2 DEF Creation
<1> QED
  BY <1>3 DEF BatchStatus, Some, ProgressInv, DocsTypes

LEMMA ServeKeepsPolling ==
    ASSUME WizardTypes, ProgressInv, Serve
    PROVE  ProgressInv'
<1>1. /\ asking > 0 /\ answers' = Append(answers, BatchStatus)
      /\ UNCHANGED <<step, creations, watched, docs, detail, polling, blankStop, overtaken>>
  BY DEF Serve, wizardVars
<1>2. polling # "off"
  <2>1. polling = "off" => asking = 0
    BY DEF ProgressInv, PollingPlace
  <2> QED BY <1>1, <2>1
<1>3. BatchStatus' = BatchStatus
  BY <1>1 DEF BatchStatus
<1>4. BatchStatus \in Some /\ answers \in Seq(Some)
  BY <1>2, BatchOfFiles DEF ProgressInv, DocsTypes
<1> DEFINE n == Len(answers)
<1>5. /\ answers' \in Seq(Some) /\ DOMAIN answers' = 1..(n + 1)
      /\ answers'[n + 1] = BatchStatus
      /\ \A j \in DOMAIN answers : answers'[j] = answers[j]
      /\ DOMAIN answers = 1..n /\ n \in Nat
  BY <1>1, <1>4, AppendResult
<1> HIDE DEF n
<1>6. PollingPlace' /\ DocsTypes' /\ StoppedAtTheEnd'
  BY <1>1, <1>2, <1>5 DEF ProgressInv, PollingPlace, DocsTypes, StoppedAtTheEnd
<1>7. \A i \in DOMAIN answers' : i \in DOMAIN answers \/ i = n + 1
  BY <1>5
<1>8. AnswersOfTheEnd'
  <2> SUFFICES ASSUME NEW i \in DOMAIN answers', answers'[i] \subseteq Over
               PROVE  /\ answers'[i] = BatchStatus
                      /\ \A j \in DOMAIN answers' : i < j => answers'[j] \subseteq Over
    BY <1>3 DEF AnswersOfTheEnd
  <2>1. CASE i \in DOMAIN answers
    <3>1. /\ answers'[i] = BatchStatus /\ BatchStatus \subseteq Over
          /\ \A j \in DOMAIN answers : i < j => answers'[j] \subseteq Over
      BY <1>5, <2>1 DEF ProgressInv, AnswersOfTheEnd
    <3> QED BY <1>5, <1>7, <3>1
  <2>2. CASE i = n + 1
    <3>1. ~ \E j \in DOMAIN answers' : i < j
      BY <1>5, <2>2
    <3> QED BY <1>5, <2>2, <3>1
  <2> QED BY <1>7, <2>1, <2>2
<1>9. DetailOfTheEnd'
  <2> SUFFICES ASSUME ~overtaken, detail # {}, detail \subseteq Over
               PROVE  detail = BatchStatus /\ \A i \in DOMAIN answers' : answers'[i] \subseteq Over
    BY <1>1, <1>3 DEF DetailOfTheEnd
  <2>1. detail = BatchStatus /\ \A i \in DOMAIN answers : answers[i] \subseteq Over
    BY DEF ProgressInv, DetailOfTheEnd
  <2> QED BY <1>5, <1>7, <2>1
<1> QED
  BY <1>6, <1>8, <1>9 DEF ProgressInv

LEMMA PollFailsKeepsPolling ==
    ASSUME ProgressInv, PollFails
    PROVE  ProgressInv'
<1>1. /\ asking > 0
      /\ UNCHANGED <<step, creations, watched, docs, detail, polling, answers, blankStop,
                     overtaken>>
  BY DEF PollFails, wizardVars
<1>2. polling # "off"
  <2>1. polling = "off" => asking = 0
    BY DEF ProgressInv, PollingPlace
  <2> QED BY <1>1, <2>1
<1>3. BatchStatus' = BatchStatus
  BY <1>1 DEF BatchStatus
<1> QED
  BY <1>1, <1>2, <1>3 DEF ProgressInv, PollingPlace, DocsTypes, AnswersOfTheEnd,
                          DetailOfTheEnd, StoppedAtTheEnd

LEMMA AnswerKeepsPolling ==
    ASSUME ProgressInv, NEW i \in DOMAIN answers, Answer(i)
    PROVE  ProgressInv'
<1>1. /\ detail' = answers[i] /\ answers' = WithoutItem(answers, i)
      /\ overtaken' = (overtaken \/ i # 1)
      /\ UNCHANGED <<step, creations, watched, docs, polling, asking, blankStop>>
  BY DEF Answer, wizardVars
<1>2. answers \in Seq(Some) /\ DOMAIN answers = 1..Len(answers) /\ Len(answers) \in Nat
  BY LenProperties DEF ProgressInv, DocsTypes
<1>3. /\ answers' \in Seq(Some)
      /\ DOMAIN answers' = 1..(Len(answers) - 1)
      /\ \A j \in 1..(Len(answers) - 1) :
            answers'[j] = IF j < i THEN answers[j] ELSE answers[j + 1]
  BY <1>1, <1>2, WithoutItemResult, LenProperties
<1> DEFINE old(j) == IF j < i THEN j ELSE j + 1
<1>4. ASSUME NEW j \in DOMAIN answers'
      PROVE  old(j) \in DOMAIN answers /\ answers'[j] = answers[old(j)]
  BY <1>2, <1>3
<1>5. ASSUME NEW j \in DOMAIN answers', NEW k \in DOMAIN answers', j < k
      PROVE  old(j) < old(k)
  BY <1>2, <1>3, <1>5
<1>6. i = 1 => \A j \in DOMAIN answers' : i < old(j)
  BY <1>2, <1>3
<1> HIDE DEF old
<1>7. BatchStatus' = BatchStatus
  BY <1>1 DEF BatchStatus
<1>8. polling # "off"
  BY <1>2 DEF ProgressInv, PollingPlace
<1>9. PollingPlace' /\ DocsTypes'
  BY <1>1, <1>3, <1>8 DEF ProgressInv, PollingPlace, DocsTypes
<1>10. AnswersOfTheEnd'
  <2> SUFFICES ASSUME NEW a \in DOMAIN answers', answers'[a] \subseteq Over
               PROVE  /\ answers'[a] = BatchStatus
                      /\ \A j \in DOMAIN answers' : a < j => answers'[j] \subseteq Over
    BY <1>7 DEF AnswersOfTheEnd
  <2>1. old(a) \in DOMAIN answers /\ answers'[a] = answers[old(a)]
    BY <1>4
  <2>2. /\ answers[old(a)] = BatchStatus
        /\ \A j \in DOMAIN answers : old(a) < j => answers[j] \subseteq Over
    BY <2>1 DEF ProgressInv, AnswersOfTheEnd
  <2> QED BY <1>4, <1>5, <2>1, <2>2
<1>11. ~overtaken' => ~overtaken /\ i = 1
  BY <1>1
<1>12. DetailOfTheEnd'
  <2> SUFFICES ASSUME ~overtaken', answers[i] \subseteq Over
               PROVE  /\ answers[i] = BatchStatus
                      /\ \A j \in DOMAIN answers' : answers'[j] \subseteq Over
    BY <1>1, <1>7 DEF DetailOfTheEnd
  <2>1. /\ answers[i] = BatchStatus
        /\ \A j \in DOMAIN answers : i < j => answers[j] \subseteq Over
    BY DEF ProgressInv, AnswersOfTheEnd
  <2> QED BY <1>4, <1>6, <1>11, <2>1
<1>13. StoppedAtTheEnd'
  <2> SUFFICES ASSUME polling = "stopped", ~blankStop, ~overtaken'
               PROVE  answers[i] # {} /\ answers[i] \subseteq Over
    BY <1>1 DEF StoppedAtTheEnd
  <2>1. detail # {} /\ detail \subseteq Over
    BY <1>11 DEF ProgressInv, StoppedAtTheEnd
  <2>2. detail = BatchStatus /\ answers[i] \subseteq Over
    BY <1>11, <2>1 DEF ProgressInv, DetailOfTheEnd
  <2>3. answers[i] = BatchStatus
    BY <2>2 DEF ProgressInv, AnswersOfTheEnd
  <2> QED BY <2>1, <2>2, <2>3
<1> QED
  BY <1>9, <1>10, <1>12, <1>13 DEF ProgressInv

\* A batch that is over stays as it is.
LEMMA IndexedKeepsPolling ==
    ASSUME ProgressInv, NEW f \in Files, NEW status \in Over, Indexed(f, status)
    PROVE  ProgressInv'
<1>1. /\ docs[f] = "indexing" /\ docs' = [docs EXCEPT ![f] = status]
      /\ UNCHANGED <<step, creations, watched, detail, polling, asking, answers, blankStop,
                     overtaken>>
  BY DEF Indexed, wizardVars
<1>2. docs \in [Files -> Statuses \cup {"none"}]
  BY DEF ProgressInv, DocsTypes
<1>3. ASSUME BatchStatus \subseteq Over PROVE BatchStatus' = BatchStatus
  <2>1. f \notin creations[watched].files
    BY <1>1, <1>3 DEF BatchStatus, Over
  <2>2. \A g \in creations[watched].files : docs'[g] = docs[g]
    BY <1>1, <1>2, <2>1
  <2> QED BY <1>1, <2>2 DEF BatchStatus
<1>4. PollingPlace' /\ DocsTypes' /\ StoppedAtTheEnd'
  <2>1. docs' \in [Files -> Statuses \cup {"none"}]
    BY <1>1, <1>2 DEF Over, Statuses
  <2> QED BY <1>1, <2>1 DEF ProgressInv, PollingPlace, DocsTypes, StoppedAtTheEnd
<1>5. AnswersOfTheEnd'
  BY <1>1, <1>3 DEF ProgressInv, AnswersOfTheEnd
<1>6. DetailOfTheEnd'
  BY <1>1, <1>3 DEF ProgressInv, DetailOfTheEnd
<1> QED
  BY <1>4, <1>5, <1>6 DEF ProgressInv

LEMMA ProgressStep ==
    ASSUME WizardTypes, ProgressInv, [Next]_vars
    PROVE  ProgressInv'
<1>1. CASE UNCHANGED vars
  <2>1. UNCHANGED <<step, creations, progressVars>>
    BY <1>1 DEF vars, wizardVars
  <2>2. BatchStatus' = BatchStatus
    BY <2>1 DEF BatchStatus, progressVars
  <2> QED BY <2>1, <2>2 DEF ProgressInv, PollingPlace, DocsTypes, AnswersOfTheEnd,
                            DetailOfTheEnd, StoppedAtTheEnd, progressVars
<1>2. CASE Next
  <2>1. ASSUME NEW c \in DOMAIN creations, Created(c) PROVE ProgressInv'
    BY <1>2, <2>1, CreatedKeepsPolling
  <2>2. CASE UNCHANGED progressVars
    BY <1>2, <2>2, OtherStepsKeepPolling
  <2>3. CASE StepThree
    <3>1. ASSUME NEW i \in DOMAIN answers, Answer(i) PROVE ProgressInv'
      BY <3>1, AnswerKeepsPolling
    <3>2. ASSUME NEW f \in Files, NEW status \in Over, Indexed(f, status) PROVE ProgressInv'
      BY <3>2, IndexedKeepsPolling
    <3>3. Tick \/ Serve \/ PollFails => ProgressInv'
      BY TickKeepsPolling, ServeKeepsPolling, PollFailsKeepsPolling
    <3> QED BY <2>3, <3>1, <3>2, <3>3 DEF StepThree
  <2>4. StepThree \/ (\E c \in DOMAIN creations : Created(c)) \/ UNCHANGED progressVars
    BY <1>2, ProgressFrame
  <2> QED BY <2>1, <2>2, <2>3, <2>4
<1> QED
  BY <1>1, <1>2

(* When step three stops polling it shows how the batch ended, for every number of     *)
(* polls in flight (startQueryStatus), unless it stopped before any answer or one of   *)
(* them overtook another.                                                              *)
THEOREM PollingStopsAtTheEnd == Spec => []StoppedShowsTheEnd
<1>1. Init => WizardInv /\ ProgressInv
  BY WizardInit, ProgressInit
<1>2. WizardInv /\ ProgressInv /\ [Next]_vars => (WizardInv /\ ProgressInv)'
  <2>1. WizardInv => WizardTypes
    BY DEF WizardInv
  <2> QED BY <2>1, WizardStep, ProgressStep
<1>3. Spec => [](WizardInv /\ ProgressInv)
  BY <1>1, <1>2, PTL DEF Spec
<1> QED
  BY <1>3, StopMeansEnd, PTL

-----------------------------------------------------------------------------
(* The uploader under the wizard *)

\* Nothing is uploaded any more in step two, and what was accepted has its ids.
AcceptedIsShown ==
    step = 2 /\ ~overlapped
        => UnderWay = {} /\ accepted = {f \in Files : fileList[f] = "uploaded"}

LEMMA UploadsStep ==
    ASSUME UploadsInv, [Next]_vars
    PROVE  UploadsInv'
<1>1. CASE UNCHANGED uploaderVars
  BY <1>1 DEF uploaderVars, UploadsInv, UploaderTypeOK, ChosenInOrder, ChosenSomewhere,
              OneListUnderWay, SettledEverywhere, Settled, Listed, ShownIsKept, ArrayAt,
              UnderWay, InPhase, Uploader
<1>2. CASE nextStep
  BY <1>1, <1>2 DEF nextStep
<1>3. CASE Back
  <2>1. Remount
    BY <1>3 DEF Back, Remount
  <2> QED BY <2>1, RemountKeepsInv
<1>4. CASE UploaderUser \/ \E f \in Files : UploaderNetwork(f)
  BY <1>4, UploaderKeepsInv
<1>5. CASE Next
  <2>1. \/ step = 1 /\ UploaderUser /\ UNCHANGED wizardVars
        \/ \E f \in Files : UploaderNetwork(f) /\ UNCHANGED wizardVars
        \/ nextStep \/ Back
        \/ UNCHANGED uploaderVars /\ (UNCHANGED <<step, accepted>> \/ step' = 3)
    BY <1>5, UploaderFrame
  <2> QED BY <1>1, <1>2, <1>3, <1>4, <2>1
<1>6. CASE UNCHANGED vars
  BY <1>1, <1>6 DEF vars
<1> QED
  BY <1>5, <1>6

\* "Next" is allowed when the uploads of the list are over, as long as it is the list
\* that they write into.
LEMMA NextMeansUploaded ==
    ASSUME UploadsInv, ~overlapped, NextAllowed(fileList)
    PROVE  UnderWay = {} /\ Listed(fileList) = {f \in Files : fileList[f] = "uploaded"}
<1>1. \A f \in Listed(fileList) : fileList[f] = "uploaded"
  BY DEF NextAllowed
<1>2. \A f \in UnderWay : f \in Files /\ fileList[f] \in {"waiting", "sent"}
  BY DEF UploadsInv, OneListUnderWay, UnderWay, InPhase
<1> QED
  BY <1>1, <1>2 DEF Listed

LEMMA AcceptedStep ==
    ASSUME UploadsInv, AcceptedIsShown, [Next]_vars
    PROVE  AcceptedIsShown'
<1>1. CASE UNCHANGED <<uploaderVars, step, accepted>>
  BY <1>1 DEF AcceptedIsShown, uploaderVars, UnderWay, InPhase
<1>2. CASE step' # 2
  BY <1>2 DEF AcceptedIsShown
<1>3. CASE nextStep
  <2>1. /\ NextAllowed(fileList) /\ accepted' = Listed(fileList)
        /\ UNCHANGED <<fileList, phase, overlapped>>
    BY <1>3 DEF nextStep, uploaderVars
  <2>2. UnderWay' = UnderWay
    BY <2>1 DEF UnderWay, InPhase
  <2> QED BY <2>1, <2>2, NextMeansUploaded DEF AcceptedIsShown
<1>4. ASSUME NEW f \in Files, UploaderNetwork(f), UNCHANGED wizardVars
      PROVE  AcceptedIsShown'
  <2>1. f \in UnderWay /\ overlapped' = overlapped
    BY <1>4 DEF UploaderNetwork, Progress, Sent, Ends, Uploaded, UploadFailed, Settle,
                UnderWay, InPhase
  <2>2. step' = step
    BY <1>4 DEF wizardVars
  <2> QED BY <2>1, <2>2 DEF AcceptedIsShown
<1>5. CASE Next
  <2>1. \/ step = 1 /\ UploaderUser /\ UNCHANGED wizardVars
        \/ \E f \in Files : UploaderNetwork(f) /\ UNCHANGED wizardVars
        \/ nextStep \/ Back
        \/ UNCHANGED uploaderVars /\ (UNCHANGED <<step, accepted>> \/ step' = 3)
    BY <1>5, UploaderFrame
  <2>2. Back \/ (step = 1 /\ UNCHANGED wizardVars) => step' # 2
    BY DEF Back, wizardVars
  <2> QED BY <1>1, <1>2, <1>3, <1>4, <2>1, <2>2
<1>6. CASE UNCHANGED vars
  BY <1>1, <1>6 DEF vars, wizardVars
<1> QED
  BY <1>5, <1>6

\* A creation takes what is shown, and nothing but createHandle makes one.
LEMMA CreationTakesAccepted ==
    ASSUME WizardTypes, AcceptedIsShown, [Next]_vars, Len(creations') > Len(creations),
           ~overlapped
    PROVE  creations'[Len(creations')].files = accepted
<1>1. Len(creations) \in Nat
  BY LenProperties DEF WizardTypes
<1>2. ASSUME UNCHANGED creations PROVE FALSE
  BY <1>1, <1>2
<1>3. ASSUME NEW c \in DOMAIN creations, Created(c) \/ Quietly(c)
      PROVE  FALSE
  <2>1. Len(creations') = Len(creations)
    BY <1>3, CreationResult
  <2> QED BY <1>1, <2>1
<1>4. \A c \in DOMAIN creations : ~Created(c) /\ ~Quietly(c)
  BY <1>3
<1>5. ~nextStep /\ ~Back /\ ~UNCHANGED wizardVars /\ ~UNCHANGED vars
  BY <1>2 DEF nextStep, Back, wizardVars, vars
<1>6. createHandle
  BY <1>4, <1>5, WizardFrame
<1>7. step = 2 /\ creations' = Append(creations, NewCreation)
  BY <1>6 DEF createHandle
<1>8. /\ creations \in Seq(Creation)
      /\ Len(creations') = Len(creations) + 1
      /\ creations'[Len(creations) + 1] = NewCreation
  BY <1>7, AppendProperties DEF WizardTypes
<1>9. NewCreation.files = accepted
  BY <1>7 DEF AcceptedIsShown, NewCreation
<1> QED
  BY <1>8, <1>9

LEMMA UploadsHold == Spec => [](WizardInv /\ UploadsInv /\ AcceptedIsShown)
<1> DEFINE Inv == WizardInv /\ UploadsInv /\ AcceptedIsShown
<1>1. Init => Inv
  <2>1. Init => UploadsInv
    BY UploadsInit DEF Init
  <2>2. Init => AcceptedIsShown
    BY DEF Init, AcceptedIsShown
  <2> QED BY <2>1, <2>2, WizardInit
<1>2. Inv /\ [Next]_vars => Inv'
  BY WizardStep, UploadsStep, AcceptedStep
<1> QED
  BY <1>1, <1>2, PTL DEF Spec

(* The list that is shown is the one in the ref, for every number of files, selections *)
(* and uploads, as long as the ref is not replaced under an upload (initialUpload).    *)
THEOREM ShownListIsKept == Spec => []ShownIsKept
<1>1. UploadsInv => ShownIsKept
  BY DEF UploadsInv
<1> QED
  BY <1>1, UploadsHold, PTL

(* "Next" stays refused for good only after a failed upload or after the ref was       *)
(* replaced under one (nextDisabled of step one).                                      *)
THEOREM RefusalHasAReason == Spec => []NextRefusedForAReason
BY UploadsHold, RefusedForAReason, PTL

(* Whatever is uploaded meanwhile, a dataset is made of the files that were accepted   *)
(* when step two was entered, unless the ref was replaced under an upload.             *)
THEOREM DatasetOfAcceptedFiles == Spec => CreatedIsAccepted
<1>1. ASSUME WizardInv, AcceptedIsShown, [Next]_vars
      PROVE  Len(creations') > Len(creations) /\ ~overlapped
                => creations'[Len(creations')].files = accepted
  <2>1. WizardTypes
    BY <1>1 DEF WizardInv
  <2> QED BY <1>1, <2>1, CreationTakesAccepted
<1>2. WizardInv /\ AcceptedIsShown /\ [Next]_vars
         => [Len(creations') > Len(creations) /\ ~overlapped
                => creations'[Len(creations')].files = accepted]_vars
  BY <1>1
<1> QED
  BY <1>2, UploadsHold, PTL DEF Spec, CreatedIsAccepted

-----------------------------------------------------------------------------
(* Type correctness *)

CounterTypes ==
    /\ lostEstimate \in BOOLEAN /\ overtakenEstimate \in BOOLEAN
    /\ switches \in 0..MaxSwitches /\ lost \in 0..MaxLost

LEMMA CounterStep ==
    ASSUME CounterTypes, [Next]_vars
    PROVE  CounterTypes'
<1>1. CASE UNCHANGED <<history, switches, lost>>
  BY <1>1 DEF CounterTypes, history
<1>2. ASSUME lostEstimate' = FALSE, overtakenEstimate' = FALSE, switches' = 0, lost' = 0 PROVE CounterTypes'
  <2>1. switches' \in 0..MaxSwitches /\ lost' \in 0..MaxLost
    BY <1>2, WizardNats
  <2>2. lostEstimate' \in BOOLEAN /\ overtakenEstimate' \in BOOLEAN
    BY <1>2
  <2> QED BY <2>1, <2>2 DEF CounterTypes
<1>3. CASE UNCHANGED vars
  BY <1>1, <1>3 DEF vars, estimateVars
<1>4. CASE nextStep \/ Back
  BY <1>2, <1>4 DEF nextStep, Back, StepTwo
<1>5. ASSUME NEW c \in DOMAIN creations, Created(c) PROVE CounterTypes'
  BY <1>2, <1>5 DEF Created, StepTwo
<1>6. CASE StepTwoSettings
  <2>1. /\ switches < MaxSwitches /\ switches' = switches + 1
        /\ UNCHANGED <<lost, history>>
    BY <1>6 DEF StepTwoSettings, setSegmentationType, setIndexType, handleSwitch,
                confirmChangeCustomConfig, previewSwitch, hidePreview, Switch
  <2> QED BY <2>1, WizardNats DEF CounterTypes, history
<1>7. ASSUME NEW i \in DOMAIN asked, Estimated(i) \/ EstimateFails(i) PROVE CounterTypes'
  <2>1. CASE Estimated(i)
    <3>1. UNCHANGED <<switches, lost, lostEstimate>>
      BY <2>1 DEF Estimated
    <3>2. overtakenEstimate' \in BOOLEAN
      BY <2>1 DEF Estimated, CounterTypes
    <3> QED BY <3>1, <3>2 DEF CounterTypes
  <2>2. CASE EstimateFails(i)
    <3>1. /\ lost < MaxLost /\ lost' = lost + 1 /\ switches' = switches
      BY <2>2 DEF EstimateFails
    <3>2. lost' \in 0..MaxLost /\ switches' \in 0..MaxSwitches
      BY <3>1, WizardNats DEF CounterTypes
    <3>3. lostEstimate' = TRUE /\ overtakenEstimate' = overtakenEstimate
      BY <2>2 DEF EstimateFails
    <3> QED BY <3>2, <3>3 DEF CounterTypes
  <2> QED BY <1>7, <2>1, <2>2
<1>8. CASE StepThree
  <2>1. CASE PollFails
    <3>1. lost < MaxLost /\ lost' = lost + 1 /\ UNCHANGED <<switches, history>>
      BY <2>1 DEF PollFails, estimateVars
    <3> QED BY <3>1, WizardNats DEF CounterTypes, history
  <2>2. CASE ~PollFails
    BY <1>1, <1>8, <2>2 DEF StepThree, Tick, Serve, Answer, Indexed, estimateVars
  <2> QED BY <2>1, <2>2
<1>9. CASE createHandle
  BY <1>1, <1>9 DEF createHandle, estimateVars
<1>10. ASSUME NEW c \in DOMAIN creations, Quietly(c) PROVE CounterTypes'
  BY <1>1, <1>10 DEF Quietly, Make, CreationFails, GiveUp, CreationBecomes, estimateVars
<1>11. CASE step = 1 /\ Upload(UploaderUser)
  BY <1>1, <1>11 DEF Upload, estimateVars
<1>12. ASSUME NEW f \in Files, Upload(UploaderNetwork(f)) PROVE CounterTypes'
  BY <1>1, <1>12 DEF Upload, estimateVars
<1> QED
  BY <1>3, <1>4, <1>5, <1>6, <1>7, <1>8, <1>9, <1>10, <1>11, <1>12 DEF Next, Creating, Quietly

\* The files of the batch that is polled have a status.
PollingTypes ==
    /\ blankStop \in BOOLEAN /\ overtaken \in BOOLEAN
    /\ watched \in 0..Len(creations)
    /\ docs \in [Files -> Statuses \cup {"none"}]
    /\ polling # "off" => BatchStatus \in SUBSET Statuses
    /\ detail \in SUBSET Statuses
    /\ polling \in {"off", "on", "stopped"}
    /\ asking \in 0..MaxPolls
    /\ answers \in Seq(SUBSET Statuses)

\* Creations are never forgotten.
LEMMA CreationsStay ==
    ASSUME WizardTypes, [Next]_vars
    PROVE  Len(creations) \in Nat /\ Len(creations) <= Len(creations') /\ Len(creations') \in Nat
<1>1. Len(creations) \in Nat /\ creations \in Seq(Creation)
  BY LenProperties DEF WizardTypes
<1>2. CASE UNCHANGED creations
  BY <1>1, <1>2
<1>3. ASSUME NEW c \in DOMAIN creations, Created(c) \/ Quietly(c)
      PROVE  Len(creations') = Len(creations)
  BY <1>3, CreationResult
<1>4. CASE createHandle
  <2>1. creations' = Append(creations, NewCreation)
    BY <1>4 DEF createHandle
  <2>2. Len(creations') = Len(creations) + 1
    BY <1>1, <2>1, AppendProperties
  <2> QED BY <1>1, <2>2
<1>5. nextStep \/ Back \/ UNCHANGED wizardVars \/ UNCHANGED vars => UNCHANGED creations
  BY DEF nextStep, Back, wizardVars, vars
<1> QED
  BY <1>1, <1>2, <1>3, <1>4, <1>5, WizardFrame

LEMMA PollingTypesStep ==
    ASSUME WizardTypes, ProgressInv, PollingTypes, [Next]_vars
    PROVE  PollingTypes'
<1>1. watched \in 0..Len(creations')
  BY CreationsStay DEF PollingTypes
<1>2. CASE UNCHANGED progressVars
  <2>1. polling # "off" => BatchStatus' = BatchStatus
    <3>1. CASE UNCHANGED vars
      BY <3>1 DEF vars, wizardVars, progressVars, BatchStatus
    <3>2. ASSUME Next, polling # "off" PROVE BatchStatus' = BatchStatus
      <4>1. step = 3 /\ watched \in DOMAIN creations
        BY <3>2 DEF ProgressInv, PollingPlace
      <4>2. creations'[watched].files = creations[watched].files
        BY <3>2, <4>1, StepThreeStays
      <4> QED BY <1>2, <4>2 DEF BatchStatus, progressVars
    <3> QED BY <3>1, <3>2
  <2> QED BY <1>1, <1>2, <2>1 DEF PollingTypes, progressVars
<1>3. ASSUME NEW c \in DOMAIN creations, Created(c), step # 3 PROVE PollingTypes'
  <2>1. /\ watched' = c /\ polling' = "on" /\ asking' = 1
        /\ docs' = [f \in Files |-> IF f \in creations[c].files THEN "indexing" ELSE "none"]
        /\ UNCHANGED <<detail, answers, blankStop, overtaken>>
    BY <1>3 DEF Created
  <2>2. Len(creations') = Len(creations) /\ creations'[c].files = creations[c].files
    BY <1>3, CreationResult
  <2>3. c \in 0..Len(creations') /\ creations[c].files \in SUBSET Files
    <3>1. creations \in Seq(Creation) /\ DOMAIN creations = 1..Len(creations)
          /\ Len(creations) \in Nat
      BY LenProperties DEF WizardTypes
    <3>2. creations[c] \in Creation
      BY <3>1
    <3>3. creations[c].files \in SUBSET Files
      BY <3>2 DEF Creation
    <3>4. c \in 0..Len(creations')
      BY <2>2, <3>1
    <3> QED BY <3>3, <3>4
  <2>4. BatchStatus' \in SUBSET Statuses /\ docs' \in [Files -> Statuses \cup {"none"}]
    BY <2>1, <2>2, <2>3 DEF BatchStatus, Statuses
  <2> QED BY <2>1, <2>3, <2>4, WizardNats DEF PollingTypes
<1>4. ASSUME UNCHANGED <<creations, watched, docs>>, polling' # "off" => polling # "off"
      PROVE  /\ docs' \in [Files -> Statuses \cup {"none"}]
             /\ polling' # "off" => BatchStatus' \in SUBSET Statuses
  BY <1>4 DEF PollingTypes, BatchStatus
<1>5. CASE Tick
  <2>1. /\ polling = "on" /\ polling' \in {"on", "stopped"}
        /\ UNCHANGED <<creations, watched, docs, detail, answers, overtaken>>
    BY <1>5 DEF Tick, wizardVars
  <2>2. blankStop' \in BOOLEAN
    BY <1>5 DEF Tick, PollingTypes
  <2>3. asking' \in 0..MaxPolls
    <3>1. Len(answers) \in Nat /\ asking \in Nat
      BY LenProperties, WizardNats DEF PollingTypes
    <3>2. asking' = asking \/ (asking' = asking + 1 /\ asking + Len(answers) < MaxPolls)
      BY <1>5 DEF Tick
    <3> QED BY <3>1, <3>2, WizardNats DEF PollingTypes
  <2> QED BY <1>1, <1>4, <2>1, <2>2, <2>3 DEF PollingTypes
<1>6. CASE PollFails
  <2>1. /\ asking > 0 /\ asking' = asking - 1
        /\ UNCHANGED <<creations, watched, docs, detail, polling, answers, blankStop, overtaken>>
    BY <1>6 DEF PollFails, wizardVars
  <2>2. asking' \in 0..MaxPolls
    BY <2>1, WizardNats DEF PollingTypes
  <2> QED BY <1>1, <1>4, <2>1, <2>2 DEF PollingTypes
<1>7. CASE Serve
  <2>1. /\ asking > 0 /\ asking' = asking - 1 /\ answers' = Append(answers, BatchStatus)
        /\ UNCHANGED <<creations, watched, docs, detail, polling, blankStop, overtaken>>
    BY <1>7 DEF Serve, wizardVars
  <2>2. asking' \in 0..MaxPolls
    BY <2>1, WizardNats DEF PollingTypes
  <2>3. polling # "off"
    <3>1. polling = "off" => asking = 0
      BY DEF ProgressInv, PollingPlace
    <3> QED BY <2>1, <3>1
  <2>4. answers' \in Seq(SUBSET Statuses)
    BY <2>1, <2>3, AppendProperties DEF PollingTypes
  <2> QED BY <1>1, <1>4, <2>1, <2>2, <2>4 DEF PollingTypes
<1>8. ASSUME NEW i \in DOMAIN answers, Answer(i) PROVE PollingTypes'
  <2>1. /\ detail' = answers[i] /\ answers' = WithoutItem(answers, i)
        /\ UNCHANGED <<creations, watched, docs, polling, asking, blankStop>>
    BY <1>8 DEF Answer, wizardVars
  <2>2. answers' \in Seq(SUBSET Statuses) /\ detail' \in SUBSET Statuses
    BY <2>1, WithoutItemResult, LenProperties DEF PollingTypes
  <2>3. overtaken' \in BOOLEAN
    BY <1>8 DEF Answer
  <2> QED BY <1>1, <1>4, <2>1, <2>2, <2>3 DEF PollingTypes
<1>9. ASSUME NEW f \in Files, NEW status \in Over, Indexed(f, status) PROVE PollingTypes'
  <2>1. /\ docs' = [docs EXCEPT ![f] = status]
        /\ UNCHANGED <<creations, watched, detail, polling, asking, answers, blankStop,
                       overtaken>>
    BY <1>9 DEF Indexed, wizardVars
  <2>2. docs' \in [Files -> Statuses \cup {"none"}]
    BY <2>1 DEF PollingTypes, Over, Statuses
  <2>3. ASSUME polling # "off" PROVE BatchStatus' \in SUBSET Statuses
    <3>1. creations[watched].files \in SUBSET Files
      BY <2>3, BatchOfFiles
    <3>2. \A g \in creations[watched].files : docs[g] \in Statuses /\ docs'[g] \in Statuses
      BY <2>1, <2>3, <3>1 DEF PollingTypes, BatchStatus, Over, Statuses
    <3> QED BY <2>1, <3>2 DEF BatchStatus
  <2> QED BY <1>1, <2>1, <2>2, <2>3 DEF PollingTypes
<1>10. CASE Next
  <2>1. ASSUME NEW c \in DOMAIN creations, Created(c) PROVE PollingTypes'
    BY <1>2, <1>3, <2>1 DEF Created
  <2>2. StepThree => PollingTypes'
    BY <1>5, <1>6, <1>7, <1>8, <1>9 DEF StepThree
  <2>3. StepThree \/ (\E c \in DOMAIN creations : Created(c)) \/ UNCHANGED progressVars
    BY <1>10, ProgressFrame
  <2> QED BY <1>2, <2>1, <2>2, <2>3
<1>11. CASE UNCHANGED vars
  BY <1>2, <1>11 DEF vars
<1> QED
  BY <1>10, <1>11

(* The wizard keeps to its types for all its bounds.                                   *)
THEOREM TypeCorrect == Spec => []TypeOK
<1> DEFINE Inv == /\ WizardInv /\ UploadsInv /\ EstimateInv /\ ProgressInv
                  /\ CounterTypes /\ PollingTypes
<1>1. Init => Inv
  <2>1. Init => UploadsInv
    BY UploadsInit DEF Init
  <2>2. Init => CounterTypes
    <3>1. Init => switches \in 0..MaxSwitches /\ lost \in 0..MaxLost
      BY WizardNats DEF Init
    <3>2. Init => lostEstimate \in BOOLEAN /\ overtakenEstimate \in BOOLEAN
      BY DEF Init
    <3> QED BY <3>1, <3>2 DEF CounterTypes
  <2>3. Init => PollingTypes
    <3>1. Init => blankStop \in BOOLEAN /\ overtaken \in BOOLEAN /\ polling = "off"
      BY DEF Init
    <3>2. Init => asking \in 0..MaxPolls /\ watched \in 0..Len(creations)
      BY WizardNats, EmptySeq DEF Init
    <3>3. Init => /\ docs \in [Files -> Statuses \cup {"none"}] /\ detail \in SUBSET Statuses
                  /\ answers \in Seq(SUBSET Statuses)
      BY EmptySeq DEF Init
    <3> QED BY <3>1, <3>2, <3>3 DEF PollingTypes
  <2> QED BY <2>1, <2>2, <2>3, WizardInit, EstimateInit, ProgressInit
<1>2. Inv /\ [Next]_vars => Inv'
  <2> SUFFICES ASSUME Inv, [Next]_vars PROVE Inv'
    OBVIOUS
  <2>1. WizardTypes
    BY DEF WizardInv
  <2>2. WizardInv' /\ UploadsInv' /\ EstimateInv'
    BY WizardStep, UploadsStep, EstimateStep
  <2>3. ProgressInv' /\ CounterTypes' /\ PollingTypes'
    BY <2>1, ProgressStep, CounterStep, PollingTypesStep
  <2> QED BY <2>2, <2>3
<1>3. Inv => TypeOK
  BY DEF TypeOK, WizardInv, WizardTypes, UploadsInv, EstimateInv, EstimateTypes, CounterTypes,
         PollingTypes
<1> QED
  BY <1>1, <1>2, <1>3, PTL DEF Spec
=============================================================================
