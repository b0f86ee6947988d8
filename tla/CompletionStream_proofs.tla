---------------------- MODULE CompletionStream_proofs ----------------------
(***************************************************************************)
(* What holds of the way of an answer for every length of the text, every  *)
(* buffer of the moderation and any number of failed reviews: the types,   *)
(* the promptness of a stop, the shielding of what is saved, and that the  *)
(* client was shown what is kept.                                          *)
(***************************************************************************)
EXTENDS CompletionStream, SequenceTheorems, WellFoundedInduction, TLAPS

-----------------------------------------------------------------------------
(* The places of the worker *)

\* Before the end has been handled once, nothing has been reported.
Unreported == {"begin", "annotated", "history", "model", "token", "sent", "review",
               "replaced", "whole", "wholeSent", "save", "failing", "broken"}

ReportsInv ==
    /\ worker \in WorkerPlaces
    /\ reports \in 0..2
    /\ interrupted \in BOOLEAN
    /\ worker \in Unreported => reports = 0 /\ ~interrupted
    /\ worker \in {"interrupted", "stopSave"} => reports # 2
    /\ worker \in {"messageEnd", "endSent"} /\ interrupted => reports # 0

\* The end by exception is handled at most twice.
LEMMA ReportsStep ==
    ASSUME ReportsInv, [Next]_vars
    PROVE  ReportsInv'
<1> USE DEF ReportsInv, Unreported, WorkerPlaces
<1>1. CASE Begin
  BY <1>1 DEF Begin, GoTo, setupVars, answerVars, stopVars, reviewVars, readerVars
<1>2. CASE BeginFails
  BY <1>2 DEF BeginFails, GoTo, setupVars, answerVars, stopVars, reviewVars, readerVars
<1>3. CASE BeginAnnotation
  BY <1>3 DEF BeginAnnotation, GoTo, setupVars, answerVars, stopVars, reviewVars, readerVars
<1>4. CASE NewToken
  BY <1>4 DEF NewToken, GoTo, setupVars, answerVars, stopVars, reviewVars, readerVars
<1>5. CASE ModelFails
  BY <1>5 DEF ModelFails, GoTo, setupVars, answerVars, stopVars, reviewVars, readerVars
<1>6. CASE ModelEnds
  BY <1>6 DEF ModelEnds, GoTo, setupVars, answerVars, stopVars, reviewVars, readerVars
<1>7. CASE AnnotationEnd
  BY <1>7 DEF AnnotationEnd, GoTo, setupVars, answerVars, stopVars, reviewVars, readerVars
<1>8. CASE AddAnnotationHistory
  BY <1>8 DEF AddAnnotationHistory, GoTo, setupVars, answerVars, stopVars, reviewVars, readerVars
<1>9. CASE PublishToken
  BY <1>9 DEF PublishToken, GoTo, setupVars, answerVars, stopVars, reviewVars, readerVars
<1>10. CASE TokenDone
  BY <1>10 DEF TokenDone, GoTo, setupVars, answerVars, stopVars, reviewVars, readerVars
<1>11. CASE TokenStopped
  BY <1>11 DEF TokenStopped, GoTo, setupVars, answerVars, stopVars, reviewVars, readerVars
<1>12. CASE StopSave
  BY <1>12 DEF StopSave, GoTo, setupVars, answerVars, stopVars, reviewVars, readerVars
<1>13. CASE Interrupt
  BY <1>13 DEF Interrupt, GoTo, setupVars, answerVars, stopVars, reviewVars, readerVars
<1>14. CASE PubError
  BY <1>14 DEF PubError, GoTo, setupVars, answerVars, stopVars, reviewVars, readerVars
<1>15. CASE ReviewFlags
  BY <1>15 DEF ReviewFlags, GoTo, setupVars, answerVars, stopVars, reviewVars, readerVars
<1>16. CASE ReviewPasses
  BY <1>16 DEF ReviewPasses, GoTo, setupVars, answerVars, stopVars, reviewVars, readerVars
<1>17. CASE PublishWhole
  BY <1>17 DEF PublishWhole, GoTo, setupVars, answerVars, stopVars, reviewVars, readerVars
<1>18. CASE LastTextDone
  BY <1>18 DEF LastTextDone, GoTo, setupVars, answerVars, stopVars, reviewVars, readerVars
<1>19. CASE Save
  BY <1>19 DEF Save, GoTo, setupVars, answerVars, stopVars, reviewVars, readerVars
<1>20. CASE PubMessageEnd
  BY <1>20 DEF PubMessageEnd, GoTo, setupVars, answerVars, stopVars, reviewVars, readerVars
<1>21. CASE End
  BY <1>21 DEF End, GoTo, setupVars, answerVars, stopVars, reviewVars, readerVars
<1>22. CASE Look
  BY <1>22 DEF Look, GoTo, setupVars, answerVars, stopVars, reviewVars, readerVars
<1>23. CASE Reviewed
  BY <1>23 DEF Reviewed, GoTo, setupVars, answerVars, stopVars, reviewVars, readerVars
<1>24. CASE Decide
  BY <1>24 DEF Decide, GoTo, setupVars, answerVars, stopVars, reviewVars, readerVars
<1>25. CASE Replace
  BY <1>25 DEF Replace, GoTo, setupVars, answerVars, stopVars, reviewVars, readerVars
<1>26. CASE ReplaceDone
  BY <1>26 DEF ReplaceDone, GoTo, setupVars, answerVars, stopVars, reviewVars, readerVars
<1>28. CASE TimeOut
  BY <1>28 DEF TimeOut, GoTo, setupVars, answerVars, stopVars, reviewVars, readerVars
<1>29. CASE Close
  BY <1>29 DEF Close, GoTo, setupVars, answerVars, stopVars, reviewVars, readerVars
<1>30. CASE CountdownEnds
  BY <1>30 DEF CountdownEnds, GoTo, setupVars, answerVars, stopVars, reviewVars, readerVars
<1>31. CASE StopExpires
  BY <1>31 DEF StopExpires, GoTo, setupVars, answerVars, stopVars, reviewVars, readerVars
<1>32. CASE Receive
  BY <1>32 DEF Receive, GoTo, setupVars, answerVars, stopVars, reviewVars, readerVars
<1>33. CASE Leave
  BY <1>33 DEF Leave, GoTo, setupVars, answerVars, stopVars, reviewVars, readerVars
<1>34. CASE Stop
  BY <1>34 DEF Stop, GoTo, setupVars, answerVars, stopVars, reviewVars, readerVars
<1>35. CASE UNCHANGED vars
  BY <1>35 DEF vars, setupVars, answerVars, stopVars, reviewVars, readerVars
<1> QED
  BY <1>1, <1>2, <1>3, <1>4, <1>5, <1>6, <1>7, <1>8, <1>9, <1>10, <1>11, <1>12,
     <1>13, <1>14, <1>15, <1>16, <1>17, <1>18, <1>19, <1>20, <1>21, <1>22, <1>23,
     <1>24, <1>25, <1>26, <1>28, <1>29, <1>30, <1>31, <1>32, <1>33, <1>34,
     <1>35
  DEF Next, Model, WorkerStep, ReviewerStep, Countdown, User

-----------------------------------------------------------------------------
(* The shielding of what is saved *)

SetupInv ==
    /\ moderation \in {"none", "direct", "override"}
    /\ bad \in SUBSET Tokens
    /\ moderation = "none" => bad = {}
    /\ failures \in Nat

ShieldInv ==
    /\ interrupted => completion = <<Preset>>
    /\ failures = 0 /\ worker \in {"replaced", "whole", "wholeSent", "save"}
          => ~Flagged(completion)
    /\ SavedIsShielded

\* No review flags the preset response.
LEMMA PresetIsClean ==
    ASSUME bad \in SUBSET Tokens
    PROVE  ~Flagged(<<Preset>>)
BY DEF Flagged, Range, Preset, Tokens

\* Nor what moderation makes of a flagged text.
LEMMA ShieldedIsClean ==
    ASSUME bad \in SUBSET Tokens, NEW text
    PROVE  ~Flagged(Shield(text))
<1>1. CASE moderation = "direct"
  BY <1>1, PresetIsClean DEF Shield
<1>2. CASE moderation # "direct"
  <2> DEFINE shielded == [i \in DOMAIN text |-> IF text[i] \in bad THEN Masked ELSE text[i]]
  <2>1. Masked \notin bad
    BY DEF Masked, Tokens
  <2>2. \A i \in DOMAIN shielded : shielded[i] \notin bad
    BY <2>1
  <2>3. Range(shielded) \cap bad = {}
    BY <2>2 DEF Range
  <2> QED BY <1>2, <2>3 DEF Shield, Flagged
<1> QED BY <1>1, <1>2

LEMMA NothingIsFlagged ==
    ASSUME bad = {}, NEW text
    PROVE  ~Flagged(text)
BY DEF Flagged

-----------------------------------------------------------------------------
(* What save_message makes of a text *)

LEMMA Ends ==
    ASSUME NEW n \in Nat, NEW S \in SUBSET (1..n), S # {}
    PROVE  Min(S) \in S /\ Max(S) \in S
<1> DEFINE Less == OpToRel(<, Nat)
<1>1. \A x, y \in Nat : <<y, x>> \in Less <=> y < x
  BY DEF OpToRel
<1>2. IsWellFoundedOn(Less, Nat)
  BY NatLessThanWellFounded
<1> HIDE DEF Less
<1>3. Min(S) \in S
  <2>1. S \subseteq Nat
    OBVIOUS
  <2>2. \E x \in S : \A y \in S : ~(<<y, x>> \in Less)
    BY <1>2, <2>1, WFMin
  <2>3. PICK x \in S : \A y \in S : ~(<<y, x>> \in Less)
    BY <2>2
  <2>4. \A y \in S : ~(y < x)
    BY <1>1, <2>1, <2>3
  <2>5. \A y \in S : x =< y
    BY <2>4
  <2> QED BY <2>5 DEF Min
<1>4. Max(S) \in S
  <2> DEFINE T == {n - x : x \in S}
  <2>1. T \subseteq Nat /\ T # {}
    <3>1. \A x \in S : n - x \in Nat
      OBVIOUS
    <3> QED BY <3>1
  <2>2. \E t \in T : \A u \in T : ~(<<u, t>> \in Less)
    BY <1>2, <2>1, WFMin
  <2>3. PICK x \in S : \A y \in S : ~(<<n - y, n - x>> \in Less)
    BY <2>2
  <2>4. \A y \in S : n - y \in Nat /\ n - x \in Nat
    BY <2>1
  <2>5. \A y \in S : ~(n - y < n - x)
    BY <1>1, <2>3, <2>4
  <2>6. \A y \in S : x >= y
    BY <2>5
  <2> QED BY <2>6 DEF Max
<1> QED BY <1>3, <1>4

\* It takes words away at the two ends.
LEMMA StripIs ==
    ASSUME NEW text \in Texts
    PROVE  /\ strip(text) \in Texts
           /\ \A i \in DOMAIN strip(text) : \E j \in DOMAIN text : strip(text)[i] = text[j]
<1> DEFINE inside == {i \in DOMAIN text : text[i] \notin Blank}
<1>1. Len(text) \in Nat /\ DOMAIN text = 1..Len(text) /\ text \in Seq(Words)
  BY DEF Texts
<1>2. CASE inside = {}
  <2>1. strip(text) = <<>>
    BY <1>2 DEF strip
  <2> QED BY <2>1 DEF Texts
<1>3. CASE inside # {}
  <2>1. Min(inside) \in 1..Len(text) /\ Max(inside) \in 1..Len(text)
    BY <1>1, <1>3, Ends
  <2>2. strip(text) = SubSeq(text, Min(inside), Max(inside))
    BY <1>3 DEF strip
  <2> HIDE DEF inside
  <2>3. \A a, b \in 1..Len(text) :
           /\ SubSeq(text, a, b) \in Seq(Words)
           /\ \A i \in DOMAIN SubSeq(text, a, b) :
                 i + a - 1 \in DOMAIN text /\ SubSeq(text, a, b)[i] = text[i + a - 1]
    BY <1>1
  <2> QED BY <2>1, <2>2, <2>3 DEF Texts
<1> QED BY <1>2, <1>3

LEMMA AsKeptIs ==
    ASSUME NEW text \in Texts
    PROVE  /\ AsKept(text) \in Seq(KeptWords)
           /\ \A i \in DOMAIN AsKept(text) : \E j \in DOMAIN text :
                 IF text[j] \in Variables THEN AsKept(text)[i] = Single(text[j])
                 ELSE AsKept(text)[i] = text[j]
<1> DEFINE bare == strip(text)
<1>1. bare \in Texts /\ \A i \in DOMAIN bare : \E j \in DOMAIN text : bare[i] = text[j]
  BY StripIs
<1>2. AsKept(text) = [i \in DOMAIN bare |->
                        IF bare[i] \in Variables THEN Single(bare[i]) ELSE bare[i]]
  BY DEF AsKept, remove_template_variables
<1> HIDE DEF bare
<1>3. Len(bare) \in Nat /\ DOMAIN bare = 1..Len(bare) /\ \A i \in 1..Len(bare) : bare[i] \in Words
  BY <1>1 DEF Texts
<1>4. \A i \in 1..Len(bare) :
        (IF bare[i] \in Variables THEN Single(bare[i]) ELSE bare[i]) \in KeptWords
  BY <1>3 DEF KeptWords
<1>5. AsKept(text) \in [1..Len(bare) -> KeptWords]
  BY <1>2, <1>3, <1>4
<1>6. AsKept(text) \in Seq(KeptWords)
  BY <1>3, <1>5
<1> QED BY <1>1, <1>2, <1>6

\* No flagged token comes of it, with or without its braces.
LEMMA KeptIsClean ==
    ASSUME bad \in SUBSET Tokens, NEW text \in Texts, ~Flagged(text)
    PROVE  \A word \in bad : {word, Single(word)} \cap Range(AsKept(text)) = {}
<1> SUFFICES ASSUME NEW word \in bad, NEW i \in DOMAIN AsKept(text),
                    AsKept(text)[i] \in {word, Single(word)}
             PROVE  FALSE
  BY DEF Range
<1>1. PICK j \in DOMAIN text : IF text[j] \in Variables THEN AsKept(text)[i] = Single(text[j])
                              ELSE AsKept(text)[i] = text[j]
  BY AsKeptIs
<1>2. text[j] \in Words /\ text[j] \notin bad
  BY DEF Texts, Flagged, Range
<1>3. word \in 1..MaxTokens /\ MaxTokens \in Nat
  BY BoundsAssumption DEF Tokens
<1>4. CASE text[j] \in Variables
  <2>1. text[j] \in Int /\ text[j] >= -1
    <3>1. text[j] \in Tokens \/ text[j] = Preset
      BY <1>4, WordsAssumption
    <3> QED BY <1>3, <3>1 DEF Tokens, Preset
  <2>2. AsKept(text)[i] = text[j] + MaxTokens + 3
    BY <1>1, <1>4 DEF Single
  <2>3. text[j] + MaxTokens + 3 > word /\ word + MaxTokens + 3 # text[j] + MaxTokens + 3
    BY <1>2, <1>3, <2>1
  <2> QED BY <1>3, <2>2, <2>3 DEF Single
<1>5. CASE text[j] \notin Variables
  BY <1>1, <1>2, <1>3, <1>5 DEF Single, Words
<1> QED BY <1>4, <1>5

-----------------------------------------------------------------------------
(* The promptness of a stop *)

Again == "again" \in slips

\* The places where a worker that has published under the key can be, if it has not met an
\* annotation first
Stopping == {"sent", "replaced", "wholeSent", "stopSave", "done"}

PromptInv ==
    /\ afterStop \in [{"worker", "reviewer"} -> Nat]
    /\ ~stopKey => \A t \in {"worker", "reviewer"} : afterStop[t] = 0
    /\ worker \in {"begin", "annotated", "history"} => ~Again
    /\ worker = "begin" => afterStop["worker"] = 0
    /\ ~Again => \/ afterStop["worker"] = 0
                 \/ afterStop["worker"] = 1 /\ worker \in Stopping \cup {"annotated"}
    /\ Again => \/ afterStop["worker"] \in 0..1
                \/ afterStop["worker"] = 2 /\ worker \in Stopping
    /\ \/ afterStop["reviewer"] = 0
       \/ afterStop["reviewer"] = 1 /\ reviewer \in {"replaced", "dead"}
\* What is saved as a whole answer has been through a review.
LEMMA ShieldStep ==
    ASSUME ReportsInv, SetupInv, ShieldInv, completion \in Texts, [Next]_vars
    PROVE  (SetupInv /\ ShieldInv)'
<1> DEFINE Clean(text) == \A word \in bad : {word, Single(word)} \cap Range(text) = {}
<1>k. bad \in SUBSET Tokens => \A text \in Texts : ~Flagged(text) => Clean(AsKept(text))
  BY KeptIsClean
<1>p. <<Preset>> \in Texts
  BY BoundsAssumption DEF Texts, Words, Preset
<1>s. SavedIsShielded <=> (saved = "ended" /\ failures = 0 => Clean(stored))
  BY DEF SavedIsShielded
<1>t. (SavedIsShielded)' <=> (saved' = "ended" /\ failures' = 0 =>
        \A word \in bad' : {word, Single(word)} \cap Range(stored') = {})
  BY DEF SavedIsShielded
<1> USE <1>s, <1>t DEF SetupInv, ShieldInv, ReportsInv, Unreported, Flagged
<1>1. CASE Begin
  BY <1>1 DEF Begin, GoTo, setupVars, answerVars, stopVars, reviewVars, readerVars
<1>2. CASE BeginFails
  BY <1>2 DEF BeginFails, GoTo, setupVars, answerVars, stopVars, reviewVars, readerVars
<1>3. CASE BeginAnnotation
  BY <1>3 DEF BeginAnnotation, GoTo, setupVars, answerVars, stopVars, reviewVars, readerVars
<1>4. CASE NewToken
  BY <1>4 DEF NewToken, GoTo, setupVars, answerVars, stopVars, reviewVars, readerVars
<1>5. CASE ModelFails
  BY <1>5 DEF ModelFails, GoTo, setupVars, answerVars, stopVars, reviewVars, readerVars
<1>6. CASE ModelEnds
  BY <1>6, NothingIsFlagged DEF ModelEnds, GoTo, setupVars, answerVars, stopVars, reviewVars, readerVars
<1>7. CASE AnnotationEnd
  BY <1>7 DEF AnnotationEnd, GoTo, setupVars, answerVars, stopVars, reviewVars, readerVars
<1>8. CASE AddAnnotationHistory
  BY <1>8 DEF AddAnnotationHistory, GoTo, setupVars, answerVars, stopVars, reviewVars, readerVars
<1>9. CASE PublishToken
  BY <1>9 DEF PublishToken, GoTo, setupVars, answerVars, stopVars, reviewVars, readerVars
<1>10. CASE TokenDone
  BY <1>10 DEF TokenDone, GoTo, setupVars, answerVars, stopVars, reviewVars, readerVars
<1>11. CASE TokenStopped
  BY <1>11 DEF TokenStopped, GoTo, setupVars, answerVars, stopVars, reviewVars, readerVars
<1>12. CASE StopSave
  BY <1>12, <1>k, <1>p, PresetIsClean DEF StopSave, GoTo, setupVars, answerVars, stopVars, reviewVars, readerVars
<1>13. CASE Interrupt
  BY <1>13, <1>k, <1>p, PresetIsClean DEF Interrupt, GoTo, setupVars, answerVars, stopVars, reviewVars, readerVars
<1>14. CASE PubError
  BY <1>14 DEF PubError, GoTo, setupVars, answerVars, stopVars, reviewVars, readerVars
<1>15. CASE ReviewFlags
  BY <1>15, ShieldedIsClean DEF ReviewFlags, GoTo, setupVars, answerVars, stopVars, reviewVars, readerVars
<1>16. CASE ReviewPasses
  BY <1>16 DEF ReviewPasses, GoTo, setupVars, answerVars, stopVars, reviewVars, readerVars, ReviewFails
<1>17. CASE PublishWhole
  BY <1>17 DEF PublishWhole, GoTo, setupVars, answerVars, stopVars, reviewVars, readerVars
<1>18. CASE LastTextDone
  BY <1>18 DEF LastTextDone, GoTo, setupVars, answerVars, stopVars, reviewVars, readerVars
<1>19. CASE Save
  BY <1>19, <1>k DEF Save, GoTo, setupVars, answerVars, stopVars, reviewVars, readerVars
<1>20. CASE PubMessageEnd
  BY <1>20 DEF PubMessageEnd, GoTo, setupVars, answerVars, stopVars, reviewVars, readerVars
<1>21. CASE End
  BY <1>21 DEF End, GoTo, setupVars, answerVars, stopVars, reviewVars, readerVars
<1>22. CASE Look
  BY <1>22 DEF Look, GoTo, setupVars, answerVars, stopVars, reviewVars, readerVars
<1>23. CASE Reviewed
  BY <1>23 DEF Reviewed, GoTo, setupVars, answerVars, stopVars, reviewVars, readerVars, ReviewFails
<1>24. CASE Decide
  BY <1>24 DEF Decide, GoTo, setupVars, answerVars, stopVars, reviewVars, readerVars
<1>25. CASE Replace
  BY <1>25 DEF Replace, GoTo, setupVars, answerVars, stopVars, reviewVars, readerVars
<1>26. CASE ReplaceDone
  BY <1>26 DEF ReplaceDone, GoTo, setupVars, answerVars, stopVars, reviewVars, readerVars
<1>28. CASE TimeOut
  BY <1>28 DEF TimeOut, GoTo, setupVars, answerVars, stopVars, reviewVars, readerVars
<1>29. CASE Close
  BY <1>29 DEF Close, GoTo, setupVars, answerVars, stopVars, reviewVars, readerVars
<1>30. CASE CountdownEnds
  BY <1>30 DEF CountdownEnds, GoTo, setupVars, answerVars, stopVars, reviewVars, readerVars
<1>31. CASE StopExpires
  BY <1>31 DEF StopExpires, GoTo, setupVars, answerVars, stopVars, reviewVars, readerVars
<1>32. CASE Receive
  BY <1>32 DEF Receive, GoTo, setupVars, answerVars, stopVars, reviewVars, readerVars
<1>33. CASE Leave
  BY <1>33 DEF Leave, GoTo, setupVars, answerVars, stopVars, reviewVars, readerVars
<1>34. CASE Stop
  BY <1>34 DEF Stop, GoTo, setupVars, answerVars, stopVars, reviewVars, readerVars
<1>35. CASE UNCHANGED vars
  BY <1>35 DEF vars, setupVars, answerVars, stopVars, reviewVars, readerVars
<1> QED
  BY <1>1, <1>2, <1>3, <1>4, <1>5, <1>6, <1>7, <1>8, <1>9, <1>10, <1>11, <1>12,
     <1>13, <1>14, <1>15, <1>16, <1>17, <1>18, <1>19, <1>20, <1>21, <1>22, <1>23,
     <1>24, <1>25, <1>26, <1>28, <1>29, <1>30, <1>31, <1>32, <1>33, <1>34,
     <1>35
  DEF Next, Model, WorkerStep, ReviewerStep, Countdown, User

\* A thread that has published under the key has its end before it.
LEMMA PromptStep ==
    ASSUME PromptInv, [Next]_vars
    PROVE  PromptInv'
<1> USE DEF PromptInv, Again, Stopping
<1>1. CASE Begin
  BY <1>1 DEF Begin, GoTo, PublishText, setupVars, answerVars, stopVars, reviewVars, readerVars
<1>2. CASE BeginFails
  BY <1>2 DEF BeginFails, GoTo, PublishText, setupVars, answerVars, stopVars, reviewVars, readerVars
<1>3. CASE BeginAnnotation
  BY <1>3 DEF BeginAnnotation, GoTo, PublishText, setupVars, answerVars, stopVars, reviewVars, readerVars
<1>4. CASE NewToken
  BY <1>4 DEF NewToken, GoTo, PublishText, setupVars, answerVars, stopVars, reviewVars, readerVars
<1>5. CASE ModelFails
  BY <1>5 DEF ModelFails, GoTo, PublishText, setupVars, answerVars, stopVars, reviewVars, readerVars
<1>6. CASE ModelEnds
  BY <1>6 DEF ModelEnds, GoTo, PublishText, setupVars, answerVars, stopVars, reviewVars, readerVars
<1>7. CASE AnnotationEnd
  BY <1>7 DEF AnnotationEnd, GoTo, PublishText, setupVars, answerVars, stopVars, reviewVars, readerVars
<1>8. CASE AddAnnotationHistory
  BY <1>8 DEF AddAnnotationHistory, GoTo, PublishText, setupVars, answerVars, stopVars, reviewVars, readerVars
<1>9. CASE PublishToken
  BY <1>9 DEF PublishToken, GoTo, PublishText, setupVars, answerVars, stopVars, reviewVars, readerVars
<1>10. CASE TokenDone
  BY <1>10 DEF TokenDone, GoTo, PublishText, setupVars, answerVars, stopVars, reviewVars, readerVars
<1>11. CASE TokenStopped
  BY <1>11 DEF TokenStopped, GoTo, PublishText, setupVars, answerVars, stopVars, reviewVars, readerVars
<1>12. CASE StopSave
  BY <1>12 DEF StopSave, GoTo, PublishText, setupVars, answerVars, stopVars, reviewVars, readerVars
<1>13. CASE Interrupt
  BY <1>13 DEF Interrupt, GoTo, PublishText, setupVars, answerVars, stopVars, reviewVars, readerVars
<1>14. CASE PubError
  BY <1>14 DEF PubError, GoTo, PublishText, setupVars, answerVars, stopVars, reviewVars, readerVars
<1>15. CASE ReviewFlags
  BY <1>15 DEF ReviewFlags, GoTo, PublishText, setupVars, answerVars, stopVars, reviewVars, readerVars
<1>16. CASE ReviewPasses
  BY <1>16 DEF ReviewPasses, GoTo, PublishText, setupVars, answerVars, stopVars, reviewVars, readerVars
<1>17. CASE PublishWhole
  BY <1>17 DEF PublishWhole, GoTo, PublishText, setupVars, answerVars, stopVars, reviewVars, readerVars
<1>18. CASE LastTextDone
  BY <1>18 DEF LastTextDone, GoTo, PublishText, setupVars, answerVars, stopVars, reviewVars, readerVars
<1>19. CASE Save
  BY <1>19 DEF Save, GoTo, PublishText, setupVars, answerVars, stopVars, reviewVars, readerVars
<1>20. CASE PubMessageEnd
  BY <1>20 DEF PubMessageEnd, GoTo, PublishText, setupVars, answerVars, stopVars, reviewVars, readerVars
<1>21. CASE End
  BY <1>21 DEF End, GoTo, PublishText, setupVars, answerVars, stopVars, reviewVars, readerVars
<1>22. CASE Look
  BY <1>22 DEF Look, GoTo, PublishText, setupVars, answerVars, stopVars, reviewVars, readerVars
<1>23. CASE Reviewed
  BY <1>23 DEF Reviewed, GoTo, PublishText, setupVars, answerVars, stopVars, reviewVars, readerVars
<1>24. CASE Decide
  BY <1>24 DEF Decide, GoTo, PublishText, setupVars, answerVars, stopVars, reviewVars, readerVars
<1>25. CASE Replace
  BY <1>25 DEF Replace, GoTo, PublishText, setupVars, answerVars, stopVars, reviewVars, readerVars
<1>26. CASE ReplaceDone
  BY <1>26 DEF ReplaceDone, GoTo, PublishText, setupVars, answerVars, stopVars, reviewVars, readerVars
<1>28. CASE TimeOut
  BY <1>28 DEF TimeOut, GoTo, PublishText, setupVars, answerVars, stopVars, reviewVars, readerVars
<1>29. CASE Close
  BY <1>29 DEF Close, GoTo, PublishText, setupVars, answerVars, stopVars, reviewVars, readerVars
<1>30. CASE CountdownEnds
  BY <1>30 DEF CountdownEnds, GoTo, PublishText, setupVars, answerVars, stopVars, reviewVars, readerVars
<1>31. CASE StopExpires
  BY <1>31 DEF StopExpires, GoTo, PublishText, setupVars, answerVars, stopVars, reviewVars, readerVars
<1>32. CASE Receive
  BY <1>32 DEF Receive, GoTo, PublishText, setupVars, answerVars, stopVars, reviewVars, readerVars
<1>33. CASE Leave
  BY <1>33 DEF Leave, GoTo, PublishText, setupVars, answerVars, stopVars, reviewVars, readerVars
<1>34. CASE Stop
  BY <1>34 DEF Stop, GoTo, PublishText, setupVars, answerVars, stopVars, reviewVars, readerVars
<1>35. CASE UNCHANGED vars
  BY <1>35 DEF vars, setupVars, answerVars, stopVars, reviewVars, readerVars
<1> QED
  BY <1>1, <1>2, <1>3, <1>4, <1>5, <1>6, <1>7, <1>8, <1>9, <1>10, <1>11, <1>12,
     <1>13, <1>14, <1>15, <1>16, <1>17, <1>18, <1>19, <1>20, <1>21, <1>22, <1>23,
     <1>24, <1>25, <1>26, <1>28, <1>29, <1>30, <1>31, <1>32, <1>33, <1>34,
     <1>35
  DEF Next, Model, WorkerStep, ReviewerStep, Countdown, User

\* One text under the key, two if an annotation was in its way.
LEMMA PromptMeans == PromptInv => StopIsPrompt
BY DEF PromptInv, Again, Stopping, StopIsPrompt

-----------------------------------------------------------------------------
(* Types *)

Events == [event : {"message", "message_replace", "annotation", "message_end",
                    "end", "error"}, text : Texts]

FlagTypes ==
    /\ streaming \in BOOLEAN
    /\ stopKey \in BOOLEAN
    /\ running \in BOOLEAN
    /\ direct \in BOOLEAN
    /\ sawMessageEnd \in BOOLEAN

CountTypes ==
    /\ got \in 0..MaxTokens
    /\ stops \in 0..1
    /\ buffered \in 0..MaxTokens
    /\ looked \in 0..MaxTokens
    /\ reviewed \in 0..MaxTokens
    /\ failures \in 0..MaxFailures

PlaceTypes ==
    /\ saved \in {"none", "ended", "stopped", "note"}
    /\ countdown \in {"counting", "closing", "over"}
    /\ reviewer \in {"none", "loop", "calling", "flagged", "publishing", "replaced", "dead"}
    /\ reader \in {"reading", "ended", "errored", "closed", "gone"}
    /\ slips \in SUBSET {"again", "kept back", "late", "trailing"}

TextTypes ==
    /\ completion \in Texts
    /\ stored \in Seq(KeptWords)
    /\ outcome \in Texts
    /\ shown \in Texts
    /\ chan \in Seq(Events)

Types == FlagTypes /\ PlaceTypes /\ CountTypes /\ TextTypes

\* Flags.
LEMMA FlagTypesStep ==
    ASSUME FlagTypes, [Next]_vars
    PROVE  FlagTypes'
<1> USE DEF FlagTypes
<1>1. CASE Begin
  BY <1>1 DEF Begin, GoTo, setupVars, answerVars, stopVars, reviewVars, readerVars
<1>2. CASE BeginFails
  BY <1>2 DEF BeginFails, GoTo, setupVars, answerVars, stopVars, reviewVars, readerVars
<1>3. CASE BeginAnnotation
  BY <1>3 DEF BeginAnnotation, GoTo, setupVars, answerVars, stopVars, reviewVars, readerVars
<1>4. CASE NewToken
  BY <1>4 DEF NewToken, GoTo, setupVars, answerVars, stopVars, reviewVars, readerVars
<1>5. CASE ModelFails
  BY <1>5 DEF ModelFails, GoTo, setupVars, answerVars, stopVars, reviewVars, readerVars, StopThread
<1>6. CASE ModelEnds
  BY <1>6 DEF ModelEnds, GoTo, setupVars, answerVars, stopVars, reviewVars, readerVars, StopThread
<1>7. CASE AnnotationEnd
  BY <1>7 DEF AnnotationEnd, GoTo, setupVars, answerVars, stopVars, reviewVars, readerVars
<1>8. CASE AddAnnotationHistory
  BY <1>8 DEF AddAnnotationHistory, GoTo, setupVars, answerVars, stopVars, reviewVars, readerVars
<1>9. CASE PublishToken
  BY <1>9 DEF PublishToken, GoTo, setupVars, answerVars, stopVars, reviewVars, readerVars
<1>10. CASE TokenDone
  BY <1>10 DEF TokenDone, GoTo, setupVars, answerVars, stopVars, reviewVars, readerVars
<1>11. CASE TokenStopped
  BY <1>11 DEF TokenStopped, GoTo, setupVars, answerVars, stopVars, reviewVars, readerVars
<1>12. CASE StopSave
  BY <1>12 DEF StopSave, GoTo, setupVars, answerVars, stopVars, reviewVars, readerVars, StopThread
<1>13. CASE Interrupt
  BY <1>13 DEF Interrupt, GoTo, setupVars, answerVars, stopVars, reviewVars, readerVars, StopThread
<1>14. CASE PubError
  BY <1>14 DEF PubError, GoTo, setupVars, answerVars, stopVars, reviewVars, readerVars
<1>15. CASE ReviewFlags
  BY <1>15 DEF ReviewFlags, GoTo, setupVars, answerVars, stopVars, reviewVars, readerVars
<1>16. CASE ReviewPasses
  BY <1>16 DEF ReviewPasses, GoTo, setupVars, answerVars, stopVars, reviewVars, readerVars
<1>17. CASE PublishWhole
  BY <1>17 DEF PublishWhole, GoTo, setupVars, answerVars, stopVars, reviewVars, readerVars
<1>18. CASE LastTextDone
  BY <1>18 DEF LastTextDone, GoTo, setupVars, answerVars, stopVars, reviewVars, readerVars
<1>19. CASE Save
  BY <1>19 DEF Save, GoTo, setupVars, answerVars, stopVars, reviewVars, readerVars
<1>20. CASE PubMessageEnd
  BY <1>20 DEF PubMessageEnd, GoTo, setupVars, answerVars, stopVars, reviewVars, readerVars
<1>21. CASE End
  BY <1>21 DEF End, GoTo, setupVars, answerVars, stopVars, reviewVars, readerVars
<1>22. CASE Look
  BY <1>22 DEF Look, GoTo, setupVars, answerVars, stopVars, reviewVars, readerVars
<1>23. CASE Reviewed
  BY <1>23 DEF Reviewed, GoTo, setupVars, answerVars, stopVars, reviewVars, readerVars
<1>24. CASE Decide
  BY <1>24 DEF Decide, GoTo, setupVars, answerVars, stopVars, reviewVars, readerVars
<1>25. CASE Replace
  BY <1>25 DEF Replace, GoTo, setupVars, answerVars, stopVars, reviewVars, readerVars
<1>26. CASE ReplaceDone
  BY <1>26 DEF ReplaceDone, GoTo, setupVars, answerVars, stopVars, reviewVars, readerVars
<1>28. CASE TimeOut
  BY <1>28 DEF TimeOut, GoTo, setupVars, answerVars, stopVars, reviewVars, readerVars
<1>29. CASE Close
  BY <1>29 DEF Close, GoTo, setupVars, answerVars, stopVars, reviewVars, readerVars
<1>30. CASE CountdownEnds
  BY <1>30 DEF CountdownEnds, GoTo, setupVars, answerVars, stopVars, reviewVars, readerVars
<1>31. CASE StopExpires
  BY <1>31 DEF StopExpires, GoTo, setupVars, answerVars, stopVars, reviewVars, readerVars
<1>32. CASE Receive
  BY <1>32 DEF Receive, GoTo, setupVars, answerVars, stopVars, reviewVars, readerVars
<1>33. CASE Leave
  BY <1>33 DEF Leave, GoTo, setupVars, answerVars, stopVars, reviewVars, readerVars
<1>34. CASE Stop
  BY <1>34 DEF Stop, GoTo, setupVars, answerVars, stopVars, reviewVars, readerVars
<1>35. CASE UNCHANGED vars
  BY <1>35 DEF vars, setupVars, answerVars, stopVars, reviewVars, readerVars
<1> QED
  BY <1>1, <1>2, <1>3, <1>4, <1>5, <1>6, <1>7, <1>8, <1>9, <1>10, <1>11, <1>12,
     <1>13, <1>14, <1>15, <1>16, <1>17, <1>18, <1>19, <1>20, <1>21, <1>22, <1>23,
     <1>24, <1>25, <1>26, <1>28, <1>29, <1>30, <1>31, <1>32, <1>33, <1>34,
     <1>35
  DEF Next, Model, WorkerStep, ReviewerStep, Countdown, User

\* Places.
LEMMA PlaceTypesStep ==
    ASSUME PlaceTypes, [Next]_vars
    PROVE  PlaceTypes'
<1> USE DEF PlaceTypes
<1>1. CASE Begin
  BY <1>1 DEF Begin, GoTo, setupVars, answerVars, stopVars, reviewVars, readerVars
<1>2. CASE BeginFails
  BY <1>2 DEF BeginFails, GoTo, setupVars, answerVars, stopVars, reviewVars, readerVars
<1>3. CASE BeginAnnotation
  BY <1>3 DEF BeginAnnotation, GoTo, setupVars, answerVars, stopVars, reviewVars, readerVars
<1>4. CASE NewToken
  BY <1>4 DEF NewToken, GoTo, setupVars, answerVars, stopVars, reviewVars, readerVars
<1>5. CASE ModelFails
  BY <1>5 DEF ModelFails, GoTo, setupVars, answerVars, stopVars, reviewVars, readerVars
<1>6. CASE ModelEnds
  BY <1>6 DEF ModelEnds, GoTo, setupVars, answerVars, stopVars, reviewVars, readerVars
<1>7. CASE AnnotationEnd
  BY <1>7 DEF AnnotationEnd, GoTo, setupVars, answerVars, stopVars, reviewVars, readerVars
<1>8. CASE AddAnnotationHistory
  BY <1>8 DEF AddAnnotationHistory, GoTo, setupVars, answerVars, stopVars, reviewVars, readerVars
<1>9. CASE PublishToken
  BY <1>9 DEF PublishToken, GoTo, setupVars, answerVars, stopVars, reviewVars, readerVars
<1>10. CASE TokenDone
  BY <1>10 DEF TokenDone, GoTo, setupVars, answerVars, stopVars, reviewVars, readerVars
<1>11. CASE TokenStopped
  BY <1>11 DEF TokenStopped, GoTo, setupVars, answerVars, stopVars, reviewVars, readerVars
<1>12. CASE StopSave
  BY <1>12 DEF StopSave, GoTo, setupVars, answerVars, stopVars, reviewVars, readerVars
<1>13. CASE Interrupt
  BY <1>13 DEF Interrupt, GoTo, setupVars, answerVars, stopVars, reviewVars, readerVars
<1>14. CASE PubError
  BY <1>14 DEF PubError, GoTo, setupVars, answerVars, stopVars, reviewVars, readerVars
<1>15. CASE ReviewFlags
  BY <1>15 DEF ReviewFlags, GoTo, setupVars, answerVars, stopVars, reviewVars, readerVars
<1>16. CASE ReviewPasses
  BY <1>16 DEF ReviewPasses, GoTo, setupVars, answerVars, stopVars, reviewVars, readerVars
<1>17. CASE PublishWhole
  BY <1>17 DEF PublishWhole, GoTo, setupVars, answerVars, stopVars, reviewVars, readerVars
<1>18. CASE LastTextDone
  BY <1>18 DEF LastTextDone, GoTo, setupVars, answerVars, stopVars, reviewVars, readerVars
<1>19. CASE Save
  BY <1>19 DEF Save, GoTo, setupVars, answerVars, stopVars, reviewVars, readerVars
<1>20. CASE PubMessageEnd
  BY <1>20 DEF PubMessageEnd, GoTo, setupVars, answerVars, stopVars, reviewVars, readerVars
<1>21. CASE End
  BY <1>21 DEF End, GoTo, setupVars, answerVars, stopVars, reviewVars, readerVars
<1>22. CASE Look
  BY <1>22 DEF Look, GoTo, setupVars, answerVars, stopVars, reviewVars, readerVars
<1>23. CASE Reviewed
  BY <1>23 DEF Reviewed, GoTo, setupVars, answerVars, stopVars, reviewVars, readerVars
<1>24. CASE Decide
  BY <1>24 DEF Decide, GoTo, setupVars, answerVars, stopVars, reviewVars, readerVars, AfterOutcome
<1>25. CASE Replace
  BY <1>25 DEF Replace, GoTo, setupVars, answerVars, stopVars, reviewVars, readerVars
<1>26. CASE ReplaceDone
  BY <1>26 DEF ReplaceDone, GoTo, setupVars, answerVars, stopVars, reviewVars, readerVars, AfterOutcome
<1>28. CASE TimeOut
  BY <1>28 DEF TimeOut, GoTo, setupVars, answerVars, stopVars, reviewVars, readerVars
<1>29. CASE Close
  BY <1>29 DEF Close, GoTo, setupVars, answerVars, stopVars, reviewVars, readerVars
<1>30. CASE CountdownEnds
  BY <1>30 DEF CountdownEnds, GoTo, setupVars, answerVars, stopVars, reviewVars, readerVars
<1>31. CASE StopExpires
  BY <1>31 DEF StopExpires, GoTo, setupVars, answerVars, stopVars, reviewVars, readerVars
<1>32. CASE Receive
  BY <1>32 DEF Receive, GoTo, setupVars, answerVars, stopVars, reviewVars, readerVars, ReceiveStreaming, ReceiveBlocking
<1>33. CASE Leave
  BY <1>33 DEF Leave, GoTo, setupVars, answerVars, stopVars, reviewVars, readerVars
<1>34. CASE Stop
  BY <1>34 DEF Stop, GoTo, setupVars, answerVars, stopVars, reviewVars, readerVars
<1>35. CASE UNCHANGED vars
  BY <1>35 DEF vars, setupVars, answerVars, stopVars, reviewVars, readerVars
<1> QED
  BY <1>1, <1>2, <1>3, <1>4, <1>5, <1>6, <1>7, <1>8, <1>9, <1>10, <1>11, <1>12,
     <1>13, <1>14, <1>15, <1>16, <1>17, <1>18, <1>19, <1>20, <1>21, <1>22, <1>23,
     <1>24, <1>25, <1>26, <1>28, <1>29, <1>30, <1>31, <1>32, <1>33, <1>34,
     <1>35
  DEF Next, Model, WorkerStep, ReviewerStep, Countdown, User

\* Counters.
LEMMA CountTypesStep ==
    ASSUME CountTypes, [Next]_vars
    PROVE  CountTypes'
<1> USE BoundsAssumption DEF CountTypes
<1>1. CASE Begin
  BY <1>1 DEF Begin, GoTo, setupVars, answerVars, stopVars, reviewVars, readerVars
<1>2. CASE BeginFails
  BY <1>2 DEF BeginFails, GoTo, setupVars, answerVars, stopVars, reviewVars, readerVars
<1>3. CASE BeginAnnotation
  BY <1>3 DEF BeginAnnotation, GoTo, setupVars, answerVars, stopVars, reviewVars, readerVars
<1>4. CASE NewToken
  BY <1>4 DEF NewToken, GoTo, setupVars, answerVars, stopVars, reviewVars, readerVars
<1>5. CASE ModelFails
  BY <1>5 DEF ModelFails, GoTo, setupVars, answerVars, stopVars, reviewVars, readerVars
<1>6. CASE ModelEnds
  BY <1>6 DEF ModelEnds, GoTo, setupVars, answerVars, stopVars, reviewVars, readerVars
<1>7. CASE AnnotationEnd
  BY <1>7 DEF AnnotationEnd, GoTo, setupVars, answerVars, stopVars, reviewVars, readerVars
<1>8. CASE AddAnnotationHistory
  BY <1>8 DEF AddAnnotationHistory, GoTo, setupVars, answerVars, stopVars, reviewVars, readerVars
<1>9. CASE PublishToken
  BY <1>9 DEF PublishToken, GoTo, setupVars, answerVars, stopVars, reviewVars, readerVars
<1>10. CASE TokenDone
  BY <1>10 DEF TokenDone, GoTo, setupVars, answerVars, stopVars, reviewVars, readerVars
<1>11. CASE TokenStopped
  BY <1>11 DEF TokenStopped, GoTo, setupVars, answerVars, stopVars, reviewVars, readerVars
<1>12. CASE StopSave
  BY <1>12 DEF StopSave, GoTo, setupVars, answerVars, stopVars, reviewVars, readerVars
<1>13. CASE Interrupt
  BY <1>13 DEF Interrupt, GoTo, setupVars, answerVars, stopVars, reviewVars, readerVars
<1>14. CASE PubError
  BY <1>14 DEF PubError, GoTo, setupVars, answerVars, stopVars, reviewVars, readerVars
<1>15. CASE ReviewFlags
  BY <1>15 DEF ReviewFlags, GoTo, setupVars, answerVars, stopVars, reviewVars, readerVars
<1>16. CASE ReviewPasses
  BY <1>16 DEF ReviewPasses, GoTo, setupVars, answerVars, stopVars, reviewVars, readerVars, ReviewFails
<1>17. CASE PublishWhole
  BY <1>17 DEF PublishWhole, GoTo, setupVars, answerVars, stopVars, reviewVars, readerVars
<1>18. CASE LastTextDone
  BY <1>18 DEF LastTextDone, GoTo, setupVars, answerVars, stopVars, reviewVars, readerVars
<1>19. CASE Save
  BY <1>19 DEF Save, GoTo, setupVars, answerVars, stopVars, reviewVars, readerVars
<1>20. CASE PubMessageEnd
  BY <1>20 DEF PubMessageEnd, GoTo, setupVars, answerVars, stopVars, reviewVars, readerVars
<1>21. CASE End
  BY <1>21 DEF End, GoTo, setupVars, answerVars, stopVars, reviewVars, readerVars
<1>22. CASE Look
  BY <1>22 DEF Look, GoTo, setupVars, answerVars, stopVars, reviewVars, readerVars
<1>23. CASE Reviewed
  BY <1>23 DEF Reviewed, GoTo, setupVars, answerVars, stopVars, reviewVars, readerVars, ReviewFails
<1>24. CASE Decide
  BY <1>24 DEF Decide, GoTo, setupVars, answerVars, stopVars, reviewVars, readerVars
<1>25. CASE Replace
  BY <1>25 DEF Replace, GoTo, setupVars, answerVars, stopVars, reviewVars, readerVars
<1>26. CASE ReplaceDone
  BY <1>26 DEF ReplaceDone, GoTo, setupVars, answerVars, stopVars, reviewVars, readerVars
<1>28. CASE TimeOut
  BY <1>28 DEF TimeOut, GoTo, setupVars, answerVars, stopVars, reviewVars, readerVars
<1>29. CASE Close
  BY <1>29 DEF Close, GoTo, setupVars, answerVars, stopVars, reviewVars, readerVars
<1>30. CASE CountdownEnds
  BY <1>30 DEF CountdownEnds, GoTo, setupVars, answerVars, stopVars, reviewVars, readerVars
<1>31. CASE StopExpires
  BY <1>31 DEF StopExpires, GoTo, setupVars, answerVars, stopVars, reviewVars, readerVars
<1>32. CASE Receive
  BY <1>32 DEF Receive, GoTo, setupVars, answerVars, stopVars, reviewVars, readerVars
<1>33. CASE Leave
  BY <1>33 DEF Leave, GoTo, setupVars, answerVars, stopVars, reviewVars, readerVars
<1>34. CASE Stop
  BY <1>34 DEF Stop, GoTo, setupVars, answerVars, stopVars, reviewVars, readerVars
<1>35. CASE UNCHANGED vars
  BY <1>35 DEF vars, setupVars, answerVars, stopVars, reviewVars, readerVars
<1> QED
  BY <1>1, <1>2, <1>3, <1>4, <1>5, <1>6, <1>7, <1>8, <1>9, <1>10, <1>11, <1>12,
     <1>13, <1>14, <1>15, <1>16, <1>17, <1>18, <1>19, <1>20, <1>21, <1>22, <1>23,
     <1>24, <1>25, <1>26, <1>28, <1>29, <1>30, <1>31, <1>32, <1>33, <1>34,
     <1>35
  DEF Next, Model, WorkerStep, ReviewerStep, Countdown, User

\* The texts of a stream are sequences of words.
LEMMA TextResults ==
    ASSUME bad \in SUBSET Tokens
    PROVE  /\ \A n \in Nat : n <= MaxTokens => Raw(n) \in Texts
           /\ \A text \in Texts : Shield(text) \in Texts
           /\ \A text \in Texts : \A n \in 0..MaxTokens : Append(text, n) \in Texts
           /\ \A a, b \in Texts : a \o b \in Texts
           /\ \A text \in Texts : \A m, n \in 0..MaxTokens :
                 n = Len(text) => SubSeq(text, m + 1, n) \in Texts
           /\ \A n \in Nat : Len(Raw(n)) = n
           /\ <<>> \in Texts /\ <<Preset>> \in Texts /\ <<Note>> \in Texts
           /\ \A n \in 0..MaxTokens : <<n>> \in Texts
<1> USE BoundsAssumption
<1>w. Masked \in Words /\ Preset \in Words /\ Note \in Words /\ 0..MaxTokens \subseteq Words
  BY DEF Masked, Preset, Note, Words
<1>1. ASSUME NEW n \in Nat, n <= MaxTokens
      PROVE  Raw(n) \in Texts
  <2>1. \A i \in 1..n : i \in Words
    BY <1>1, <1>w
  <2> QED BY <1>1, <2>1 DEF Raw, Texts
<1>2. ASSUME NEW text \in Texts
      PROVE  Shield(text) \in Texts
  <2>1. CASE moderation = "direct"
    BY <1>w, <2>1 DEF Shield, Texts
  <2>2. CASE moderation # "direct"
    <3> DEFINE shielded == [i \in DOMAIN text |-> IF text[i] \in bad THEN Masked ELSE text[i]]
    <3>1. Len(text) \in Nat /\ DOMAIN text = 1..Len(text)
          /\ \A i \in 1..Len(text) : text[i] \in Words
      BY DEF Texts
    <3>2. shielded \in [1..Len(text) -> Words]
      BY <1>w, <3>1
    <3> QED BY <2>2, <3>1, <3>2 DEF Shield, Texts
  <2> QED BY <2>1, <2>2
<1>3. ASSUME NEW text \in Texts, NEW n \in 0..MaxTokens
      PROVE  Append(text, n) \in Texts
  BY <1>w DEF Texts
<1>4. ASSUME NEW a \in Texts, NEW b \in Texts
      PROVE  a \o b \in Texts
  BY ConcatProperties DEF Texts
<1>5. ASSUME NEW text \in Texts, NEW m \in 0..MaxTokens, NEW n \in 0..MaxTokens, n = Len(text)
      PROVE  SubSeq(text, m + 1, n) \in Texts
  <2>1. \A i \in (m + 1)..n : text[i] \in Words
    BY <1>5 DEF Texts
  <2> QED BY <1>5, <2>1 DEF Texts
<1>6. ASSUME NEW n \in Nat
      PROVE  Len(Raw(n)) = n
  BY DEF Raw
<1>7. /\ <<>> \in Texts /\ <<Preset>> \in Texts /\ <<Note>> \in Texts
      /\ \A n \in 0..MaxTokens : <<n>> \in Texts
  BY <1>w DEF Texts
<1> QED BY <1>1, <1>2, <1>3, <1>4, <1>5, <1>6, <1>7

LEMMA NoEvents == <<>> \in Seq(Events)
OBVIOUS

\* What is published goes to the end of the channel or nowhere.
LEMMA PublishedResult ==
    ASSUME NEW kind \in {"message", "message_replace", "annotation", "message_end",
                         "end", "error"},
           NEW text \in Texts, chan \in Seq(Events)
    PROVE  published(Event(kind, text)) \in Seq(Events)
<1>1. Event(kind, text) \in Events
  BY DEF Event, Events
<1> QED BY <1>1 DEF published

\* The texts, and the channel that carries them.
LEMMA TextTypesStep ==
    ASSUME CountTypes, SetupInv, TextTypes, [Next]_vars
    PROVE  TextTypes'
<1> USE DEF CountTypes, SetupInv, TextTypes
<1>1. CASE Begin
  BY <1>1 DEF Begin, GoTo, setupVars, answerVars, stopVars, reviewVars, readerVars
<1>2. CASE BeginFails
  BY <1>2 DEF BeginFails, GoTo, setupVars, answerVars, stopVars, reviewVars, readerVars
<1>3. CASE BeginAnnotation
  <2>1. stored' \in Seq(KeptWords)
    <3>1. Note \in KeptWords
      BY BoundsAssumption DEF KeptWords, Words, Note
    <3> QED BY <1>3, <3>1 DEF BeginAnnotation
  <2> QED
    BY <1>3, <2>1, TextResults, PublishedResult DEF BeginAnnotation, GoTo, setupVars, answerVars, stopVars, reviewVars, readerVars, Publish, PublishText, PubEnd
<1>4. CASE NewToken
  BY <1>4 DEF NewToken, GoTo, setupVars, answerVars, stopVars, reviewVars, readerVars
<1>5. CASE ModelFails
  BY <1>5 DEF ModelFails, GoTo, setupVars, answerVars, stopVars, reviewVars, readerVars
<1>6. CASE ModelEnds
  <2>1. got' \in 0..MaxTokens /\ completion' = Raw(got')
    BY <1>6, BoundsAssumption DEF ModelEnds
  <2>2. completion' \in Texts
    BY <2>1, TextResults, BoundsAssumption
  <2> QED BY <1>6, <2>2 DEF ModelEnds, setupVars, answerVars, stopVars, reviewVars, readerVars
<1>7. CASE AnnotationEnd
  BY <1>7, TextResults, PublishedResult DEF AnnotationEnd, GoTo, setupVars, answerVars, stopVars, reviewVars, readerVars, Publish, PublishText, PubEnd
<1>8. CASE AddAnnotationHistory
  BY <1>8 DEF AddAnnotationHistory, GoTo, setupVars, answerVars, stopVars, reviewVars, readerVars
<1>9. CASE PublishToken
  BY <1>9, TextResults, PublishedResult DEF PublishToken, GoTo, setupVars, answerVars, stopVars, reviewVars, readerVars, Publish, PublishText, PubEnd
<1>10. CASE TokenDone
  BY <1>10, TextResults DEF TokenDone, GoTo, setupVars, answerVars, stopVars, reviewVars, readerVars
<1>11. CASE TokenStopped
  BY <1>11, TextResults, PublishedResult DEF TokenStopped, GoTo, setupVars, answerVars, stopVars, reviewVars, readerVars, Publish, PublishText, PubEnd
<1>12. CASE StopSave
  BY <1>12, AsKeptIs DEF StopSave, GoTo, setupVars, answerVars, stopVars, reviewVars, readerVars
<1>13. CASE Interrupt
  BY <1>13, TextResults, AsKeptIs DEF Interrupt, GoTo, setupVars, answerVars, stopVars, reviewVars, readerVars
<1>14. CASE PubError
  BY <1>14, TextResults, PublishedResult DEF PubError, GoTo, setupVars, answerVars, stopVars, reviewVars, readerVars, Publish, PublishText, PubEnd
<1>15. CASE ReviewFlags
  BY <1>15, TextResults, PublishedResult DEF ReviewFlags, GoTo, setupVars, answerVars, stopVars, reviewVars, readerVars, Publish, PublishText, PubEnd
<1>16. CASE ReviewPasses
  BY <1>16 DEF ReviewPasses, GoTo, setupVars, answerVars, stopVars, reviewVars, readerVars
<1>17. CASE PublishWhole
  BY <1>17, TextResults, PublishedResult DEF PublishWhole, GoTo, setupVars, answerVars, stopVars, reviewVars, readerVars, Publish, PublishText, PubEnd
<1>18. CASE LastTextDone
  BY <1>18, TextResults, PublishedResult DEF LastTextDone, GoTo, setupVars, answerVars, stopVars, reviewVars, readerVars, Publish, PublishText, PubEnd
<1>19. CASE Save
  BY <1>19, AsKeptIs DEF Save, GoTo, setupVars, answerVars, stopVars, reviewVars, readerVars
<1>20. CASE PubMessageEnd
  BY <1>20, TextResults, PublishedResult DEF PubMessageEnd, GoTo, setupVars, answerVars, stopVars, reviewVars, readerVars, Publish, PublishText, PubEnd
<1>21. CASE End
  BY <1>21, TextResults, PublishedResult DEF End, GoTo, setupVars, answerVars, stopVars, reviewVars, readerVars, Publish, PublishText, PubEnd
<1>22. CASE Look
  BY <1>22 DEF Look, GoTo, setupVars, answerVars, stopVars, reviewVars, readerVars
<1>23. CASE Reviewed
  <2>1. outcome' \in Texts
    <3>1. /\ looked \in Nat /\ looked <= MaxTokens /\ looked \in 0..MaxTokens
          /\ buffered \in Nat /\ buffered <= MaxTokens /\ buffered \in 0..MaxTokens
      BY BoundsAssumption
    <3>2. Raw(looked) \in Texts /\ Raw(buffered) \in Texts /\ buffered = Len(Raw(buffered))
      BY <3>1, TextResults
    <3>3. SubSeq(Raw(buffered), looked + 1, buffered) \in Texts
      BY <3>1, <3>2, TextResults
    <3>4. Shield(Raw(looked)) \o SubSeq(Raw(buffered), looked + 1, buffered) \in Texts
      BY <3>2, <3>3, TextResults
    <3> QED BY <1>23, <3>4, TextResults DEF Reviewed
  <2> QED BY <1>23, <2>1 DEF Reviewed, setupVars, answerVars, stopVars, reviewVars, readerVars
<1>24. CASE Decide
  BY <1>24 DEF Decide, GoTo, setupVars, answerVars, stopVars, reviewVars, readerVars
<1>25. CASE Replace
  BY <1>25, TextResults, PublishedResult DEF Replace, GoTo, setupVars, answerVars, stopVars, reviewVars, readerVars, Publish, PublishText, PubEnd
<1>26. CASE ReplaceDone
  BY <1>26, TextResults, PublishedResult DEF ReplaceDone, GoTo, setupVars, answerVars, stopVars, reviewVars, readerVars, Publish, PublishText, PubEnd
<1>28. CASE TimeOut
  BY <1>28 DEF TimeOut, GoTo, setupVars, answerVars, stopVars, reviewVars, readerVars
<1>29. CASE Close
  BY <1>29, NoEvents DEF Close, GoTo, setupVars, answerVars, stopVars, reviewVars, readerVars
<1>30. CASE CountdownEnds
  BY <1>30 DEF CountdownEnds, GoTo, setupVars, answerVars, stopVars, reviewVars, readerVars
<1>31. CASE StopExpires
  BY <1>31 DEF StopExpires, GoTo, setupVars, answerVars, stopVars, reviewVars, readerVars
<1>32. CASE Receive
  <2>1. chan # <<>> /\ Head(chan) \in Events /\ Tail(chan) \in Seq(Events)
    BY <1>32 DEF Receive
  <2>2. Head(chan).text \in Texts
    BY <2>1 DEF Events
  <2>3. shown \o Head(chan).text \in Texts
    BY <2>2, TextResults
  <2>4. shown' \in Texts
    BY <1>32, <2>2, <2>3 DEF Receive, ReceiveStreaming, ReceiveBlocking, NextEvent
  <2>5. chan' \in Seq(Events)
    BY <1>32, <2>1, NoEvents DEF Receive
  <2> QED BY <1>32, <2>4, <2>5 DEF Receive, setupVars, answerVars, stopVars, reviewVars, readerVars
<1>33. CASE Leave
  BY <1>33, NoEvents DEF Leave, GoTo, setupVars, answerVars, stopVars, reviewVars, readerVars
<1>34. CASE Stop
  BY <1>34 DEF Stop, GoTo, setupVars, answerVars, stopVars, reviewVars, readerVars
<1>35. CASE UNCHANGED vars
  BY <1>35 DEF vars, setupVars, answerVars, stopVars, reviewVars, readerVars
<1> QED
  BY <1>1, <1>2, <1>3, <1>4, <1>5, <1>6, <1>7, <1>8, <1>9, <1>10, <1>11, <1>12,
     <1>13, <1>14, <1>15, <1>16, <1>17, <1>18, <1>19, <1>20, <1>21, <1>22, <1>23,
     <1>24, <1>25, <1>26, <1>28, <1>29, <1>30, <1>31, <1>32, <1>33, <1>34,
     <1>35
  DEF Next, Model, WorkerStep, ReviewerStep, Countdown, User

LEMMA InitiallyOk == Init => ReportsInv /\ SetupInv /\ ShieldInv /\ PromptInv /\ Types
<1> SUFFICES ASSUME Init
             PROVE  ReportsInv /\ SetupInv /\ ShieldInv /\ PromptInv /\ Types
  OBVIOUS
<1>1. ReportsInv
  <2>1. interrupted \in BOOLEAN /\ ~interrupted
    BY DEF Init
  <2>2. worker = "begin" /\ reports = 0
    BY DEF Init
  <2> QED BY <2>1, <2>2 DEF ReportsInv, WorkerPlaces, Unreported
<1>2. SetupInv
  BY DEF Init, SetupInv
<1>3. ShieldInv
  BY DEF Init, ShieldInv, SavedIsShielded
<1>4. PromptInv
  BY DEF Init, PromptInv, Again
<1>5. Types
  <2>1. FlagTypes
    BY DEF Init, FlagTypes
  <2>2. PlaceTypes
    BY DEF Init, PlaceTypes
  <2>3. CountTypes
    BY BoundsAssumption DEF Init, CountTypes
  <2>4. TextTypes
    BY NoEvents DEF Init, TextTypes, Texts
  <2> QED BY <2>1, <2>2, <2>3, <2>4 DEF Types
<1> QED BY <1>1, <1>2, <1>3, <1>4, <1>5

LEMMA StreamInvariant == Spec => [](ReportsInv /\ SetupInv /\ ShieldInv /\ PromptInv /\ Types)
<1>1. ReportsInv /\ SetupInv /\ ShieldInv /\ PromptInv /\ Types /\ [Next]_vars
      => (ReportsInv /\ SetupInv /\ ShieldInv /\ PromptInv /\ Types)'
  <2>1. Types => completion \in Texts
    BY DEF Types, TextTypes
  <2>2. SetupInv /\ Types /\ [Next]_vars => Types'
    BY FlagTypesStep, PlaceTypesStep, CountTypesStep, TextTypesStep DEF Types
  <2> QED BY <2>1, <2>2, ReportsStep, ShieldStep, PromptStep
<1> QED
  BY InitiallyOk, <1>1, PTL DEF Spec

\* Every variable keeps its type.
THEOREM TypeCorrect == Spec => []TypeOK
<1>1. ReportsInv /\ SetupInv /\ PromptInv /\ Types => TypeOK
  <2> SUFFICES ASSUME ReportsInv, SetupInv, PromptInv, Types
               PROVE  TypeOK
    OBVIOUS
  <2>1. afterStop \in [{"worker", "reviewer"} -> 0..2]
    <3>1. afterStop \in [{"worker", "reviewer"} -> Nat]
      BY DEF PromptInv
    <3>2. afterStop["worker"] \in 0..2 /\ afterStop["reviewer"] \in 0..2
      BY PromptMeans, <3>1 DEF StopIsPrompt
    <3> QED BY <3>1, <3>2
  <2> QED
    BY <2>1 DEF TypeOK, ReportsInv, SetupInv, Types, FlagTypes, PlaceTypes, CountTypes, TextTypes, Events
<1> QED
  BY <1>1, StreamInvariant, PTL

(* What is saved as a whole answer is shielded (LLMCallbackHandler), for any length of *)
(* the text, any set of flagged tokens and every race of the two threads, as long as   *)
(* every review is answered.                                                           *)
THEOREM SavedAnswersAreShielded == Spec => []SavedIsShielded
<1>1. ShieldInv => SavedIsShielded
  BY DEF ShieldInv
<1> QED
  BY StreamInvariant, <1>1, PTL

(* PubHandler looks at the key after every text: each thread publishes at most one     *)
(* more once it is set, the worker two if an annotation was in its way, for any length *)
(* of the text and wherever the stop falls.                                            *)
THEOREM StopsArePrompt == Spec => []StopIsPrompt
<1> QED
  BY StreamInvariant, PromptMeans, PTL

-----------------------------------------------------------------------------
(* The client is shown what is kept.  A step either leaves what the invariants of this *)
(* section speak of alone, or takes the reader away, or is one of the others.          *)

answerVarsAll == <<setupVars, worker, got, answerVars, buffered, running, direct, reviewVars,
                   chan, readerVars, failures, slips>>

\* Time passes, or the user stops
TimeStep == UNCHANGED answerVarsAll

\* The reader leaves, and its channel is closed.
LeavingStep ==
    /\ UNCHANGED <<setupVars, worker, got, answerVars, buffered, running, direct, reviewVars,
                   shown, sawMessageEnd, failures, slips>>
    /\ chan' = <<>>
    /\ reader' # "reading"
    /\ reader' = reader \/ reader' \in {"closed", "gone"}

LEMMA Steps ==
    ASSUME [Next]_vars, reader \in {"reading", "ended", "errored", "closed", "gone"}
    PROVE  \/ Begin \/ BeginFails \/ BeginAnnotation \/ NewToken \/ ModelFails \/ ModelEnds
           \/ AnnotationEnd \/ AddAnnotationHistory \/ PublishToken \/ TokenDone \/ TokenStopped
           \/ StopSave \/ Interrupt \/ PubError \/ ReviewFlags \/ ReviewPasses \/ PublishWhole
           \/ LastTextDone \/ Save \/ PubMessageEnd \/ End
           \/ Look \/ Reviewed \/ Decide \/ Replace \/ ReplaceDone
           \/ TimeStep \/ Receive \/ LeavingStep
<1> USE DEF setupVars, answerVars, reviewVars, readerVars, stopVars
<1>1. TimeOut \/ CountdownEnds \/ StopExpires \/ Stop \/ UNCHANGED vars => TimeStep
  BY DEF TimeOut, CountdownEnds, StopExpires, Stop, vars, TimeStep, answerVarsAll
<1>2. Close \/ Leave => LeavingStep
  BY DEF Close, Leave, LeavingStep
<1> QED
  BY <1>1, <1>2 DEF Next, Model, WorkerStep, ReviewerStep, Countdown, User

(* Texts *)

LEMMA FlaggedRaw ==
    \A n \in Nat : Flagged(Raw(n)) <=> \E i \in 1..n : i \in bad
<1> TAKE n \in Nat
<1>1. DOMAIN Raw(n) = 1..n /\ \A i \in 1..n : Raw(n)[i] = i
  BY DEF Raw
<1>2. Range(Raw(n)) = 1..n
  BY <1>1 DEF Range
<1> QED BY <1>2 DEF Flagged

LEMMA FlaggedGrows ==
    \A m, n \in Nat : m <= n /\ Flagged(Raw(m)) => Flagged(Raw(n))
BY FlaggedRaw

LEMMA RawIs ==
    /\ Raw(0) = <<>>
    /\ \A n \in Nat : Raw(n) \in Seq(Nat) /\ Len(Raw(n)) = n
    /\ \A n \in Nat : Append(Raw(n), n + 1) = Raw(n + 1)
    /\ \A n \in Nat : Raw(n) \o <<n + 1>> = Raw(n + 1)
<1>1. Raw(0) = <<>>
  BY DEF Raw
<1>2. ASSUME NEW n \in Nat
      PROVE  /\ Raw(n) \in Seq(Nat) /\ Len(Raw(n)) = n
             /\ Append(Raw(n), n + 1) = Raw(n + 1)
             /\ Raw(n) \o <<n + 1>> = Raw(n + 1)
  <2>1. Raw(n) \in Seq(Nat) /\ Len(Raw(n)) = n
    BY DEF Raw
  <2>2. Raw(n + 1) \in Seq(Nat) /\ Len(Raw(n + 1)) = n + 1
    BY DEF Raw
  <2>3. \A i \in 1..n : Raw(n)[i] = i
    BY DEF Raw
  <2>4. \A i \in 1..(n + 1) : Raw(n + 1)[i] = i
    BY DEF Raw
  <2>5. Append(Raw(n), n + 1) \in Seq(Nat) /\ Len(Append(Raw(n), n + 1)) = n + 1
        /\ \A i \in 1..(n + 1) : Append(Raw(n), n + 1)[i] = i
    BY <2>1, <2>3
  <2>6. Append(Raw(n), n + 1) = Raw(n + 1)
    BY <2>2, <2>4, <2>5, SeqEqual
  <2>7. Raw(n) \o <<n + 1>> = Append(Raw(n), n + 1)
    BY <2>1, AppendIsConcat
  <2> QED BY <2>1, <2>6, <2>7
<1> QED BY <1>1, <1>2

(* The channel *)

TextEvents == {"message", "message_replace", "annotation"}

NoText(c) == \A i \in 1..Len(c) : c[i].event \notin TextEvents

Announced(c, kind) == \E i \in 1..Len(c) : c[i].event = kind

\* Of p tokens the client has m, the others are on the channel in their order, and after them
\* no text.
InOrder(c, m, p) ==
    /\ m \in 0..p /\ p - m <= Len(c)
    /\ \A i \in 1..Len(c) : IF i <= p - m THEN c[i] = Event("message", <<m + i>>)
                            ELSE c[i].event \notin TextEvents

\* The client who has s and channel c will have t.
Last(c, s, t) ==
    \/ s = t /\ NoText(c)
    \/ \E i \in 1..Len(c) :
         /\ c[i] = Event("message_replace", t)
         /\ \A j \in 1..Len(c) : j > i => c[j].event \notin TextEvents

\* No text is published after the message is at its end.
EndsText(c) ==
    \A i, j \in 1..Len(c) : c[i].event = "message_end" /\ j > i => c[j].event \notin TextEvents

LEMMA AppendIs ==
    ASSUME NEW c \in Seq(Events), NEW e \in Events
    PROVE  /\ Append(c, e) \in Seq(Events) /\ Len(Append(c, e)) = Len(c) + 1
           /\ \A i \in 1..Len(c) : Append(c, e)[i] = c[i]
           /\ Append(c, e)[Len(c) + 1] = e
OBVIOUS

LEMMA TailIs ==
    ASSUME NEW c \in Seq(Events), c # <<>>
    PROVE  /\ Len(c) \in Nat \ {0} /\ Head(c) = c[1] /\ Head(c) \in Events
           /\ Tail(c) \in Seq(Events) /\ Len(Tail(c)) = Len(c) - 1
           /\ \A i \in 1..Len(Tail(c)) : Tail(c)[i] = c[i + 1]
OBVIOUS

\* What happens to it when an event is published that is no text
LEMMA AppendOther ==
    ASSUME NEW c \in Seq(Events), NEW e \in Events, e.event \notin TextEvents
    PROVE  /\ NoText(c) => NoText(Append(c, e))
           /\ \A m, p \in Nat : InOrder(c, m, p) => InOrder(Append(c, e), m, p)
           /\ \A s, t : Last(c, s, t) => Last(Append(c, e), s, t)
           /\ EndsText(c) => EndsText(Append(c, e))
           /\ \A kind : Announced(Append(c, e), kind) => Announced(c, kind) \/ kind = e.event
<1>1. PICK d : d = Append(c, e)
  OBVIOUS
<1>2. /\ d \in Seq(Events) /\ Len(d) = Len(c) + 1 /\ Len(c) \in Nat
      /\ \A i \in 1..Len(c) : d[i] = c[i]
      /\ d[Len(c) + 1] = e
  BY <1>1, AppendIs
<1>3. NoText(c) => NoText(d)
  BY <1>2 DEF NoText
<1>4. \A m, p \in Nat : InOrder(c, m, p) => InOrder(d, m, p)
  BY <1>2 DEF InOrder
<1>5. ASSUME NEW s, NEW t, Last(c, s, t)
      PROVE  Last(d, s, t)
  <2>1. CASE s = t /\ NoText(c)
    BY <1>3, <2>1 DEF Last
  <2>2. ASSUME NEW i \in 1..Len(c), c[i] = Event("message_replace", t),
               \A j \in 1..Len(c) : j > i => c[j].event \notin TextEvents
        PROVE  Last(d, s, t)
    <3>1. i \in 1..Len(d) /\ d[i] = Event("message_replace", t)
      BY <1>2, <2>2
    <3>2. \A j \in 1..Len(d) : j > i => d[j].event \notin TextEvents
      BY <1>2, <2>2
    <3> QED BY <3>1, <3>2 DEF Last
  <2> QED BY <1>5, <2>1, <2>2 DEF Last
<1>6. EndsText(c) => EndsText(d)
  BY <1>2 DEF EndsText
<1>7. \A kind : Announced(d, kind) => Announced(c, kind) \/ kind = e.event
  BY <1>2 DEF Announced
<1> QED BY <1>1, <1>3, <1>4, <1>5, <1>6, <1>7

\* when the next token is published
LEMMA AppendMessage ==
    ASSUME NEW c \in Seq(Events), NEW text \in Texts, NEW p \in Nat,
           Event("message", text) \in Events
    PROVE  /\ \A m \in Nat : InOrder(c, m, p) /\ Len(c) = p - m /\ text = <<p + 1>> =>
                InOrder(Append(c, Event("message", text)), m, p + 1)
           /\ Len(Append(c, Event("message", text))) = Len(c) + 1
<1>1. PICK e : e = Event("message", text)
  OBVIOUS
<1>2. PICK d : d = Append(c, e)
  OBVIOUS
<1>3. /\ d \in Seq(Events) /\ Len(d) = Len(c) + 1 /\ Len(c) \in Nat
      /\ \A i \in 1..Len(c) : d[i] = c[i]
      /\ d[Len(c) + 1] = e /\ e.event = "message"
  BY <1>1, <1>2, AppendIs DEF Event
<1>4. ASSUME NEW m \in Nat, InOrder(c, m, p), Len(c) = p - m, text = <<p + 1>>
      PROVE  InOrder(d, m, p + 1)
  <2>1. m \in 0..(p + 1) /\ p + 1 - m <= Len(d)
    BY <1>3, <1>4 DEF InOrder
  <2>2. ASSUME NEW i \in 1..Len(d)
        PROVE  d[i] = Event("message", <<m + i>>) /\ i <= p + 1 - m
    <3>1. CASE i <= Len(c)
      BY <1>3, <1>4, <3>1 DEF InOrder
    <3>2. CASE i = Len(c) + 1
      <4>1. m + i = p + 1
        BY <1>3, <1>4, <3>2
      <4> QED BY <1>1, <1>3, <1>4, <3>2, <4>1
    <3> QED BY <1>3, <3>1, <3>2
  <2> QED BY <2>1, <2>2 DEF InOrder
<1> QED BY <1>1, <1>2, <1>3, <1>4

\* and when a replacement is
LEMMA AppendReplace ==
    ASSUME NEW c \in Seq(Events), NEW text \in Texts, Event("message_replace", text) \in Events
    PROVE  \A s : Last(Append(c, Event("message_replace", text)), s, text)
<1>1. PICK e : e = Event("message_replace", text)
  OBVIOUS
<1>2. PICK d : d = Append(c, e)
  OBVIOUS
<1>3. /\ d \in Seq(Events) /\ Len(d) = Len(c) + 1 /\ Len(c) \in Nat
      /\ d[Len(c) + 1] = e
  BY <1>1, <1>2, AppendIs
<1>4. ASSUME NEW s
      PROVE  Last(d, s, text)
  <2>1. Len(c) + 1 \in 1..Len(d) /\ \A j \in 1..Len(d) : ~(j > Len(c) + 1)
    BY <1>3
  <2> QED BY <1>1, <1>3, <2>1 DEF Last
<1> QED BY <1>1, <1>2, <1>4

\* What happens to it when the reader takes the next event
LEMMA TakeNext ==
    ASSUME NEW c \in Seq(Events), c # <<>>
    PROVE  /\ NoText(c) => NoText(Tail(c)) /\ Head(c).event \notin TextEvents
           /\ \A m, p \in Nat : InOrder(c, m, p) =>
                IF m < p THEN Head(c) = Event("message", <<m + 1>>) /\ InOrder(Tail(c), m + 1, p)
                ELSE Head(c).event \notin TextEvents /\ InOrder(Tail(c), m, p)
           /\ \A s, t : Last(c, s, t) =>
                \/ Head(c).event \notin TextEvents /\ Last(Tail(c), s, t)
                \/ \A s2 : Last(Tail(c), s2, t)
                \/ Head(c) = Event("message_replace", t) /\ NoText(Tail(c))
           /\ EndsText(c) => EndsText(Tail(c)) /\ (Head(c).event = "message_end" => NoText(Tail(c)))
           /\ \A kind : Announced(Tail(c), kind) => Announced(c, kind)
           /\ Announced(c, Head(c).event)
<1>1. PICK d : d = Tail(c)
  OBVIOUS
<1>2. /\ d \in Seq(Events) /\ Len(c) \in Nat \ {0} /\ Len(d) = Len(c) - 1
      /\ Head(c) = c[1] /\ \A i \in 1..Len(d) : d[i] = c[i + 1]
  BY <1>1, TailIs
<1>3. NoText(c) => NoText(d) /\ Head(c).event \notin TextEvents
  BY <1>2 DEF NoText
<1>4. ASSUME NEW m \in Nat, NEW p \in Nat, InOrder(c, m, p)
      PROVE  IF m < p THEN Head(c) = Event("message", <<m + 1>>) /\ InOrder(d, m + 1, p)
             ELSE Head(c).event \notin TextEvents /\ InOrder(d, m, p)
  <2>1. CASE m < p
    <3>1. m + 1 \in 0..p /\ p - (m + 1) <= Len(d)
      BY <1>2, <1>4, <2>1 DEF InOrder
    <3>2. ASSUME NEW i \in 1..Len(d)
          PROVE  IF i <= p - (m + 1) THEN d[i] = Event("message", <<m + 1 + i>>)
                 ELSE d[i].event \notin TextEvents
      <4>1. i + 1 \in 1..Len(c) /\ d[i] = c[i + 1] /\ m + (i + 1) = m + 1 + i
        BY <1>2
      <4> QED BY <1>4, <2>1, <4>1 DEF InOrder
    <3>3. Head(c) = Event("message", <<m + 1>>)
      BY <1>2, <1>4, <2>1 DEF InOrder
    <3> QED BY <2>1, <3>1, <3>2, <3>3 DEF InOrder
  <2>2. CASE m = p
    <3>1. \A i \in 1..Len(c) : c[i].event \notin TextEvents
      <4> TAKE i \in 1..Len(c)
      <4>1. ~(i <= p - m)
        BY <1>2, <2>2
      <4> QED BY <1>4, <4>1 DEF InOrder
    <3>2. NoText(d) /\ Head(c).event \notin TextEvents
      BY <1>3, <3>1 DEF NoText
    <3> QED BY <1>2, <2>2, <3>2 DEF InOrder, NoText
  <2> QED BY <1>4, <2>1, <2>2 DEF InOrder
<1>5. ASSUME NEW s, NEW t, Last(c, s, t)
      PROVE  \/ Head(c).event \notin TextEvents /\ Last(d, s, t)
             \/ \A s2 : Last(d, s2, t)
             \/ Head(c) = Event("message_replace", t) /\ NoText(d)
  <2>1. CASE s = t /\ NoText(c)
    BY <1>3, <2>1 DEF Last
  <2>2. ASSUME NEW i \in 1..Len(c), c[i] = Event("message_replace", t),
               \A j \in 1..Len(c) : j > i => c[j].event \notin TextEvents
        PROVE  \/ \A s2 : Last(d, s2, t)
               \/ Head(c) = Event("message_replace", t) /\ NoText(d)
    <3>1. CASE i = 1
      BY <1>2, <2>2, <3>1 DEF NoText
    <3>2. CASE i # 1
      <4>1. i - 1 \in 1..Len(d) /\ d[i - 1] = Event("message_replace", t)
        BY <1>2, <2>2, <3>2
      <4>2. \A j \in 1..Len(d) : j > i - 1 => d[j].event \notin TextEvents
        BY <1>2, <2>2
      <4> QED BY <4>1, <4>2 DEF Last
    <3> QED BY <3>1, <3>2
  <2> QED BY <1>5, <2>1, <2>2 DEF Last
<1>6. EndsText(c) => EndsText(d) /\ (Head(c).event = "message_end" => NoText(d))
  <2> SUFFICES ASSUME EndsText(c)
               PROVE  EndsText(d) /\ (Head(c).event = "message_end" => NoText(d))
    OBVIOUS
  <2>1. ASSUME NEW i \in 1..Len(d), NEW j \in 1..Len(d),
               d[i].event = "message_end", j > i
        PROVE  d[j].event \notin TextEvents
    <3>1. /\ i + 1 \in 1..Len(c) /\ d[i] = c[i + 1]
          /\ j + 1 \in 1..Len(c) /\ d[j] = c[j + 1] /\ j + 1 > i + 1
      BY <1>2, <2>1
    <3> QED BY <2>1, <3>1 DEF EndsText
  <2>2. ASSUME NEW j \in 1..Len(d), Head(c).event = "message_end"
        PROVE  d[j].event \notin TextEvents
    <3>1. /\ 1 \in 1..Len(c) /\ c[1] = Head(c)
          /\ j + 1 \in 1..Len(c) /\ d[j] = c[j + 1] /\ j + 1 > 1
      BY <1>2
    <3> QED BY <2>2, <3>1 DEF EndsText
  <2> QED BY <2>1, <2>2 DEF EndsText, NoText
<1>7. ASSUME NEW kind, Announced(d, kind)
      PROVE  Announced(c, kind)
  <2>1. PICK i \in 1..Len(d) : d[i].event = kind
    BY <1>7 DEF Announced
  <2>2. i + 1 \in 1..Len(c) /\ d[i] = c[i + 1]
    BY <1>2
  <2> QED BY <2>1, <2>2 DEF Announced
<1>8. Announced(c, Head(c).event)
  BY <1>2 DEF Announced
<1> QED BY <1>1, <1>3, <1>4, <1>5, <1>6, <1>7, <1>8

\* What a step that publishes does to the channel
Adds(kind, text) ==
    /\ reader' = reader /\ shown' = shown /\ (sawMessageEnd' <=> sawMessageEnd)
    /\ chan' = IF reader = "reading" THEN Append(chan, Event(kind, text)) ELSE chan

\* What is on the channel and with the client stays there.
Silent ==
    /\ reader' = reader /\ shown' = shown /\ (sawMessageEnd' <=> sawMessageEnd)
    /\ chan' = chan

Kinds == {"message", "message_replace", "annotation", "message_end", "end", "error"}

LEMMA Adding ==
    ASSUME chan \in Seq(Events), NEW kind \in Kinds, NEW text \in Texts, Adds(kind, text)
    PROVE  /\ Event(kind, text) \in Events
           /\ \A k : Announced(chan', k) => Announced(chan, k) \/ k = kind
           /\ kind \notin TextEvents =>
                /\ NoText(chan) => NoText(chan')
                /\ \A m, p \in Nat : InOrder(chan, m, p) => InOrder(chan', m, p)
                /\ \A s, t : Last(chan, s, t) => Last(chan', s, t)
                /\ EndsText(chan) => EndsText(chan')
<1>1. PICK e : e = Event(kind, text)
  OBVIOUS
<1>2. e \in Events /\ e.event = kind /\ e.text = text
  BY <1>1 DEF Event, Events, Kinds
<1>3. chan' = chan \/ chan' = Append(chan, e)
  BY <1>1 DEF Adds
<1>4. ASSUME NEW k, Announced(Append(chan, e), k)
      PROVE  Announced(chan, k) \/ k = kind
  <2>1. PICK d : d = Append(chan, e)
    OBVIOUS
  <2>2. /\ Len(d) = Len(chan) + 1 /\ Len(chan) \in Nat
        /\ \A i \in 1..Len(chan) : d[i] = chan[i]
        /\ d[Len(chan) + 1] = e
    BY <1>2, <2>1, AppendIs
  <2> QED BY <1>2, <1>4, <2>1, <2>2 DEF Announced
<1>5. CASE chan' = chan
  BY <1>1, <1>2, <1>5
<1>6. CASE chan' = Append(chan, e)
  <2>1. ASSUME kind \notin TextEvents
        PROVE  /\ NoText(chan) => NoText(chan')
               /\ \A m, p \in Nat : InOrder(chan, m, p) => InOrder(chan', m, p)
               /\ \A s, t : Last(chan, s, t) => Last(chan', s, t)
               /\ EndsText(chan) => EndsText(chan')
    BY <1>2, <1>6, <2>1, AppendOther
  <2> QED BY <1>1, <1>2, <1>4, <1>6, <2>1
<1> QED BY <1>3, <1>5, <1>6

LEMMA Publishing ==
    /\ BeginAnnotation => Adds("annotation", <<Note>>)
    /\ PublishToken => Adds("message", <<got>>)
    /\ PublishWhole => Adds("message", completion)
    /\ ReviewFlags => IF streaming THEN Adds("message_replace", completion') ELSE Silent
    /\ Replace => Adds("message_replace", outcome)
    /\ AnnotationEnd \/ TokenStopped \/ End => Adds("end", <<>>)
    /\ LastTextDone \/ ReplaceDone => IF stopKey THEN Adds("end", <<>>) ELSE Silent
    /\ PubMessageEnd => Adds("message_end", <<>>)
    /\ PubError => Adds("error", <<>>)
<1> USE DEF Adds, Silent, published, Publish, PublishText, PubEnd, readerVars
<1>1. BeginAnnotation => Adds("annotation", <<Note>>)
  BY DEF BeginAnnotation
<1>2. PublishToken => Adds("message", <<got>>)
  BY DEF PublishToken
<1>3. PublishWhole => Adds("message", completion)
  BY DEF PublishWhole
<1>4. ReviewFlags => IF streaming THEN Adds("message_replace", completion') ELSE Silent
  BY DEF ReviewFlags
<1>5. Replace => Adds("message_replace", outcome)
  BY DEF Replace
<1>6. AnnotationEnd \/ TokenStopped \/ End => Adds("end", <<>>)
  BY DEF AnnotationEnd, TokenStopped, End
<1>7. LastTextDone \/ ReplaceDone => IF stopKey THEN Adds("end", <<>>) ELSE Silent
  BY DEF LastTextDone, ReplaceDone
<1>8. PubMessageEnd => Adds("message_end", <<>>)
  BY DEF PubMessageEnd
<1>9. PubError => Adds("error", <<>>)
  BY DEF PubError
<1> QED BY <1>1, <1>2, <1>3, <1>4, <1>5, <1>6, <1>7, <1>8, <1>9

LEMMA Silences ==
    /\ Begin \/ BeginFails \/ NewToken \/ ModelFails \/ ModelEnds => Silent
    /\ AddAnnotationHistory \/ TokenDone \/ StopSave \/ Interrupt \/ ReviewPasses \/ Save => Silent
    /\ Look \/ Reviewed \/ Decide \/ TimeStep => Silent
<1> USE DEF Silent, readerVars
<1>1. Begin \/ BeginFails \/ NewToken \/ ModelFails \/ ModelEnds => Silent
  BY DEF Begin, BeginFails, NewToken, ModelFails, ModelEnds
<1>2. AddAnnotationHistory \/ TokenDone \/ StopSave \/ Interrupt \/ ReviewPasses \/ Save => Silent
  BY DEF AddAnnotationHistory, TokenDone, StopSave, Interrupt, ReviewPasses, Save
<1>3. Look \/ Decide => Silent
  <2>1. Look \/ Decide => chan' = chan /\ UNCHANGED readerVars
    BY Zenon DEF Look, Decide
  <2> QED BY <2>1
<1>4. Reviewed => Silent
  BY DEF Reviewed
<1>5. TimeStep => Silent
  BY DEF TimeStep, answerVarsAll
<1> QED BY <1>1, <1>2, <1>3, <1>4, <1>5

\* The reader takes the next event.
LEMMA Receiving ==
    ASSUME TextTypes, Receive
    PROVE  /\ reader = "reading" /\ chan # <<>> /\ Head(chan) \in Events
           /\ chan' = IF reader' = "reading" THEN Tail(chan) ELSE <<>>
           /\ streaming =>
                /\ Head(chan).event = "message" => shown' = shown \o Head(chan).text
                /\ Head(chan).event \in {"message_replace", "annotation"} =>
                     shown' = Head(chan).text
                /\ Head(chan).event \notin TextEvents => shown' = shown
                /\ Head(chan).event = "end" => reader' = "ended"
                /\ Head(chan).event = "error" => reader' = "errored"
                /\ Head(chan).event \notin {"end", "error"} => reader' = "reading"
           /\ ~streaming =>
                /\ Head(chan).event \in {"message", "annotation"} => shown' = Head(chan).text
                /\ Head(chan).event \notin {"message", "annotation"} => shown' = shown
                /\ Head(chan).event \in {"message_end", "annotation"} => reader' = "ended"
                /\ Head(chan).event = "error" => reader' = "errored"
                /\ Head(chan).event \notin {"message_end", "annotation", "error"} =>
                     reader' = "reading"
           /\ sawMessageEnd' => sawMessageEnd \/ Head(chan).event = "message_end"
           /\ sawMessageEnd \/ Head(chan).event = "message_end" => sawMessageEnd'
<1>1. reader = "reading" /\ chan # <<>>
      /\ chan' = (IF reader' = "reading" THEN Tail(chan) ELSE <<>>)
  BY DEF Receive
<1>2. Head(chan) \in Events
  BY <1>1, TailIs DEF TextTypes
<1>3. PICK h : h = Head(chan)
  OBVIOUS
<1>4. h.event \in Kinds
  BY <1>2, <1>3 DEF Events, Kinds
<1>5. streaming =>
        /\ h.event = "message" => shown' = shown \o h.text
        /\ h.event \in {"message_replace", "annotation"} => shown' = h.text
        /\ h.event \notin TextEvents => shown' = shown
        /\ h.event = "end" => reader' = "ended"
        /\ h.event = "error" => reader' = "errored"
        /\ h.event \notin {"end", "error"} => reader' = "reading"
  BY <1>3, <1>4 DEF Receive, ReceiveStreaming, ReceiveBlocking, NextEvent, TextEvents, Kinds
<1>6. ~streaming =>
        /\ h.event \in {"message", "annotation"} => shown' = h.text
        /\ h.event \notin {"message", "annotation"} => shown' = shown
        /\ h.event \in {"message_end", "annotation"} => reader' = "ended"
        /\ h.event = "error" => reader' = "errored"
        /\ h.event \notin {"message_end", "annotation", "error"} => reader' = "reading"
  BY <1>3, <1>4 DEF Receive, ReceiveStreaming, ReceiveBlocking, NextEvent, Kinds
<1>7. /\ sawMessageEnd' => sawMessageEnd \/ h.event = "message_end"
      /\ sawMessageEnd \/ h.event = "message_end" => sawMessageEnd'
  BY <1>3 DEF Receive, NextEvent
<1> QED BY <1>1, <1>2, <1>3, <1>5, <1>6, <1>7

(* Where the threads are *)

\* The places from which no text is published any more
Closing == {"messageEnd", "endSent", "interrupted", "stopSave", "done"}

NotBegun ==
    /\ saved = "none" /\ got = 0 /\ completion = <<>> /\ buffered = 0
    /\ reviewer = "none" /\ ~direct
    /\ chan = <<>> /\ shown = <<>> /\ reader \in {"reading", "closed", "gone"} /\ ~sawMessageEnd

WorkInv ==
    /\ worker = "begin" => NotBegun
    /\ streaming => worker \notin {"whole", "wholeSent"}
    /\ ~streaming => /\ worker \notin {"token", "sent", "interrupted", "stopSave", "replaced"}
                     /\ reviewer = "none" /\ ~interrupted
    /\ moderation = "none" => worker \notin {"review", "replaced"} /\ reviewer = "none"
    /\ worker = "review" => completion = Raw(got)
    /\ worker \in {"messageEnd", "endSent"} => saved = "ended"
    /\ saved \in {"ended", "stopped"} => worker \in Closing
    /\ saved = "ended" /\ worker \in {"interrupted", "stopSave"} => interrupted
    /\ worker \in {"annotated", "history"} => saved = "note"

\* Every thread is behind the one it follows.
AmountInv ==
    /\ moderation = "none" => buffered = 0
    /\ reviewer = "none" => looked = 0
    /\ looked <= buffered /\ buffered <= got
    /\ worker \in {"token", "sent", "interrupted", "stopSave"} \/ interrupted => got >= 1

\* The moderation thread has its final output only of a flagged text, and once the worker has
\* come to an end of its own, it has been stopped or what it publishes is late.
ThreadInv ==
    /\ direct => /\ moderation = "direct" /\ Flagged(Raw(got))
                 /\ reviewer \in {"flagged", "publishing", "replaced", "dead"}
    /\ reviewer \in {"flagged", "publishing", "replaced"} =>
         Flagged(Raw(got)) /\ (moderation = "direct" => direct /\ outcome = <<Preset>>)
    /\ worker \in {"review", "replaced", "save"} \/ saved \in {"ended", "stopped"} =>
         reviewer \in {"none", "dead"} \/ ~running
    /\ worker = "interrupted" \/ interrupted => direct

EndInv == sawMessageEnd \/ Announced(chan, "message_end") => saved = "ended"

(* An annotation *)

\* It is the only text of its answer.
NoteComes(c, s) ==
    \/ /\ s = <<>> /\ c # <<>> /\ c[1] = Event("annotation", <<Note>>)
       /\ \A i \in 2..Len(c) : c[i].event = "end"
    \/ s = <<Note>> /\ \A i \in 1..Len(c) : c[i].event = "end"

NoteInv ==
    saved = "note" /\ "again" \notin slips =>
      /\ worker \in {"annotated", "history", "done"} /\ reviewer = "none"
      /\ stored = <<Note>>
      /\ reader = "reading" => NoteComes(chan, shown)
      /\ reader = "ended" => shown = <<Note>>

(* Blocking mode *)

\* The whole answer t is on its way to a client who has s, and comes before the end.
WholeComes(c, s, t) ==
    \/ s = t
    \/ \E i \in 1..Len(c) :
         c[i].event = "message" /\ \A j \in 1..i : c[j].event # "message_end"

OnlyText(c, t) ==
    \A i \in 1..Len(c) : /\ c[i].event \notin {"message_replace", "annotation"}
                         /\ c[i].event = "message" => c[i].text = t

Answered == {"wholeSent", "save"} \cup Closing

BlockInv ==
    ~streaming /\ "again" \notin slips /\ saved # "note" =>
      /\ (worker \in {"wholeSent", "save"} \/ saved = "ended") /\ reader = "reading" =>
           WholeComes(chan, shown, completion)
      /\ OnlyText(chan, completion)
      /\ worker \notin Answered => NoText(chan) /\ shown = <<>>
      /\ shown # <<>> => shown = completion
      /\ saved = "ended" => stored = AsKept(completion)
      /\ reader = "ended" => shown = completion /\ saved = "ended"

(* A stream in which nothing is flagged *)

Plain == streaming /\ "again" \notin slips /\ saved # "note" /\ ~Flagged(Raw(got))

Sent == IF worker = "token" THEN got - 1 ELSE got

Over == worker = "stopSave" \/ (worker = "done" /\ saved \in {"ended", "stopped"})

PlainPlaces ==
    /\ worker # "replaced"
    /\ worker \in {"begin", "model", "review", "save", "messageEnd", "endSent"} =>
         completion = Raw(got)
    /\ worker \in {"token", "sent", "stopSave"} => completion = Raw(got - 1)
    /\ saved = "ended" => stored = AsKept(Raw(got))
    /\ saved = "stopped" => got >= 1 /\ stored = AsKept(Raw(got - 1))

Producing == {"begin", "model", "token", "sent"}

\* What the client has and what is on its channel are the tokens in their order, until an end.
PlainChannel ==
    /\ reader = "ended" => Over /\ shown = Raw(got)
    /\ reader = "reading" =>
         /\ \E m \in Nat : /\ shown = Raw(m) /\ InOrder(chan, m, Sent)
                           /\ worker \in Producing => Len(chan) = Sent - m
         /\ Announced(chan, "end") => Over

PlainInv == Plain => PlainPlaces /\ PlainChannel

(* A stream in which something is flagged, and the threads did not miss each other *)

Shielded ==
    streaming /\ Flagged(Raw(got)) /\ slips = {} /\ failures = 0 /\ saved # "note"

\* The answer has not been given up.
OnTheWay ==
    worker \in {"model", "token", "sent", "review", "replaced", "save", "interrupted"}
      \/ saved = "ended"

Coming(t) == reader = "reading" => Last(chan, shown, t)

ShieldedComes ==
    /\ OnTheWay /\ direct /\ reviewer \in {"replaced", "dead"} => Coming(<<Preset>>)
    /\ worker \in {"replaced", "save"} => Coming(completion)

ShieldedKept ==
    /\ saved = "ended" => stored = AsKept(completion)
    /\ saved = "ended" /\ interrupted => completion = <<Preset>>
    /\ saved = "ended" /\ ~interrupted => Coming(completion)
    /\ sawMessageEnd => NoText(chan)
    /\ EndsText(chan)
    /\ reader = "ended" /\ sawMessageEnd =>
         shown = completion \/ (interrupted /\ reviewer \in {"flagged", "publishing"})

ShieldedInv == Shielded => ShieldedComes /\ ShieldedKept

LEMMA Successors ==
    ASSUME failures \in Nat, got \in 0..MaxTokens
    PROVE  failures + 1 # 0 /\ got \in Nat /\ got + 1 \in Nat
BY BoundsAssumption

\* What has slipped, failed or been flagged stays so.
LEMMA PastStays ==
    ASSUME SetupInv, PlaceTypes, CountTypes, FlagTypes, [Next]_vars
    PROVE  /\ (streaming' <=> streaming) /\ moderation' = moderation /\ bad' = bad
           /\ \A s \in slips : s \in slips'
           /\ failures' = 0 => failures = 0
           /\ streaming => got' = got \/ (NewToken /\ got' = got + 1 /\ got' \in Nat)
<1> USE DEF SetupInv, PlaceTypes, CountTypes, FlagTypes, setupVars, answerVars, reviewVars, readerVars
<1>1. CASE Begin
  BY <1>1, BoundsAssumption
     DEF Begin, GoTo
<1>2. CASE BeginFails
  BY <1>2, BoundsAssumption
     DEF BeginFails, GoTo
<1>3. CASE BeginAnnotation
  BY <1>3, BoundsAssumption
     DEF BeginAnnotation, GoTo
<1>4. CASE NewToken
  <2>1. got' = got + 1 /\ got' \in Nat /\ worker = "model"
    BY <1>4, Successors DEF NewToken
  <2>2. failures' = failures
    BY <1>4 DEF NewToken
  <2> QED BY <1>4, <2>1, <2>2 DEF NewToken
<1>5. CASE ModelFails
  BY <1>5, BoundsAssumption
     DEF ModelFails, GoTo
<1>6. CASE ModelEnds
  BY <1>6, BoundsAssumption
     DEF ModelEnds, GoTo
<1>7. CASE AnnotationEnd
  BY <1>7, BoundsAssumption
     DEF AnnotationEnd, GoTo
<1>8. CASE AddAnnotationHistory
  BY <1>8, BoundsAssumption
     DEF AddAnnotationHistory, GoTo
<1>9. CASE PublishToken
  BY <1>9, BoundsAssumption
     DEF PublishToken, GoTo
<1>10. CASE TokenDone
  BY <1>10, BoundsAssumption
     DEF TokenDone, GoTo
<1>11. CASE TokenStopped
  BY <1>11, BoundsAssumption
     DEF TokenStopped, GoTo
<1>12. CASE StopSave
  BY <1>12, BoundsAssumption
     DEF StopSave, GoTo
<1>13. CASE Interrupt
  BY <1>13, BoundsAssumption
     DEF Interrupt, GoTo
<1>14. CASE PubError
  BY <1>14, BoundsAssumption
     DEF PubError, GoTo
<1>15. CASE ReviewFlags
  BY <1>15, BoundsAssumption
     DEF ReviewFlags, GoTo
<1>16. CASE ReviewPasses
  <2>1. failures + 1 # 0
    BY Successors
  <2>2. failures' = 0 => failures = 0
    BY <1>16, <2>1 DEF ReviewPasses, ReviewFails
  <2> QED BY <1>16, <2>2 DEF ReviewPasses, ReviewFails, GoTo
<1>17. CASE PublishWhole
  BY <1>17, BoundsAssumption
     DEF PublishWhole, GoTo
<1>18. CASE LastTextDone
  BY <1>18, BoundsAssumption
     DEF LastTextDone, GoTo
<1>19. CASE Save
  BY <1>19, BoundsAssumption
     DEF Save, GoTo
<1>20. CASE PubMessageEnd
  BY <1>20, BoundsAssumption
     DEF PubMessageEnd, GoTo
<1>21. CASE End
  BY <1>21, BoundsAssumption
     DEF End, GoTo
<1>22. CASE Look
  BY <1>22, BoundsAssumption
     DEF Look, GoTo
<1>23. CASE Reviewed
  <2>1. failures + 1 # 0
    BY Successors
  <2>2. failures' = 0 => failures = 0
    BY <1>23, <2>1 DEF Reviewed, ReviewFails
  <2> QED BY <1>23, <2>2 DEF Reviewed, ReviewFails, GoTo
<1>24. CASE Decide
  BY <1>24, BoundsAssumption
     DEF Decide, GoTo
<1>25. CASE Replace
  BY <1>25, BoundsAssumption
     DEF Replace, GoTo
<1>26. CASE ReplaceDone
  BY <1>26, BoundsAssumption
     DEF ReplaceDone, GoTo
<1>27. CASE TimeStep
  BY <1>27, BoundsAssumption
     DEF TimeStep, answerVarsAll
<1>28. CASE Receive
  BY <1>28, BoundsAssumption
     DEF Receive, GoTo
<1>29. CASE LeavingStep
  BY <1>29, BoundsAssumption
     DEF LeavingStep
<1> QED BY <1>1, <1>2, <1>3, <1>4, <1>5, <1>6, <1>7, <1>8, <1>9, <1>10, <1>11, <1>12, <1>13,
     <1>14, <1>15, <1>16, <1>17, <1>18, <1>19, <1>20, <1>21, <1>22, <1>23, <1>24, <1>25,
     <1>26, <1>27, <1>28, <1>29, Steps

\* Where the worker can be.
LEMMA WorkStep ==
    ASSUME ReportsInv, SetupInv, FlagTypes, PlaceTypes, WorkInv, [Next]_vars
    PROVE  WorkInv'
<1> USE DEF WorkInv, NotBegun, Closing, ReportsInv, FlagTypes, PlaceTypes, WorkerPlaces, setupVars, answerVars, reviewVars, readerVars
<1>1. CASE Begin
  BY <1>1
     DEF Begin, GoTo
<1>2. CASE BeginFails
  BY <1>2
     DEF BeginFails, GoTo
<1>3. CASE BeginAnnotation
  BY <1>3
     DEF BeginAnnotation, GoTo
<1>4. CASE NewToken
  BY <1>4
     DEF NewToken, GoTo
<1>5. CASE ModelFails
  BY <1>5
     DEF ModelFails, GoTo
<1>6. CASE ModelEnds
  BY <1>6
     DEF ModelEnds, GoTo
<1>7. CASE AnnotationEnd
  BY <1>7
     DEF AnnotationEnd, GoTo
<1>8. CASE AddAnnotationHistory
  BY <1>8
     DEF AddAnnotationHistory, GoTo
<1>9. CASE PublishToken
  BY <1>9
     DEF PublishToken, GoTo
<1>10. CASE TokenDone
  BY <1>10
     DEF TokenDone, GoTo
<1>11. CASE TokenStopped
  BY <1>11
     DEF TokenStopped, GoTo
<1>12. CASE StopSave
  BY <1>12
     DEF StopSave, GoTo
<1>13. CASE Interrupt
  BY <1>13
     DEF Interrupt, GoTo
<1>14. CASE PubError
  BY <1>14
     DEF PubError, GoTo
<1>15. CASE ReviewFlags
  BY <1>15
     DEF ReviewFlags, GoTo
<1>16. CASE ReviewPasses
  BY <1>16
     DEF ReviewPasses, GoTo
<1>17. CASE PublishWhole
  BY <1>17
     DEF PublishWhole, GoTo
<1>18. CASE LastTextDone
  BY <1>18
     DEF LastTextDone, GoTo
<1>19. CASE Save
  BY <1>19
     DEF Save, GoTo
<1>20. CASE PubMessageEnd
  BY <1>20
     DEF PubMessageEnd, GoTo
<1>21. CASE End
  BY <1>21
     DEF End, GoTo
<1>22. CASE Look
  BY <1>22
     DEF Look, GoTo
<1>23. CASE Reviewed
  BY <1>23
     DEF Reviewed, GoTo
<1>24. CASE Decide
  BY <1>24
     DEF Decide, GoTo
<1>25. CASE Replace
  BY <1>25
     DEF Replace, GoTo
<1>26. CASE ReplaceDone
  BY <1>26
     DEF ReplaceDone, GoTo
<1>27. CASE TimeStep
  BY <1>27
     DEF TimeStep, answerVarsAll
<1>28. CASE Receive
  BY <1>28
     DEF Receive, GoTo
<1>29. CASE LeavingStep
  BY <1>29
     DEF LeavingStep
<1> QED BY <1>1, <1>2, <1>3, <1>4, <1>5, <1>6, <1>7, <1>8, <1>9, <1>10, <1>11, <1>12, <1>13,
     <1>14, <1>15, <1>16, <1>17, <1>18, <1>19, <1>20, <1>21, <1>22, <1>23, <1>24, <1>25,
     <1>26, <1>27, <1>28, <1>29, Steps

\* What is behind what.
LEMMA AmountStep ==
    ASSUME ReportsInv, SetupInv, PlaceTypes, CountTypes, WorkInv, AmountInv, [Next]_vars
    PROVE  AmountInv'
<1> USE DEF AmountInv, CountTypes, setupVars, answerVars, reviewVars, readerVars
<1>1. CASE Begin
  BY <1>1, BoundsAssumption
     DEF Begin, GoTo
<1>2. CASE BeginFails
  BY <1>2, BoundsAssumption
     DEF BeginFails, GoTo
<1>3. CASE BeginAnnotation
  BY <1>3, BoundsAssumption
     DEF BeginAnnotation, GoTo
<1>4. CASE NewToken
  BY <1>4, BoundsAssumption
     DEF NewToken, GoTo
<1>5. CASE ModelFails
  BY <1>5, BoundsAssumption
     DEF ModelFails, GoTo
<1>6. CASE ModelEnds
  <2>1. looked' = looked /\ reviewer' = reviewer /\ (interrupted' <=> interrupted) /\ got' \in 0..MaxTokens
    BY <1>6 DEF ModelEnds
  <2>2. worker' \notin {"token", "sent", "interrupted", "stopSave"}
    BY <1>6 DEF ModelEnds, GoTo
  <2>3. CASE streaming
    <3>1. got' = got
      BY <1>6, <2>3 DEF ModelEnds
    <3>2. buffered' = got \/ (moderation = "none" /\ buffered' = buffered)
      BY <1>6, <3>1 DEF ModelEnds
    <3>3. moderation' = moderation
      BY <1>6 DEF ModelEnds
    <3>4. looked' <= buffered' /\ buffered' <= got'
      BY <2>1, <3>1, <3>2, BoundsAssumption
    <3>5. moderation' = "none" => buffered' = 0
      BY <1>6, <3>3 DEF ModelEnds
    <3>6. interrupted' => got' >= 1
      BY <2>1, <3>1
    <3> QED BY <2>1, <2>2, <3>4, <3>5, <3>6
  <2>4. CASE ~streaming
    <3>1. reviewer = "none" /\ ~interrupted
      BY <2>4 DEF WorkInv
    <3>2. moderation' = moderation /\ (buffered' = got' \/ (moderation = "none" /\ buffered' = buffered))
      BY <1>6 DEF ModelEnds
    <3>3. looked' <= buffered' /\ buffered' <= got'
      BY <2>1, <3>1, <3>2, BoundsAssumption
    <3>4. moderation' = "none" => buffered' = 0
      BY <1>6, <3>2 DEF ModelEnds
    <3> QED BY <2>1, <2>2, <3>1, <3>3, <3>4
  <2> QED BY <2>3, <2>4
<1>7. CASE AnnotationEnd
  BY <1>7, BoundsAssumption
     DEF AnnotationEnd, GoTo
<1>8. CASE AddAnnotationHistory
  BY <1>8, BoundsAssumption
     DEF AddAnnotationHistory, GoTo
<1>9. CASE PublishToken
  BY <1>9, BoundsAssumption
     DEF PublishToken, GoTo
<1>10. CASE TokenDone
  BY <1>10, BoundsAssumption
     DEF TokenDone, GoTo
<1>11. CASE TokenStopped
  BY <1>11, BoundsAssumption
     DEF TokenStopped, GoTo
<1>12. CASE StopSave
  BY <1>12, BoundsAssumption
     DEF StopSave, GoTo
<1>13. CASE Interrupt
  BY <1>13, BoundsAssumption
     DEF Interrupt, GoTo
<1>14. CASE PubError
  BY <1>14, BoundsAssumption
     DEF PubError, GoTo
<1>15. CASE ReviewFlags
  BY <1>15, BoundsAssumption
     DEF ReviewFlags, GoTo
<1>16. CASE ReviewPasses
  BY <1>16, BoundsAssumption
     DEF ReviewPasses, GoTo
<1>17. CASE PublishWhole
  BY <1>17, BoundsAssumption
     DEF PublishWhole, GoTo
<1>18. CASE LastTextDone
  BY <1>18, BoundsAssumption
     DEF LastTextDone, GoTo
<1>19. CASE Save
  BY <1>19, BoundsAssumption
     DEF Save, GoTo
<1>20. CASE PubMessageEnd
  BY <1>20, BoundsAssumption
     DEF PubMessageEnd, GoTo
<1>21. CASE End
  BY <1>21, BoundsAssumption
     DEF End, GoTo
<1>22. CASE Look
  BY <1>22, BoundsAssumption
     DEF Look, GoTo
<1>23. CASE Reviewed
  BY <1>23, BoundsAssumption
     DEF Reviewed, GoTo
<1>24. CASE Decide
  BY <1>24, BoundsAssumption
     DEF Decide, GoTo, AfterOutcome
<1>25. CASE Replace
  BY <1>25, BoundsAssumption
     DEF Replace, GoTo
<1>26. CASE ReplaceDone
  BY <1>26, BoundsAssumption
     DEF ReplaceDone, GoTo, AfterOutcome
<1>27. CASE TimeStep
  BY <1>27, BoundsAssumption
     DEF TimeStep, answerVarsAll
<1>28. CASE Receive
  BY <1>28, BoundsAssumption
     DEF Receive, GoTo
<1>29. CASE LeavingStep
  BY <1>29, BoundsAssumption
     DEF LeavingStep
<1> QED BY <1>1, <1>2, <1>3, <1>4, <1>5, <1>6, <1>7, <1>8, <1>9, <1>10, <1>11, <1>12, <1>13,
     <1>14, <1>15, <1>16, <1>17, <1>18, <1>19, <1>20, <1>21, <1>22, <1>23, <1>24, <1>25,
     <1>26, <1>27, <1>28, <1>29, Steps DEF PlaceTypes

\* A text of a stream that is flagged stays so.
LEMMA FlagsStay ==
    ASSUME SetupInv, PlaceTypes, CountTypes, FlagTypes, [Next]_vars, streaming
    PROVE  /\ Flagged(Raw(got)) => Flagged(Raw(got))'
           /\ Flagged(Raw(got))' => Flagged(Raw(got)) \/ NewToken
<1>1. bad' = bad /\ (got' = got \/ (NewToken /\ got' = got + 1 /\ got' \in Nat))
  BY PastStays
<1>2. got \in Nat
  BY Successors DEF SetupInv, CountTypes
<1>4. CASE got' = got
  <2>1. Flagged(Raw(got))' <=> Flagged(Raw(got))
    BY <1>1, <1>4 DEF Flagged
  <2> QED BY <2>1
<1>5. CASE NewToken /\ got' = got + 1 /\ got' \in Nat
  <2>1. Flagged(Raw(got))' <=> Flagged(Raw(got'))
    BY <1>1 DEF Flagged
  <2>2. Flagged(Raw(got)) => Flagged(Raw(got'))
    BY <1>2, <1>5, FlaggedGrows
  <2> QED BY <1>5, <2>1, <2>2
<1> QED BY <1>1, <1>4, <1>5

LEMMA Amounts ==
    ASSUME CountTypes, AmountInv
    PROVE  looked \in Nat /\ got \in Nat /\ buffered \in Nat /\ looked <= got
BY BoundsAssumption DEF CountTypes, AmountInv

\* No annotation is replaced, unless its end goes wrong.
LEMMA NoteStays ==
    ASSUME NoteInv, PlaceTypes, [Next]_vars, saved = "note", "again" \notin slips'
    PROVE  saved' = "note"
<1> USE DEF NoteInv, PlaceTypes, setupVars, answerVars, reviewVars, readerVars
<1>1. CASE Begin
  BY <1>1
     DEF Begin, GoTo
<1>2. CASE BeginFails
  BY <1>2
     DEF BeginFails, GoTo
<1>3. CASE BeginAnnotation
  BY <1>3
     DEF BeginAnnotation, GoTo
<1>4. CASE NewToken
  BY <1>4
     DEF NewToken, GoTo
<1>5. CASE ModelFails
  BY <1>5
     DEF ModelFails, GoTo
<1>6. CASE ModelEnds
  BY <1>6
     DEF ModelEnds, GoTo
<1>7. CASE AnnotationEnd
  BY <1>7
     DEF AnnotationEnd, GoTo
<1>8. CASE AddAnnotationHistory
  BY <1>8
     DEF AddAnnotationHistory, GoTo
<1>9. CASE PublishToken
  BY <1>9
     DEF PublishToken, GoTo
<1>10. CASE TokenDone
  BY <1>10
     DEF TokenDone, GoTo
<1>11. CASE TokenStopped
  BY <1>11
     DEF TokenStopped, GoTo
<1>12. CASE StopSave
  BY <1>12
     DEF StopSave, GoTo
<1>13. CASE Interrupt
  BY <1>13
     DEF Interrupt, GoTo
<1>14. CASE PubError
  BY <1>14
     DEF PubError, GoTo
<1>15. CASE ReviewFlags
  BY <1>15
     DEF ReviewFlags, GoTo
<1>16. CASE ReviewPasses
  BY <1>16
     DEF ReviewPasses, GoTo
<1>17. CASE PublishWhole
  BY <1>17
     DEF PublishWhole, GoTo
<1>18. CASE LastTextDone
  BY <1>18
     DEF LastTextDone, GoTo
<1>19. CASE Save
  BY <1>19
     DEF Save, GoTo
<1>20. CASE PubMessageEnd
  BY <1>20
     DEF PubMessageEnd, GoTo
<1>21. CASE End
  BY <1>21
     DEF End, GoTo
<1>22. CASE Look
  BY <1>22
     DEF Look, GoTo
<1>23. CASE Reviewed
  BY <1>23
     DEF Reviewed, GoTo
<1>24. CASE Decide
  BY <1>24
     DEF Decide, GoTo
<1>25. CASE Replace
  BY <1>25
     DEF Replace, GoTo
<1>26. CASE ReplaceDone
  BY <1>26
     DEF ReplaceDone, GoTo
<1>27. CASE TimeStep
  BY <1>27
     DEF TimeStep, answerVarsAll
<1>28. CASE Receive
  BY <1>28
     DEF Receive, GoTo
<1>29. CASE LeavingStep
  BY <1>29
     DEF LeavingStep
<1> QED BY <1>1, <1>2, <1>3, <1>4, <1>5, <1>6, <1>7, <1>8, <1>9, <1>10, <1>11, <1>12, <1>13,
     <1>14, <1>15, <1>16, <1>17, <1>18, <1>19, <1>20, <1>21, <1>22, <1>23, <1>24, <1>25,
     <1>26, <1>27, <1>28, <1>29, Steps

\* The moderation thread.
LEMMA ThreadStep ==
    ASSUME ReportsInv, SetupInv, PlaceTypes, CountTypes, FlagTypes, WorkInv, AmountInv,
           ThreadInv, [Next]_vars
    PROVE  ThreadInv'
<1> USE DEF ThreadInv, WorkInv, Closing, PlaceTypes, FlagTypes, setupVars, answerVars, reviewVars, readerVars
<1>a. streaming /\ Flagged(Raw(got)) => Flagged(Raw(got))'
  BY FlagsStay
<1>b. ~streaming => reviewer = "none"
  BY DEF WorkInv
<1>1. CASE Begin
  BY <1>1, <1>a, <1>b DEF Begin, GoTo
<1>2. CASE BeginFails
  BY <1>2, <1>a, <1>b DEF BeginFails, GoTo
<1>3. CASE BeginAnnotation
  BY <1>3, <1>a, <1>b DEF BeginAnnotation, GoTo
<1>4. CASE NewToken
  BY <1>4, <1>a, <1>b DEF NewToken, GoTo
<1>5. CASE ModelFails
  BY <1>5, <1>a, <1>b DEF ModelFails, GoTo, StopThread
<1>6. CASE ModelEnds
  BY <1>6, <1>a, <1>b DEF ModelEnds, GoTo, StopThread
<1>7. CASE AnnotationEnd
  BY <1>7, <1>a, <1>b DEF AnnotationEnd, GoTo
<1>8. CASE AddAnnotationHistory
  BY <1>8, <1>a, <1>b DEF AddAnnotationHistory, GoTo
<1>9. CASE PublishToken
  BY <1>9, <1>a, <1>b DEF PublishToken, GoTo
<1>10. CASE TokenDone
  BY <1>10, <1>a, <1>b DEF TokenDone, GoTo
<1>11. CASE TokenStopped
  BY <1>11, <1>a, <1>b DEF TokenStopped, GoTo
<1>12. CASE StopSave
  BY <1>12, <1>a, <1>b DEF StopSave, GoTo, StopThread
<1>13. CASE Interrupt
  BY <1>13, <1>a, <1>b DEF Interrupt, GoTo, StopThread
<1>14. CASE PubError
  BY <1>14, <1>a, <1>b DEF PubError, GoTo
<1>15. CASE ReviewFlags
  BY <1>15, <1>a, <1>b DEF ReviewFlags, GoTo
<1>16. CASE ReviewPasses
  BY <1>16, <1>a, <1>b DEF ReviewPasses, GoTo
<1>17. CASE PublishWhole
  BY <1>17, <1>a, <1>b DEF PublishWhole, GoTo
<1>18. CASE LastTextDone
  BY <1>18, <1>a, <1>b DEF LastTextDone, GoTo
<1>19. CASE Save
  BY <1>19, <1>a, <1>b DEF Save, GoTo
<1>20. CASE PubMessageEnd
  BY <1>20, <1>a, <1>b DEF PubMessageEnd, GoTo
<1>21. CASE End
  BY <1>21, <1>a, <1>b DEF End, GoTo
<1>22. CASE Look
  BY <1>22, <1>a, <1>b DEF Look, GoTo
<1>23. CASE Reviewed
  <2>1. looked \in Nat /\ got \in Nat /\ looked <= got
    BY Amounts
  <2>2. Flagged(Raw(looked)) => Flagged(Raw(got))
    BY <2>1, FlaggedGrows
  <2>3. /\ reviewer = "calling" /\ worker' = worker /\ moderation' = moderation
        /\ (running' <=> running) /\ (interrupted' <=> interrupted) /\ saved' = saved
    BY <1>23 DEF Reviewed
  <2>4. ~direct /\ streaming
    BY <1>b, <2>3
  <2>5. CASE /\ Flagged(Raw(looked)) /\ reviewer' = "flagged"
             /\ (direct' <=> moderation = "direct")
             /\ moderation = "direct" => outcome' = <<Preset>>
    BY <1>a, <2>2, <2>3, <2>4, <2>5
  <2>6. CASE reviewer' = "loop" /\ outcome' = outcome /\ (direct' <=> direct)
    BY <1>a, <2>3, <2>4, <2>6
  <2>7. \/ /\ Flagged(Raw(looked)) /\ reviewer' = "flagged"
           /\ direct' = (moderation = "direct")
           /\ outcome' = IF moderation = "direct" THEN <<Preset>>
                        ELSE Shield(Raw(looked)) \o SubSeq(Raw(buffered), looked + 1, buffered)
        \/ reviewer' = "loop" /\ UNCHANGED <<outcome, direct>>
    BY <1>23, Zenon DEF Reviewed
  <2>8. ASSUME UNCHANGED <<outcome, direct>>
        PROVE  outcome' = outcome /\ (direct' <=> direct)
    BY <2>8
  <2> QED BY <2>5, <2>6, <2>7, <2>8
<1>24. CASE Decide
  BY <1>24, <1>a, <1>b DEF Decide, GoTo, AfterOutcome
<1>25. CASE Replace
  BY <1>25, <1>a, <1>b DEF Replace, GoTo
<1>26. CASE ReplaceDone
  BY <1>26, <1>a, <1>b DEF ReplaceDone, GoTo, AfterOutcome
<1>27. CASE TimeStep
  BY <1>27, <1>a, <1>b DEF TimeStep, answerVarsAll
<1>28. CASE Receive
  BY <1>28, <1>a, <1>b DEF Receive, GoTo
<1>29. CASE LeavingStep
  BY <1>29, <1>a, <1>b DEF LeavingStep
<1> QED BY <1>1, <1>2, <1>3, <1>4, <1>5, <1>6, <1>7, <1>8, <1>9, <1>10, <1>11, <1>12, <1>13,
     <1>14, <1>15, <1>16, <1>17, <1>18, <1>19, <1>20, <1>21, <1>22, <1>23, <1>24, <1>25,
     <1>26, <1>27, <1>28, <1>29, Steps


LEMMA TextsPublished ==
    ASSUME CountTypes, SetupInv, TextTypes, [Next]_vars
    PROVE  /\ <<>> \in Texts /\ <<Note>> \in Texts /\ <<got>> \in Texts
           /\ completion \in Texts /\ completion' \in Texts /\ outcome \in Texts
<1>1. completion' \in Texts
  BY TextTypesStep DEF TextTypes
<1>2. got \in 0..MaxTokens
  BY DEF CountTypes
<1>3. <<got>> \in Texts
  BY <1>2, TextResults DEF SetupInv
<1>4. <<>> \in Texts /\ <<Note>> \in Texts
  BY TextResults DEF SetupInv
<1> QED BY <1>1, <1>3, <1>4 DEF TextTypes

\* A whole answer is saved for good, and only an annotation begins as one.
LEMMA SavedStays ==
    ASSUME PlaceTypes, WorkInv, [Next]_vars
    PROVE  /\ saved = "ended" => saved' = "ended"
           /\ saved' = "note" => saved = "note" \/ BeginAnnotation
           /\ saved' = "ended" => saved = "ended" \/ Save \/ Interrupt
<1> USE DEF WorkInv, NotBegun, Closing, PlaceTypes, setupVars, answerVars, reviewVars, readerVars
<1>1. CASE Begin
  BY <1>1
     DEF Begin, GoTo
<1>2. CASE BeginFails
  BY <1>2
     DEF BeginFails, GoTo
<1>3. CASE BeginAnnotation
  BY <1>3
     DEF BeginAnnotation, GoTo
<1>4. CASE NewToken
  BY <1>4
     DEF NewToken, GoTo
<1>5. CASE ModelFails
  BY <1>5
     DEF ModelFails, GoTo
<1>6. CASE ModelEnds
  BY <1>6
     DEF ModelEnds, GoTo
<1>7. CASE AnnotationEnd
  BY <1>7
     DEF AnnotationEnd, GoTo
<1>8. CASE AddAnnotationHistory
  BY <1>8
     DEF AddAnnotationHistory, GoTo
<1>9. CASE PublishToken
  BY <1>9
     DEF PublishToken, GoTo
<1>10. CASE TokenDone
  BY <1>10
     DEF TokenDone, GoTo
<1>11. CASE TokenStopped
  BY <1>11
     DEF TokenStopped, GoTo
<1>12. CASE StopSave
  BY <1>12
     DEF StopSave, GoTo
<1>13. CASE Interrupt
  BY <1>13
     DEF Interrupt, GoTo
<1>14. CASE PubError
  BY <1>14
     DEF PubError, GoTo
<1>15. CASE ReviewFlags
  BY <1>15
     DEF ReviewFlags, GoTo
<1>16. CASE ReviewPasses
  BY <1>16
     DEF ReviewPasses, GoTo
<1>17. CASE PublishWhole
  BY <1>17
     DEF PublishWhole, GoTo
<1>18. CASE LastTextDone
  BY <1>18
     DEF LastTextDone, GoTo
<1>19. CASE Save
  BY <1>19
     DEF Save, GoTo
<1>20. CASE PubMessageEnd
  BY <1>20
     DEF PubMessageEnd, GoTo
<1>21. CASE End
  BY <1>21
     DEF End, GoTo
<1>22. CASE Look
  BY <1>22
     DEF Look, GoTo
<1>23. CASE Reviewed
  BY <1>23
     DEF Reviewed, GoTo
<1>24. CASE Decide
  BY <1>24
     DEF Decide, GoTo
<1>25. CASE Replace
  BY <1>25
     DEF Replace, GoTo
<1>26. CASE ReplaceDone
  BY <1>26
     DEF ReplaceDone, GoTo
<1>27. CASE TimeStep
  BY <1>27
     DEF TimeStep, answerVarsAll
<1>28. CASE Receive
  BY <1>28
     DEF Receive, GoTo
<1>29. CASE LeavingStep
  BY <1>29
     DEF LeavingStep
<1> QED BY <1>1, <1>2, <1>3, <1>4, <1>5, <1>6, <1>7, <1>8, <1>9, <1>10, <1>11, <1>12, <1>13,
     <1>14, <1>15, <1>16, <1>17, <1>18, <1>19, <1>20, <1>21, <1>22, <1>23, <1>24, <1>25,
     <1>26, <1>27, <1>28, <1>29, Steps

\* The end of the message is announced when it is saved.
LEMMA EndStep ==
    ASSUME SetupInv, PlaceTypes, CountTypes, TextTypes, WorkInv, EndInv, [Next]_vars
    PROVE  EndInv'
<1> USE DEF EndInv
<1>1. saved = "ended" => saved' = "ended"
  BY SavedStays
<1>2. chan \in Seq(Events)
  BY DEF TextTypes
<1>3. CASE Silent
  BY <1>1, <1>3 DEF Silent
<1>4. ASSUME NEW kind \in Kinds, NEW text \in Texts, Adds(kind, text),
             kind = "message_end" => saved = "ended"
      PROVE  EndInv'
  <2>1. \A k : Announced(chan', k) => Announced(chan, k) \/ k = kind
    BY <1>2, <1>4, Adding
  <2> QED BY <1>1, <1>4, <2>1 DEF Adds
<1>5. CASE Receive
  <2>1. chan # <<>> /\ (chan' = Tail(chan) \/ chan' = <<>>)
        /\ (sawMessageEnd' => sawMessageEnd \/ Head(chan).event = "message_end")
    BY <1>5, Receiving
  <2>2. /\ Announced(Tail(chan), "message_end") => Announced(chan, "message_end")
        /\ Announced(chan, Head(chan).event)
    BY <1>2, <2>1, TakeNext
  <2>3. ~Announced(<<>>, "message_end")
    BY DEF Announced
  <2> QED BY <1>1, <2>1, <2>2, <2>3
<1>6. CASE LeavingStep
  <2>1. ~Announced(<<>>, "message_end")
    BY DEF Announced
  <2> QED BY <1>1, <1>6, <2>1 DEF LeavingStep
<1>7. /\ <<>> \in Texts /\ <<Note>> \in Texts /\ <<got>> \in Texts
      /\ completion \in Texts /\ completion' \in Texts /\ outcome \in Texts
  BY TextsPublished
<1>8. CASE PubMessageEnd
  <2>1. saved = "ended"
    BY <1>8 DEF PubMessageEnd, WorkInv
  <2> QED BY <1>4, <1>7, <1>8, <2>1, Publishing DEF Kinds
<1>9. CASE BeginAnnotation \/ PublishToken \/ PublishWhole
  BY <1>4, <1>7, <1>9, Publishing DEF Kinds
<1>10. CASE ReviewFlags \/ Replace
  BY <1>3, <1>4, <1>7, <1>10, Publishing DEF Kinds
<1>11. CASE AnnotationEnd \/ TokenStopped \/ End \/ LastTextDone \/ ReplaceDone \/ PubError
  BY <1>3, <1>4, <1>7, <1>11, Publishing DEF Kinds
<1> QED
  BY <1>3, <1>5, <1>6, <1>8, <1>9, <1>10, <1>11, Steps, Silences DEF PlaceTypes

\* An annotation comes as the only text of its answer.
LEMMA NoteStep ==
    ASSUME ReportsInv, SetupInv, PlaceTypes, CountTypes, FlagTypes, TextTypes, WorkInv, NoteInv,
           [Next]_vars
    PROVE  NoteInv'
<1>1. CASE BeginAnnotation
  <2>1. Adds("annotation", <<Note>>) /\ NotBegun
    BY <1>1, Publishing DEF BeginAnnotation, WorkInv
  <2>2. reader' = "reading" =>
          shown' = <<>> /\ chan' = Append(<<>>, Event("annotation", <<Note>>))
    BY <2>1 DEF Adds, NotBegun
  <2>3. reader' # "ended"
    BY <2>1 DEF Adds, NotBegun
  <2>4. PICK e : e = Event("annotation", <<Note>>)
    OBVIOUS
  <2>5. NoteComes(Append(<<>>, e), <<>>)
    BY <2>4 DEF NoteComes
  <2>6. worker' = "annotated" /\ reviewer' = reviewer /\ stored' = <<Note>>
    BY <1>1 DEF BeginAnnotation, GoTo, reviewVars
  <2>7. reviewer = "none"
    BY <2>1 DEF NotBegun
  <2> QED BY <2>2, <2>3, <2>4, <2>5, <2>6, <2>7 DEF NoteInv
<1>2. ASSUME saved = "note", "again" \notin slips, "again" \notin slips'
      PROVE  NoteInv'
  <2>1. /\ worker \in {"annotated", "history", "done"} /\ reviewer = "none"
        /\ stored = <<Note>>
        /\ reader = "reading" => NoteComes(chan, shown)
        /\ reader = "ended" => shown = <<Note>>
    BY <1>2 DEF NoteInv
  <2>2. chan \in Seq(Events)
    BY DEF TextTypes
  <2>3. CASE AnnotationEnd
    <3>1. Adds("end", <<>>)
      BY <2>3, Publishing
    <3>2. worker' = "history" /\ reviewer' = "none" /\ stored' = <<Note>>
      BY <1>2, <2>1, <2>3 DEF AnnotationEnd, GoTo, reviewVars, answerVars
    <3>3. PICK e : e = Event("end", <<>>)
      OBVIOUS
    <3>4. e \in Events /\ e.event = "end"
      BY <3>3, NoEvents, TextsPublished DEF Event, Events
    <3>5. PICK d : d = Append(chan, e)
      OBVIOUS
    <3>6. /\ Len(d) = Len(chan) + 1 /\ Len(chan) \in Nat
          /\ \A i \in 1..Len(chan) : d[i] = chan[i]
          /\ d[Len(chan) + 1] = e /\ d # <<>>
      BY <2>2, <3>4, <3>5, AppendIs
    <3>7. chan # <<>> => Len(chan) \in Nat \ {0}
      BY <2>2
    <3>8. \A s : NoteComes(chan, s) => NoteComes(d, s)
      BY <3>4, <3>6, <3>7 DEF NoteComes
    <3> QED BY <2>1, <3>1, <3>2, <3>3, <3>5, <3>8 DEF Adds, NoteInv
  <2>4. CASE AddAnnotationHistory
    <3>1. Silent /\ worker' = "done" /\ reviewer' = reviewer /\ stored' = stored
      BY <1>2, <2>4, Silences DEF AddAnnotationHistory, GoTo, reviewVars, answerVars
    <3> QED BY <2>1, <3>1 DEF Silent, NoteInv
  <2>5. CASE TimeStep
    <3>1. Silent /\ worker' = worker /\ reviewer' = reviewer /\ stored' = stored
      BY <2>5, Silences DEF TimeStep, answerVarsAll, reviewVars, answerVars
    <3> QED BY <2>1, <3>1 DEF Silent, NoteInv
  <2>6. CASE LeavingStep
    <3>1. /\ worker' = worker /\ reviewer' = reviewer /\ stored' = stored /\ shown' = shown
          /\ reader' # "reading" /\ (reader' = "ended" => reader = "ended")
      BY <2>6 DEF LeavingStep, reviewVars, answerVars
    <3> QED BY <2>1, <3>1 DEF NoteInv
  <2>7. CASE Receive
    <3>1. worker' = worker /\ reviewer' = reviewer /\ stored' = stored
      BY <2>7 DEF Receive, reviewVars, answerVars
    <3>2. PICK h : h = Head(chan)
      OBVIOUS
    <3>3. PICK d : d = Tail(chan)
      OBVIOUS
    <3>4. /\ chan # <<>> /\ Len(chan) \in Nat \ {0} /\ h = chan[1]
          /\ Len(d) = Len(chan) - 1 /\ \A i \in 1..Len(d) : d[i] = chan[i + 1]
      BY <2>2, <2>7, <3>2, <3>3, TailIs, Receiving
    <3>5. NoteComes(chan, shown) /\ chan' = (IF reader' = "reading" THEN d ELSE <<>>)
      BY <2>1, <2>7, <3>3, Receiving
    <3>6. CASE shown = <<>> /\ h = Event("annotation", <<Note>>)
               /\ \A i \in 2..Len(chan) : chan[i].event = "end"
      <4>1. h.event = "annotation" /\ h.text = <<Note>>
        BY <3>6 DEF Event
      <4>2. shown' = <<Note>>
        BY <2>7, <3>2, <4>1, Receiving
      <4>3. \A i \in 1..Len(d) : d[i].event = "end"
        BY <3>4, <3>6
      <4> QED BY <2>1, <3>1, <3>5, <4>2, <4>3 DEF NoteInv, NoteComes
    <3>7. CASE shown = <<Note>> /\ \A i \in 1..Len(chan) : chan[i].event = "end"
      <4>1. h.event = "end"
        BY <3>4, <3>7
      <4>2. shown' = <<Note>>
        BY <2>7, <3>2, <3>7, <4>1, Receiving DEF TextEvents
      <4>3. \A i \in 1..Len(d) : d[i].event = "end"
        BY <3>4, <3>7
      <4> QED BY <2>1, <3>1, <3>5, <4>2, <4>3 DEF NoteInv, NoteComes
    <3> QED BY <3>4, <3>5, <3>6, <3>7 DEF NoteComes
  <2>8. AnnotationEnd \/ AddAnnotationHistory \/ TimeStep \/ LeavingStep \/ Receive
    <3>1. ~(\/ Begin \/ BeginFails \/ BeginAnnotation \/ NewToken \/ ModelFails \/ ModelEnds)
      BY <2>1 DEF Begin, BeginFails, BeginAnnotation, NewToken, ModelFails, ModelEnds
    <3>2. ~(\/ PublishToken \/ TokenDone \/ TokenStopped \/ StopSave \/ Interrupt \/ PubError
            \/ ReviewFlags \/ ReviewPasses \/ PublishWhole \/ LastTextDone)
      BY <2>1 DEF PublishToken, TokenDone, TokenStopped, StopSave, Interrupt, PubError,
         ReviewFlags, ReviewPasses, PublishWhole, LastTextDone
    <3>3. ~(Save \/ PubMessageEnd \/ End)
      BY <2>1 DEF Save, PubMessageEnd, End
    <3>4. ~(Look \/ Reviewed \/ Decide \/ Replace \/ ReplaceDone)
      BY <2>1 DEF Look, Reviewed, Decide, Replace, ReplaceDone
    <3> QED BY <3>1, <3>2, <3>3, <3>4, Steps DEF PlaceTypes
  <2> QED BY <2>3, <2>4, <2>5, <2>6, <2>7, <2>8
<1>3. ASSUME ~(saved' = "note" /\ "again" \notin slips')
      PROVE  NoteInv'
  BY <1>3 DEF NoteInv
<1>4. "again" \in slips => "again" \in slips'
  BY PastStays
<1> QED BY <1>1, <1>2, <1>3, <1>4, SavedStays

(* Blocking mode *)

LEMMA AppendWhole ==
    ASSUME NEW c \in Seq(Events), NEW e \in Events, NEW t, OnlyText(c, t)
    PROVE  /\ e.event \notin TextEvents =>
                OnlyText(Append(c, e), t)
                  /\ \A s : WholeComes(c, s, t) => WholeComes(Append(c, e), s, t)
           /\ e.event = "message" /\ e.text = t =>
                OnlyText(Append(c, e), t)
                  /\ \A s : ~Announced(c, "message_end") => WholeComes(Append(c, e), s, t)
<1>1. PICK d : d = Append(c, e)
  OBVIOUS
<1>2. /\ Len(d) = Len(c) + 1 /\ Len(c) \in Nat
      /\ \A i \in 1..Len(c) : d[i] = c[i]
      /\ d[Len(c) + 1] = e
  BY <1>1, AppendIs
<1>3. e.event \notin TextEvents \/ (e.event = "message" /\ e.text = t) => OnlyText(d, t)
  <2>1. \A i \in 1..Len(d) : i \in 1..Len(c) \/ d[i] = e
    BY <1>2
  <2>2. \A i \in 1..Len(c) : d[i].event \notin {"message_replace", "annotation"}
                             /\ (d[i].event = "message" => d[i].text = t)
    BY <1>2 DEF OnlyText
  <2> QED BY <2>1, <2>2 DEF OnlyText, TextEvents
<1>4. ASSUME NEW s, WholeComes(c, s, t)
      PROVE  WholeComes(d, s, t)
  <2>1. CASE s = t
    BY <2>1 DEF WholeComes
  <2>2. ASSUME NEW i \in 1..Len(c), c[i].event = "message",
               \A j \in 1..i : c[j].event # "message_end"
        PROVE  WholeComes(d, s, t)
    <3>1. i \in 1..Len(d) /\ d[i].event = "message"
      BY <1>2, <2>2
    <3>2. \A j \in 1..i : d[j].event # "message_end"
      BY <1>2, <2>2
    <3> QED BY <3>1, <3>2 DEF WholeComes
  <2> QED BY <1>4, <2>1, <2>2 DEF WholeComes
<1>5. ASSUME NEW s, e.event = "message", ~Announced(c, "message_end")
      PROVE  WholeComes(d, s, t)
  <2>1. Len(d) \in 1..Len(d) /\ d[Len(d)].event = "message"
    BY <1>2, <1>5
  <2>2. ASSUME NEW j \in 1..Len(d)
        PROVE  d[j].event # "message_end"
    <3>1. CASE j \in 1..Len(c)
      BY <1>2, <1>5, <3>1 DEF Announced
    <3>2. CASE j = Len(c) + 1
      BY <1>2, <1>5, <3>2
    <3> QED BY <1>2, <3>1, <3>2
  <2> QED BY <2>1, <2>2 DEF WholeComes
<1> QED BY <1>1, <1>3, <1>4, <1>5

LEMMA TakeWhole ==
    ASSUME NEW c \in Seq(Events), c # <<>>, NEW t, OnlyText(c, t)
    PROVE  /\ OnlyText(Tail(c), t) /\ Head(c).event \notin {"message_replace", "annotation"}
           /\ Head(c).event = "message" => Head(c).text = t
           /\ \A s : WholeComes(c, s, t) =>
                \/ s = t
                \/ Head(c).event = "message"
                \/ Head(c).event # "message_end" /\ WholeComes(Tail(c), s, t)
<1>1. PICK d : d = Tail(c)
  OBVIOUS
<1>2. /\ Len(c) \in Nat \ {0} /\ Len(d) = Len(c) - 1
      /\ Head(c) = c[1] /\ \A i \in 1..Len(d) : d[i] = c[i + 1]
  BY <1>1, TailIs
<1>3. OnlyText(d, t)
  BY <1>2 DEF OnlyText
<1>4. /\ Head(c).event \notin {"message_replace", "annotation"}
      /\ Head(c).event = "message" => Head(c).text = t
  BY <1>2 DEF OnlyText
<1>5. ASSUME NEW s, WholeComes(c, s, t), s # t, Head(c).event # "message"
      PROVE  Head(c).event # "message_end" /\ WholeComes(d, s, t)
  <2>1. PICK i \in 1..Len(c) :
             c[i].event = "message" /\ \A j \in 1..i : c[j].event # "message_end"
    BY <1>5 DEF WholeComes
  <2>2. i # 1
    BY <1>2, <1>5, <2>1
  <2>3. i - 1 \in 1..Len(d) /\ d[i - 1].event = "message" /\ 1 \in 1..i
    BY <1>2, <2>1, <2>2
  <2>4. \A j \in 1..(i - 1) : d[j].event # "message_end"
    BY <1>2, <2>1
  <2> QED BY <1>2, <2>1, <2>3, <2>4 DEF WholeComes
<1> QED BY <1>1, <1>3, <1>4, <1>5

LEMMA BlockStep ==
    ASSUME ReportsInv, SetupInv, PlaceTypes, CountTypes, FlagTypes, TextTypes, WorkInv, EndInv,
           NoteInv, BlockInv, [Next]_vars
    PROVE  BlockInv'
<1> SUFFICES ASSUME ~streaming', "again" \notin slips', saved' # "note"
             PROVE  BlockInv'
  BY DEF BlockInv
<1>1. /\ ~streaming /\ "again" \notin slips
      /\ saved # "note"
  BY PastStays, NoteStays
<1>2. /\ (worker \in {"wholeSent", "save"} \/ saved = "ended") /\ reader = "reading" =>
           WholeComes(chan, shown, completion)
      /\ OnlyText(chan, completion)
      /\ worker \notin Answered => NoText(chan) /\ shown = <<>>
      /\ shown # <<>> => shown = completion
      /\ saved = "ended" => stored = AsKept(completion)
      /\ reader = "ended" => shown = completion /\ saved = "ended"
  BY <1>1 DEF BlockInv
<1>3. /\ worker \notin {"token", "sent", "interrupted", "stopSave", "replaced", "annotated", "history"}
      /\ reviewer = "none" /\ ~interrupted
  BY <1>1 DEF WorkInv
<1>4. chan \in Seq(Events) /\ saved \in {"none", "ended", "stopped", "note"}
  BY DEF TextTypes, PlaceTypes
<1>5. saved = "ended" => worker \in Closing
  BY DEF WorkInv
<1>6. /\ <<>> \in Texts /\ completion \in Texts
  BY TextsPublished
<1>7. ASSUME completion' = completion, reader' = reader, shown' = shown,
             OnlyText(chan', completion),
             NoText(chan) => NoText(chan'),
             WholeComes(chan, shown, completion) => WholeComes(chan', shown, completion),
             worker' \in {"wholeSent", "save"} \/ saved' = "ended" =>
               worker \in {"wholeSent", "save"} \/ saved = "ended",
             worker \in Answered => worker' \in Answered,
             saved = "ended" => saved' = "ended",
             saved' = "ended" => stored' = AsKept(completion)
      PROVE  BlockInv'
  BY <1>2, <1>7 DEF BlockInv
<1>8. Silent => /\ reader' = reader /\ shown' = shown /\ OnlyText(chan', completion)
                /\ NoText(chan) => NoText(chan')
                /\ WholeComes(chan, shown, completion) => WholeComes(chan', shown, completion)
  BY <1>2 DEF Silent
<1>9. ASSUME NEW kind \in {"end", "error", "message_end"}, Adds(kind, <<>>)
      PROVE  /\ reader' = reader /\ shown' = shown /\ OnlyText(chan', completion)
             /\ NoText(chan) => NoText(chan')
             /\ WholeComes(chan, shown, completion) => WholeComes(chan', shown, completion)
  <2>1. PICK e : e = Event(kind, <<>>)
    OBVIOUS
  <2>2. e \in Events /\ e.event = kind /\ kind \notin TextEvents
    BY <1>6, <2>1 DEF Event, Events, TextEvents
  <2>3. OnlyText(Append(chan, e), completion)
        /\ (WholeComes(chan, shown, completion) => WholeComes(Append(chan, e), shown, completion))
    BY <1>2, <1>4, <2>2, AppendWhole
  <2>4. NoText(chan) => NoText(Append(chan, e))
    BY <1>4, <2>2, AppendOther
  <2>5. reader' = reader /\ shown' = shown /\ (chan' = Append(chan, e) \/ chan' = chan)
    BY <1>9, <2>1 DEF Adds
  <2> QED BY <1>2, <2>3, <2>4, <2>5
<1>10. CASE Begin \/ BeginFails \/ ModelFails
  <2>1. Silent
    BY <1>10, Silences
  <2>2. /\ completion' = completion /\ stored' = stored /\ saved' = saved
        /\ worker \in {"begin", "model"} /\ worker' \in {"model", "failing", "broken"}
    BY <1>10 DEF Begin, BeginFails, ModelFails, GoTo, answerVars
  <2> QED BY <1>2, <1>7, <1>8, <2>1, <2>2 DEF Answered, Closing
<1>11. CASE ModelEnds \/ ReviewFlags \/ ReviewPasses
  <2>1. Silent
    BY <1>1, <1>11, Silences, Publishing
  <2>2. saved' = saved /\ worker \in {"model", "review"} /\ worker' \in {"review", "whole"}
    BY <1>1, <1>11 DEF ModelEnds, ReviewFlags, ReviewPasses, GoTo, answerVars
  <2>3. NoText(chan) /\ shown = <<>> /\ saved # "ended" /\ reader # "ended"
    BY <1>2, <1>5, <2>2 DEF Answered, Closing
  <2>4. \A t : OnlyText(chan, t)
    BY <2>3 DEF OnlyText, NoText, TextEvents
  <2> QED BY <2>1, <2>2, <2>3, <2>4 DEF Silent, BlockInv
<1>12. CASE PubError
  <2>1. Adds("error", <<>>)
    BY <1>12, Publishing
  <2>2. /\ completion' = completion /\ stored' = stored /\ saved' = saved
        /\ worker = "failing" /\ worker' = "done"
    BY <1>12 DEF PubError, GoTo, answerVars
  <2> QED BY <1>2, <1>7, <1>9, <2>1, <2>2 DEF Answered, Closing
<1>13. CASE PublishWhole
  <2>1. Adds("message", completion)
    BY <1>13, Publishing
  <2>2. /\ completion' = completion /\ stored' = stored /\ saved' = saved
        /\ worker = "whole" /\ worker' = "wholeSent"
    BY <1>13 DEF PublishWhole, GoTo, answerVars
  <2>3. saved # "ended" /\ ~Announced(chan, "message_end") /\ shown = <<>> /\ reader # "ended"
    BY <1>2, <1>5, <2>2 DEF EndInv, Answered, Closing
  <2>4. PICK e : e = Event("message", completion)
    OBVIOUS
  <2>5. e \in Events /\ e.event = "message" /\ e.text = completion
    BY <1>6, <2>4 DEF Event, Events
  <2>6. OnlyText(Append(chan, e), completion) /\ WholeComes(Append(chan, e), shown, completion)
    BY <1>2, <1>4, <2>3, <2>5, AppendWhole
  <2>7. /\ reader' = reader /\ shown' = shown
        /\ chan' = IF reader = "reading" THEN Append(chan, e) ELSE chan
    BY <2>1, <2>4 DEF Adds
  <2> QED BY <1>2, <2>2, <2>3, <2>6, <2>7 DEF BlockInv, Answered
<1>14. CASE LastTextDone
  <2>1. IF stopKey THEN Adds("end", <<>>) ELSE Silent
    BY <1>14, Publishing
  <2>2. /\ completion' = completion /\ stored' = stored /\ saved' = saved
        /\ worker = "wholeSent" /\ worker' \in {"done", "save"}
    BY <1>3, <1>14 DEF LastTextDone, GoTo, answerVars
  <2> QED BY <1>2, <1>7, <1>8, <1>9, <2>1, <2>2 DEF Answered, Closing
<1>15. CASE Save
  <2>1. Silent
    BY <1>15, Silences
  <2>2. /\ completion' = completion /\ stored' = AsKept(completion)
        /\ worker = "save" /\ worker' = "messageEnd" /\ saved' = "ended"
    BY <1>15 DEF Save, GoTo
  <2> QED BY <1>7, <1>8, <2>1, <2>2 DEF Answered, Closing
<1>16. CASE PubMessageEnd \/ End
  <2>1. Adds("message_end", <<>>) \/ Adds("end", <<>>)
    BY <1>16, Publishing
  <2>2. /\ completion' = completion /\ stored' = stored /\ saved' = saved
        /\ worker \in {"messageEnd", "endSent"} /\ worker' \in {"endSent", "done"}
    BY <1>3, <1>16 DEF PubMessageEnd, End, GoTo, answerVars
  <2> QED BY <1>2, <1>7, <1>9, <2>1, <2>2 DEF Answered, Closing
<1>17. CASE TimeStep
  <2>1. Silent
    BY <1>17, Silences
  <2>2. completion' = completion /\ stored' = stored /\ saved' = saved /\ worker' = worker
    BY <1>17 DEF TimeStep, answerVarsAll, answerVars
  <2> QED BY <1>2, <1>7, <1>8, <2>1, <2>2
<1>18. CASE LeavingStep
  <2>1. /\ completion' = completion /\ stored' = stored /\ saved' = saved /\ worker' = worker
        /\ shown' = shown /\ chan' = <<>> /\ reader' # "reading"
        /\ reader' = "ended" => reader = "ended"
    BY <1>18 DEF LeavingStep, answerVars
  <2>2. NoText(<<>>) /\ \A t : OnlyText(<<>>, t)
    BY DEF NoText, OnlyText
  <2> QED BY <1>2, <2>1, <2>2 DEF BlockInv
<1>19. CASE Receive
  <2>1. completion' = completion /\ stored' = stored /\ saved' = saved /\ worker' = worker
    BY <1>19 DEF Receive, answerVars
  <2>2. PICK h : h = Head(chan)
    OBVIOUS
  <2>3. /\ reader = "reading" /\ chan # <<>> /\ h \in Events
        /\ chan' = IF reader' = "reading" THEN Tail(chan) ELSE <<>>
        /\ h.event \in {"message", "annotation"} => shown' = h.text
        /\ h.event \notin {"message", "annotation"} => shown' = shown
        /\ h.event \in {"message_end", "annotation"} => reader' = "ended"
        /\ h.event = "error" => reader' = "errored"
        /\ h.event \notin {"message_end", "annotation", "error"} => reader' = "reading"
    BY <1>1, <1>19, <2>2, Receiving
  <2>4. NoText(<<>>) /\ \A t : OnlyText(<<>>, t)
    BY DEF NoText, OnlyText
  <2>5. /\ OnlyText(Tail(chan), completion) /\ h.event \notin {"message_replace", "annotation"}
        /\ h.event = "message" => h.text = completion
        /\ WholeComes(chan, shown, completion) =>
             \/ shown = completion
             \/ h.event = "message"
             \/ h.event # "message_end" /\ WholeComes(Tail(chan), shown, completion)
    BY <1>2, <1>4, <2>2, <2>3, TakeWhole
  <2>6. NoText(chan) => NoText(Tail(chan)) /\ h.event \notin TextEvents
    BY <1>4, <2>2, <2>3, TakeNext
  <2>7. h.event = "message_end" => saved = "ended"
    <3>1. Announced(chan, h.event)
      BY <1>4, <2>2, <2>3, TakeNext
    <3> QED BY <3>1 DEF EndInv
  <2>8. shown' = completion \/ (shown' = shown /\ h.event # "message")
    BY <2>3, <2>5
  <2>9. worker \notin Answered => NoText(chan') /\ shown' = <<>>
    BY <1>2, <2>3, <2>4, <2>6 DEF TextEvents
  <2>10. OnlyText(chan', completion)
    BY <2>3, <2>4, <2>5
  <2>11. \A t : WholeComes(Tail(chan), t, t)
    BY DEF WholeComes
  <2>12. reader' = "ended" => shown' = completion /\ saved = "ended"
    BY <1>2, <2>3, <2>5, <2>7, <2>8
  <2>13. (worker \in {"wholeSent", "save"} \/ saved = "ended") /\ reader' = "reading" =>
           WholeComes(chan', shown', completion)
    BY <1>2, <2>3, <2>5, <2>8, <2>11
  <2> QED BY <1>2, <2>1, <2>8, <2>9, <2>10, <2>12, <2>13 DEF BlockInv
<1>20. ~(BeginAnnotation \/ NewToken \/ AnnotationEnd \/ AddAnnotationHistory \/ PublishToken
         \/ TokenDone \/ TokenStopped \/ StopSave \/ Interrupt)
  <2>1. ~BeginAnnotation
    BY DEF BeginAnnotation
  <2> QED
    BY <1>1, <1>3, <2>1 DEF NewToken, AnnotationEnd, AddAnnotationHistory, PublishToken,
       TokenDone, TokenStopped, StopSave, Interrupt
<1>21. ~(Look \/ Reviewed \/ Decide \/ Replace \/ ReplaceDone)
  BY <1>3 DEF Look, Reviewed, Decide, Replace, ReplaceDone
<1> QED
  BY <1>10, <1>11, <1>12, <1>13, <1>14, <1>15, <1>16, <1>17, <1>18, <1>19, <1>20, <1>21, Steps
  DEF PlaceTypes

(* A stream in which nothing is flagged *)

LEMMA PlainStays ==
    ASSUME SetupInv, PlaceTypes, CountTypes, FlagTypes, NoteInv, [Next]_vars, Plain'
    PROVE  Plain
<1>1. streaming /\ "again" \notin slips
  BY PastStays DEF Plain
<1>2. ~Flagged(Raw(got))
  BY <1>1, FlagsStay DEF Plain
<1>3. saved # "note"
  BY NoteStays DEF Plain
<1> QED BY <1>1, <1>2, <1>3 DEF Plain

LEMMA PlainThreads ==
    ASSUME PlaceTypes, FlagTypes, WorkInv, ThreadInv, Plain
    PROVE  /\ streaming /\ saved # "note" /\ ~Flagged(Raw(got))
           /\ ~direct /\ ~interrupted /\ reviewer \in {"none", "loop", "calling", "dead"}
           /\ worker \notin {"interrupted", "whole", "wholeSent", "annotated", "history"}
<1>1. streaming /\ saved # "note" /\ ~Flagged(Raw(got))
  BY DEF Plain
<1>2. ~direct /\ ~interrupted /\ reviewer \in {"none", "loop", "calling", "dead"}
  BY <1>1 DEF ThreadInv, PlaceTypes
<1>3. worker \notin {"interrupted", "whole", "wholeSent", "annotated", "history"}
  BY <1>1, <1>2 DEF ThreadInv, WorkInv
<1> QED BY <1>1, <1>2, <1>3

LEMMA PlainSteps ==
    ASSUME SetupInv, PlaceTypes, CountTypes, FlagTypes, WorkInv, ThreadInv, Plain,
           PlainPlaces, saved' # "note", [Next]_vars
    PROVE  \/ Begin \/ BeginFails \/ NewToken \/ ModelFails \/ ModelEnds
           \/ PublishToken \/ TokenDone \/ TokenStopped
           \/ StopSave \/ PubError \/ ReviewPasses
           \/ Save \/ PubMessageEnd \/ End
           \/ Look \/ Reviewed
           \/ TimeStep \/ Receive \/ LeavingStep
<1>1. /\ reviewer \in {"none", "loop", "calling", "dead"} /\ ~Flagged(Raw(got))
      /\ worker \notin {"interrupted", "whole", "wholeSent", "annotated", "history", "replaced"}
  BY PlainThreads DEF PlainPlaces
<1>2. ~(Decide \/ Replace \/ ReplaceDone)
  BY <1>1 DEF Decide, Replace, ReplaceDone
<1>3. ~(BeginAnnotation \/ AnnotationEnd \/ AddAnnotationHistory)
  BY <1>1 DEF BeginAnnotation, AnnotationEnd, AddAnnotationHistory
<1>4. ~(Interrupt \/ PublishWhole \/ LastTextDone)
  BY <1>1 DEF Interrupt, PublishWhole, LastTextDone
<1>5. ~ReviewFlags
  BY <1>1 DEF ReviewFlags, PlainPlaces
<1> QED BY <1>2, <1>3, <1>4, <1>5, Steps DEF PlaceTypes

LEMMA PlainPlacesStep ==
    ASSUME SetupInv, PlaceTypes, CountTypes, FlagTypes, WorkInv, AmountInv, ThreadInv, Plain,
           PlainPlaces, saved' # "note", [Next]_vars
    PROVE  PlainPlaces'
<1>1. /\ worker # "replaced"
      /\ worker \in {"begin", "model", "review", "save", "messageEnd", "endSent"} =>
           completion = Raw(got)
      /\ worker \in {"token", "sent", "stopSave"} => completion = Raw(got - 1)
      /\ saved = "ended" => stored = AsKept(Raw(got))
      /\ saved = "stopped" => got >= 1 /\ stored = AsKept(Raw(got - 1))
  BY DEF PlainPlaces
<1>2. streaming /\ ~direct /\ ~interrupted
  BY PlainThreads
<1>3. saved \in {"ended", "stopped"} => worker \in Closing
  BY DEF WorkInv
<1>4. got \in Nat /\ (worker \in {"token", "sent", "stopSave"} => got >= 1)
  BY Amounts DEF AmountInv
<1>5. ASSUME completion' = completion, got' = got, stored' = stored, saved' = saved,
             \/ worker' = worker
             \/ worker' \notin {"begin", "model", "review", "save", "messageEnd", "endSent", "token",
                                "sent", "stopSave", "replaced"}
             \/ /\ worker \in {"begin", "model", "review", "save", "messageEnd", "endSent"}
                /\ worker' \in {"begin", "model", "review", "save", "messageEnd", "endSent"}
             \/ /\ worker \in {"token", "sent", "stopSave"}
                /\ worker' \in {"token", "sent", "stopSave"}
      PROVE  PlainPlaces'
  BY <1>1, <1>5 DEF PlainPlaces
<1>6. CASE Begin \/ BeginFails \/ ModelFails \/ PubError
  <2>1. /\ completion' = completion /\ got' = got /\ stored' = stored /\ saved' = saved
        /\ worker' \in {"failing", "broken", "done"}
             \/ (worker = "begin" /\ worker' = "model")
    BY <1>6 DEF Begin, BeginFails, ModelFails, PubError, GoTo, answerVars
  <2> QED BY <1>5, <2>1
<1>7. CASE NewToken
  <2>1. /\ completion' = completion /\ got' = got + 1 /\ stored' = stored /\ saved' = saved
        /\ worker = "model" /\ worker' = "token"
    BY <1>2, <1>7 DEF NewToken, GoTo, answerVars
  <2>2. got' - 1 = got
    BY <1>4, <2>1
  <2>3. saved \notin {"ended", "stopped"}
    BY <1>3, <2>1 DEF Closing
  <2> QED BY <1>1, <2>1, <2>2, <2>3 DEF PlainPlaces
<1>8. CASE ModelEnds
  <2>1. /\ completion' = Raw(got) /\ got' = got /\ stored' = stored /\ saved' = saved
        /\ worker = "model" /\ worker' \in {"review", "save"}
    BY <1>2, <1>8 DEF ModelEnds, GoTo
  <2>2. saved \notin {"ended", "stopped"}
    BY <1>3, <2>1 DEF Closing
  <2> QED BY <1>1, <2>1, <2>2 DEF PlainPlaces
<1>9. CASE PublishToken \/ TokenStopped
  <2>1. /\ completion' = completion /\ got' = got /\ stored' = stored /\ saved' = saved
        /\ worker \in {"token", "sent"} /\ worker' \in {"sent", "stopSave"}
    BY <1>9 DEF PublishToken, TokenStopped, GoTo, answerVars
  <2> QED BY <1>5, <2>1
<1>10. CASE TokenDone
  <2>1. /\ completion' = Append(completion, got) /\ got' = got /\ stored' = stored /\ saved' = saved
        /\ worker = "sent" /\ worker' = "model"
    BY <1>10 DEF TokenDone, GoTo
  <2>2. saved \notin {"ended", "stopped"}
    BY <1>3, <2>1 DEF Closing
  <2>3. got - 1 \in Nat /\ (got - 1) + 1 = got
    BY <1>4, <2>1
  <2>4. Append(Raw(got - 1), got) = Raw(got)
    BY <2>3, RawIs
  <2> QED BY <1>1, <2>1, <2>2, <2>4 DEF PlainPlaces
<1>11. CASE StopSave
  <2>1. /\ completion' = completion /\ got' = got /\ stored' = AsKept(completion) /\ saved' = "stopped"
        /\ worker = "stopSave" /\ worker' \in {"stopSave", "done"}
    BY <1>2, <1>11 DEF StopSave, GoTo
  <2> QED BY <1>1, <1>4, <2>1 DEF PlainPlaces
<1>12. CASE Save
  <2>1. /\ completion' = completion /\ got' = got /\ stored' = AsKept(completion) /\ saved' = "ended"
        /\ worker = "save" /\ worker' = "messageEnd"
    BY <1>12 DEF Save, GoTo
  <2> QED BY <1>1, <2>1 DEF PlainPlaces
<1>13. CASE ReviewPasses \/ PubMessageEnd \/ End
  <2>1. /\ completion' = completion /\ got' = got /\ stored' = stored /\ saved' = saved
        /\ \/ worker \in {"review", "messageEnd"} /\ worker' \in {"save", "endSent"}
           \/ worker' = "done"
    BY <1>2, <1>13 DEF ReviewPasses, PubMessageEnd, End, GoTo, answerVars
  <2> QED BY <1>5, <2>1
<1>14. CASE Look \/ Reviewed
  <2>1. /\ completion' = completion /\ got' = got /\ stored' = stored /\ saved' = saved
        /\ worker' = worker
    BY <1>14 DEF Look, Reviewed, answerVars
  <2> QED BY <1>5, <2>1
<1>15. CASE TimeStep \/ Receive \/ LeavingStep
  <2>1. /\ completion' = completion /\ got' = got /\ stored' = stored /\ saved' = saved
        /\ worker' = worker
    BY <1>15 DEF TimeStep, answerVarsAll, Receive, LeavingStep, answerVars
  <2> QED BY <1>5, <2>1
<1> QED
  BY <1>6, <1>7, <1>8, <1>9, <1>10, <1>11, <1>12, <1>13, <1>14, <1>15, PlainSteps

LEMMA PlainChannelStep ==
    ASSUME SetupInv, PlaceTypes, CountTypes, FlagTypes, TextTypes, WorkInv, AmountInv, ThreadInv,
           Plain, PlainPlaces, PlainChannel, saved' # "note", [Next]_vars
    PROVE  PlainChannel'
<1> USE DEF Over, Producing
<1>1. /\ reader = "ended" => Over /\ shown = Raw(got)
      /\ reader = "reading" =>
           /\ \E m \in Nat : /\ shown = Raw(m) /\ InOrder(chan, m, Sent)
                             /\ worker \in Producing => Len(chan) = Sent - m
           /\ Announced(chan, "end") => Over
  BY DEF PlainChannel
<1>2. streaming /\ ~direct /\ ~interrupted
  BY PlainThreads
<1>3. saved \in {"ended", "stopped"} => worker \in Closing
  BY DEF WorkInv
<1>4. got \in Nat /\ Sent \in Nat
  <2>1. got \in Nat /\ (worker = "token" => got >= 1)
    BY Amounts DEF AmountInv
  <2> QED BY <2>1 DEF Sent
<1>5. chan \in Seq(Events)
  BY DEF TextTypes
<1>6. <<>> \in Texts /\ <<got>> \in Texts
  BY TextsPublished
<1>7. ASSUME reader' = reader, shown' = shown, Sent' = Sent, Over => Over',
             Over => got' = got,
             \A m \in Nat : InOrder(chan, m, Sent) => InOrder(chan', m, Sent),
             worker' \in Producing => worker \in Producing /\ chan' = chan,
             Announced(chan', "end") => Announced(chan, "end") \/ Over'
      PROVE  PlainChannel'
  <2>1. reader' = "ended" => Over' /\ shown' = Raw(got')
    BY <1>1, <1>7
  <2>2. ASSUME reader' = "reading"
        PROVE  \E m \in Nat : /\ shown' = Raw(m) /\ InOrder(chan', m, Sent')
                              /\ worker' \in Producing => Len(chan') = Sent' - m
    <3>1. PICK m \in Nat : /\ shown = Raw(m) /\ InOrder(chan, m, Sent)
                           /\ worker \in Producing => Len(chan) = Sent - m
      BY <1>1, <1>7, <2>2
    <3> QED BY <1>7, <3>1
  <2>3. reader' = "reading" /\ Announced(chan', "end") => Over'
    BY <1>1, <1>7
  <2> QED BY <2>1, <2>2, <2>3 DEF PlainChannel
<1>8. Silent => /\ reader' = reader /\ shown' = shown /\ chan' = chan
                /\ \A m \in Nat : InOrder(chan, m, Sent) => InOrder(chan', m, Sent)
                /\ Announced(chan', "end") => Announced(chan, "end")
  BY DEF Silent
<1>9. ASSUME NEW kind \in {"end", "error", "message_end"}, Adds(kind, <<>>)
      PROVE  /\ reader' = reader /\ shown' = shown
             /\ \A m \in Nat : InOrder(chan, m, Sent) => InOrder(chan', m, Sent)
             /\ Announced(chan', "end") => Announced(chan, "end") \/ kind = "end"
  <2>1. kind \in Kinds /\ kind \notin TextEvents
    BY DEF Kinds, TextEvents
  <2>2. /\ \A k : Announced(chan', k) => Announced(chan, k) \/ k = kind
        /\ \A m, p \in Nat : InOrder(chan, m, p) => InOrder(chan', m, p)
    BY <1>5, <1>6, <1>9, <2>1, Adding
  <2> QED BY <1>4, <1>9, <2>2 DEF Adds
<1>10. CASE Begin \/ BeginFails \/ ModelFails \/ ReviewPasses
  <2>1. Silent
    BY <1>10, Silences
  <2>2. /\ got' = got /\ saved' = saved
        /\ \/ worker = "begin" /\ worker' = "model"
           \/ worker \in {"begin", "model", "review"} /\ worker' \in {"failing", "broken", "whole", "save"}
    BY <1>10 DEF Begin, BeginFails, ModelFails, ReviewPasses, GoTo, answerVars
  <2>3. Sent' = Sent
    BY <2>2 DEF Sent
  <2> QED BY <1>7, <1>8, <2>1, <2>2, <2>3
<1>11. CASE NewToken
  <2>1. Silent
    BY <1>11, Silences
  <2>2. /\ got' = got + 1 /\ saved' = saved
        /\ worker = "model" /\ worker' = "token"
    BY <1>2, <1>11 DEF NewToken, GoTo, answerVars
  <2>3. Sent' = Sent
    BY <1>4, <2>2 DEF Sent
  <2> QED BY <1>7, <1>8, <2>1, <2>2, <2>3 DEF Silent
<1>12. CASE ModelEnds
  <2>1. Silent
    BY <1>12, Silences
  <2>2. /\ got' = got /\ saved' = saved
        /\ worker = "model" /\ worker' \in {"review", "save"}
    BY <1>2, <1>12 DEF ModelEnds, GoTo
  <2>3. Sent' = Sent
    BY <2>2 DEF Sent
  <2> QED BY <1>7, <1>8, <2>1, <2>2, <2>3
<1>13. CASE PublishToken
  <2>1. Adds("message", <<got>>)
    BY <1>13, Publishing
  <2>2. /\ got' = got /\ saved' = saved /\ worker = "token" /\ worker' = "sent"
    BY <1>13 DEF PublishToken, GoTo, answerVars
  <2>3. Sent = got - 1 /\ Sent' = got /\ Sent + 1 = got
    BY <1>4, <2>2 DEF Sent
  <2>4. reader # "ended" /\ ~Over
    BY <1>1, <1>3, <2>2
  <2>5. reader' = reader /\ shown' = shown
        /\ (reader = "reading" => chan' = Append(chan, Event("message", <<got>>)))
    BY <2>1 DEF Adds
  <2>6. Event("message", <<got>>) \in Events
    BY <1>6 DEF Event, Events
  <2>7. CASE reader = "reading"
    <3>1. PICK m \in Nat : shown = Raw(m) /\ InOrder(chan, m, Sent) /\ Len(chan) = Sent - m
      BY <1>1, <2>2, <2>7
    <3>2. InOrder(chan', m, Sent + 1)
      BY <1>4, <1>5, <1>6, <2>3, <2>5, <2>6, <2>7, <3>1, AppendMessage
    <3>3. Len(chan') = Len(chan) + 1
      BY <1>4, <1>5, <1>6, <2>5, <2>6, <2>7, AppendMessage
    <3>4. Len(chan') = Sent' - m
      BY <1>4, <2>3, <3>1, <3>3
    <3>5. ~Announced(chan', "end")
      <4>1. Announced(chan', "end") => Announced(chan, "end")
        BY <1>5, <1>6, <2>1, Adding DEF Kinds
      <4> QED BY <1>1, <2>4, <2>7, <4>1
    <3> QED BY <2>3, <2>5, <2>7, <3>1, <3>2, <3>4, <3>5 DEF PlainChannel
  <2>8. CASE reader # "reading"
    BY <2>4, <2>5, <2>8 DEF PlainChannel
  <2> QED BY <2>7, <2>8
<1>14. CASE TokenDone
  <2>1. Silent
    BY <1>14, Silences
  <2>2. got' = got /\ saved' = saved /\ worker = "sent" /\ worker' = "model"
    BY <1>14 DEF TokenDone, GoTo
  <2>3. Sent' = Sent
    BY <2>2 DEF Sent
  <2> QED BY <1>7, <1>8, <2>1, <2>2, <2>3
<1>15. CASE TokenStopped \/ End
  <2>1. Adds("end", <<>>)
    BY <1>15, Publishing
  <2>2. /\ got' = got /\ saved' = saved
        /\ \/ worker = "sent" /\ worker' = "stopSave"
           \/ worker = "endSent" /\ worker' = "done"
    BY <1>2, <1>15 DEF TokenStopped, End, GoTo, answerVars
  <2>3. Sent' = Sent
    BY <2>2 DEF Sent
  <2>4. Over'
    BY <2>2 DEF WorkInv
  <2> QED BY <1>7, <1>9, <2>1, <2>2, <2>3, <2>4
<1>16. CASE StopSave \/ Save
  <2>1. Silent
    BY <1>16, Silences
  <2>2. /\ got' = got
        /\ \/ worker = "stopSave" /\ worker' \in {"stopSave", "done"} /\ saved' = "stopped"
           \/ worker = "save" /\ worker' = "messageEnd" /\ saved' = "ended"
    BY <1>2, <1>16 DEF StopSave, Save, GoTo
  <2>3. Sent' = Sent
    BY <2>2 DEF Sent
  <2> QED BY <1>7, <1>8, <2>1, <2>2, <2>3
<1>17. CASE PubError \/ PubMessageEnd
  <2>1. Adds("error", <<>>) \/ Adds("message_end", <<>>)
    BY <1>17, Publishing
  <2>2. /\ got' = got /\ saved' = saved
        /\ \/ worker = "failing" /\ worker' = "done"
           \/ worker = "messageEnd" /\ worker' = "endSent"
    BY <1>17 DEF PubError, PubMessageEnd, GoTo, answerVars
  <2>3. Sent' = Sent
    BY <2>2 DEF Sent
  <2> QED BY <1>7, <1>9, <2>1, <2>2, <2>3
<1>18. CASE Look \/ Reviewed \/ TimeStep
  <2>1. Silent
    BY <1>18, Silences
  <2>2. got' = got /\ saved' = saved /\ worker' = worker
    BY <1>18 DEF Look, Reviewed, TimeStep, answerVarsAll, answerVars
  <2>3. Sent' = Sent
    BY <2>2 DEF Sent
  <2> QED BY <1>7, <1>8, <2>1, <2>2, <2>3
<1>19. CASE LeavingStep
  <2>1. /\ got' = got /\ saved' = saved /\ worker' = worker /\ shown' = shown
        /\ reader' # "reading" /\ (reader' = "ended" => reader = "ended")
    BY <1>19 DEF LeavingStep, answerVars
  <2> QED BY <1>1, <2>1 DEF PlainChannel
<1>20. CASE Receive
  <2>1. got' = got /\ saved' = saved /\ worker' = worker
    BY <1>20 DEF Receive, answerVars
  <2>2. Sent' = Sent /\ (Over' <=> Over)
    BY <2>1 DEF Sent
  <2>3. PICK h : h = Head(chan)
    OBVIOUS
  <2>4. /\ reader = "reading" /\ chan # <<>> /\ h \in Events
        /\ chan' = IF reader' = "reading" THEN Tail(chan) ELSE <<>>
        /\ h.event = "message" => shown' = shown \o h.text
        /\ h.event \notin TextEvents => shown' = shown
        /\ h.event = "end" => reader' = "ended"
        /\ h.event = "error" => reader' = "errored"
        /\ h.event \notin {"end", "error"} => reader' = "reading"
    BY <1>2, <1>20, <2>3, Receiving
  <2>5. PICK m \in Nat : /\ shown = Raw(m) /\ InOrder(chan, m, Sent)
                         /\ worker \in Producing => Len(chan) = Sent - m
    BY <1>1, <2>4
  <2>6. m <= Sent
    BY <1>4, <2>5 DEF InOrder
  <2>7. IF m < Sent THEN h = Event("message", <<m + 1>>) /\ InOrder(Tail(chan), m + 1, Sent)
        ELSE h.event \notin TextEvents /\ InOrder(Tail(chan), m, Sent)
    BY <1>4, <1>5, <2>3, <2>4, <2>5, TakeNext
  <2>8. Announced(Tail(chan), "end") => Over
    <3>1. Announced(Tail(chan), "end") => Announced(chan, "end")
      BY <1>5, <2>4, TakeNext
    <3> QED BY <1>1, <2>4, <3>1
  <2>9. Len(chan) \in Nat /\ Len(Tail(chan)) = Len(chan) - 1
    BY <1>5, <2>4, TailIs
  <2>10. CASE m < Sent
    <3>1. h.event = "message" /\ h.text = <<m + 1>>
      BY <2>7, <2>10 DEF Event
    <3>2. reader' = "reading" /\ shown' = Raw(m) \o <<m + 1>>
      BY <2>4, <2>5, <3>1
    <3>3. shown' = Raw(m + 1) /\ m + 1 \in Nat
      <4>1. Raw(m) \o <<m + 1>> = Raw(m + 1)
        BY Zenon, RawIs
      <4> QED BY <3>2, <4>1
    <3>4. worker' \in Producing => Len(Tail(chan)) = Sent - (m + 1)
      BY <1>4, <2>1, <2>5, <2>9
    <3>5. InOrder(Tail(chan), m + 1, Sent)
      BY <2>7, <2>10
    <3>6. chan' = Tail(chan)
      BY <2>4, <3>2
    <3> QED BY <2>2, <2>8, <3>2, <3>3, <3>4, <3>5, <3>6 DEF PlainChannel
  <2>11. CASE m = Sent
    <3>1. h.event \notin TextEvents /\ InOrder(Tail(chan), m, Sent)
      BY <1>4, <2>7, <2>11
    <3>2. shown' = shown
      BY <2>4, <3>1
    <3>3. CASE h.event = "end"
      <4>1. Over
        <5>1. Announced(chan, h.event)
          BY <1>5, <2>3, <2>4, TakeNext
        <5> QED BY <1>1, <2>4, <3>3, <5>1
      <4>2. Sent = got
        BY <4>1 DEF Sent
      <4> QED BY <2>1, <2>2, <2>4, <2>5, <2>11, <3>2, <3>3, <4>1, <4>2 DEF PlainChannel
    <3>4. CASE h.event = "error"
      BY <2>4, <3>4 DEF PlainChannel
    <3>5. CASE h.event \notin {"end", "error"}
      <4>1. reader' = "reading" /\ chan' = Tail(chan)
        BY <2>4, <3>5
      <4>2. worker \notin Producing
        <5>1. ~(Len(chan) = 0)
          BY <1>5, <2>4
        <5> QED BY <1>4, <2>5, <2>11, <5>1
      <4> QED BY <2>1, <2>2, <2>5, <2>8, <3>1, <3>2, <4>1, <4>2 DEF PlainChannel
    <3> QED BY <3>3, <3>4, <3>5
  <2> QED BY <1>4, <2>6, <2>10, <2>11
<1> QED
  BY <1>10, <1>11, <1>12, <1>13, <1>14, <1>15, <1>16, <1>17, <1>18, <1>19, <1>20, PlainSteps

\* What streams unflagged comes in its order and is kept.
LEMMA PlainStep ==
    ASSUME SetupInv, PlaceTypes, CountTypes, FlagTypes, TextTypes, WorkInv, AmountInv, ThreadInv,
           NoteInv, PlainInv, [Next]_vars
    PROVE  PlainInv'
<1>1. ASSUME Plain'
      PROVE  (PlainPlaces /\ PlainChannel)'
  <2>1. Plain /\ PlainPlaces /\ PlainChannel
    BY <1>1, PlainStays DEF PlainInv
  <2>2. saved' # "note"
    BY <1>1 DEF Plain
  <2> QED BY <2>1, <2>2, PlainPlacesStep, PlainChannelStep
<1> QED BY <1>1 DEF PlainInv

(* A stream in which something is flagged *)

LEMMA ShieldedStays ==
    ASSUME SetupInv, PlaceTypes, CountTypes, FlagTypes, NoteInv, [Next]_vars, Shielded'
    PROVE  /\ Shielded \/ NewToken
           /\ slips = {} /\ streaming /\ saved # "note" /\ failures = 0
<1>1. streaming' /\ Flagged(Raw(got))' /\ slips' = {} /\ failures' = 0 /\ saved' # "note"
  BY DEF Shielded
<1>2. streaming /\ failures = 0
  BY <1>1, PastStays
<1>3. slips = {}
  <2>1. \A s \in slips : s \in slips'
    BY PastStays
  <2> QED BY <1>1, <2>1
<1>4. saved # "note"
  BY <1>1, <1>3, NoteStays
<1>5. Flagged(Raw(got)) \/ NewToken
  BY <1>1, <1>2, FlagsStay
<1> QED BY <1>2, <1>3, <1>4, <1>5 DEF Shielded

\* What is still to come stays so when something else is published.
LEMMA ComingAdds ==
    ASSUME TextTypes, CountTypes, SetupInv, [Next]_vars,
           Silent \/ Adds("end", <<>>) \/ Adds("error", <<>>) \/ Adds("message_end", <<>>)
    PROVE  /\ reader' = reader /\ shown' = shown /\ (sawMessageEnd' <=> sawMessageEnd)
           /\ \A t : Last(chan, shown, t) => Last(chan', shown', t)
           /\ NoText(chan) => NoText(chan')
           /\ EndsText(chan) => EndsText(chan')
<1>1. CASE Silent
  BY <1>1 DEF Silent
<1>2. ASSUME NEW kind \in {"end", "error", "message_end"}, Adds(kind, <<>>)
      PROVE  /\ reader' = reader /\ shown' = shown /\ (sawMessageEnd' <=> sawMessageEnd)
             /\ \A t : Last(chan, shown, t) => Last(chan', shown', t)
             /\ NoText(chan) => NoText(chan')
             /\ EndsText(chan) => EndsText(chan')
  <2>1. kind \in Kinds /\ kind \notin TextEvents
    BY DEF Kinds, TextEvents
  <2>2. <<>> \in Texts /\ chan \in Seq(Events)
    BY TextsPublished DEF TextTypes
  <2>3. /\ NoText(chan) => NoText(chan')
        /\ \A s, t : Last(chan, s, t) => Last(chan', s, t)
        /\ EndsText(chan) => EndsText(chan')
    BY <1>2, <2>1, <2>2, Adding
  <2>4. reader' = reader /\ shown' = shown /\ (sawMessageEnd' <=> sawMessageEnd)
    BY <1>2 DEF Adds
  <2> QED BY <2>3, <2>4
<1> QED BY <1>1, <1>2

\* and when the reader takes the next event of a stream.
LEMMA ComingTaken ==
    ASSUME TextTypes, streaming, Receive
    PROVE  /\ reader' = "reading" => \A t : Last(chan, shown, t) => Last(chan', shown', t)
           /\ EndsText(chan) => EndsText(chan')
           /\ EndsText(chan) /\ (sawMessageEnd => NoText(chan)) /\ sawMessageEnd' => NoText(chan')
           /\ reader' = "ended" => shown' = shown /\ (sawMessageEnd' => sawMessageEnd)
<1>1. PICK h : h = Head(chan)
  OBVIOUS
<1>2. /\ reader = "reading" /\ chan # <<>> /\ h \in Events
      /\ chan' = IF reader' = "reading" THEN Tail(chan) ELSE <<>>
      /\ h.event \in {"message_replace", "annotation"} => shown' = h.text
      /\ h.event \notin TextEvents => shown' = shown
      /\ h.event = "end" => reader' = "ended"
      /\ h.event = "error" => reader' = "errored"
      /\ h.event \notin {"end", "error"} => reader' = "reading"
      /\ sawMessageEnd' => sawMessageEnd \/ h.event = "message_end"
  BY <1>1, Receiving
<1>3. chan \in Seq(Events)
  BY DEF TextTypes
<1>4. /\ NoText(chan) => NoText(Tail(chan))
      /\ \A s, t : Last(chan, s, t) =>
           \/ h.event \notin TextEvents /\ Last(Tail(chan), s, t)
           \/ \A s2 : Last(Tail(chan), s2, t)
           \/ h = Event("message_replace", t) /\ NoText(Tail(chan))
      /\ EndsText(chan) => EndsText(Tail(chan)) /\ (h.event = "message_end" => NoText(Tail(chan)))
  BY <1>1, <1>2, <1>3, TakeNext
<1>5. NoText(<<>>) /\ EndsText(<<>>)
  BY DEF NoText, EndsText
<1>6. ASSUME reader' = "reading", NEW t, Last(chan, shown, t)
      PROVE  Last(chan', shown', t)
  <2>1. chan' = Tail(chan)
    BY <1>2, <1>6
  <2>2. CASE h.event \notin TextEvents /\ Last(Tail(chan), shown, t)
    BY <1>2, <2>1, <2>2
  <2>3. CASE \A s2 : Last(Tail(chan), s2, t)
    BY <2>1, <2>3
  <2>4. CASE h = Event("message_replace", t) /\ NoText(Tail(chan))
    <3>1. h.event = "message_replace" /\ h.text = t
      BY <2>4 DEF Event
    <3>2. shown' = t
      BY <1>2, <3>1
    <3> QED BY <2>1, <2>4, <3>2 DEF Last
  <2> QED BY <1>4, <1>6, <2>2, <2>3, <2>4
<1>7. EndsText(chan) => EndsText(chan')
  BY <1>2, <1>4, <1>5
<1>8. EndsText(chan) /\ (sawMessageEnd => NoText(chan)) /\ sawMessageEnd' => NoText(chan')
  BY <1>2, <1>4, <1>5
<1>9. reader' = "ended" => shown' = shown /\ (sawMessageEnd' => sawMessageEnd)
  <2>1. reader' = "ended" => h.event = "end"
    BY <1>2
  <2> QED BY <1>2, <2>1 DEF TextEvents
<1> QED BY <1>6, <1>7, <1>8, <1>9

LEMMA NothingComes ==
    ASSUME NEW c \in Seq(Events), NEW s, NEW t, NoText(c), Last(c, s, t)
    PROVE  s = t
<1>1. ASSUME NEW i \in 1..Len(c), c[i] = Event("message_replace", t)
      PROVE  FALSE
  <2>1. c[i].event = "message_replace"
    BY <1>1 DEF Event
  <2> QED BY <2>1 DEF NoText, TextEvents
<1> QED BY <1>1 DEF Last

LEMMA NoEndYet ==
    ASSUME EndInv, saved # "ended"
    PROVE  ~sawMessageEnd /\ EndsText(chan)
<1>1. ~sawMessageEnd /\ ~Announced(chan, "message_end")
  BY DEF EndInv
<1> QED BY <1>1 DEF EndsText, Announced

LEMMA ShieldedComesStep ==
    ASSUME ReportsInv, SetupInv, PlaceTypes, CountTypes, FlagTypes, TextTypes, WorkInv, AmountInv,
           ThreadInv, Shielded, ShieldedComes, slips' = {}, failures' = 0, saved' # "note",
           [Next]_vars
    PROVE  ShieldedComes'
<1>1. /\ streaming /\ slips = {} /\ failures = 0 /\ saved # "note"
      /\ Flagged(Raw(got)) /\ moderation # "none"
  <2>1. moderation # "none"
    BY NothingIsFlagged DEF Shielded, SetupInv
  <2> QED BY <2>1 DEF Shielded
<1>2. worker \notin {"whole", "wholeSent", "annotated", "history"}
  BY <1>1 DEF WorkInv
<1>3. saved \in {"ended", "stopped"} => worker \in Closing
  BY DEF WorkInv
<1>4. chan \in Seq(Events)
  BY DEF TextTypes
<1>5. direct => moderation = "direct" /\ reviewer \in {"flagged", "publishing", "replaced", "dead"}
  BY DEF ThreadInv
<1>6. ASSUME Silent \/ Adds("end", <<>>) \/ Adds("error", <<>>) \/ Adds("message_end", <<>>),
             OnTheWay' /\ direct' /\ reviewer' \in {"replaced", "dead"} =>
               OnTheWay /\ direct /\ reviewer \in {"replaced", "dead"},
             worker' \in {"replaced", "save"} =>
               worker \in {"replaced", "save"} /\ completion' = completion
      PROVE  ShieldedComes'
  <2>1. reader' = reader /\ \A t : Last(chan, shown, t) => Last(chan', shown', t)
    BY <1>6, ComingAdds
  <2> QED BY <1>6, <2>1 DEF ShieldedComes, Coming
<1>7. CASE Begin
  <2>1. Silent
    BY <1>7, Silences
  <2>2. (direct' <=> direct) /\ worker' = "model" /\ ~direct
    BY <1>7 DEF Begin, GoTo, WorkInv, NotBegun
  <2> QED BY <1>6, <2>1, <2>2
<1>8. CASE BeginFails \/ ModelFails \/ PubError \/ TokenStopped
  <2>1. Silent \/ Adds("end", <<>>) \/ Adds("error", <<>>)
    BY <1>8, Silences, Publishing
  <2>2. /\ worker' \in {"failing", "broken", "done", "stopSave"} /\ saved' = saved
        /\ worker \in {"begin", "model", "failing", "sent"}
    BY <1>8 DEF BeginFails, ModelFails, PubError, TokenStopped, GoTo, answerVars
  <2>3. ~OnTheWay'
    BY <1>3, <2>2 DEF OnTheWay, Closing
  <2> QED BY <1>6, <2>1, <2>2, <2>3
<1>9. CASE NewToken \/ ModelEnds \/ TokenDone
  <2>1. Silent
    BY <1>9, Silences
  <2>2. worker \in {"model", "sent"} /\ worker' \in {"interrupted", "token", "review", "model"}
    BY <1>1, <1>9 DEF NewToken, ModelEnds, TokenDone, GoTo
  <2>3. (direct' <=> direct) /\ (reviewer' = reviewer \/ reviewer' = "loop")
    BY <1>9 DEF NewToken, ModelEnds, TokenDone, reviewVars
  <2> QED BY <1>6, <2>1, <2>2, <2>3 DEF OnTheWay
<1>10. CASE PublishToken
  <2>1. /\ worker' = "sent" /\ (direct' <=> direct) /\ reviewer' = reviewer
        /\ slips' = IF direct /\ reviewer \in {"replaced", "dead"} THEN slips \cup {"trailing"}
                    ELSE slips
    BY <1>10 DEF PublishToken, GoTo, reviewVars
  <2>2. ~(direct /\ reviewer \in {"replaced", "dead"})
    BY <2>1
  <2> QED BY <2>1, <2>2 DEF ShieldedComes
<1>11. CASE StopSave
  <2>1. Silent
    BY <1>11, Silences
  <2>2. /\ worker' \in {"stopSave", "done"} /\ (saved' = "ended" => saved = "ended")
        /\ (direct' <=> direct) /\ reviewer' = reviewer
    BY <1>11 DEF StopSave, GoTo, reviewVars
  <2> QED BY <1>6, <2>1, <2>2 DEF OnTheWay
<1>12. CASE Save \/ Interrupt \/ PubMessageEnd \/ End
  <2>1. Silent \/ Adds("end", <<>>) \/ Adds("message_end", <<>>)
    BY <1>12, Silences, Publishing
  <2>2. /\ worker \in {"save", "interrupted", "messageEnd", "endSent"}
        /\ worker' \in {"messageEnd", "endSent", "done", "stopSave", "interrupted"}
        /\ (direct' <=> direct) /\ reviewer' = reviewer
    BY <1>12 DEF Save, Interrupt, PubMessageEnd, End, GoTo, reviewVars
  <2>3. OnTheWay
    BY <2>2 DEF OnTheWay, WorkInv
  <2> QED BY <1>6, <2>1, <2>2, <2>3
<1>13. CASE ReviewFlags
  <2>1. Adds("message_replace", completion')
    BY <1>1, <1>13, Publishing
  <2>2. /\ worker' = "replaced" /\ (direct' <=> direct) /\ reviewer' = reviewer
        /\ completion' = Shield(completion)
    BY <1>1, <1>13 DEF ReviewFlags, GoTo, reviewVars
  <2>3. completion' \in Texts
    BY TextsPublished
  <2>4. Event("message_replace", completion') \in Events
    BY <2>3 DEF Event, Events
  <2>5. reader' = reader /\ shown' = shown
        /\ (reader = "reading" => chan' = Append(chan, Event("message_replace", completion')))
    BY <2>1 DEF Adds
  <2>6. reader = "reading" => Last(chan', shown', completion')
    BY <1>4, <2>3, <2>4, <2>5, AppendReplace
  <2>7. direct' => completion' = <<Preset>>
    BY <1>5, <2>2 DEF Shield
  <2> QED BY <2>2, <2>5, <2>6, <2>7 DEF ShieldedComes, Coming
<1>14. CASE LastTextDone
  <2>1. Silent \/ Adds("end", <<>>)
    BY <1>14, Publishing
  <2>2. /\ worker = "replaced" /\ worker' \in {"done", "save"} /\ completion' = completion
        /\ (direct' <=> direct) /\ reviewer' = reviewer
    BY <1>2, <1>14 DEF LastTextDone, GoTo, reviewVars, answerVars
  <2> QED BY <1>6, <2>1, <2>2 DEF OnTheWay
<1>15. CASE TimeStep
  <2>1. Silent
    BY <1>15, Silences
  <2>2. /\ worker' = worker /\ completion' = completion /\ saved' = saved
        /\ (direct' <=> direct) /\ reviewer' = reviewer
    BY <1>15 DEF TimeStep, answerVarsAll, reviewVars, answerVars
  <2> QED BY <1>6, <2>1, <2>2 DEF OnTheWay
<1>16. CASE LeavingStep
  <2>1. reader' # "reading"
    BY <1>16 DEF LeavingStep
  <2> QED BY <2>1 DEF ShieldedComes, Coming
<1>17. CASE Receive
  <2>1. /\ worker' = worker /\ completion' = completion /\ saved' = saved
        /\ (direct' <=> direct) /\ reviewer' = reviewer
    BY <1>17 DEF Receive, reviewVars, answerVars
  <2>2. reader' = "reading" => \A t : Last(chan, shown, t) => Last(chan', shown', t)
    BY <1>1, <1>17, ComingTaken
  <2>3. reader = "reading"
    BY <1>17 DEF Receive
  <2>4. OnTheWay' <=> OnTheWay
    BY <2>1 DEF OnTheWay
  <2> QED BY <2>1, <2>2, <2>3, <2>4 DEF ShieldedComes, Coming
<1>18. CASE Look
  <2>1. Silent
    BY <1>18, Silences
  <2>2. /\ worker' = worker /\ completion' = completion
        /\ (direct' <=> direct) /\ reviewer = "loop"
    BY <1>18 DEF Look, answerVars
  <2>3. ~direct
    BY <1>5, <2>2
  <2> QED BY <1>6, <2>1, <2>2, <2>3
<1>19. CASE Reviewed
  <2>1. Silent
    BY <1>19, Silences
  <2>2. /\ worker' = worker /\ completion' = completion /\ reviewer' \in {"flagged", "loop"}
    BY <1>19 DEF Reviewed, answerVars
  <2> QED BY <1>6, <2>1, <2>2
<1>20. CASE Decide
  <2>1. Silent
    BY <1>20, Silences
  <2>2. worker' = worker /\ completion' = completion /\ (running => reviewer' = "publishing")
    BY <1>20 DEF Decide, answerVars
  <2>3. running
    BY <1>20 DEF Decide
  <2> QED BY <1>6, <2>1, <2>2, <2>3
<1>21. CASE Replace
  <2>1. Adds("message_replace", outcome)
    BY <1>21, Publishing
  <2>2. /\ worker' = worker /\ (direct' <=> direct) /\ reviewer = "publishing"
    BY <1>21 DEF Replace
  <2>3. running
    BY <1>21 DEF Replace
  <2>4. worker \notin {"replaced", "save"}
    BY <2>2, <2>3 DEF ThreadInv
  <2>5. Event("message_replace", outcome) \in Events /\ outcome \in Texts
    BY TextsPublished DEF Event, Events
  <2>6. reader' = reader
        /\ (reader = "reading" => chan' = Append(chan, Event("message_replace", outcome)))
    BY <2>1 DEF Adds
  <2>7. reader = "reading" => Last(chan', shown', outcome)
    BY <1>4, <2>5, <2>6, AppendReplace
  <2>8. direct => outcome = <<Preset>>
    BY <1>5, <2>2 DEF ThreadInv
  <2> QED BY <2>2, <2>4, <2>6, <2>7, <2>8 DEF ShieldedComes, Coming
<1>22. CASE ReplaceDone
  <2>1. Silent \/ Adds("end", <<>>)
    BY <1>22, Publishing
  <2>2. /\ worker' = worker /\ completion' = completion /\ saved' = saved
        /\ (direct' <=> direct) /\ reviewer = "replaced"
    BY <1>22 DEF ReplaceDone, answerVars
  <2> QED BY <1>6, <2>1, <2>2 DEF OnTheWay
<1>23. ~ReviewPasses
  <2>1. worker = "review" => Flagged(completion)
    BY <1>1 DEF WorkInv
  <2>2. failures + 1 # 0
    BY <1>1
  <2> QED BY <1>1, <2>1, <2>2 DEF ReviewPasses, ReviewFails
<1>24. ~(BeginAnnotation \/ AnnotationEnd \/ AddAnnotationHistory \/ PublishWhole)
  BY <1>2 DEF BeginAnnotation, AnnotationEnd, AddAnnotationHistory, PublishWhole
<1> QED
  BY <1>7, <1>8, <1>9, <1>10, <1>11, <1>12, <1>13, <1>14, <1>15, <1>16, <1>17, <1>18, <1>19,
     <1>20, <1>21, <1>22, <1>23, <1>24, Steps
  DEF PlaceTypes

LEMMA ShieldedKeptStep ==
    ASSUME ReportsInv, SetupInv, PlaceTypes, CountTypes, FlagTypes, TextTypes, WorkInv,
           ThreadInv, EndInv, EndInv', Shielded, ShieldedComes, ShieldedKept,
           slips' = {}, saved' # "note", [Next]_vars
    PROVE  ShieldedKept'
<1>1. streaming /\ saved # "note"
  BY DEF Shielded
<1>2. chan \in Seq(Events)
  BY DEF TextTypes
<1>3. CASE saved' # "ended"
  <2>1. ~sawMessageEnd' /\ ~Announced(chan', "message_end")
    BY <1>3 DEF EndInv
  <2>2. EndsText(chan')
    BY <2>1 DEF EndsText, Announced
  <2> QED BY <1>3, <2>1, <2>2 DEF ShieldedKept
<1>4. CASE saved # "ended" /\ saved' = "ended"
  <2>1. Save \/ Interrupt
    BY <1>4, SavedStays
  <2>2. ~sawMessageEnd /\ EndsText(chan)
    BY <1>4, NoEndYet
  <2>3. Silent
    BY <2>1, Silences
  <2>4. ~sawMessageEnd' /\ EndsText(chan')
    BY <2>2, <2>3 DEF Silent
  <2>5. CASE Save
    <3>1. worker = "save" /\ stored' = AsKept(completion) /\ completion' = completion
          /\ (interrupted' <=> interrupted)
      BY <2>5 DEF Save
    <3>2. ~interrupted
      BY <3>1 DEF ReportsInv, Unreported
    <3>3. (Coming(completion))'
      BY <2>3, <3>1 DEF ShieldedComes, Coming, Silent
    <3> QED BY <2>4, <3>1, <3>2, <3>3 DEF ShieldedKept, Coming
  <2>6. CASE Interrupt
    <3>1. stored' = AsKept(<<Preset>>) /\ completion' = <<Preset>> /\ interrupted'
      BY <2>6 DEF Interrupt
    <3> QED BY <2>4, <3>1 DEF ShieldedKept
  <2> QED BY <2>1, <2>5, <2>6
<1>5. CASE saved = "ended" /\ saved' = "ended"
  <2>1. /\ stored = AsKept(completion)
        /\ interrupted => completion = <<Preset>>
        /\ ~interrupted => Coming(completion)
        /\ sawMessageEnd => NoText(chan)
        /\ EndsText(chan)
        /\ reader = "ended" /\ sawMessageEnd =>
             shown = completion \/ (interrupted /\ reviewer \in {"flagged", "publishing"})
    BY <1>5 DEF ShieldedKept
  <2>2. worker \in Closing /\ (reviewer \in {"none", "dead"} \/ ~running)
    BY <1>5 DEF WorkInv, ThreadInv
  <2>3. worker \in {"interrupted", "stopSave"} => interrupted
    BY <1>5 DEF WorkInv
  <2>4. interrupted => direct /\ reviewer \in {"flagged", "publishing", "replaced", "dead"}
    BY DEF ThreadInv
  <2>5. OnTheWay
    BY <1>5 DEF OnTheWay
  <2>6. ~Decide
    BY <2>2 DEF Decide
  <2>7. ~Replace
    BY <2>2 DEF Replace
  <2>8. ASSUME stored' = stored, completion' = completion, interrupted' <=> interrupted,
               reviewer \in {"flagged", "publishing"} => reviewer' = reviewer,
               Silent \/ Adds("end", <<>>) \/ Adds("message_end", <<>>)
        PROVE  ShieldedKept'
    <3>1. /\ reader' = reader /\ shown' = shown /\ (sawMessageEnd' <=> sawMessageEnd)
          /\ \A t : Last(chan, shown, t) => Last(chan', shown', t)
          /\ NoText(chan) => NoText(chan')
          /\ EndsText(chan) => EndsText(chan')
      BY <2>8, ComingAdds
    <3>2. ~interrupted => (Coming(completion))'
      BY <2>1, <2>8, <3>1 DEF Coming
    <3> QED BY <2>1, <2>8, <3>1, <3>2 DEF ShieldedKept, Coming
  <2>9. CASE Interrupt
    <3>1. /\ stored' = AsKept(<<Preset>>) /\ completion' = <<Preset>> /\ interrupted'
          /\ worker = "interrupted" /\ reviewer' = reviewer
      BY <2>9 DEF Interrupt, reviewVars
    <3>2. Silent
      BY <2>9, Silences
    <3> QED BY <2>1, <2>3, <2>8, <3>1, <3>2
  <2>10. CASE StopSave
    <3>1. /\ stored' = AsKept(completion) /\ completion' = completion /\ (interrupted' <=> interrupted)
          /\ reviewer' = reviewer
      BY <2>10 DEF StopSave, reviewVars
    <3>2. Silent
      BY <2>10, Silences
    <3> QED BY <2>1, <2>8, <3>1, <3>2
  <2>11. CASE PubMessageEnd \/ End
    <3>1. /\ stored' = stored /\ completion' = completion /\ (interrupted' <=> interrupted)
          /\ reviewer' = reviewer
      BY <2>11 DEF PubMessageEnd, End, reviewVars, answerVars
    <3>2. Adds("end", <<>>) \/ Adds("message_end", <<>>)
      BY <2>11, Publishing
    <3> QED BY <2>8, <3>1, <3>2
  <2>12. CASE Look \/ Reviewed \/ ReplaceDone
    <3>1. reviewer \in {"loop", "calling", "replaced"}
      BY <2>12 DEF Look, Reviewed, ReplaceDone
    <3>2. stored' = stored /\ completion' = completion /\ (interrupted' <=> interrupted)
      BY <2>12 DEF Look, Reviewed, ReplaceDone, answerVars
    <3>3. Silent \/ Adds("end", <<>>)
      BY <2>12, Silences, Publishing
    <3> QED BY <2>8, <3>1, <3>2, <3>3
  <2>13. CASE TimeStep
    <3>1. /\ stored' = stored /\ completion' = completion /\ (interrupted' <=> interrupted)
          /\ reviewer' = reviewer
      BY <2>13 DEF TimeStep, answerVarsAll, reviewVars, answerVars
    <3>2. Silent
      BY <2>13, Silences
    <3> QED BY <2>8, <3>1, <3>2
  <2>14. CASE LeavingStep
    <3>1. /\ stored' = stored /\ completion' = completion /\ (interrupted' <=> interrupted)
          /\ reviewer' = reviewer /\ shown' = shown /\ (sawMessageEnd' <=> sawMessageEnd)
          /\ chan' = <<>> /\ reader' # "reading" /\ (reader' = "ended" => reader = "ended")
      BY <2>14 DEF LeavingStep, reviewVars, answerVars
    <3>2. NoText(<<>>) /\ EndsText(<<>>)
      BY DEF NoText, EndsText
    <3> QED BY <2>1, <3>1, <3>2 DEF ShieldedKept, Coming
  <2>15. CASE Receive
    <3>1. /\ stored' = stored /\ completion' = completion /\ (interrupted' <=> interrupted)
          /\ reviewer' = reviewer /\ reader = "reading"
      BY <2>15 DEF Receive, reviewVars, answerVars
    <3>2. /\ reader' = "reading" => \A t : Last(chan, shown, t) => Last(chan', shown', t)
          /\ EndsText(chan')
          /\ sawMessageEnd' => NoText(chan')
          /\ reader' = "ended" => shown' = shown /\ (sawMessageEnd' => sawMessageEnd)
      BY <1>1, <2>1, <2>15, ComingTaken
    <3>3. ASSUME reader' = "ended", sawMessageEnd',
                 ~(interrupted /\ reviewer \in {"flagged", "publishing"})
          PROVE  shown' = completion
      <4>1. shown' = shown /\ NoText(chan)
        BY <2>1, <3>2, <3>3
      <4>2. Last(chan, shown, completion)
        <5>1. CASE interrupted
          <6>1. Coming(<<Preset>>)
            BY <2>4, <2>5, <3>3, <5>1 DEF ShieldedComes
          <6> QED BY <2>1, <3>1, <5>1, <6>1 DEF Coming
        <5>2. CASE ~interrupted
          BY <2>1, <3>1, <5>2 DEF Coming
        <5> QED BY <5>1, <5>2
      <4> QED BY <1>2, <4>1, <4>2, NothingComes
    <3>4. ~interrupted => (Coming(completion))'
      BY <2>1, <3>1, <3>2 DEF Coming
    <3> QED BY <2>1, <3>1, <3>2, <3>3, <3>4 DEF ShieldedKept, Coming
  <2>16. ~(\/ Begin \/ BeginFails \/ BeginAnnotation \/ NewToken \/ ModelFails \/ ModelEnds
           \/ AnnotationEnd \/ AddAnnotationHistory \/ PublishToken \/ TokenDone \/ TokenStopped)
    BY <2>2 DEF Closing, Begin, BeginFails, BeginAnnotation, NewToken, ModelFails, ModelEnds,
       AnnotationEnd, AddAnnotationHistory, PublishToken, TokenDone, TokenStopped
  <2>17. ~(PubError \/ ReviewFlags \/ ReviewPasses \/ PublishWhole \/ LastTextDone \/ Save)
    BY <2>2 DEF Closing, PubError, ReviewFlags, ReviewPasses, PublishWhole, LastTextDone, Save
  <2> QED
    BY <2>6, <2>7, <2>9, <2>10, <2>11, <2>12, <2>13, <2>14, <2>15, <2>16, <2>17, Steps
    DEF PlaceTypes
<1> QED BY <1>3, <1>4, <1>5, SavedStays

\* A text that is flagged comes shielded and is kept so, unless the threads miss each other.
LEMMA ShieldedStep ==
    ASSUME ReportsInv, SetupInv, PlaceTypes, CountTypes, FlagTypes, TextTypes, WorkInv, AmountInv,
           ThreadInv, EndInv, EndInv', NoteInv, ShieldedInv, [Next]_vars
    PROVE  ShieldedInv'
<1>1. ASSUME Shielded'
      PROVE  (ShieldedComes /\ ShieldedKept)'
  <2>1. slips' = {} /\ failures' = 0 /\ saved' # "note"
    BY <1>1 DEF Shielded
  <2>2. CASE Shielded
    BY <2>1, <2>2, ShieldedComesStep, ShieldedKeptStep DEF ShieldedInv
  <2>3. CASE NewToken /\ ~Shielded
    <3>1. /\ worker = "model" /\ worker' \in {"token", "interrupted"} /\ saved' = saved
          /\ (direct' <=> direct)
      BY <2>3 DEF NewToken, GoTo, answerVars
    <3>2. saved # "ended"
      BY <3>1 DEF WorkInv, Closing
    <3>3. ~direct
      <4>1. slips = {} /\ streaming /\ saved # "note" /\ failures = 0
        BY <1>1, ShieldedStays
      <4>2. ~Flagged(Raw(got))
        BY <2>3, <4>1 DEF Shielded
      <4> QED BY <4>2 DEF ThreadInv
    <3>4. ~sawMessageEnd' /\ EndsText(chan')
      BY <2>3, <3>2, NoEndYet, Silences DEF Silent
    <3> QED BY <3>1, <3>2, <3>3, <3>4 DEF ShieldedComes, ShieldedKept
  <2> QED BY <1>1, <2>2, <2>3, ShieldedStays
<1> QED BY <1>1 DEF ShieldedInv

(* The invariant as a whole *)

KeptInv ==
    WorkInv /\ AmountInv /\ ThreadInv /\ EndInv /\ NoteInv /\ BlockInv /\ PlainInv /\ ShieldedInv

LEMMA InitiallyKept == Init => KeptInv
<1> SUFFICES ASSUME Init
             PROVE  KeptInv
  OBVIOUS
<1>1. NotBegun /\ worker = "begin" /\ ~interrupted /\ looked = 0
  BY DEF Init, NotBegun
<1>2. ~Announced(chan, "message_end") /\ ~Announced(chan, "end") /\ NoText(chan) /\ EndsText(chan)
      /\ \A t : OnlyText(chan, t)
  BY <1>1 DEF NotBegun, Announced, NoText, EndsText, OnlyText
<1>3. WorkInv
  BY <1>1 DEF WorkInv, NotBegun
<1>4. AmountInv
  BY <1>1 DEF AmountInv, NotBegun
<1>5. ThreadInv
  BY <1>1 DEF ThreadInv, NotBegun
<1>6. EndInv
  BY <1>1, <1>2 DEF EndInv, NotBegun
<1>7. NoteInv
  BY <1>1 DEF NoteInv, NotBegun
<1>8. BlockInv
  BY <1>1, <1>2 DEF BlockInv, NotBegun, Answered, Closing
<1>9. PlainPlaces
  BY <1>1, RawIs DEF PlainPlaces, NotBegun
<1>10. PlainChannel
  <2>1. shown = Raw(0) /\ Sent = 0 /\ Len(chan) = 0
    BY <1>1, RawIs DEF NotBegun, Sent
  <2>2. InOrder(chan, 0, 0)
    BY <1>2, <2>1 DEF InOrder
  <2>3. reader # "ended"
    BY <1>1 DEF NotBegun
  <2>4. 0 \in Nat /\ Len(chan) = Sent - 0
    BY <2>1
  <2> QED BY <1>2, <2>1, <2>2, <2>3, <2>4 DEF PlainChannel
<1>11. ShieldedComes /\ ShieldedKept
  BY <1>1, <1>2 DEF ShieldedComes, ShieldedKept, NotBegun
<1> QED
  BY <1>3, <1>4, <1>5, <1>6, <1>7, <1>8, <1>9, <1>10, <1>11 DEF KeptInv, PlainInv, ShieldedInv

LEMMA KeptStep ==
    ASSUME ReportsInv, SetupInv, PlaceTypes, CountTypes, FlagTypes, TextTypes, KeptInv, [Next]_vars
    PROVE  KeptInv'
<1>1. /\ WorkInv /\ AmountInv /\ ThreadInv /\ EndInv /\ NoteInv /\ BlockInv
      /\ PlainInv /\ ShieldedInv
  BY DEF KeptInv
<1>2. WorkInv' /\ AmountInv' /\ ThreadInv'
  BY <1>1, WorkStep, AmountStep, ThreadStep
<1>3. EndInv' /\ NoteInv' /\ BlockInv'
  BY <1>1, EndStep, NoteStep, BlockStep
<1>4. PlainInv'
  BY <1>1, PlainStep
<1>5. ShieldedInv'
  BY <1>1, <1>3, ShieldedStep
<1> QED BY <1>2, <1>3, <1>4, <1>5 DEF KeptInv

LEMMA KeptInvariant ==
    Spec => [](CountTypes /\ SetupInv /\ KeptInv)
<1>1. TypeOK => PlaceTypes /\ CountTypes /\ FlagTypes /\ TextTypes
  <2>1. TypeOK => PlaceTypes /\ CountTypes /\ FlagTypes
    BY DEF TypeOK, PlaceTypes, CountTypes, FlagTypes
  <2>2. TypeOK => TextTypes
    BY DEF TypeOK, TextTypes, Events
  <2> QED BY <2>1, <2>2
<1>2. ReportsInv /\ SetupInv /\ TypeOK /\ KeptInv /\ [Next]_vars => KeptInv'
  BY <1>1, KeptStep
<1>3. TypeOK => CountTypes
  BY <1>1
<1> QED
  BY <1>2, <1>3, InitiallyKept, StreamInvariant, TypeCorrect, PTL DEF Spec

\* The client has one token more than was saved.
ButTheLast(text) ==
    /\ text # <<>> /\ text[Len(text)] = got
    /\ stored = AsKept(SubSeq(text, 1, Len(text) - 1))

\* An unflagged stream that was read to its end
LEMMA PlainIsKept ==
    ASSUME CountTypes, PlainInv, Plain, WorkerIsDone, reader = "ended"
    PROVE  \/ saved = "ended" /\ stored = AsKept(shown)
           \/ saved = "stopped" /\ ButTheLast(shown)
<1>1. Over /\ shown = Raw(got) /\ worker = "done"
  BY DEF PlainInv, PlainChannel, WorkerIsDone
<1>2. CASE saved = "ended"
  BY <1>1, <1>2 DEF PlainInv, PlainPlaces
<1>3. CASE saved = "stopped"
  <2>1. got >= 1 /\ stored = AsKept(Raw(got - 1))
    BY <1>3 DEF PlainInv, PlainPlaces
  <2>2. got - 1 \in Nat /\ (got - 1) + 1 = got
    BY <2>1, BoundsAssumption DEF CountTypes
  <2>3. Raw(got) # <<>> /\ Len(Raw(got)) = got /\ Raw(got)[got] = got
    BY <2>1, <2>2 DEF Raw
  <2>4. SubSeq(Raw(got), 1, got - 1) = Raw(got - 1)
    BY <2>1, <2>2 DEF Raw
  <2> QED BY <1>1, <1>3, <2>1, <2>3, <2>4 DEF ButTheLast
<1> QED BY <1>1, <1>2, <1>3 DEF Over

(* Without moderation of a stream, what the client has been given in full is what      *)
(* save_message keeps, but for the white space around it and the braces of variables,  *)
(* or that and the one token whose publication found the stop, for any length of the   *)
(* answer, whichever tokens are blank or hold variables, and wherever the stop, the    *)
(* countdown and the reader fall.                                                      *)
THEOREM AnswersAreKeptAsShown == Spec => []KeptAsShown
<1>1. CountTypes /\ SetupInv /\ KeptInv => KeptAsShown
  <2> SUFFICES ASSUME CountTypes, KeptInv, WorkerIsDone, reader = "ended",
                      moderation = "none" \/ ~streaming, "again" \notin slips, SetupInv
               PROVE  stored = Kept(shown) \/ (saved = "stopped" /\ ButTheLast(shown))
    BY DEF KeptAsShown, ButTheLast
  <2>1. CASE saved = "note"
    BY <2>1 DEF KeptInv, NoteInv, Kept
  <2>2. CASE saved # "note" /\ ~streaming
    BY <2>2 DEF KeptInv, BlockInv, Kept
  <2>3. CASE saved # "note" /\ streaming
    <3>1. Plain
      BY <2>3, NothingIsFlagged DEF SetupInv, Plain
    <3> QED BY <2>3, <3>1, PlainIsKept DEF KeptInv, Kept
  <2> QED BY <2>1, <2>2, <2>3
<1> QED
  BY <1>1, KeptInvariant, PTL

(* A message that was moderated and read to its end shows what is kept, in the same    *)
(* sense, for any length of the answer, any buffer and any tokens that are flagged,    *)
(* unless the two threads missed each other in one of the three ways or a review got   *)
(* no answer.                                                                          *)
THEOREM ModeratedAnswersAreKept == Spec => []ModeratedAsShown
<1>1. CountTypes /\ SetupInv /\ KeptInv => ModeratedAsShown
  <2> SUFFICES ASSUME CountTypes, KeptInv, WorkerIsDone, ReviewerIsDone, reader = "ended",
                      sawMessageEnd, saved = "ended", slips = {}, failures = 0
               PROVE  stored = AsKept(shown)
    BY DEF ModeratedAsShown
  <2>1. CASE ~streaming
    BY <2>1 DEF KeptInv, BlockInv
  <2>2. CASE streaming /\ ~Flagged(Raw(got))
    <3>1. Plain
      BY <2>2 DEF Plain
    <3> QED BY <3>1, PlainIsKept DEF KeptInv
  <2>3. CASE streaming /\ Flagged(Raw(got))
    <3>1. Shielded
      BY <2>3 DEF Shielded
    <3> QED BY <3>1 DEF KeptInv, ShieldedInv, ShieldedKept, ReviewerIsDone
  <2> QED BY <2>1, <2>2, <2>3
<1> QED
  BY <1>1, KeptInvariant, PTL

=============================================================================
