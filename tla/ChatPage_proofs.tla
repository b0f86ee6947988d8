--------------------------- MODULE ChatPage_proofs ---------------------------
(***************************************************************************)
(* What holds of the chat pages for every set of pages and every number of *)
(* conversations, messages and clicks: types, that one answer is under way *)
(* at a time, that a page never waits for nothing, that it shows the       *)
(* conversation it is on, that an answer given up stays silent.            *)
(***************************************************************************)
EXTENDS ChatPage, FiniteSetTheorems, FunctionTheorems, WellFoundedInduction, TLAPS

SendType == [Sends -> [phase : Phases, from : Ids, to : Ids]]

\* What a step may make of the phases.
LEMMA ConstantTypes ==
    /\ Existing \in Nat /\ MaxSends \in Nat /\ MaxClicks \in Nat
    /\ Sends = 1..MaxSends
    /\ Sends \subseteq 0..MaxSends
    /\ 1..Existing \subseteq Convs
    /\ Convs \subseteq Ids /\ New \in Ids /\ Blank \in Ids
    /\ New # Blank /\ New \notin Convs
    /\ \A k \in Sends : Existing + k \in Convs
BY BoundsAssumption DEF Sends, Convs, Ids, New, Blank

LEMMA PhaseNames ==
    /\ "unsent" \in Phases /\ "sent" \in Phases /\ "aborted" \in Phases
    /\ "streaming" \in Phases /\ "naming" \in Phases /\ "suggesting" \in Phases
    /\ "over" \in Phases /\ "broken" \in Phases
BY DEF Phases

\* The conversation of a message on the server is a conversation.
LEMMA ServerConvTypes ==
    ASSUME TypesButList, NEW k \in Sends
    PROVE  ServerConv(k) \in Convs
BY ConstantTypes DEF ServerConv

\* A message gets a new phase and the others keep theirs.
LEMMA ToResult ==
    ASSUME TypesButList, NEW k \in Sends, NEW p \in Phases, To(k, p)
    PROVE  /\ sends' \in SendType
           /\ sends'[k].phase = p /\ sends'[k].to = sends[k].to
           /\ sends'[k].from = sends[k].from
           /\ \A j \in Sends \ {k} : sends'[j] = sends[j]
<1>1. sends' = [sends EXCEPT ![k] = [sends[k] EXCEPT !.phase = p]]
  BY DEF To
<1>2. sends \in SendType
  BY DEF TypesButList, SendType
<1>3. sends[k] \in [phase : Phases, from : Ids, to : Ids]
  BY <1>2 DEF SendType
<1>4. [sends[k] EXCEPT !.phase = p] \in [phase : Phases, from : Ids, to : Ids]
  BY <1>3
<1>5. /\ [sends[k] EXCEPT !.phase = p].phase = p
      /\ [sends[k] EXCEPT !.phase = p].to = sends[k].to
      /\ [sends[k] EXCEPT !.phase = p].from = sends[k].from
  BY <1>3
<1> QED
  BY <1>1, <1>2, <1>4, <1>5 DEF SendType

\* "New chat": nothing is in flight any more of the request whose controller is kept.
LEMMA NewChatResult ==
    ASSUME TypesButList, createNewChat
    PROVE  /\ sends' \in SendType /\ ~responding' /\ givenUp' \in 0..MaxSends
           /\ InFlight' = InFlight \ {aborter}
<1>0. sends \in SendType /\ givenUp \in 0..MaxSends
  BY DEF TypesButList, SendType
<1>1. CASE aborter \in InFlight
  <2> DEFINE p == IF sends[aborter].phase = "sent" THEN "aborted" ELSE "over"
             r == [sends[aborter] EXCEPT !.phase = p]
  <2>1. aborter \in Sends /\ aborter \in 0..MaxSends
    BY <1>1, ConstantTypes DEF InFlight
  <2>2. p \in Phases /\ p \notin {"sent", "streaming"}
    BY PhaseNames
  <2>3. sends' = [sends EXCEPT ![aborter] = r]
    BY <1>1 DEF createNewChat, Cancelled
  <2>4. sends[aborter] \in [phase : Phases, from : Ids, to : Ids]
    BY <1>0, <2>1 DEF SendType
  <2>5. r \in [phase : Phases, from : Ids, to : Ids] /\ r.phase = p
    BY <2>2, <2>4
  <2> HIDE DEF r, p
  <2>6. sends' \in SendType /\ sends'[aborter].phase = p
        /\ \A j \in Sends \ {aborter} : sends'[j] = sends[j]
    BY <1>0, <2>1, <2>3, <2>5 DEF SendType
  <2>7. InFlight' = InFlight \ {aborter}
    BY <2>1, <2>2, <2>6 DEF InFlight
  <2> QED
    BY <1>0, <2>1, <2>6, <2>7 DEF createNewChat
<1>2. CASE aborter \notin InFlight
  BY <1>0, <1>2 DEF createNewChat, Cancelled, InFlight
<1> QED
  BY <1>1, <1>2

\* Going to a conversation keeps the types of what it changes.
LEMMA GoToTypes ==
    ASSUME TypesButList, NEW id \in Ids, NEW l, NEW answering, GoTo(id, l, answering)
    PROVE  /\ curr' \in Ids /\ loads' \subseteq Ids \ {New} /\ slipped' \in BOOLEAN
           /\ earlier' \subseteq Sends
BY DEF GoTo, TypesButList, Sent

-----------------------------------------------------------------------------
(* Types *)

LEMMA ClickTypes ==
    ASSUME TypesButList, Click
    PROVE  clicks' \in 0..MaxClicks
BY ConstantTypes DEF Click, TypesButList

LEMMA SettleTypes ==
    ASSUME TypesButList, NEW k \in Sends, Settle(k), early' \in BOOLEAN
    PROVE  TypesButList'
<1>1. sends[k].to \in Ids
  BY DEF TypesButList
<1>2. /\ curr' \in Ids /\ loads' \subseteq Ids \ {New} /\ slipped' \in BOOLEAN
      /\ earlier' \subseteq Sends
  <2>1. GoTo(sends[k].to, list, responding')
    BY DEF Settle
  <2> QED BY <1>1, <2>1, GoToTypes
<1>3. sends' \in SendType
  BY ToResult, PhaseNames DEF Settle
<1>4. responding' \in BOOLEAN /\ becauseOfNew' \in BOOLEAN /\ chatStarted' \in BOOLEAN
  BY DEF Settle, TypesButList
<1>5. UNCHANGED <<shouldReload, inCurr, hasStopped, task, userVars>>
  BY DEF Settle
<1> QED
  BY <1>2, <1>3, <1>4, <1>5 DEF TypesButList, userVars, SendType

LEMMA OnErrorTypes ==
    ASSUME TypesButList, NEW k \in Sends, OnError(k)
    PROVE  TypesButList'
<1>1. sends' \in SendType
  BY ToResult, PhaseNames DEF OnError
<1> QED
  BY <1>1 DEF OnError, TypesButList, userVars, SendType

LEMMA TypesKept ==
    ASSUME TypesButList, [Next]_vars
    PROVE  TypesButList'
<1>0. SUFFICES ASSUME Next PROVE TypesButList'
  BY DEF TypesButList, vars, pageVars, listVars, answerVars, userVars
<1>1. CASE StartChat
  <2>1. sends' \in SendType /\ responding' = FALSE /\ givenUp' \in 0..MaxSends
    BY <1>1, NewChatResult DEF StartChat, createNewChat
  <2>2. clicks' \in 0..MaxClicks
    BY <1>1, ClickTypes DEF StartChat
  <2>3. /\ becauseOfNew' = TRUE /\ chatStarted' = TRUE /\ slipped' = FALSE
        /\ earlier' \subseteq Sends
        /\ UNCHANGED <<page, curr, shouldReload, loads, early, inCurr, hasStopped, task,
                       aborter, stopping>>
    BY <1>1 DEF StartChat, Sent
  <2> QED
    BY <2>1, <2>2, <2>3 DEF TypesButList, SendType
<1>2. CASE NewChat
  <2>1. GoTo(New, list, FALSE) /\ createNewChat
    BY <1>2 DEF NewChat
  <2>2. /\ curr' \in Ids /\ loads' \subseteq Ids \ {New} /\ slipped' \in BOOLEAN
        /\ earlier' \subseteq Sends
    BY <2>1, GoToTypes, ConstantTypes
  <2>3. sends' \in SendType /\ responding' = FALSE /\ givenUp' \in 0..MaxSends
    BY <2>1, NewChatResult DEF createNewChat
  <2>4. clicks' \in 0..MaxClicks
    BY <1>2, ClickTypes DEF NewChat
  <2>5. /\ becauseOfNew' \in BOOLEAN /\ chatStarted' \in BOOLEAN /\ shouldReload' \in BOOLEAN
        /\ UNCHANGED <<page, early, inCurr, hasStopped, task, aborter, stopping>>
    BY <1>2 DEF NewChat, TypesButList
  <2> QED
    BY <2>2, <2>3, <2>4, <2>5 DEF TypesButList, SendType
<1>3. CASE Reload
  <2>1. GoTo(New, list, FALSE) /\ createNewChat
    BY <1>3 DEF Reload
  <2>2. /\ curr' \in Ids /\ loads' \subseteq Ids \ {New} /\ slipped' \in BOOLEAN
        /\ earlier' \subseteq Sends
    BY <2>1, GoToTypes, ConstantTypes
  <2>3. sends' \in SendType /\ responding' = FALSE /\ givenUp' \in 0..MaxSends
    BY <2>1, NewChatResult DEF createNewChat
  <2>4. clicks' \in 0..MaxClicks
    BY <1>3, ClickTypes DEF Reload
  <2>5. /\ becauseOfNew' \in BOOLEAN /\ chatStarted' \in BOOLEAN /\ shouldReload' \in BOOLEAN
        /\ UNCHANGED <<page, early, inCurr, hasStopped, task, aborter, stopping>>
    BY <1>3 DEF Reload, TypesButList
  <2> QED
    BY <2>2, <2>3, <2>4, <2>5 DEF TypesButList, SendType
<1>4. CASE Stop
  <2>1. clicks' \in 0..MaxClicks
    BY <1>4, ClickTypes DEF Stop
  <2>2. /\ stopping' = TRUE
        /\ UNCHANGED <<pageVars, listVars, answerVars, page, aborter, givenUp, sends>>
    BY <1>4 DEF Stop
  <2> QED
    BY <2>1, <2>2 DEF TypesButList, pageVars, listVars, answerVars
<1>5. ASSUME NEW c \in Convs, Switch(c) PROVE TypesButList'
  <2>1. GoTo(c, list, responding) /\ c \in Ids
    BY <1>5, ConstantTypes DEF Switch
  <2>2. /\ curr' \in Ids /\ loads' \subseteq Ids \ {New} /\ slipped' \in BOOLEAN
        /\ earlier' \subseteq Sends
    BY <2>1, GoToTypes
  <2>3. clicks' \in 0..MaxClicks
    BY <1>5, ClickTypes DEF Switch
  <2>4. becauseOfNew' = FALSE
        /\ UNCHANGED <<chatStarted, shouldReload, answerVars, page, aborter, stopping,
                       givenUp, sends>>
    BY <1>5 DEF Switch
  <2> QED
    BY <2>2, <2>3, <2>4 DEF TypesButList, answerVars
<1>6. ASSUME NEW k \in Sends, Send(k) PROVE TypesButList'
  <2> DEFINE r == [phase |-> "sent", from |-> curr,
                   to |-> IF page = "bot" THEN Blank
                          ELSE IF curr = Blank THEN New ELSE curr]
  <2>1. r \in [phase : Phases, from : Ids, to : Ids]
    BY PhaseNames, ConstantTypes DEF TypesButList
  <2>2. sends' = [sends EXCEPT ![k] = r]
    BY <1>6 DEF Send
  <2> HIDE DEF r
  <2>3. sends' \in SendType
    BY <2>1, <2>2 DEF TypesButList, SendType
  <2>4. k \in 0..MaxSends
    BY ConstantTypes
  <2> QED
    BY <1>6, <2>3, <2>4 DEF Send, TypesButList, SendType, pageVars
<1>7. ASSUME NEW k \in Sends, Respond(k) PROVE TypesButList'
  <2>1. sends' \in SendType
    BY <1>7, ToResult, PhaseNames DEF Respond
  <2> QED
    BY <1>7, <2>1
    DEF Respond, TypesButList, SendType, pageVars, listVars, answerVars, userVars
<1>a. ASSUME NEW k \in Sends, LookAndShow(k)
      PROVE  /\ UNCHANGED <<loads, earlier>>
             /\ inCurr' \in BOOLEAN /\ slipped' \in BOOLEAN
  BY <1>a DEF LookAndShow, Show, WentOn, TypesButList, listVars
<1>b. ASSUME NEW k \in Sends, ShowAnywhere(k)
      PROVE  UNCHANGED <<loads, earlier>> /\ slipped' \in BOOLEAN
  BY <1>b DEF ShowAnywhere, Show, WentOn, TypesButList
<1>8. ASSUME NEW k \in Sends, Data(k) PROVE TypesButList'
  <2>1. sends' \in SendType
    BY <1>8, ServerConvTypes, ConstantTypes DEF Data, TypesButList, SendType
  <2>2. task' \in 0..MaxSends
    BY <1>8, ConstantTypes DEF Data
  <2> QED
    BY <1>8, <1>a, <2>1, <2>2 DEF Data, TypesButList, SendType, pageVars, userVars
<1>9. ASSUME NEW k \in Sends, Thought(k) PROVE TypesButList'
  BY <1>9, <1>a DEF Thought, TypesButList, pageVars, userVars
<1>10. ASSUME NEW k \in Sends, MessageEnd(k) PROVE TypesButList'
  BY <1>10, <1>b DEF MessageEnd, TypesButList, pageVars, answerVars, userVars
<1>11. ASSUME NEW k \in Sends, AnnotationReply(k) PROVE TypesButList'
  <2>1. sends' \in SendType
    BY <1>11, ServerConvTypes, ConstantTypes DEF AnnotationReply, TypesButList, SendType
  <2> QED
    BY <1>11, <1>b, <2>1
    DEF AnnotationReply, TypesButList, SendType, pageVars, answerVars, userVars
<1>12. ASSUME NEW k \in Sends, Complete(k) PROVE TypesButList'
  <2>1. CASE becauseOfNew
    <3>1. sends' \in SendType
      BY <1>12, <2>1, ToResult, PhaseNames DEF Complete
    <3> QED
      BY <1>12, <2>1, <3>1 DEF Complete, TypesButList, SendType, pageVars, listVars,
                               answerVars, userVars
  <2>2. CASE ~becauseOfNew
    <3>1. Settle(k) /\ UNCHANGED early
      BY <1>12, <2>2 DEF Complete
    <3>2. early' \in BOOLEAN
      BY <3>1 DEF TypesButList
    <3> QED BY <3>1, <3>2, SettleTypes
  <2> QED BY <2>1, <2>2
<1>13. ASSUME NEW k \in Sends, Named(k) PROVE TypesButList'
  <2>1. early' \in BOOLEAN
    BY <1>13 DEF Named, Overtaken, TypesButList
  <2> QED
    BY <1>13, <2>1, SettleTypes DEF Named
<1>14. ASSUME NEW k \in Sends, Suggested(k) PROVE TypesButList'
  <2>1. sends' \in SendType
    BY <1>14, ToResult, PhaseNames DEF Suggested
  <2> QED
    BY <1>14, <2>1
    DEF Suggested, Overtaken, TypesButList, SendType, pageVars, listVars, userVars
<1>15. ASSUME NEW k \in Sends, Refuse(k) \/ FailInStream(k) PROVE TypesButList'
  BY <1>15, OnErrorTypes DEF Refuse, FailInStream
<1>16. ASSUME NEW k \in Sends, Break(k) PROVE TypesButList'
  <2>1. sends' \in SendType
    BY <1>16, ToResult, PhaseNames DEF Break
  <2> QED
    BY <1>16, <2>1
    DEF Break, TypesButList, SendType, pageVars, listVars, answerVars, userVars
<1>17. ASSUME NEW c \in Convs \cup {Blank}, Load(c) \/ LoadFails(c) PROVE TypesButList'
  BY <1>17 DEF Load, LoadFails, TypesButList, pageVars, answerVars, userVars
<1>18. CASE Stopped
  BY <1>18 DEF Stopped, Overtaken, TypesButList, pageVars, listVars
<1> QED
  BY <1>0, <1>1, <1>2, <1>3, <1>4, <1>5, <1>6, <1>7, <1>8, <1>9, <1>10, <1>11, <1>12,
     <1>13, <1>14, <1>15, <1>16, <1>17, <1>18 DEF Next, User, Forward

LEMMA TypesInit == Init => TypesButList
<1> SUFFICES ASSUME Init PROVE TypesButList
  OBVIOUS
<1>1. curr \in Ids
  BY ConstantTypes DEF Init
<1>2. loads \subseteq Ids \ {New}
  BY <1>1 DEF Init
<1>3. NoSend \in [phase : Phases, from : Ids, to : Ids]
  BY PhaseNames, ConstantTypes DEF NoSend
<1>4. sends \in [Sends -> [phase : Phases, from : Ids, to : Ids]]
  BY <1>3 DEF Init
<1>5. 0 \in 0..MaxSends /\ 0 \in 0..MaxClicks
  BY ConstantTypes
<1>6. aborter = 0 /\ task = 0 /\ givenUp = 0 /\ clicks = 0 /\ page \in Pages
  BY DEF Init
<1>7. /\ becauseOfNew \in BOOLEAN /\ chatStarted \in BOOLEAN /\ shouldReload \in BOOLEAN
      /\ responding \in BOOLEAN /\ inCurr \in BOOLEAN /\ hasStopped \in BOOLEAN
      /\ stopping \in BOOLEAN /\ slipped \in BOOLEAN /\ early \in BOOLEAN
      /\ earlier \subseteq Sends
  BY DEF Init
<1> QED
  BY <1>1, <1>2, <1>4, <1>5, <1>6, <1>7 DEF TypesButList

-----------------------------------------------------------------------------
(* One answer at a time, and no wait for nothing *)

\* OneAtATime is not inductive: that a second message is not sent rests on isResponsing
\* being set during an answer and on the kept controller being that of the answer.
Alone ==
    ~early => /\ \A k \in InFlight : k = aborter /\ responding
              /\ ~NothingAborted => InFlight = {}

IInv == TypesButList /\ Alone /\ StuckOnlyAfterFailure

\* What the other invariants see of a step that leaves the phases alone.
LEMMA PhasesKept ==
    ASSUME \A k \in Sends : sends'[k].phase = sends[k].phase
    PROVE  /\ InFlight' = InFlight /\ Awaited' = Awaited /\ Broken' = Broken
           /\ NothingAborted' = NothingAborted
BY DEF InFlight, Awaited, Broken, NothingAborted

\* ... and of one that gives message k the phase p.
LEMMA PhaseChanged ==
    ASSUME TypesButList, NEW k \in Sends, NEW p \in Phases, To(k, p)
    PROVE  /\ InFlight' = IF p \in {"sent", "streaming"} THEN InFlight \cup {k}
                          ELSE InFlight \ {k}
           /\ p \in {"sent", "streaming", "naming", "suggesting"} => k \in Awaited'
           /\ p = "broken" => k \in Broken'
           /\ p # "aborted" /\ sends[k].phase # "aborted"
                => NothingAborted' = NothingAborted
           /\ p # "aborted" /\ NothingAborted => NothingAborted'
<1>1. /\ sends'[k].phase = p
      /\ \A j \in Sends \ {k} : sends'[j] = sends[j]
  BY ToResult
<1> QED
  BY <1>1 DEF InFlight, Awaited, Broken, NothingAborted

LEMMA NewChatKeeps ==
    ASSUME IInv, createNewChat, UNCHANGED <<early, aborter>>
    PROVE  Alone' /\ StuckOnlyAfterFailure'
<1>1. InFlight' = InFlight \ {aborter} /\ ~responding'
  BY NewChatResult DEF IInv
<1>2. ~early => InFlight' = {}
  BY <1>1 DEF IInv, Alone
<1> QED
  BY <1>1, <1>2 DEF Alone, StuckOnlyAfterFailure

\* A callback that leaves the phases and isResponsing alone.
LEMMA QuietKeeps ==
    ASSUME IInv, UNCHANGED <<responding, early, aborter>>,
           \A k \in Sends : sends'[k].phase = sends[k].phase
    PROVE  Alone' /\ StuckOnlyAfterFailure'
BY PhasesKept DEF IInv, Alone, StuckOnlyAfterFailure

\* A message in flight is done with: nothing else was in flight.
LEMMA OverKeeps ==
    ASSUME IInv, NEW k \in Sends, sends[k].phase \in {"sent", "streaming", "aborted"},
           NEW p \in {"over", "suggesting", "naming", "broken"}, To(k, p),
           p = "over" => ~responding', p # "over" => responding' = responding,
           UNCHANGED <<early, aborter>>
    PROVE  Alone' /\ StuckOnlyAfterFailure'
<1>1. p \in Phases /\ TypesButList
  BY DEF IInv, Phases
<1>2. InFlight' = InFlight \ {k}
  BY <1>1, PhaseChanged
<1>3. ~early => InFlight' = {}
  <2>1. CASE sends[k].phase = "aborted"
    BY <2>1, <1>2 DEF IInv, Alone, NothingAborted
  <2>2. CASE sends[k].phase # "aborted"
    <3>1. k \in InFlight
      BY <2>2 DEF InFlight
    <3> QED
      BY <3>1, <1>2 DEF IInv, Alone
  <2> QED BY <2>1, <2>2
<1>4. StuckOnlyAfterFailure'
  BY <1>1, PhaseChanged DEF StuckOnlyAfterFailure
<1> QED
  BY <1>3, <1>4 DEF Alone

\* A request after an answer comes back, or fails.
LEMMA FollowUpKeeps ==
    ASSUME IInv, NEW k \in Sends, sends[k].phase \in {"naming", "suggesting"},
           NEW p \in {"over", "suggesting", "broken"}, To(k, p),
           p = "over" => ~responding' /\ Overtaken,
           p # "over" => responding' = responding /\ (early' = early \/ Overtaken),
           UNCHANGED aborter
    PROVE  Alone' /\ StuckOnlyAfterFailure'
<1>1. p \in Phases /\ TypesButList
  BY DEF IInv, Phases
<1>2. InFlight' = InFlight
  <2>1. k \notin InFlight
    BY DEF InFlight
  <2> QED BY <1>1, <2>1, PhaseChanged
<1>3. NothingAborted' = NothingAborted
  BY <1>1, PhaseChanged
<1>4. StuckOnlyAfterFailure'
  BY <1>1, PhaseChanged DEF StuckOnlyAfterFailure
<1>5. Alone'
  <2> SUFFICES ASSUME ~early'
               PROVE  /\ \A j \in InFlight' : j = aborter' /\ responding'
                      /\ ~NothingAborted' => InFlight' = {}
    BY DEF Alone
  <2>1. ~early /\ (p = "over" => InFlight = {})
    BY DEF Overtaken, IInv, TypesButList
  <2> QED
    BY <1>2, <1>3, <2>1 DEF IInv, Alone
<1> QED
  BY <1>4, <1>5

LEMMA IInvKept ==
    ASSUME IInv, [Next]_vars
    PROVE  IInv'
<1>0. TypesButList /\ TypesButList'
  BY TypesKept DEF IInv
<1>a. SUFFICES ASSUME Next PROVE Alone' /\ StuckOnlyAfterFailure'
  <2>1. CASE UNCHANGED vars
    BY <2>1, <1>0, QuietKeeps DEF IInv, vars, userVars, answerVars
  <2> QED
    BY <1>0, <2>1 DEF IInv
<1>1. CASE StartChat \/ NewChat \/ Reload
  BY <1>1, NewChatKeeps DEF StartChat, NewChat, Reload
<1>2. CASE Stop
  BY <1>2, QuietKeeps DEF Stop, answerVars
<1>3. ASSUME NEW c \in Convs, Switch(c) PROVE Alone' /\ StuckOnlyAfterFailure'
  BY <1>3, QuietKeeps DEF Switch, answerVars
<1>4. ASSUME NEW k \in Sends, Send(k) PROVE Alone' /\ StuckOnlyAfterFailure'
  <2>1. /\ ~responding /\ NothingAborted /\ sends[k].phase = "unsent"
        /\ responding' = TRUE /\ aborter' = k /\ early' = early
    BY <1>4 DEF Send, CanSend
  <2>2. /\ sends'[k].phase = "sent"
        /\ \A j \in Sends \ {k} : sends'[j] = sends[j]
    BY <1>4 DEF Send, IInv, TypesButList
  <2>3. InFlight' = InFlight \cup {k} /\ k \in Awaited' /\ NothingAborted'
    BY <2>1, <2>2 DEF InFlight, Awaited, NothingAborted
  <2>4. ~early => InFlight = {}
    BY <2>1 DEF IInv, Alone
  <2> QED
    BY <2>1, <2>3, <2>4 DEF Alone, StuckOnlyAfterFailure
<1>5. ASSUME NEW k \in Sends, Respond(k) PROVE Alone' /\ StuckOnlyAfterFailure'
  <2>1. /\ To(k, "streaming") /\ sends[k].phase = "sent"
        /\ UNCHANGED <<responding, early, aborter>>
    BY <1>5 DEF Respond, answerVars, userVars
  <2>2. /\ InFlight' = InFlight \cup {k} /\ k \in Awaited'
        /\ NothingAborted' = NothingAborted
    BY <1>0, <2>1, PhaseChanged, PhaseNames
  <2>3. k \in InFlight
    BY <2>1 DEF InFlight
  <2> QED
    BY <2>1, <2>2, <2>3 DEF IInv, Alone, StuckOnlyAfterFailure
<1>6. ASSUME NEW k \in Sends, Data(k) \/ AnnotationReply(k)
      PROVE  Alone' /\ StuckOnlyAfterFailure'
  <2>1. \A j \in Sends : sends'[j].phase = sends[j].phase
    BY <1>6, <1>0 DEF Data, AnnotationReply, TypesButList
  <2> QED
    BY <1>6, <2>1, QuietKeeps DEF Data, AnnotationReply, answerVars, userVars
<1>7. ASSUME NEW k \in Sends, Thought(k) \/ MessageEnd(k)
      PROVE  Alone' /\ StuckOnlyAfterFailure'
  BY <1>7, QuietKeeps DEF Thought, MessageEnd, answerVars, userVars
<1>8. ASSUME NEW k \in Sends, Settle(k), sends[k].phase = "streaming", early' = early
      PROVE  Alone' /\ StuckOnlyAfterFailure'
  <2>1. aborter' = aborter
    BY <1>8 DEF Settle, userVars
  <2>2. CASE To(k, "suggesting") /\ UNCHANGED responding
    BY <1>8, <2>1, <2>2, OverKeeps
  <2>3. CASE To(k, "over") /\ responding' = FALSE
    BY <1>8, <2>1, <2>3, OverKeeps
  <2> QED
    BY <1>8, <2>2, <2>3 DEF Settle
<1>9. ASSUME NEW k \in Sends, Complete(k) PROVE Alone' /\ StuckOnlyAfterFailure'
  <2>1. CASE becauseOfNew
    BY <1>9, <2>1, OverKeeps DEF Complete, answerVars, userVars
  <2>2. CASE ~becauseOfNew
    BY <1>8, <1>9, <2>2 DEF Complete
  <2> QED BY <2>1, <2>2
<1>10. ASSUME NEW k \in Sends, Named(k) PROVE Alone' /\ StuckOnlyAfterFailure'
  <2>1. sends[k].phase = "naming" /\ Overtaken /\ aborter' = aborter
    BY <1>10 DEF Named, Settle, userVars
  <2>2. CASE To(k, "suggesting") /\ UNCHANGED responding
    BY <2>1, <2>2, FollowUpKeeps
  <2>3. CASE To(k, "over") /\ responding' = FALSE
    BY <2>1, <2>3, FollowUpKeeps
  <2> QED
    BY <1>10, <2>2, <2>3 DEF Named, Settle
<1>11. ASSUME NEW k \in Sends, Suggested(k) PROVE Alone' /\ StuckOnlyAfterFailure'
  BY <1>11, FollowUpKeeps DEF Suggested, userVars
<1>12. ASSUME NEW k \in Sends, Refuse(k) \/ FailInStream(k)
       PROVE  Alone' /\ StuckOnlyAfterFailure'
  <2>1. /\ sends[k].phase \in {"sent", "streaming", "aborted"}
        /\ To(k, "over") /\ responding' = FALSE /\ UNCHANGED <<early, aborter>>
    BY <1>12 DEF Refuse, FailInStream, OnError, userVars
  <2> QED
    BY <2>1, OverKeeps
<1>13. ASSUME NEW k \in Sends, Break(k) PROVE Alone' /\ StuckOnlyAfterFailure'
  <2>1. To(k, "broken") /\ UNCHANGED <<responding, early, aborter>>
    BY <1>13 DEF Break, answerVars, userVars
  <2>2. CASE sends[k].phase = "streaming"
    BY <2>1, <2>2, OverKeeps
  <2>3. CASE sends[k].phase \in {"naming", "suggesting"}
    BY <2>1, <2>3, FollowUpKeeps
  <2> QED
    BY <1>13, <2>2, <2>3 DEF Break
<1>14. ASSUME NEW c \in Convs \cup {Blank}, Load(c) \/ LoadFails(c)
       PROVE  Alone' /\ StuckOnlyAfterFailure'
  BY <1>14, QuietKeeps DEF Load, LoadFails, answerVars, userVars
<1>15. CASE Stopped
  <2>1. InFlight' = InFlight /\ NothingAborted' = NothingAborted /\ ~responding'
    BY <1>15, PhasesKept DEF Stopped
  <2>2. ~early' => ~early /\ InFlight = {}
    BY <1>15, <1>0 DEF Stopped, Overtaken, TypesButList
  <2> QED
    BY <2>1, <2>2 DEF Alone, StuckOnlyAfterFailure
<1> QED
  BY <1>1, <1>2, <1>3, <1>4, <1>5, <1>6, <1>7, <1>9, <1>10, <1>11, <1>12, <1>13, <1>14,
     <1>15, <1>a DEF Next, User, Forward

LEMMA IInvInit == Init => IInv
<1> SUFFICES ASSUME Init PROVE IInv
  OBVIOUS
<1>1. \A k \in Sends : sends[k].phase = "unsent"
  BY DEF Init, NoSend
<1>2. InFlight = {} /\ ~responding
  BY <1>1 DEF Init, InFlight
<1> QED
  BY <1>2, TypesInit DEF IInv, Alone, StuckOnlyAfterFailure

LEMMA IInvAlways == Spec => []IInv
<1> QED
  BY IInvInit, IInvKept, PTL DEF Spec

(* Two answers are in flight together only after isResponsing was reset too early.     *)
THEOREM OneAnswerAtATime == Spec => []OneAtATime
<1>1. IInv => OneAtATime
  <2> SUFFICES ASSUME IInv, ~early PROVE Cardinality(InFlight) <= 1
    BY DEF OneAtATime
  <2>1. InFlight \subseteq {aborter}
    BY DEF IInv, Alone
  <2>2. IsFiniteSet({aborter}) /\ Cardinality({aborter}) = 1
    BY FS_Singleton
  <2>3. Cardinality(InFlight) <= Cardinality({aborter})
    BY <2>1, <2>2, FS_Subset
  <2> QED
    BY <2>2, <2>3
<1> QED
  BY <1>1, IInvAlways, PTL

(* The page waits only while something can end the wait, or after a failure that no    *)
(* callback reports.                                                                   *)
THEOREM NoWaitForNothing == Spec => []StuckOnlyAfterFailure
<1>1. IInv => StuckOnlyAfterFailure
  BY DEF IInv
<1> QED
  BY <1>1, IInvAlways, PTL

-----------------------------------------------------------------------------
(* Lists without some of their items *)

\* Every set of natural numbers has a smallest one.
LEMMA SmallestOf ==
    ASSUME NEW T \in SUBSET Nat, T # {}
    PROVE  \E m \in T : \A n \in T : m <= n
<1> DEFINE below == {p \in Nat \X Nat : p[1] < p[2]}
<1>1. below = OpToRel(<, Nat)
  BY DEF OpToRel
<1>2. IsWellFoundedOn(below, Nat)
  BY <1>1, NatLessThanWellFounded
<1>3. PICK m \in T : \A n \in T : ~ (<<n, m>> \in below)
  <2> HIDE DEF below
  <2> QED
    BY <1>2, WFMin
<1>4. ASSUME NEW n \in T PROVE m <= n
  <2>1. m \in Nat /\ n \in Nat /\ ~ (<<n, m>> \in below)
    BY <1>3
  <2>2. <<n, m>> \in below <=> n < m
    BY <2>1
  <2> QED
    BY <2>1, <2>2
<1> QED
  BY <1>4

\* The numbers in K up to i; the one with n of them is the n-th of K.
UpTo(K, i) == {j \in K : j <= i}

LEMMA UpToFinite ==
    ASSUME NEW L \in Nat, NEW K \in SUBSET (1..L), NEW i \in Nat
    PROVE  /\ IsFiniteSet(K) /\ Cardinality(K) \in Nat
           /\ IsFiniteSet(UpTo(K, i)) /\ Cardinality(UpTo(K, i)) \in Nat
<1>1. IsFiniteSet(1..L)
  BY FS_Interval
<1>2. IsFiniteSet(K)
  BY <1>1, FS_Subset
<1>3. UpTo(K, i) \in SUBSET K
  BY DEF UpTo
<1> QED
  BY <1>2, <1>3, FS_Subset, FS_CardinalityType

LEMMA NthExists ==
    ASSUME NEW L \in Nat, NEW K \in SUBSET (1..L), NEW n \in 1..Cardinality(K)
    PROVE  \E i \in K : Cardinality(UpTo(K, i)) = n
<1> DEFINE T == {i \in Nat : n <= Cardinality(UpTo(K, i))}
<1>0. /\ n \in Nat /\ n # 0
      /\ \A j \in K : j \in Nat /\ j # 0 /\ j <= L
  BY UpToFinite
<1>1. UpTo(K, L) = K
  BY <1>0 DEF UpTo
<1>2. L \in T
  BY <1>1
<1>3. PICK m \in T : \A i \in T : m <= i
  <2>1. T \in SUBSET Nat /\ T # {}
    BY <1>2
  <2> HIDE DEF T
  <2> QED
    BY <2>1, SmallestOf
<1>4. m \in Nat /\ n <= Cardinality(UpTo(K, m))
  OBVIOUS
<1>5. m # 0
  <2>1. UpTo(K, 0) = {}
    <3>1. \A j \in K : ~ (j <= 0)
      BY <1>0
    <3> QED
      BY <3>1 DEF UpTo
  <2> QED
    BY <1>0, <1>4, <2>1, FS_EmptySet
<1>6. m - 1 \in Nat /\ m - 1 \notin T
  BY <1>3, <1>4, <1>5
<1>7. Cardinality(UpTo(K, m - 1)) < n
  <2>1. Cardinality(UpTo(K, m - 1)) \in Nat
    BY <1>6, UpToFinite
  <2>2. ~ (n <= Cardinality(UpTo(K, m - 1)))
    BY <1>6
  <2> QED
    BY <1>0, <2>1, <2>2
<1>8. UpTo(K, m) = IF m \in K THEN UpTo(K, m - 1) \cup {m} ELSE UpTo(K, m - 1)
  <2>1. \A j \in K : j <= m <=> j <= m - 1 \/ j = m
    BY <1>0, <1>4
  <2> QED
    BY <1>4, <2>1 DEF UpTo
<1> HIDE DEF T
<1>9. m \in K
  <2>1. Cardinality(UpTo(K, m - 1)) \in Nat
    BY <1>6, UpToFinite
  <2>2. UpTo(K, m) # UpTo(K, m - 1)
    BY <1>0, <1>4, <1>7, <2>1
  <2> QED
    BY <1>8, <2>2
<1>10. Cardinality(UpTo(K, m)) <= Cardinality(UpTo(K, m - 1)) + 1
  <2>1. IsFiniteSet(UpTo(K, m - 1)) /\ Cardinality(UpTo(K, m - 1)) \in Nat
    BY <1>6, UpToFinite
  <2>2. Cardinality(UpTo(K, m - 1) \cup {m}) =
          IF m \in UpTo(K, m - 1) THEN Cardinality(UpTo(K, m - 1))
          ELSE Cardinality(UpTo(K, m - 1)) + 1
    BY <2>1, FS_AddElement
  <2> QED
    BY <1>8, <1>9, <2>1, <2>2
<1>11. Cardinality(UpTo(K, m)) = n
  <2>1. /\ Cardinality(UpTo(K, m)) \in Nat
        /\ Cardinality(UpTo(K, m - 1)) \in Nat
    BY <1>4, <1>6, UpToFinite
  <2> QED
    BY <1>0, <1>4, <1>7, <1>10, <2>1
<1> QED
  BY <1>9, <1>11

\* l has been made of m by leaving items out.
Selected(l, m) ==
    \E f \in Injection(DOMAIN l, DOMAIN m) : \A i \in DOMAIN l : l[i] = m[f[i]]

LEMMA WithoutResult ==
    ASSUME NEW S, NEW l \in Seq(S), NEW items
    PROVE  /\ Without(l, items) \in Seq(S)
           /\ Selected(Without(l, items), l)
<1> DEFINE kept == {i \in DOMAIN l : l[i] \notin items}
           Nth(n) == CHOOSE i \in kept : Cardinality(UpTo(kept, i)) = n
           size == Cardinality(kept)
           f == [n \in 1..size |-> Nth(n)]
           r == Without(l, items)
<1>1. r = [n \in 1..size |-> l[Nth(n)]]
  BY DEF Without, UpTo
<1>2. Len(l) \in Nat /\ DOMAIN l = 1..Len(l) /\ kept \in SUBSET (1..Len(l))
  OBVIOUS
<1>3. size \in Nat
  BY <1>2, UpToFinite
<1>4. \A n \in 1..size : Nth(n) \in kept /\ Cardinality(UpTo(kept, Nth(n))) = n
  <2> SUFFICES ASSUME NEW n \in 1..size
               PROVE  Nth(n) \in kept /\ Cardinality(UpTo(kept, Nth(n))) = n
    OBVIOUS
  <2>1. \E i \in kept : Cardinality(UpTo(kept, i)) = n
    <3> HIDE DEF kept
    <3> QED
      BY <1>2, NthExists
  <2> HIDE DEF kept
  <2> QED
    BY <2>1
<1> HIDE DEF Nth, r, size
<1>5. \A n \in 1..size : Nth(n) \in DOMAIN l /\ l[Nth(n)] \in S
  <2>1. \A i \in kept : i \in DOMAIN l /\ l[i] \in S
    BY <1>2
  <2> QED
    BY <1>4, <2>1
<1>6. r \in Seq(S) /\ DOMAIN r = 1..size
  BY <1>1, <1>3, <1>5
<1>7. f \in Injection(DOMAIN r, DOMAIN l)
  <2>1. f \in [DOMAIN r -> DOMAIN l]
    BY <1>5, <1>6
  <2>2. \A a, b \in DOMAIN r : f[a] = f[b] => a = b
    <3>1. \A a \in DOMAIN r : Cardinality(UpTo(kept, f[a])) = a
      BY <1>4, <1>6
    <3> QED
      BY <3>1
  <2> QED
    BY <2>1, <2>2 DEF Injection, IsInjective
<1>8. \A n \in DOMAIN r : r[n] = l[f[n]]
  BY <1>1, <1>6
<1> QED
  BY <1>6, <1>7, <1>8 DEF Selected, r

-----------------------------------------------------------------------------
(* The list *)

\* The items of k in a list are finitely many, and a selection of it has no more.
LEMMA OfFinite ==
    ASSUME NEW S, NEW l \in Seq(S), NEW k
    PROVE  IsFiniteSet(Of(l, k)) /\ Cardinality(Of(l, k)) \in Nat
<1>1. DOMAIN l = 1..Len(l) /\ Len(l) \in Nat
  OBVIOUS
<1>2. IsFiniteSet(DOMAIN l)
  BY <1>1, FS_Interval
<1>3. Of(l, k) \in SUBSET DOMAIN l
  BY DEF Of
<1> QED
  BY <1>2, <1>3, FS_Subset, FS_CardinalityType

LEMMA SelectedOf ==
    ASSUME NEW S, NEW l, NEW m \in Seq(S), Selected(l, m), NEW k
    PROVE  Cardinality(Of(l, k)) <= Cardinality(Of(m, k))
<1>1. PICK f \in Injection(DOMAIN l, DOMAIN m) : \A i \in DOMAIN l : l[i] = m[f[i]]
  BY DEF Selected
<1> DEFINE g == [i \in Of(l, k) |-> f[i]]
<1>2. g \in Injection(Of(l, k), Of(m, k))
  <2>1. f \in [DOMAIN l -> DOMAIN m] /\ \A a, b \in DOMAIN l : f[a] = f[b] => a = b
    BY DEF Injection, IsInjective
  <2>2. \A i \in Of(l, k) : i \in DOMAIN l /\ f[i] \in Of(m, k)
    BY <1>1, <2>1 DEF Of
  <2>3. g \in [Of(l, k) -> Of(m, k)] /\ \A a, b \in Of(l, k) : g[a] = g[b] => a = b
    BY <2>1, <2>2
  <2> QED
    BY <2>3 DEF Injection, IsInjective
<1>3. IsFiniteSet(Of(m, k))
  BY OfFinite
<1> QED
  BY <1>2, <1>3, FS_Injection

LEMMA SelectedItems ==
    ASSUME NEW l, NEW m, Selected(l, m)
    PROVE  \A i \in DOMAIN l : \E j \in DOMAIN m : l[i] = m[j]
<1>1. PICK f \in Injection(DOMAIN l, DOMAIN m) : \A i \in DOMAIN l : l[i] = m[f[i]]
  BY DEF Selected
<1>2. \A i \in DOMAIN l : f[i] \in DOMAIN m
  BY DEF Injection
<1> QED
  BY <1>1, <1>2

\* m is l with an item at the end.
Appended(m, l, e) == l \in Seq(Items) /\ e \in Items /\ (m = Append(l, e) \/ m = l \o <<e>>)

LEMMA AppendResult ==
    ASSUME NEW l, NEW e, NEW m, Appended(m, l, e)
    PROVE  /\ m \in Seq(Items)
           /\ \A i \in DOMAIN m : m[i] = e \/ \E j \in DOMAIN l : m[i] = l[j]
           /\ \A g : g # e.send => Of(m, g) = Of(l, g)
<1>1. /\ m \in Seq(Items) /\ Len(m) = Len(l) + 1 /\ m[Len(m)] = e
      /\ l \in Seq(Items) /\ \A i \in 1..Len(l) : m[i] = l[i]
  BY DEF Appended
<1>2. DOMAIN m = 1..(Len(l) + 1) /\ DOMAIN l = 1..Len(l) /\ Len(l) \in Nat
  BY <1>1
<1>3. \A i \in DOMAIN m : i \in DOMAIN l \/ i = Len(m)
  BY <1>1, <1>2
<1>4. \A i \in DOMAIN l : i \in DOMAIN m /\ m[i] = l[i]
  BY <1>1, <1>2
<1>5. ASSUME NEW g, g # e.send PROVE Of(m, g) = Of(l, g)
  BY <1>1, <1>3, <1>4, <1>5 DEF Of
<1> QED
  BY <1>1, <1>3, <1>4, <1>5

LEMMA ItemTypes ==
    ASSUME TypesButList, NEW k \in Sends
    PROVE  /\ Question(k) \in Items /\ Placeholder(k) \in Items /\ Answer(k) \in Items
           /\ Question(k).send = k /\ Placeholder(k).send = k /\ Answer(k).send = k
           /\ Question(k).conv = sends[k].from /\ Answer(k).conv = sends[k].from
<1>1. sends[k].from \in Ids /\ k \in 0..MaxSends
  BY ConstantTypes DEF TypesButList
<1> QED
  BY <1>1 DEF Question, Placeholder, Answer, Item, Items

\* The answer to k is put into the list.
LEMMA WithAnswerResult ==
    ASSUME TypesButList, NEW k \in Sends, NEW l \in Seq(Items)
    PROVE  /\ WithAnswer(l, k) \in Seq(Items)
           /\ \A i \in DOMAIN WithAnswer(l, k) :
                \/ WithAnswer(l, k)[i] \in {Question(k), Answer(k)}
                \/ \E j \in DOMAIN l : WithAnswer(l, k)[i] = l[j]
           /\ \A g : g # k => Cardinality(Of(WithAnswer(l, k), g)) <= Cardinality(Of(l, g))
<1> DEFINE rest == Without(l, {Placeholder(k), Answer(k)})
           asked == IF Contains(rest, Question(k)) THEN rest ELSE Append(rest, Question(k))
<1>1. rest \in Seq(Items) /\ Selected(rest, l)
  BY WithoutResult
<1>2. WithAnswer(l, k) = asked \o <<Answer(k)>>
  BY DEF WithAnswer
<1> HIDE DEF rest
<1>3. \A i \in DOMAIN rest : \E j \in DOMAIN l : rest[i] = l[j]
  BY <1>1, SelectedItems
<1>4. \A g : Cardinality(Of(rest, g)) <= Cardinality(Of(l, g))
  BY <1>1, SelectedOf
<1>5. /\ asked \in Seq(Items)
      /\ \A i \in DOMAIN asked : asked[i] = Question(k) \/ \E j \in DOMAIN rest : asked[i] = rest[j]
      /\ \A g : g # k => Of(asked, g) = Of(rest, g)
  <2>1. CASE Contains(rest, Question(k))
    BY <1>1, <2>1
  <2>2. CASE ~Contains(rest, Question(k))
    <3>1. asked = Append(rest, Question(k))
      BY <2>2
    <3>2. Question(k) \in Items /\ Question(k).send = k
      BY ItemTypes
    <3>3. Appended(asked, rest, Question(k))
      BY <1>1, <3>1, <3>2 DEF Appended
    <3> HIDE DEF asked
    <3>4. /\ asked \in Seq(Items)
          /\ \A i \in DOMAIN asked :
                asked[i] = Question(k) \/ \E j \in DOMAIN rest : asked[i] = rest[j]
          /\ \A g : g # Question(k).send => Of(asked, g) = Of(rest, g)
      BY <3>3, AppendResult
    <3> QED
      BY <3>2, <3>4
  <2> QED
    BY <2>1, <2>2
<1> HIDE DEF asked
<1> DEFINE m == WithAnswer(l, k)
<1>6. /\ m \in Seq(Items)
      /\ \A i \in DOMAIN m : m[i] = Answer(k) \/ \E j \in DOMAIN asked : m[i] = asked[j]
      /\ \A g : g # k => Of(m, g) = Of(asked, g)
  <2>1. Answer(k) \in Items /\ Answer(k).send = k
    BY ItemTypes
  <2>2. m = asked \o <<Answer(k)>>
    BY <1>2
  <2>3. Appended(m, asked, Answer(k))
    BY <1>5, <2>1, <2>2 DEF Appended
  <2> HIDE DEF m
  <2>4. /\ m \in Seq(Items)
        /\ \A i \in DOMAIN m : m[i] = Answer(k) \/ \E j \in DOMAIN asked : m[i] = asked[j]
        /\ \A g : g # Answer(k).send => Of(m, g) = Of(asked, g)
    BY <2>3, AppendResult
  <2> QED
    BY <2>1, <2>4
<1> HIDE DEF m
<1>7. \A i \in DOMAIN m : m[i] \in {Question(k), Answer(k)} \/ \E j \in DOMAIN l : m[i] = l[j]
  <2> SUFFICES ASSUME NEW i \in DOMAIN m, m[i] # Answer(k), m[i] # Question(k)
               PROVE  \E j \in DOMAIN l : m[i] = l[j]
    OBVIOUS
  <2>1. PICK a \in DOMAIN asked : m[i] = asked[a]
    BY <1>6
  <2>2. PICK b \in DOMAIN rest : asked[a] = rest[b]
    BY <1>5, <2>1
  <2> QED
    BY <1>3, <2>1, <2>2
<1>8. \A g : g # k => Cardinality(Of(m, g)) <= Cardinality(Of(l, g))
  BY <1>4, <1>5, <1>6
<1> QED
  BY <1>6, <1>7, <1>8 DEF m

LEMMA WithoutPlaceholderResult ==
    ASSUME NEW k, NEW l \in Seq(Items)
    PROVE  WithoutPlaceholder(l, k) \in Seq(Items) /\ Selected(WithoutPlaceholder(l, k), l)
<1>1. CASE Contains(l, Placeholder(k))
  BY <1>1, WithoutResult DEF WithoutPlaceholder
<1>2. ASSUME NEW m \in Seq(Items), Len(m) <= Len(l), \A i \in 1..Len(m) : m[i] = l[i]
      PROVE  Selected(m, l)
  <2> DEFINE f == [i \in DOMAIN m |-> i]
  <2>1. DOMAIN m = 1..Len(m) /\ DOMAIN l = 1..Len(l) /\ DOMAIN m \subseteq DOMAIN l
    BY <1>2
  <2>2. f \in Injection(DOMAIN m, DOMAIN l)
    BY <2>1 DEF Injection, IsInjective
  <2> QED
    BY <1>2, <2>1, <2>2 DEF Selected
<1>3. CASE ~Contains(l, Placeholder(k)) /\ l = <<>>
  <2>1. WithoutPlaceholder(l, k) = l
    BY <1>3 DEF WithoutPlaceholder
  <2> QED
    BY <1>2, <2>1
<1>4. CASE ~Contains(l, Placeholder(k)) /\ l # <<>>
  <2>1. WithoutPlaceholder(l, k) = Front(l)
    BY <1>4 DEF WithoutPlaceholder
  <2>2. /\ Front(l) \in Seq(Items) /\ Len(Front(l)) <= Len(l)
        /\ \A i \in 1..Len(Front(l)) : Front(l)[i] = l[i]
    BY <1>4 DEF Front
  <2> QED
    BY <1>2, <2>1, <2>2
<1> QED
  BY <1>1, <1>3, <1>4

-----------------------------------------------------------------------------
(* What a step does to the messages *)

\* A message that has been sent stays sent, from the conversation it was sent from, and
\* one that is no longer in flight is not again.
SendsKept ==
    \A j \in Sends : sends[j].phase # "unsent"
        => /\ sends'[j].phase # "unsent" /\ sends'[j].from = sends[j].from
           /\ sends'[j].phase \in {"sent", "streaming"}
                => sends[j].phase \in {"sent", "streaming"}

\* A message that "new chat" gave up has no stream any more and never gets one.
SilentInv == givenUp # 0 => sends[givenUp].phase \in {"aborted", "over"}

LEMMA NewChatSilent ==
    ASSUME TypesButList, SilentInv, createNewChat
    PROVE  SendsKept /\ SilentInv'
<1>1. CASE aborter \in InFlight
  <2> DEFINE p == IF sends[aborter].phase = "sent" THEN "aborted" ELSE "over"
  <2>1. aborter \in Sends /\ sends[aborter].phase \in {"sent", "streaming"}
    BY <1>1 DEF InFlight
  <2>2. To(aborter, p) /\ givenUp' = aborter
    BY <1>1 DEF createNewChat, Cancelled, To
  <2>3. p \in Phases /\ p \in {"aborted", "over"}
    BY PhaseNames
  <2> HIDE DEF p
  <2>4. /\ sends'[aborter].phase = p /\ sends'[aborter].from = sends[aborter].from
        /\ \A j \in Sends \ {aborter} : sends'[j] = sends[j]
    BY <2>1, <2>2, <2>3, ToResult
  <2> QED
    BY <2>2, <2>3, <2>4 DEF SendsKept, SilentInv
<1>2. CASE aborter \notin InFlight
  <2>1. sends' = sends /\ givenUp' = givenUp
    BY <1>2 DEF createNewChat, Cancelled
  <2> QED
    BY <2>1 DEF SendsKept, SilentInv
<1> QED
  BY <1>1, <1>2

LEMMA PhaseSilent ==
    ASSUME TypesButList, SilentInv, NEW k \in Sends, NEW p \in Phases, To(k, p),
           p \notin {"unsent", "sent"}, sends[k].phase \in {"aborted", "over"} => p = "over",
           p = "streaming" => sends[k].phase = "sent",
           givenUp' = givenUp
    PROVE  SendsKept /\ SilentInv'
<1>1. /\ sends'[k].phase = p /\ sends'[k].from = sends[k].from
      /\ \A j \in Sends \ {k} : sends'[j] = sends[j]
  BY ToResult
<1>2. givenUp # 0 => givenUp \in Sends
  BY ConstantTypes DEF TypesButList
<1> QED
  BY <1>1, <1>2 DEF SendsKept, SilentInv

LEMMA AnswerSilent ==
    ASSUME TypesButList, SilentInv, NEW k \in Sends, Data(k) \/ AnnotationReply(k)
    PROVE  SendsKept /\ SilentInv'
<1>1. /\ givenUp' = givenUp
      /\ \A j \in Sends : sends'[j].phase = sends[j].phase /\ sends'[j].from = sends[j].from
  BY DEF Data, AnnotationReply, TypesButList, userVars
<1>2. givenUp # 0 => givenUp \in Sends
  BY ConstantTypes DEF TypesButList
<1> QED
  BY <1>1, <1>2 DEF SendsKept, SilentInv

LEMMA SendResult ==
    ASSUME TypesButList, NEW k \in Sends, Send(k)
    PROVE  /\ sends[k].phase = "unsent" /\ sends'[k].phase = "sent" /\ sends'[k].from = curr
           /\ \A j \in Sends \ {k} : sends'[j] = sends[j]
           /\ givenUp' = givenUp
BY DEF Send, TypesButList

LEMMA SendsStep ==
    ASSUME TypesButList, SilentInv, [Next]_vars
    PROVE  SendsKept /\ SilentInv'
<1>1. ASSUME UNCHANGED <<sends, givenUp>> PROVE SendsKept /\ SilentInv'
  BY <1>1 DEF SendsKept, SilentInv
<1>2. SUFFICES ASSUME Next PROVE SendsKept /\ SilentInv'
  BY <1>1 DEF vars, userVars
<1>3. CASE StartChat \/ NewChat \/ Reload
  BY <1>3, NewChatSilent DEF StartChat, NewChat, Reload
<1>4. CASE Stop
  BY <1>1, <1>4 DEF Stop
<1>5. ASSUME NEW c \in Convs, Switch(c) PROVE SendsKept /\ SilentInv'
  BY <1>1, <1>5 DEF Switch
<1>6. ASSUME NEW k \in Sends, Send(k) PROVE SendsKept /\ SilentInv'
  <2>1. givenUp # 0 => givenUp \in Sends
    BY ConstantTypes DEF TypesButList
  <2> QED
    BY <1>6, <2>1, SendResult DEF SendsKept, SilentInv
<1>7. ASSUME NEW k \in Sends, Respond(k) PROVE SendsKept /\ SilentInv'
  <2>1. To(k, "streaming") /\ sends[k].phase = "sent" /\ givenUp' = givenUp
    BY <1>7 DEF Respond, userVars
  <2> QED
    BY <2>1, PhaseSilent, PhaseNames
<1>8. ASSUME NEW k \in Sends, Data(k) \/ AnnotationReply(k) PROVE SendsKept /\ SilentInv'
  BY <1>8, AnswerSilent
<1>9. ASSUME NEW k \in Sends, Thought(k) \/ MessageEnd(k) PROVE SendsKept /\ SilentInv'
  BY <1>1, <1>9 DEF Thought, MessageEnd, userVars
<1>10. ASSUME NEW k \in Sends, Settle(k), sends[k].phase \in {"streaming", "naming"}
       PROVE  SendsKept /\ SilentInv'
  <2>1. PICK p \in {"suggesting", "over"} : To(k, p)
    BY <1>10 DEF Settle
  <2>2. givenUp' = givenUp
    BY <1>10 DEF Settle, userVars
  <2> QED
    BY <1>10, <2>1, <2>2, PhaseSilent, PhaseNames
<1>11. ASSUME NEW k \in Sends, Complete(k) PROVE SendsKept /\ SilentInv'
  <2>1. CASE becauseOfNew
    <3>1. To(k, "naming") /\ sends[k].phase = "streaming" /\ givenUp' = givenUp
      BY <1>11, <2>1 DEF Complete, userVars
    <3> QED
      BY <3>1, PhaseSilent, PhaseNames
  <2>2. CASE ~becauseOfNew
    BY <1>10, <1>11, <2>2 DEF Complete
  <2> QED
    BY <2>1, <2>2
<1>12. ASSUME NEW k \in Sends, Named(k) PROVE SendsKept /\ SilentInv'
  BY <1>10, <1>12 DEF Named
<1>13. ASSUME NEW k \in Sends, Suggested(k) PROVE SendsKept /\ SilentInv'
  <2>1. To(k, "over") /\ givenUp' = givenUp
    BY <1>13 DEF Suggested, userVars
  <2> QED
    BY <2>1, PhaseSilent, PhaseNames
<1>14. ASSUME NEW k \in Sends, Refuse(k) \/ FailInStream(k) PROVE SendsKept /\ SilentInv'
  <2>1. To(k, "over") /\ givenUp' = givenUp
    BY <1>14 DEF Refuse, FailInStream, OnError, userVars
  <2> QED
    BY <2>1, PhaseSilent, PhaseNames
<1>15. ASSUME NEW k \in Sends, Break(k) PROVE SendsKept /\ SilentInv'
  <2>1. /\ To(k, "broken") /\ sends[k].phase \in {"streaming", "naming", "suggesting"}
        /\ givenUp' = givenUp
    BY <1>15 DEF Break, userVars
  <2> QED
    BY <2>1, PhaseSilent, PhaseNames
<1>16. ASSUME NEW c \in Convs \cup {Blank}, Load(c) \/ LoadFails(c)
       PROVE  SendsKept /\ SilentInv'
  BY <1>1, <1>16 DEF Load, LoadFails, userVars
<1>17. CASE Stopped
  BY <1>1, <1>17 DEF Stopped
<1> QED
  BY <1>2, <1>3, <1>4, <1>5, <1>6, <1>7, <1>8, <1>9, <1>11, <1>12, <1>13, <1>14, <1>15,
     <1>16, <1>17 DEF Next, User, Forward

-----------------------------------------------------------------------------
(* What a step does to the list *)

ListStep ==
    \/ list' = list
    \/ list' = Opening
    \/ \E c \in Ids : list' = Loaded(c)
    \/ \E k \in Sends : sends[k].phase = "streaming" /\ list' = WithAnswer(list, k)
    \/ \E k \in Sends : Send(k)
    \/ \E k \in Sends : list' = WithoutPlaceholder(list, k)

LEMMA GoToList ==
    ASSUME NEW id, NEW answering, GoTo(id, list, answering)
    PROVE  ListStep
BY DEF GoTo, ListStep

LEMMA ListSteps ==
    ASSUME TypesButList, [Next]_vars
    PROVE  ListStep
<1>1. ASSUME list' = list PROVE ListStep
  BY <1>1 DEF ListStep
<1>2. SUFFICES ASSUME Next PROVE ListStep
  BY <1>1 DEF vars, listVars
<1>3. CASE StartChat
  BY <1>3 DEF StartChat, ListStep
<1>4. CASE NewChat \/ Reload
  BY <1>4, GoToList DEF NewChat, Reload
<1>5. CASE Stop
  BY <1>1, <1>5 DEF Stop, listVars
<1>6. ASSUME NEW c \in Convs, Switch(c) PROVE ListStep
  BY <1>6, GoToList DEF Switch
<1>7. ASSUME NEW k \in Sends, Send(k) PROVE ListStep
  BY <1>7 DEF ListStep
<1>8. ASSUME NEW k \in Sends, Respond(k) \/ Suggested(k) \/ Break(k) PROVE ListStep
  BY <1>1, <1>8 DEF Respond, Suggested, Break, listVars
<1>9. ASSUME NEW k \in Sends, Data(k) \/ Thought(k) \/ MessageEnd(k) \/ AnnotationReply(k)
      PROVE  ListStep
  <2>1. CASE list' = list
    BY <1>1, <2>1
  <2>2. CASE list' # list
    <3>1. Show(k) /\ sends[k].phase = "streaming"
      BY <1>9, <2>2
      DEF Data, Thought, MessageEnd, AnnotationReply, LookAndShow, ShowAnywhere, listVars
    <3> QED
      BY <3>1 DEF Show, ListStep
  <2> QED
    BY <2>1, <2>2
<1>10. ASSUME NEW k \in Sends, Complete(k) \/ Named(k) PROVE ListStep
  <2>1. CASE list' = list
    BY <1>1, <2>1
  <2>2. CASE list' # list
    BY <1>10, <2>2, GoToList DEF Complete, Named, Settle, listVars
  <2> QED
    BY <2>1, <2>2
<1>11. ASSUME NEW k \in Sends, Refuse(k) \/ FailInStream(k) PROVE ListStep
  BY <1>11 DEF Refuse, FailInStream, OnError, ListStep
<1>12. ASSUME NEW c \in Convs \cup {Blank}, Load(c) \/ LoadFails(c) PROVE ListStep
  BY <1>12, ConstantTypes DEF Load, LoadFails, ListStep
<1>13. CASE Stopped
  BY <1>1, <1>13 DEF Stopped, listVars
<1> QED
  BY <1>2, <1>3, <1>4, <1>5, <1>6, <1>7, <1>8, <1>9, <1>10, <1>11, <1>12, <1>13
     DEF Next, User, Forward

\* Every item of a list is of a message that has been sent, or of none.
SentItems(l) == \A i \in DOMAIN l : l[i].send # 0 => sends[l[i].send].phase # "unsent"

ListInv == list \in Seq(Items) /\ SentItems(list)

LEMMA FreshLists ==
    ASSUME NEW c \in Ids
    PROVE  /\ Opening \in Seq(Items) /\ Loaded(c) \in Seq(Items)
           /\ \A i \in DOMAIN Opening : Opening[i].send = 0 /\ Opening[i].kind = "opening"
           /\ \A i \in DOMAIN Loaded(c) :
                Loaded(c)[i].send = 0 /\ (Loaded(c)[i].kind = "opening" \/ Loaded(c)[i].conv = c)
<1> DEFINE o == Item("opening", New, 0)
           q == Item("question", c, 0)
           a == Item("answer", c, 0)
<1>1. /\ o \in Items /\ q \in Items /\ a \in Items
      /\ o.send = 0 /\ q.send = 0 /\ a.send = 0
      /\ o.kind = "opening" /\ q.conv = c /\ a.conv = c
  BY ConstantTypes DEF Item, Items
<1>2. Opening = <<>> \/ Opening = <<o>>
  BY DEF Opening
<1>3. Loaded(c) = Opening \o <<q, a>>
  BY DEF Loaded
<1> HIDE DEF o, q, a
<1>4. /\ Opening \in Seq(Items)
      /\ \A i \in 1..Len(Opening) : Opening[i] = o
  <2>1. ASSUME NEW m, m = <<>> \/ m = <<o>>
        PROVE  m \in Seq(Items) /\ \A i \in 1..Len(m) : m[i] = o
    <3>1. CASE m = <<>>
      BY <3>1
    <3>2. CASE m = <<o>>
      BY <1>1, <3>2
    <3> QED
      BY <2>1, <3>1, <3>2
  <2> QED
    BY <1>2, <2>1
<1>5. /\ Loaded(c) \in Seq(Items) /\ Len(Loaded(c)) = Len(Opening) + 2
      /\ \A i \in 1..Len(Opening) : Loaded(c)[i] = Opening[i]
      /\ Loaded(c)[Len(Opening) + 1] = q /\ Loaded(c)[Len(Opening) + 2] = a
  BY <1>1, <1>3, <1>4
<1>6. /\ DOMAIN Opening = 1..Len(Opening) /\ Len(Opening) \in Nat
      /\ DOMAIN Loaded(c) = 1..Len(Loaded(c))
  BY <1>4, <1>5
<1>7. \A i \in DOMAIN Loaded(c) :
        i \in 1..Len(Opening) \/ i = Len(Opening) + 1 \/ i = Len(Opening) + 2
  BY <1>5, <1>6
<1>8. \A i \in DOMAIN Loaded(c) : Loaded(c)[i] \in {o, q, a}
  BY <1>4, <1>5, <1>7
<1> QED
  BY <1>1, <1>4, <1>5, <1>6, <1>8

\* The list of a message just sent
LEMMA SendList ==
    ASSUME TypesButList, list \in Seq(Items), NEW k \in Sends, Send(k)
    PROVE  /\ list' \in Seq(Items)
           /\ \A i \in DOMAIN list' :
                \/ list'[i].send = k /\ list'[i].conv = curr
                \/ \E j \in DOMAIN list : list'[i] = list[j]
           /\ \A g : g # k => Of(list', g) = Of(list, g)
<1> DEFINE q == Item("question", curr, k)
           p == Item("placeholder", curr, k)
           m == Append(list, q)
           n == Append(m, p)
<1>1. /\ q \in Items /\ p \in Items
      /\ q.send = k /\ p.send = k /\ q.conv = curr /\ p.conv = curr
  BY ConstantTypes DEF Item, Items, TypesButList
<1>2. list' = list \o <<q, p>>
  BY DEF Send
<1> HIDE DEF q, p
<1>3. list' = n
  BY <1>1, <1>2
<1>4. Appended(m, list, q)
  BY <1>1 DEF Appended
<1>5. /\ m \in Seq(Items)
      /\ \A i \in DOMAIN m : m[i] = q \/ \E j \in DOMAIN list : m[i] = list[j]
      /\ \A g : g # q.send => Of(m, g) = Of(list, g)
  <2> HIDE DEF m
  <2> QED
    BY <1>4, AppendResult
<1>6. Appended(n, m, p)
  BY <1>1, <1>5 DEF Appended
<1>7. /\ n \in Seq(Items)
      /\ \A i \in DOMAIN n : n[i] = p \/ \E j \in DOMAIN m : n[i] = m[j]
      /\ \A g : g # p.send => Of(n, g) = Of(m, g)
  <2> HIDE DEF m, n
  <2> QED
    BY <1>6, AppendResult
<1> HIDE DEF m, n
<1> QED
  BY <1>1, <1>3, <1>5, <1>7

LEMMA ListInvKept ==
    ASSUME TypesButList, ListInv, SendsKept, ListStep
    PROVE  ListInv'
<1>0. \A j \in 0..MaxSends : j # 0 => j \in Sends
  BY ConstantTypes
<1>1. ASSUME NEW m \in Seq(Items), list' = m,
             \A i \in DOMAIN m : \/ m[i].send \in Sends /\ sends'[m[i].send].phase # "unsent"
                                 \/ m[i].send = 0
                                 \/ \E j \in DOMAIN list : m[i] = list[j]
      PROVE  ListInv'
  <2>1. \A j \in DOMAIN list : list[j].send \in 0..MaxSends
    <3>1. \A j \in DOMAIN list : list[j] \in Items
      BY DEF ListInv
    <3> QED
      BY <3>1 DEF Items
  <2>2. \A j \in DOMAIN list : list[j].send # 0 => sends'[list[j].send].phase # "unsent"
    BY <1>0, <2>1 DEF ListInv, SentItems, SendsKept
  <2>3. \A i \in DOMAIN m : m[i].send # 0 => sends'[m[i].send].phase # "unsent"
    BY <1>1, <2>2
  <2> QED
    BY <1>1, <2>3 DEF ListInv, SentItems
<1>2. CASE list' = list
  BY <1>1, <1>2 DEF ListInv
<1>3. CASE list' = Opening
  BY <1>1, <1>3, FreshLists, ConstantTypes
<1>4. ASSUME NEW c \in Ids, list' = Loaded(c) PROVE ListInv'
  BY <1>1, <1>4, FreshLists
<1>5. ASSUME NEW k \in Sends, sends[k].phase = "streaming", list' = WithAnswer(list, k)
      PROVE  ListInv'
  <2>1. sends'[k].phase # "unsent"
    BY <1>5 DEF SendsKept
  <2>2. Question(k).send = k /\ Answer(k).send = k
    BY ItemTypes
  <2>3. /\ WithAnswer(list, k) \in Seq(Items)
        /\ \A i \in DOMAIN WithAnswer(list, k) :
             \/ WithAnswer(list, k)[i] \in {Question(k), Answer(k)}
             \/ \E j \in DOMAIN list : WithAnswer(list, k)[i] = list[j]
    BY WithAnswerResult DEF ListInv
  <2> QED
    BY <1>1, <1>5, <2>1, <2>2, <2>3
<1>6. ASSUME NEW k \in Sends, Send(k) PROVE ListInv'
  <2>1. sends'[k].phase # "unsent"
    BY <1>6, SendResult
  <2>2. PICK m : m = list'
    OBVIOUS
  <2>3. /\ m \in Seq(Items)
        /\ \A i \in DOMAIN m : m[i].send = k \/ \E j \in DOMAIN list : m[i] = list[j]
    BY <1>6, <2>2, SendList DEF ListInv
  <2> QED
    BY <1>1, <2>1, <2>2, <2>3
<1>7. ASSUME NEW k \in Sends, list' = WithoutPlaceholder(list, k) PROVE ListInv'
  <2>1. /\ WithoutPlaceholder(list, k) \in Seq(Items)
        /\ Selected(WithoutPlaceholder(list, k), list)
    BY WithoutPlaceholderResult DEF ListInv
  <2>2. \A i \in DOMAIN WithoutPlaceholder(list, k) :
          \E j \in DOMAIN list : WithoutPlaceholder(list, k)[i] = list[j]
    BY <2>1, SelectedItems
  <2> QED
    BY <1>1, <1>7, <2>1, <2>2
<1> QED
  BY <1>2, <1>3, <1>4, <1>5, <1>6, <1>7 DEF ListStep

\* Nothing is added of a message that was given up before the step.
LEMMA SilentStep ==
    ASSUME TypesButList, SilentInv, ListInv, ListStep, givenUp # 0
    PROVE  Cardinality(Of(list', givenUp)) <= Cardinality(Of(list, givenUp))
<1>1. PICK g : g = givenUp
  OBVIOUS
<1>2. /\ g # 0 /\ sends[g].phase \in {"aborted", "over"}
      /\ Cardinality(Of(list, g)) \in Nat
  BY <1>1, OfFinite DEF SilentInv, ListInv
<1>3. CASE list' = list
  BY <1>1, <1>2, <1>3
<1>4. ASSUME NEW m, list' = m, \A i \in DOMAIN m : m[i].send = 0
      PROVE  Cardinality(Of(list', g)) <= Cardinality(Of(list, g))
  <2>1. Of(m, g) = {}
    BY <1>2, <1>4 DEF Of
  <2> QED
    BY <1>2, <1>4, <2>1, FS_EmptySet
<1>5. CASE list' = Opening
  BY <1>1, <1>4, <1>5, FreshLists, ConstantTypes
<1>6. ASSUME NEW c \in Ids, list' = Loaded(c)
      PROVE  Cardinality(Of(list', g)) <= Cardinality(Of(list, g))
  BY <1>4, <1>6, FreshLists
<1>7. ASSUME NEW k \in Sends, sends[k].phase = "streaming", list' = WithAnswer(list, k)
      PROVE  Cardinality(Of(list', g)) <= Cardinality(Of(list, g))
  <2>1. g # k
    BY <1>2, <1>7
  <2> QED
    BY <1>7, <2>1, WithAnswerResult DEF ListInv
<1>8. ASSUME NEW k \in Sends, Send(k)
      PROVE  Cardinality(Of(list', g)) <= Cardinality(Of(list, g))
  <2>1. g # k
    BY <1>2, <1>8, SendResult
  <2>2. Of(list', g) = Of(list, g)
    BY <1>8, <2>1, SendList DEF ListInv
  <2> QED
    BY <1>2, <2>2
<1>9. ASSUME NEW k \in Sends, list' = WithoutPlaceholder(list, k)
      PROVE  Cardinality(Of(list', g)) <= Cardinality(Of(list, g))
  BY <1>9, WithoutPlaceholderResult, SelectedOf DEF ListInv
<1> QED
  BY <1>1, <1>3, <1>5, <1>6, <1>7, <1>8, <1>9 DEF ListStep

-----------------------------------------------------------------------------
(* The page shows its conversation *)

\* ShownIsCurrent is not inductive: while the conversation the page is on is being
\* loaded the list may still be that of another, whatever else is being loaded.
ShownInv ==
    page # "bot" /\ ChatShown /\ ~slipped
        => curr \in loads \/ \A i \in DOMAIN list : Belongs(list[i])

\* A message sent before the new chat was begun that the page is or was in last has been
\* sent, and is in flight only after the page was freed too early.
LeftInv ==
    /\ earlier \subseteq Sent
    /\ ~early => earlier \cap InFlight = {}

\* An item of conversation c, or of none; a new chat is not another one.
AtHome(item, c) ==
    \/ item.kind = "opening"
    \/ item.conv = c /\ (c = New => item.send \notin earlier)

\* What is shown without looking is the list as it was, and items at home unless the
\* step has been noted as a slip.
HomeItems ==
    \A i \in DOMAIN list' : \/ AtHome(list'[i], curr)
                            \/ \E j \in DOMAIN list : list'[i] = list[j]

Stays ==
    /\ page' = page /\ curr' = curr /\ earlier' = earlier
    /\ ChatShown' => ChatShown
    /\ slipped => slipped'
    /\ loads \subseteq loads'
    /\ page # "bot" /\ ~slipped' => HomeItems

LEMMA ShownStays ==
    ASSUME TypesButList, ListInv, ShownInv, SendsKept, Stays
    PROVE  ShownInv'
<1> SUFFICES ASSUME page # "bot", ChatShown, ~slipped, ~slipped', curr \notin loads
             PROVE  \A i \in DOMAIN list' : Belongs(list[i])'
  BY DEF ShownInv, Stays
<1>0. curr' = curr /\ earlier' = earlier /\ HomeItems
  BY DEF Stays
<1>1. \A j \in DOMAIN list : Belongs(list[j])
  BY DEF ShownInv
<1>2. \A j \in DOMAIN list : list[j].send # 0 =>
        list[j].send \in Sends /\ sends[list[j].send].phase # "unsent"
  <2>1. \A j \in DOMAIN list : list[j] \in Items
    BY DEF ListInv
  <2>2. \A j \in DOMAIN list : list[j].send \in 0..MaxSends
    BY <2>1 DEF Items
  <2> QED
    BY <2>2, ConstantTypes DEF ListInv, SentItems
<1> SUFFICES ASSUME NEW i \in DOMAIN list' PROVE Belongs(list[i])'
  OBVIOUS
<1> PICK x : x = list'[i]
  OBVIOUS
<1>3. Belongs(list[i])' <=> Belongs(x)'
  BY DEF Belongs, ServerConv
<1>4. CASE AtHome(x, curr)
  BY <1>0, <1>3, <1>4 DEF AtHome, Belongs
<1>5. ASSUME NEW j \in DOMAIN list, x = list[j] PROVE Belongs(list[i])'
  <2>1. Belongs(x)
    BY <1>1, <1>5
  <2>2. x.send # 0 => ServerConv(x.send)' = ServerConv(x.send)
    BY <1>2, <1>5 DEF SendsKept, ServerConv
  <2> QED
    BY <1>0, <1>3, <2>1, <2>2 DEF Belongs
<1> QED
  BY <1>0, <1>4, <1>5 DEF HomeItems

\* Another conversation is loaded, or a new one is begun, or there is no chat to show.
GoesTo ==
    /\ page' = page
    /\ chatStarted' => chatStarted
    /\ \E id, answering : GoTo(id, list, answering) /\ (id # New => ~becauseOfNew')

LEMMA ShownGoTo ==
    ASSUME TypesButList, ListInv, ShownInv, SendsKept, GoesTo
    PROVE  ShownInv'
<1> PICK id, answering : GoTo(id, list, answering) /\ (id # New => ~becauseOfNew')
  BY DEF GoesTo
<1>0. page' = page /\ (chatStarted' => chatStarted)
  BY DEF GoesTo
<1>1. CASE id = curr
  <2>1. /\ curr' = curr /\ list' = list /\ loads' = loads /\ slipped' = slipped
        /\ earlier' = earlier
    BY <1>1 DEF GoTo, TypesButList
  <2>2. ChatShown' => ChatShown
    BY <1>0, <2>1 DEF ChatShown
  <2>3. Stays
    BY <1>0, <2>1, <2>2 DEF Stays, HomeItems
  <2> QED
    BY <2>3, ShownStays
<1>2. CASE id # curr /\ id # New
  BY <1>0, <1>2 DEF GoTo, ShownInv
<1>3. CASE id # curr /\ id = New /\ (chatStarted' \/ page = "universal")
  <2>1. list' = Opening
    BY <1>3 DEF GoTo
  <2>2. \A i \in DOMAIN Opening : Opening[i].kind = "opening"
    BY FreshLists, ConstantTypes
  <2> QED
    BY <1>0, <2>1, <2>2 DEF ShownInv, Belongs
<1>4. CASE id # curr /\ id = New /\ ~(chatStarted' \/ page = "universal")
  BY <1>0, <1>4 DEF GoTo, ShownInv, ChatShown
<1> QED
  BY <1>1, <1>2, <1>3, <1>4

\* The list, the conversation and the loads are left alone.
LEMMA ShownQuiet ==
    ASSUME TypesButList, ListInv, ShownInv, SendsKept,
           UNCHANGED <<page, curr, chatStarted, loads, slipped, earlier, list>>
    PROVE  ShownInv'
<1>1. ChatShown' => ChatShown
  BY DEF ChatShown
<1>2. Stays
  BY <1>1 DEF Stays, HomeItems
<1> QED
  BY <1>2, ShownStays

LEMMA ShownKept ==
    ASSUME TypesButList, TypesButList', ListInv, ShownInv, LeftInv, SendsKept, [Next]_vars
    PROVE  ShownInv'
<1>1. CASE UNCHANGED vars
  BY <1>1, ShownQuiet DEF vars, pageVars, listVars, userVars
<1>2. SUFFICES ASSUME Next PROVE ShownInv'
  BY <1>1
<1>3. CASE StartChat
  <2>1. \A i \in DOMAIN Opening : Opening[i].kind = "opening"
    BY FreshLists, ConstantTypes
  <2>2. list' = Opening
    BY <1>3 DEF StartChat
  <2> QED
    BY <2>1, <2>2 DEF ShownInv, Belongs
<1>4. CASE NewChat \/ Reload
  <2>1. page' = page /\ GoTo(New, list, FALSE) /\ chatStarted' \in {chatStarted, FALSE}
    BY <1>4 DEF NewChat, Reload
  <2>2. chatStarted' => chatStarted
    BY <2>1 DEF TypesButList
  <2>3. GoesTo
    BY <2>1, <2>2 DEF GoesTo
  <2> QED
    BY <2>3, ShownGoTo
<1>5. CASE Stop
  BY <1>5, ShownQuiet DEF Stop, pageVars, listVars
<1>6. ASSUME NEW c \in Convs, Switch(c) PROVE ShownInv'
  <2>1. /\ page' = page /\ GoTo(c, list, responding)
        /\ ~becauseOfNew' /\ chatStarted' = chatStarted
    BY <1>6 DEF Switch
  <2>2. GoesTo
    BY <2>1 DEF GoesTo
  <2> QED
    BY <2>2, ShownGoTo
<1>7. ASSUME NEW k \in Sends, Send(k) PROVE ShownInv'
  <2>1. /\ page' = page /\ curr' = curr /\ (ChatShown' => ChatShown)
        /\ slipped' = slipped /\ loads' = loads /\ earlier' = earlier
    BY <1>7 DEF Send, pageVars, ChatShown
  <2>a. k \notin earlier
    BY <1>7 DEF LeftInv, Sent, Send
  <2>2. HomeItems
    BY <1>7, <2>a, SendList DEF HomeItems, AtHome, ListInv
  <2>3. Stays
    BY <2>1, <2>2 DEF Stays
  <2> QED
    BY <2>3, ShownStays
<1>8. ASSUME NEW k \in Sends, Respond(k) \/ Suggested(k) \/ Break(k) PROVE ShownInv'
  BY <1>8, ShownQuiet DEF Respond, Suggested, Break, pageVars, listVars, userVars
<1>9. ASSUME NEW k \in Sends, Show(k), UNCHANGED <<page, pageVars>>,
             sends[k].phase = "streaming", slipped => slipped', WentOn(k) => slipped',
             page # "bot" /\ ~slipped' => sends[k].from = curr
      PROVE  ShownInv'
  <2>1. /\ page' = page /\ curr' = curr /\ (ChatShown' => ChatShown)
        /\ loads' = loads /\ earlier' = earlier /\ list' = WithAnswer(list, k)
    BY <1>9 DEF Show, pageVars, ChatShown
  <2>2. /\ Question(k).conv = sends[k].from /\ Answer(k).conv = sends[k].from
        /\ Question(k).send = k /\ Answer(k).send = k
    BY ItemTypes
  <2>3. \A i \in DOMAIN WithAnswer(list, k) :
           \/ WithAnswer(list, k)[i] \in {Question(k), Answer(k)}
           \/ \E j \in DOMAIN list : WithAnswer(list, k)[i] = list[j]
    BY WithAnswerResult DEF ListInv
  <2>4. ASSUME ~slipped', sends[k].from = curr, curr = New PROVE k \notin earlier
    <3>1. k \in InFlight
      BY <1>9 DEF InFlight
    <3>2. ~early \/ k \notin earlier
      BY <1>9, <2>4 DEF WentOn, OtherNewChat
    <3> QED
      BY <3>1, <3>2 DEF LeftInv
  <2>5. ASSUME ~slipped', sends[k].from = curr PROVE HomeItems
    <3>1. AtHome(Question(k), curr) /\ AtHome(Answer(k), curr)
      BY <2>2, <2>4, <2>5 DEF AtHome
    <3> QED
      BY <2>1, <2>3, <3>1 DEF HomeItems
  <2>6. Stays
    BY <1>9, <2>1, <2>5 DEF Stays
  <2> QED
    BY <2>6, ShownStays
<1>10. ASSUME NEW k \in Sends, Data(k) \/ Thought(k) PROVE ShownInv'
  <2>1. CASE StaysAway(k)
    BY <1>10, <2>1, ShownQuiet DEF Data, Thought, LookAndShow, pageVars, listVars, userVars
  <2>2. CASE ~StaysAway(k)
    <3>1. /\ Show(k) /\ UNCHANGED <<page, pageVars>> /\ sends[k].phase = "streaming"
          /\ slipped' = (slipped \/ WentOn(k))
      BY <1>10, <2>2 DEF Data, Thought, LookAndShow, userVars
    <3>2. page # "bot" => sends[k].from = curr
      BY <2>2 DEF StaysAway
    <3> QED
      BY <1>9, <3>1, <3>2
  <2> QED
    BY <2>1, <2>2
<1>11. ASSUME NEW k \in Sends, MessageEnd(k) \/ AnnotationReply(k) PROVE ShownInv'
  <2>1. /\ Show(k) /\ UNCHANGED <<page, pageVars>> /\ sends[k].phase = "streaming"
        /\ slipped' = (slipped \/ sends[k].from # curr \/ WentOn(k))
    BY <1>11 DEF MessageEnd, AnnotationReply, ShowAnywhere, userVars
  <2> QED
    BY <1>9, <2>1
<1>12. ASSUME NEW k \in Sends, Settle(k) PROVE ShownInv'
  <2>1. /\ page' = page /\ GoTo(sends[k].to, list, responding')
        /\ ~becauseOfNew' /\ (chatStarted' => chatStarted)
    BY <1>12 DEF Settle, userVars
  <2>2. GoesTo
    BY <2>1 DEF GoesTo
  <2> QED
    BY <2>2, ShownGoTo
<1>13. ASSUME NEW k \in Sends, Complete(k) \/ Named(k) PROVE ShownInv'
  <2>1. CASE Settle(k)
    BY <1>12, <2>1
  <2>2. CASE ~Settle(k)
    BY <1>13, <2>2, ShownQuiet DEF Complete, Named, pageVars, listVars, userVars
  <2> QED
    BY <2>1, <2>2
<1>14. ASSUME NEW k \in Sends, Refuse(k) \/ FailInStream(k) PROVE ShownInv'
  <2>1. /\ page' = page /\ curr' = curr /\ (ChatShown' => ChatShown)
        /\ slipped' = slipped /\ loads' = loads /\ earlier' = earlier
        /\ list' = WithoutPlaceholder(list, k)
    BY <1>14 DEF Refuse, FailInStream, OnError, userVars, ChatShown
  <2>2. \A i \in DOMAIN WithoutPlaceholder(list, k) :
          \E j \in DOMAIN list : WithoutPlaceholder(list, k)[i] = list[j]
    BY WithoutPlaceholderResult, SelectedItems DEF ListInv
  <2>3. HomeItems
    BY <2>1, <2>2 DEF HomeItems
  <2>4. Stays
    BY <2>1, <2>3 DEF Stays
  <2> QED
    BY <2>4, ShownStays
<1>15. ASSUME NEW c \in Convs \cup {Blank}, Load(c) PROVE ShownInv'
  <2>1. /\ curr' = curr /\ list' = Loaded(c) /\ slipped' = (c # curr)
    BY <1>15 DEF Load, pageVars
  <2>2. \A i \in DOMAIN Loaded(c) :
          Loaded(c)[i].send = 0 /\ (Loaded(c)[i].kind = "opening" \/ Loaded(c)[i].conv = c)
    BY FreshLists, ConstantTypes
  <2> QED
    BY <2>1, <2>2 DEF ShownInv, Belongs
<1>16. ASSUME NEW c \in Convs \cup {Blank}, LoadFails(c) PROVE ShownInv'
  BY <1>16 DEF LoadFails, ShownInv
<1>17. CASE Stopped
  BY <1>17, ShownQuiet DEF Stopped, pageVars, listVars
<1> QED
  BY <1>2, <1>3, <1>4, <1>5, <1>6, <1>7, <1>8, <1>10, <1>11, <1>13, <1>14, <1>15, <1>16,
     <1>17 DEF Next, User, Forward

\* A new chat is begun when nothing is in flight, unless the page was freed too early:
\* the click aborts what is kept, and an answer that ends was alone.
LEMMA EarlierStep ==
    ASSUME IInv, [Next]_vars
    PROVE  /\ early => early'
           /\ \/ earlier' = earlier
              \/ earlier' = Sent /\ (~early' => InFlight' = {})
<1> DEFINE Begins == earlier' = earlier \/ (earlier' = Sent /\ (~early' => InFlight' = {}))
<1>0. TypesButList /\ Alone
  BY DEF IInv
<1>a. ASSUME UNCHANGED <<early, earlier>> PROVE (early => early') /\ Begins
  BY <1>a
<1>b. SUFFICES ASSUME Next PROVE (early => early') /\ Begins
  BY <1>a DEF vars, listVars, answerVars
<1>1. CASE StartChat \/ NewChat \/ Reload
  <2>1. earlier' \in {earlier, Sent} /\ early' = early /\ createNewChat
    BY <1>1 DEF StartChat, NewChat, Reload, GoTo
  <2>2. ~early => InFlight' = {}
    BY <1>0, <2>1, NewChatResult DEF Alone
  <2> QED
    BY <2>1, <2>2
<1>2. CASE Stop
  BY <1>2, <1>a DEF Stop, listVars, answerVars
<1>3. ASSUME NEW c \in Convs, Switch(c) PROVE (early => early') /\ Begins
  BY <1>3, <1>a, ConstantTypes DEF Switch, GoTo, answerVars
<1>4. ASSUME NEW k \in Sends, Send(k) PROVE (early => early') /\ Begins
  BY <1>4, <1>a DEF Send
<1>5. ASSUME NEW k \in Sends, Respond(k) \/ Break(k) PROVE (early => early') /\ Begins
  BY <1>5, <1>a DEF Respond, Break, listVars, answerVars
<1>6. ASSUME NEW k \in Sends, Data(k) \/ Thought(k) PROVE (early => early') /\ Begins
  BY <1>6, <1>a DEF Data, Thought, LookAndShow, Show, listVars
<1>7. ASSUME NEW k \in Sends, MessageEnd(k) \/ AnnotationReply(k)
      PROVE  (early => early') /\ Begins
  BY <1>7, <1>a DEF MessageEnd, AnnotationReply, ShowAnywhere, Show, answerVars
<1>8. ASSUME NEW k \in Sends, Settle(k), early => early', ~early' => InFlight \ {k} = {}
      PROVE  Begins
  <2>1. PICK p \in {"suggesting", "over"} : To(k, p)
    BY <1>8 DEF Settle
  <2>2. InFlight' = InFlight \ {k}
    BY <1>0, <2>1, PhaseChanged, PhaseNames
  <2>3. earlier' \in {earlier, Sent}
    BY <1>8 DEF Settle, GoTo
  <2> QED
    BY <1>8, <2>2, <2>3
<1>9. ASSUME NEW k \in Sends, Complete(k) PROVE (early => early') /\ Begins
  <2>1. CASE becauseOfNew
    BY <1>9, <2>1, <1>a DEF Complete, listVars, answerVars
  <2>2. CASE ~becauseOfNew
    <3>1. Settle(k) /\ early' = early /\ sends[k].phase = "streaming"
      BY <1>9, <2>2 DEF Complete
    <3>2. k \in InFlight
      BY <3>1 DEF InFlight
    <3>3. ~early => InFlight \ {k} = {}
      BY <1>0, <3>2 DEF Alone
    <3> QED
      BY <1>8, <3>1, <3>3
  <2> QED
    BY <2>1, <2>2
<1>10. ASSUME NEW k \in Sends, Named(k) PROVE (early => early') /\ Begins
  <2>1. Settle(k) /\ early' = (early \/ InFlight # {})
    BY <1>10 DEF Named, Overtaken
  <2>2. ~early' => InFlight \ {k} = {}
    BY <2>1
  <2> QED
    BY <1>8, <2>1, <2>2
<1>11. ASSUME NEW k \in Sends, Suggested(k) PROVE (early => early') /\ Begins
  BY <1>11 DEF Suggested, Overtaken, listVars
<1>12. ASSUME NEW k \in Sends, Refuse(k) \/ FailInStream(k)
       PROVE  (early => early') /\ Begins
  BY <1>12, <1>a DEF Refuse, FailInStream, OnError
<1>13. ASSUME NEW c \in Convs \cup {Blank}, Load(c) \/ LoadFails(c)
       PROVE  (early => early') /\ Begins
  BY <1>13, <1>a DEF Load, LoadFails, answerVars
<1>14. CASE Stopped
  BY <1>14 DEF Stopped, Overtaken, listVars
<1> QED
  BY <1>b, <1>1, <1>2, <1>3, <1>4, <1>5, <1>6, <1>7, <1>9, <1>10, <1>11, <1>12, <1>13,
     <1>14 DEF Next, User, Forward

LEMMA LeftInvKept ==
    ASSUME IInv, LeftInv, SendsKept, [Next]_vars
    PROVE  LeftInv'
<1>1. Sent \subseteq Sent'
  BY DEF Sent, SendsKept
<1>2. \A j \in Sent : j \in InFlight' => j \in InFlight
  BY DEF Sent, InFlight, SendsKept
<1>3. CASE earlier' = earlier /\ (early => early')
  BY <1>1, <1>2, <1>3 DEF LeftInv
<1>4. CASE earlier' = Sent /\ (~early' => InFlight' = {})
  BY <1>1, <1>4 DEF LeftInv
<1> QED
  BY <1>3, <1>4, EarlierStep

-----------------------------------------------------------------------------
(* Together *)

PageInv == IInv /\ ListInv /\ ShownInv /\ SilentInv /\ LeftInv

LEMMA PageInvInit == Init => PageInv
<1> SUFFICES ASSUME Init PROVE PageInv
  OBVIOUS
<1>1. list = <<>> /\ givenUp = 0 /\ earlier = {}
  BY DEF Init
<1> QED
  BY <1>1, IInvInit DEF PageInv, ListInv, SentItems, ShownInv, SilentInv, LeftInv

LEMMA PageInvKept == PageInv /\ [Next]_vars => PageInv'
<1> SUFFICES ASSUME PageInv, [Next]_vars PROVE PageInv'
  OBVIOUS
<1>1. IInv /\ TypesButList /\ ListInv /\ ShownInv /\ SilentInv /\ LeftInv
  BY DEF PageInv, IInv
<1>2. IInv' /\ TypesButList'
  BY <1>1, IInvKept, TypesKept
<1>3. SendsKept /\ SilentInv'
  BY <1>1, SendsStep
<1>4. ListStep
  BY <1>1, ListSteps
<1>5. ListInv'
  BY <1>1, <1>3, <1>4, ListInvKept
<1>6. ShownInv'
  BY <1>1, <1>2, <1>3, ShownKept
<1>7. LeftInv'
  BY <1>1, <1>3, LeftInvKept
<1> QED
  BY <1>2, <1>3, <1>5, <1>6, <1>7 DEF PageInv

(* Once nothing is being loaded, the page shows items of the conversation it is on,    *)
(* of a new chat those of this one and not of one begun before, unless since the last  *)
(* proper load something of another was written into the list: by a load that came     *)
(* late, by an event shown without looking, or by the stream of an earlier new chat    *)
(* from which the page was freed before it ended.  That nothing else writes rests on   *)
(* the abort of "new chat" (LeftInv).                                                  *)
THEOREM PageShowsItsConversation == Spec => []ShownIsCurrent
<1>1. PageInv => ShownIsCurrent
  BY DEF PageInv, ShownInv, ShownIsCurrent
<1> QED
  BY <1>1, PageInvInit, PageInvKept, PTL DEF Spec

(* Nothing of an answer that "new chat" gave up is added to a list.                    *)
THEOREM GivenUpAnswersAreSilent == Spec => GivenUpIsSilent
<1>1. PageInv /\ [Next]_vars =>
        [givenUp # 0 /\ givenUp' = givenUp
           => Cardinality(Of(list', givenUp)) <= Cardinality(Of(list, givenUp))]_vars
  BY ListSteps, SilentStep DEF PageInv, IInv
<1> QED
  BY <1>1, PageInvInit, PageInvKept, PTL DEF Spec, GivenUpIsSilent

(* All the variables of the page keep their types: the list is a sequence of items.    *)
THEOREM TypeCorrect == Spec => []TypeOK
<1>1. PageInv => TypeOK
  BY DEF PageInv, IInv, ListInv, TypeOK
<1> QED
  BY <1>1, PageInvInit, PageInvKept, PTL DEF Spec
=============================================================================
