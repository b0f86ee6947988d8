------------------------------ MODULE ChatPage ------------------------------
(***************************************************************************)
(* The chat pages of the web frontend: the web app and the installed app   *)
(* (web/app/components/share/chat), the universal chat (explore/           *)
(* universal-chat) and the embedded bot (share/chatbot).  They are copies  *)
(* of one component that have drifted apart, so one module stands for all  *)
(* four and names the places where they differ.                            *)
(*                                                                         *)
(* A page shows the list of one conversation, streams the answer to a      *)
(* message into it, and lets the user switch to another conversation or    *)
(* start a new one in the meantime.  Everything that is awaited can land   *)
(* after the page has moved on: loads of a conversation, the stream, the   *)
(* requests that follow the answer, the request to stop it.                *)
(*                                                                         *)
(* One action is one callback with the rendering and the effects that      *)
(* follow it; getChatList and the other getters give the rendered value.   *)
(* Texts, inputs, suggestions, the side bar and the model configuration    *)
(* are left out.                                                           *)
(***************************************************************************)
EXTENDS Integers, Sequences, FiniteSets, SequencesExt

CONSTANTS
    Pages,         \* the pages looked at
    Existing,      \* bound: conversations that exist when the page is opened
    MaxSends,      \* bound: messages sent
    MaxClicks      \* bound: other clicks of the user

ASSUME PagesAssumption == Pages \subseteq {"web", "installed", "universal", "bot"}
ASSUME BoundsAssumption == Existing \in Nat /\ MaxSends \in Nat /\ MaxClicks \in Nat

New == -1             \* '-1', the conversation that does not exist yet
Blank == 0            \* '', an id the bot page can end up with
Sends == 1..MaxSends
Convs == 1..(Existing + MaxSends)
Ids == Convs \cup {New, Blank}

VARIABLES
    page,               \* which of the four pages this is
    curr,               \* currConversationId
    becauseOfNew,       \* conversationIdChangeBecauseOfNew
    chatStarted,        \* isChatStarted
    list,               \* chatList
    loads,              \* the conversations for which fetchChatList is under way
    responding,         \* isResponsing
    aborter,            \* the message whose abortController is kept, 0 if none
    inCurr,             \* isResponsingConIsCurrCon
    hasStopped,         \* hasStopResponded
    stopping,           \* a request to stop is under way
    task,               \* messageTaskId: the message of that task, 0 for ''
    shouldReload,       \* of the bot page
    sends,              \* the messages and their closures
    clicks,             \* clicks so far
    slipped,            \* history: since the list was last replaced by the right one, it
                        \* has been written by something of another conversation
    earlier,            \* history: the messages sent before the last new chat was begun
    early,              \* history: isResponsing has been reset during an answer by
                        \* "stop" or by a request that followed an older answer
    givenUp             \* history: the message whose answer "new chat" gave up last

pageVars == <<curr, becauseOfNew, chatStarted, shouldReload>>
listVars == <<list, loads, slipped, earlier>>
answerVars == <<responding, early, inCurr, hasStopped, task>>
userVars == <<page, aborter, stopping, clicks, givenUp>>
vars == <<pageVars, listVars, answerVars, userVars, sends>>

-----------------------------------------------------------------------------
(* The list *)

Item(kind, conv, k) == [kind |-> kind, conv |-> conv, send |-> k]

Items == [kind : {"opening", "question", "placeholder", "answer"}, conv : Ids,
          send : 0..MaxSends]

\* generateNewChatListWithOpenstatement: the universal chat has no introduction.
Opening == IF page = "universal" THEN <<>> ELSE <<Item("opening", New, 0)>>

\* What fetchChatList makes of a conversation: its past, as one question and its answer.
Loaded(c) == Opening \o <<Item("question", c, 0), Item("answer", c, 0)>>

Question(k) == Item("question", sends[k].from, k)
Placeholder(k) == Item("placeholder", sends[k].from, k)
Answer(k) == Item("answer", sends[k].from, k)

\* The list without some of its items: the n-th of the rest is the n-th that was kept.
Without(l, items) ==
    LET kept == {i \in DOMAIN l : l[i] \notin items}
        Nth(n) == CHOOSE i \in kept : Cardinality({j \in kept : j <= i}) = n
    IN  [n \in 1..Cardinality(kept) |-> l[Nth(n)]]

\* The list with the answer so far in the place of the placeholder or of what was
\* there of it before.
WithAnswer(l, k) ==
    LET rest == Without(l, {Placeholder(k), Answer(k)})
    IN  (IF Contains(rest, Question(k)) THEN rest ELSE Append(rest, Question(k)))
        \o <<Answer(k)>>

\* onError: draft.splice(draft.findIndex(...), 1), where an index of -1 counts from the
\* end of the list.
WithoutPlaceholder(l, k) ==
    IF Contains(l, Placeholder(k)) THEN Without(l, {Placeholder(k)})
    ELSE IF l = <<>> THEN l ELSE Front(l)

-----------------------------------------------------------------------------
(* Messages *)

NoSend == [phase |-> "unsent", from |-> New, to |-> New]

Phases == {"unsent", "sent", "aborted", "streaming", "naming", "suggesting", "over",
           "broken"}

InFlight == {k \in Sends : sends[k].phase \in {"sent", "streaming"}}
Awaited == {k \in Sends : sends[k].phase \in {"sent", "aborted", "streaming", "naming",
                                              "suggesting"}}
Broken == {k \in Sends : sends[k].phase = "broken"}

Sent == {k \in Sends : sends[k].phase # "unsent"}

\* Message k was sent in one new chat and the page is in another: both are '-1'.
OtherNewChat(k) == sends[k].from = New /\ curr = New /\ k \in earlier

\* The conversation to which the server adds message k.
ServerConv(k) == IF sends[k].from \in Convs THEN sends[k].from ELSE Existing + k

To(k, phase) == sends' = [sends EXCEPT ![k].phase = phase]

-----------------------------------------------------------------------------
(* Switching *)

\* setCurrConversationId and, when the id has changed, the effect
\* handleConversationSwitch, which loads the list or begins a new one.  "l" is the list
\* and "answering" is isResponsing as rendered with the new id.
GoTo(id, l, answering) ==
    LET begins == id # curr /\ id = New /\ (chatStarted' \/ page = "universal")
        fetch  == id # curr /\ id # New /\ ~becauseOfNew' /\ ~(page = "bot" /\ answering)
    IN  /\ curr' = id
        /\ list' = IF begins THEN Opening ELSE l
        /\ loads' = IF fetch THEN loads \cup {id} ELSE loads
        /\ slipped' = (slipped /\ ~begins)
        /\ earlier' = IF begins THEN Sent ELSE earlier

\* createNewChat aborts the request whose controller is kept: one that has no response
\* yet is rejected and will call onError, a stream just ends.
Cancelled(k) ==
    IF k \in InFlight
    THEN [sends EXCEPT ![k].phase = IF sends[k].phase = "sent" THEN "aborted" ELSE "over"]
    ELSE sends

\* Mutant: the request is not aborted.
createNewChatWithoutAbort ==
    /\ sends' = sends
    /\ responding' = FALSE
    /\ givenUp' = IF aborter \in InFlight THEN aborter ELSE givenUp

createNewChat ==
    /\ sends' = Cancelled(aborter)
    /\ responding' = FALSE
    /\ givenUp' = IF aborter \in InFlight THEN aborter ELSE givenUp

-----------------------------------------------------------------------------
(* The user.  A rejected fetch calls onError before the next click. *)

Click ==
    /\ clicks < MaxClicks
    /\ clicks' = clicks + 1

NothingAborted == \A k \in Sends : sends[k].phase # "aborted"

\* hasSetInputs: the universal chat has no form to fill first.
ChatShown == curr # New \/ chatStarted \/ page = "universal"

\* handleStartChat
StartChat ==
    /\ Click /\ NothingAborted
    /\ ~ChatShown
    /\ createNewChat
    /\ becauseOfNew' = TRUE
    /\ chatStarted' = TRUE
    /\ list' = Opening
    /\ slipped' = FALSE
    /\ earlier' = Sent
    /\ UNCHANGED <<page, curr, shouldReload, loads, early, inCurr, hasStopped, task, aborter,
                   stopping>>

\* handleConversationIdChange('-1')
NewChat ==
    /\ Click /\ NothingAborted
    /\ createNewChat
    /\ becauseOfNew' = TRUE
    /\ UNCHANGED chatStarted
    /\ GoTo(New, list, FALSE)
    /\ UNCHANGED <<page, shouldReload, early, inCurr, hasStopped, task, aborter, stopping>>

\* handleConversationIdChange(c): the bot page has no list of conversations.
Switch(c) ==
    /\ Click /\ NothingAborted
    /\ page # "bot"
    /\ c # curr
    /\ c \in 1..Existing \/ \E k \in Sends : sends[k].to = c
    /\ becauseOfNew' = FALSE
    /\ UNCHANGED chatStarted
    /\ GoTo(c, list, responding)
    /\ UNCHANGED <<shouldReload, answerVars, page, aborter, stopping, givenUp,
                   sends>>

\* handleReload of the bot page
Reload ==
    /\ Click /\ NothingAborted
    /\ shouldReload
    /\ shouldReload' = FALSE
    /\ chatStarted' = FALSE
    /\ UNCHANGED becauseOfNew
    /\ createNewChat
    /\ GoTo(New, list, FALSE)
    /\ UNCHANGED <<page, early, inCurr, hasStopped, task, aborter, stopping>>

\* handleSend
CanSend == ChatShown /\ ~responding /\ NothingAborted

Send(k) ==
    /\ CanSend
    /\ sends[k].phase = "unsent"
    /\ \A j \in Sends : j < k => sends[j].phase # "unsent"
    /\ sends' = [sends EXCEPT ![k] =
                    [phase |-> "sent", from |-> curr,
                     to |-> IF page = "bot" THEN Blank
                            ELSE IF curr = Blank THEN New ELSE curr]]
    /\ list' = list \o <<Item("question", curr, k), Item("placeholder", curr, k)>>
    /\ hasStopped' = FALSE
    /\ responding' = TRUE
    /\ inCurr' = TRUE
    /\ aborter' = k
    /\ UNCHANGED <<pageVars, loads, slipped, earlier, early, task, page, stopping, clicks,
                   givenUp>>

\* abortResponsing, as far as its await.  The task is that of the last data, which may
\* be another message's.
Stop ==
    /\ Click /\ NothingAborted
    /\ ChatShown /\ responding
    /\ task # 0
    /\ page = "bot" \/ inCurr
    /\ ~stopping
    /\ stopping' = TRUE
    /\ UNCHANGED <<pageVars, listVars, answerVars, page, aborter, givenUp, sends>>

-----------------------------------------------------------------------------
(* The answer to message k *)

\* The response begins: its status is 2xx or 3xx.
Respond(k) ==
    /\ sends[k].phase = "sent"
    /\ To(k, "streaming")
    /\ UNCHANGED <<pageVars, listVars, answerVars, userVars>>

\* Mutant: nobody looks.
NeverStaysAway(k) == FALSE

\* onData, and onThought of the universal chat: the page looks whether it has switched
\* to another conversation, the bot page does not.  One new chat is like another to it.
StaysAway(k) == page # "bot" /\ sends[k].from # curr

Show(k) ==
    /\ list' = WithAnswer(list, k)
    /\ UNCHANGED <<loads, earlier>>

\* History: the stream of an earlier new chat that went on although the page had been
\* freed from it ("stop", or a request that came back late) and another message sent.
WentOn(k) == early /\ OtherNewChat(k)

\* onData and onThought
LookAndShow(k) ==
    IF StaysAway(k)
    THEN inCurr' = FALSE /\ UNCHANGED listVars
    ELSE Show(k) /\ slipped' = (slipped \/ WentOn(k)) /\ UNCHANGED inCurr

\* The events that are shown wherever the page is
ShowAnywhere(k) == Show(k) /\ slipped' = (slipped \/ sends[k].from # curr \/ WentOn(k))

Data(k) ==
    /\ sends[k].phase = "streaming"
    /\ sends' = [sends EXCEPT ![k].to = ServerConv(k)]
    /\ task' = k
    /\ LookAndShow(k)
    /\ UNCHANGED <<pageVars, responding, early, hasStopped, userVars>>

Thought(k) ==
    /\ page = "universal"
    /\ sends[k].phase = "streaming"
    /\ LookAndShow(k)
    /\ UNCHANGED <<pageVars, responding, early, hasStopped, task, userVars, sends>>

\* onMessageEnd of the installed app and the universal chat
MessageEnd(k) ==
    /\ page \in {"installed", "universal"}
    /\ sends[k].phase = "streaming"
    /\ ShowAnywhere(k)
    /\ UNCHANGED <<pageVars, answerVars, userVars, sends>>

\* onAnnotationReply of the web app and the installed app, likewise
AnnotationReply(k) ==
    /\ page \in {"web", "installed"}
    /\ sends[k].phase = "streaming"
    /\ ShowAnywhere(k)
    /\ sends' = [sends EXCEPT ![k].to = ServerConv(k)]
    /\ UNCHANGED <<pageVars, answerVars, userVars>>

\* onCompleted after the conversation has got its name: the page goes to the
\* conversation of the message, wherever it is.
WantsSuggestions == (page = "bot" \/ inCurr) /\ ~hasStopped

Settle(k) ==
    /\ becauseOfNew' = FALSE
    /\ chatStarted' = (page = "universal" /\ chatStarted)
    /\ \/ /\ WantsSuggestions
          /\ To(k, "suggesting")
          /\ UNCHANGED responding
       \/ /\ To(k, "over")            \* none wanted, or not enabled
          /\ responding' = FALSE
    /\ GoTo(sends[k].to, list, responding')
    /\ UNCHANGED <<shouldReload, inCurr, hasStopped, task, userVars>>

\* The stream ends.  A conversation that was begun here is named first.
Complete(k) ==
    /\ sends[k].phase = "streaming"
    /\ IF becauseOfNew
       THEN To(k, "naming") /\ UNCHANGED <<pageVars, listVars, answerVars, userVars>>
       ELSE Settle(k) /\ UNCHANGED early

\* A request after an answer is back: by then another message may be in flight.
Overtaken == early' = (early \/ InFlight # {})

Named(k) == sends[k].phase = "naming" /\ Settle(k) /\ Overtaken

Suggested(k) ==
    /\ sends[k].phase = "suggesting"
    /\ To(k, "over")
    /\ responding' = FALSE
    /\ Overtaken
    /\ UNCHANGED <<pageVars, listVars, inCurr, hasStopped, task, userVars>>

\* Mutant: the page goes on responding.
OnErrorStillResponding(k) ==
    /\ To(k, "over")
    /\ list' = WithoutPlaceholder(list, k)
    /\ UNCHANGED <<pageVars, loads, slipped, earlier, answerVars, userVars>>

\* onError
OnError(k) ==
    /\ To(k, "over")
    /\ responding' = FALSE
    /\ list' = WithoutPlaceholder(list, k)
    /\ shouldReload' \in {shouldReload, page = "bot" \/ shouldReload}
    /\ UNCHANGED <<curr, becauseOfNew, chatStarted, loads, slipped, earlier, early, inCurr,
                   hasStopped, task, userVars>>

\* The request is refused, or it was aborted before its response.
Refuse(k) == sends[k].phase \in {"sent", "aborted"} /\ OnError(k)

\* A line with an error: onError, then onCompleted(true), which adds nothing to it.
FailInStream(k) == sends[k].phase = "streaming" /\ OnError(k)

\* A connection that breaks during the response calls nobody, and neither does a
\* request after the answer that fails.
Break(k) ==
    /\ sends[k].phase \in {"streaming", "naming", "suggesting"}
    /\ To(k, "broken")
    /\ UNCHANGED <<pageVars, listVars, answerVars, userVars>>

-----------------------------------------------------------------------------
(* What else comes back *)

Load(c) ==
    /\ c \in loads
    /\ loads' = loads \ {c}
    /\ list' = Loaded(c)
    /\ slipped' = (c # curr)
    /\ UNCHANGED <<earlier, pageVars, answerVars, userVars, sends>>

LoadFails(c) ==
    /\ c \in loads
    /\ loads' = loads \ {c}
    /\ slipped' = TRUE
    /\ UNCHANGED <<pageVars, list, earlier, answerVars, userVars, sends>>

Stopped ==
    /\ stopping
    /\ stopping' = FALSE
    /\ hasStopped' = TRUE
    /\ responding' = FALSE
    /\ Overtaken
    /\ UNCHANGED <<pageVars, listVars, inCurr, task, page, aborter, clicks, givenUp,
                   sends>>

-----------------------------------------------------------------------------

\* The page has been initialised, with the conversation kept in localStorage if the
\* server still lists it.
Init ==
    /\ page \in Pages
    /\ curr \in {New} \cup 1..Existing
    /\ becauseOfNew = FALSE
    /\ chatStarted = FALSE
    /\ list = <<>>
    /\ loads = {curr} \ {New}
    /\ responding = FALSE
    /\ aborter = 0
    /\ inCurr = TRUE
    /\ hasStopped = FALSE
    /\ stopping = FALSE
    /\ task = 0
    /\ shouldReload = FALSE
    /\ sends = [k \in Sends |-> NoSend]
    /\ clicks = 0
    /\ slipped = FALSE
    /\ earlier = {}
    /\ early = FALSE
    /\ givenUp = 0

User == StartChat \/ NewChat \/ Reload \/ Stop \/ (\E c \in Convs : Switch(c))
        \/ (\E k \in Sends : Send(k))

\* What brings the answer to message k forward.
Forward(k) == Respond(k) \/ Complete(k) \/ Named(k) \/ Suggested(k) \/ Refuse(k)
              \/ FailInStream(k) \/ Break(k)

Next ==
    \/ User
    \/ \E k \in Sends : \/ Forward(k) \/ Data(k) \/ Thought(k) \/ MessageEnd(k)
                        \/ AnnotationReply(k)
    \/ \E c \in Convs \cup {Blank} : Load(c) \/ LoadFails(c)
    \/ Stopped

\* Requests end in one way or another: the server closes every stream.
Fairness == \A k \in Sends : WF_vars(Forward(k))

Spec == Init /\ [][Next]_vars /\ Fairness

-----------------------------------------------------------------------------

\* The types of all variables, proved in ChatPage_proofs
TypesButList ==
    /\ page \in Pages
    /\ curr \in Ids
    /\ becauseOfNew \in BOOLEAN /\ chatStarted \in BOOLEAN /\ shouldReload \in BOOLEAN
    /\ loads \subseteq Ids \ {New}
    /\ responding \in BOOLEAN /\ inCurr \in BOOLEAN /\ hasStopped \in BOOLEAN
    /\ aborter \in 0..MaxSends /\ task \in 0..MaxSends /\ givenUp \in 0..MaxSends
    /\ stopping \in BOOLEAN /\ slipped \in BOOLEAN /\ early \in BOOLEAN
    /\ earlier \subseteq Sends
    /\ sends \in [Sends -> [phase : Phases, from : Ids, to : Ids]]
    /\ clicks \in 0..MaxClicks

TypeOK == TypesButList /\ list \in Seq(Items)

(* Every item of the list belongs to the conversation the page is on, once nothing is  *)
(* being loaded; in a new chat, which has no id yet, to this one and not to one that   *)
(* was begun before and left.  Excepted is a list into which something else was        *)
(* written since the last proper load: a load that came late, an event that is shown   *)
(* without looking, or the stream of an earlier new chat that was never aborted, since *)
(* the page had been freed from it and a second message was sent (OneAtATime): onData  *)
(* compares ids, and those of two new chats are equal.                                 *)
Belongs(item) ==
    \/ item.kind = "opening"
    \/ item.send = 0 /\ item.conv = curr
    \/ item.send # 0 /\ curr = New /\ item.conv = New /\ item.send \notin earlier
    \/ item.send # 0 /\ curr # New /\ curr \in {item.conv, ServerConv(item.send)}

ShownIsCurrent ==
    page # "bot" /\ ChatShown /\ loads = {} /\ ~slipped
        => \A i \in DOMAIN list : Belongs(list[i])

(* The page waits for an answer only while something is under way that can end the     *)
(* wait, unless a connection broke or a request after an answer failed.                *)
StuckOnlyAfterFailure ==
    responding /\ Awaited = {} => Broken # {}

(* One answer at a time: two can be in flight together only after "stop", which frees   *)
(* the page before the stream it stops has ended, or after the request for the name or *)
(* the suggestions of an answer came back when the next message was already sent.      *)
OneAtATime == ~early => Cardinality(InFlight) <= 1

(* "New chat" gives up the answer that was under way for good: nothing of it is added  *)
(* to any list afterwards.                                                             *)
Of(l, k) == {i \in DOMAIN l : l[i].send = k}

GivenUpIsSilent ==
    [][givenUp # 0 /\ givenUp' = givenUp
        => Cardinality(Of(list', givenUp)) <= Cardinality(Of(list, givenUp))]_vars

(* Every wait for an answer ends, unless a connection breaks. *)
RespondingEnds == responding ~> (~responding \/ Broken # {})
=============================================================================
