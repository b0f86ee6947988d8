--------------------------- MODULE BatchGeneration ---------------------------
(***************************************************************************)
(* The text generation page of a web app                                   *)
(* (web/app/components/share/text-generation): one form that is run once,  *)
(* or a CSV file whose rows are run in groups of GROUP_SIZE requests.      *)
(* Each row that is not pending has a Result component on the page (a      *)
(* view); a view sends its request when it is mounted, streams the answer  *)
(* and reports to the page, which starts the next group.  A request can be *)
(* answered, refused, cut off, or be slower than the one minute its view   *)
(* waits for it, and answers of an earlier run can still come in.  What    *)
(* the texts say is left out.                                              *)
(*                                                                         *)
(* One action is one callback of the browser together with the rendering   *)
(* and the effects that follow from it.                                    *)
(***************************************************************************)
EXTENDS Integers, Sequences, FiniteSets

CONSTANTS
    GROUP_SIZE,
    MaxRows,      \* bound: rows of a batch
    Uploads,      \* the CSV files, as sequences of "good", "bad" and "empty" lines
    MaxCommands,  \* bound: clicks of the user
    MaxTries      \* bound: requests per cell; large enough never to stop a report

ASSUME GroupAssumption == GROUP_SIZE \in Nat \ {0}
ASSUME BoundsAssumption == MaxRows \in Nat /\ MaxCommands \in Nat /\ MaxTries \in Nat
ASSUME UploadsAssumption ==
    \A u \in Uploads : u \in Seq({"good", "bad", "empty"}) /\ Len(u) <= MaxRows

Rows == 1..MaxRows
Cells == 0..MaxRows     \* 0: the single Result of "run once", whose taskId is undefined
Tries == 1..MaxTries

VARIABLES
    tasks,          \* allTaskList: the status of each row, "none" beyond the list
    isCallBatchAPI, \* the views on the page are those of the rows
    currGroupNum,
    controlRetry,   \* "retry all" has been clicked since the page was loaded
    tries,          \* requests sent for each cell
    view,           \* the view mounted for each cell, named by its first try, 0 if none
    busy,           \* isResponsing of that view
    attempts,       \* the requests
    runs, retries,  \* clicks on "run" and on "retry" so far
    inherited,      \* history: currGroupNum when the list was made
    quiet           \* history: no request was open when the list was made

pageVars == <<tasks, isCallBatchAPI, currGroupNum, controlRetry>>
requestVars == <<tries, view, busy, attempts>>
historyVars == <<inherited, quiet>>
vars == <<pageVars, requestVars, runs, retries, historyVars>>

-----------------------------------------------------------------------------
(* The list *)

Status == {"pending", "running", "completed", "failed"}

WithStatus(list, S) == {i \in Rows : list[i] \in S}

Pending(list) == WithStatus(list, {"pending"})
Finished(list) == WithStatus(list, {"completed", "failed"})
Listed(list) == WithStatus(list, Status)

\* pendingTaskList.slice(0, GROUP_SIZE)
NextPending(list) ==
    {i \in Pending(list) : Cardinality({j \in Pending(list) : j < i}) < GROUP_SIZE}

\* The lines of a file that are accepted: empty ones may only follow each other.
MiddleEmptyLine(file) ==
    \E i, j, k \in DOMAIN file :
        i < j /\ j < k /\ file[i] = "empty" /\ file[j] # "empty" /\ file[k] = "empty"

FilledLines(file) == {i \in DOMAIN file : file[i] # "empty"}

checkBatchInputs(file) ==
    /\ FilledLines(file) # {}
    /\ ~MiddleEmptyLine(file)
    /\ \A i \in DOMAIN file : file[i] # "bad"

\* Mutant: the groups are forgotten when the list is made.
NewTaskListUngrouped(n) == [i \in Rows |-> IF i > n THEN "none" ELSE "running"]

NewTaskList(n) ==
    [i \in Rows |-> IF i > n THEN "none"
                    ELSE IF i <= GROUP_SIZE THEN "running" ELSE "pending"]

\* Mutant: the reported task is not counted.
HadRunWithoutThis(list) == Cardinality(Finished(list))

\* hadRunedTaskNum counts the reported task once more when it has been reported before.
HadRun(list) == 1 + Cardinality(Finished(list))

NeedsNextGroup(list, group) ==
    /\ group # HadRun(list)
    /\ Pending(list) # {}
    /\ \/ HadRun(list) % GROUP_SIZE = 0
       \/ Cardinality(Listed(list)) - HadRun(list) < GROUP_SIZE

\* handleCompleted: what it makes of the list ...
ListAfter(list, group, cell, isSuccess) ==
    [i \in Rows |->
        IF i = cell /\ list[i] # "none"
        THEN IF isSuccess THEN "completed" ELSE "failed"
        ELSE IF NeedsNextGroup(list, group) /\ i \in NextPending(list)
             THEN "running" ELSE list[i]]

\* Mutant: the number of the group is set by every report.
GroupAlwaysSet(list, group) == HadRun(list)

\* ... and of currGroupNum.
GroupAfter(list, group) ==
    IF NeedsNextGroup(list, group) THEN HadRun(list) ELSE group

-----------------------------------------------------------------------------
(* Requests *)

\* A request is open until it ends, and late from the time-out of its view on.  The
\* connection that breaks after the response has begun calls nobody (reader.read() is
\* rejected): such a request stays open until its time-out.
NoTry == [view |-> 0, state |-> "none"]

Try == [view : 0..MaxTries, state : {"none", "open", "late"}]

\* The try's view is still the one mounted for its cell.
Mounted(i, k) == view[i] = attempts[i][k].view /\ view[i] # 0

\* handleSend of the views: count[i] requests from the view of cell i, on top of what
\* the callback did to the flags and the requests.
Send(count, views, flags, reqs) ==
    /\ \A i \in Cells : tries[i] + count[i] <= MaxTries
    /\ tries' = [i \in Cells |-> tries[i] + count[i]]
    /\ view' = views
    /\ busy' = [i \in Cells |-> flags[i] \/ count[i] > 0]
    /\ attempts' = [i \in Cells |-> [k \in Tries |->
                       IF k > tries[i] /\ k <= tries[i] + count[i]
                       THEN [view |-> views[i], state |-> "open"] ELSE reqs[i][k]]]

Once(S) == [i \in Cells |-> IF i \in S THEN 1 ELSE 0]

\* The views of a list: a row keeps its view, a row that is no longer pending mounts
\* one, the others have none.
ViewsOf(list) ==
    [i \in Cells |->
        IF i = 0 THEN 0
        ELSE IF list[i] \in {"none", "pending"} THEN 0
        ELSE IF view[i] # 0 THEN view[i] ELSE tries[i] + 1]

\* What the views of a new list send: a mounted view sends once for controlSend and, if
\* its row is failed already, once for controlRetry; a view whose row becomes failed
\* sends again when "retry all" was ever clicked, as the value reaches it only then.
EffectsOf(list, flags) ==
    [i \in Cells |->
        IF i = 0 THEN 0
        ELSE LET again == list[i] = "failed" /\ controlRetry
             IN  IF list[i] \in {"none", "pending"} THEN 0
                 ELSE IF view[i] = 0 THEN IF again THEN 2 ELSE 1
                 ELSE IF again /\ tasks[i] # "failed" /\ ~flags[i] THEN 1 ELSE 0]

\* A view reports to the page and the page renders.  "reports" is the sequence of the
\* values of isSuccess with which handleCompleted is called.
Report(i, k, reports, req) ==
    LET list1  == ListAfter(tasks, currGroupNum, i, reports[1])
        group1 == GroupAfter(tasks, currGroupNum)
        list   == IF Len(reports) = 1 THEN list1
                  ELSE ListAfter(list1, group1, i, reports[2])
        group  == IF Len(reports) = 1 THEN group1 ELSE GroupAfter(list1, group1)
        flags  == IF Mounted(i, k) THEN [busy EXCEPT ![i] = FALSE] ELSE busy
        reqs   == [attempts EXCEPT ![i][k] = req]
    IN  /\ tasks' = list
        /\ currGroupNum' = group
        /\ IF isCallBatchAPI
           THEN Send(EffectsOf(list, flags), ViewsOf(list), flags, reqs)
           ELSE Send(Once({}), view, flags, reqs)
        /\ UNCHANGED <<isCallBatchAPI, controlRetry, runs, retries, historyVars>>

\* Mutant: a request that was given up still reports.
EndWithoutTimeoutCheck(i, k, reports) ==
    /\ attempts[i][k].state # "none"
    /\ Report(i, k, reports, NoTry)

\* A request ends: its callbacks do nothing when its view has given it up (isTimeout).
End(i, k, reports) ==
    \/ /\ attempts[i][k].state = "open"
       /\ Report(i, k, reports, NoTry)
    \/ /\ attempts[i][k].state = "late"
       /\ attempts' = [attempts EXCEPT ![i][k] = NoTry]
       /\ UNCHANGED <<pageVars, tries, view, busy, runs, retries, historyVars>>

-----------------------------------------------------------------------------
(* How try k of cell i ends.  A view that is gone still has its callbacks. *)

\* The stream ends: onCompleted.
Complete(i, k) == End(i, k, <<TRUE>>)

\* The request is rejected or its status is not 2xx or 3xx: onError.
Refuse(i, k) == End(i, k, <<FALSE>>)

\* A line with an error in the stream: handleStream calls onError and then
\* onCompleted(true), and the view's onCompleted does not look at its argument.
FailInStream(i, k) == End(i, k, <<FALSE, TRUE>>)

\* One minute has passed: the view reports a failure and ignores how the request ends.
TimeOut(i, k) ==
    /\ attempts[i][k].state = "open"
    /\ Report(i, k, <<FALSE>>, [attempts[i][k] EXCEPT !.state = "late"])

-----------------------------------------------------------------------------
(* The user *)

ClickRun ==
    /\ runs + retries < MaxCommands
    /\ runs' = runs + 1
    /\ UNCHANGED retries

ClickRetry ==
    /\ runs + retries < MaxCommands
    /\ retries' = retries + 1
    /\ UNCHANGED runs

NoRequestOpen ==
    \A i \in Cells, k \in Tries : attempts[i][k].state # "open"

\* handleSend: the list is cleared and the single view is mounted; it sends unless it is
\* responding or checkCanSend finds an input or an image missing.
RunOnce(canSend) ==
    LET mounted == ~isCallBatchAPI /\ view[0] # 0
        views   == [i \in Cells |-> IF i # 0 THEN 0
                                    ELSE IF mounted THEN view[0] ELSE tries[0] + 1]
        flags   == [i \in Cells |-> i = 0 /\ mounted /\ busy[0]]
    IN  /\ ClickRun
        /\ views[0] <= MaxTries
        /\ isCallBatchAPI' = FALSE
        /\ tasks' = [i \in Rows |-> "none"]
        /\ Send(Once(IF canSend /\ ~flags[0] THEN {0} ELSE {}), views, flags, attempts)
        /\ UNCHANGED <<currGroupNum, controlRetry, historyVars>>

\* handleRunBatch: only when every task of the list is completed.  The views that stay
\* stop responding and send again, unless they were responding.
RunBatch(file) ==
    LET list  == NewTaskList(Cardinality(FilledLines(file)))
        views == [ViewsOf(list) EXCEPT ![0] = 0]
        again == {i \in Rows : view[i] # 0 /\ list[i] = "running" /\ ~busy[i]}
        new   == {i \in Rows : view[i] = 0 /\ list[i] = "running"}
    IN  /\ ClickRun
        /\ checkBatchInputs(file)
        /\ Listed(tasks) = WithStatus(tasks, {"completed"})
        /\ tasks' = list
        /\ isCallBatchAPI' = TRUE
        /\ Send(Once(again \cup new), views, [i \in Cells |-> FALSE], attempts)
        /\ inherited' = currGroupNum
        /\ quiet' = NoRequestOpen
        /\ UNCHANGED <<currGroupNum, controlRetry>>

Failed == WithStatus(tasks, {"failed"})

\* handleRetryAllFailedTask: the views of the failed rows send unless they respond.
RetryAll ==
    /\ ClickRetry
    /\ Failed # {}
    /\ controlRetry' = TRUE
    /\ Send(Once({i \in Failed : ~busy[i]}), view, busy, attempts)
    /\ UNCHANGED <<tasks, isCallBatchAPI, currGroupNum, historyVars>>

\* onRetry of one failed row
Retry(i) ==
    /\ ClickRetry
    /\ i \in Failed
    /\ ~busy[i]
    /\ Send(Once({i}), view, busy, attempts)
    /\ UNCHANGED <<tasks, isCallBatchAPI, currGroupNum, controlRetry,
                   historyVars>>

-----------------------------------------------------------------------------

Init ==
    /\ tasks = [i \in Rows |-> "none"]
    /\ isCallBatchAPI = FALSE
    /\ currGroupNum = 0
    /\ controlRetry = FALSE
    /\ tries = [i \in Cells |-> 0]
    /\ view = [i \in Cells |-> 0]
    /\ busy = [i \in Cells |-> FALSE]
    /\ attempts = [i \in Cells |-> [k \in Tries |-> NoTry]]
    /\ runs = 0
    /\ retries = 0
    /\ inherited = 0
    /\ quiet = TRUE

User ==
    \/ \E canSend \in BOOLEAN : RunOnce(canSend)
    \/ \E file \in Uploads : RunBatch(file)
    \/ RetryAll
    \/ \E i \in Rows : Retry(i)

Network(i, k) ==
    \/ Complete(i, k)
    \/ Refuse(i, k)
    \/ FailInStream(i, k)

Next == User \/ \E i \in Cells, k \in Tries : Network(i, k) \/ TimeOut(i, k)

\* The browser runs the intervals of the views; neither the network nor the user has
\* to do anything.
Fairness == \A i \in Cells : WF_vars(\E k \in Tries : TimeOut(i, k))

Spec == Init /\ [][Next]_vars /\ Fairness

-----------------------------------------------------------------------------

TypeOK ==
    /\ tasks \in [Rows -> Status \cup {"none"}]
    /\ isCallBatchAPI \in BOOLEAN
    /\ currGroupNum \in 0..MaxRows
    /\ controlRetry \in BOOLEAN
    /\ tries \in [Cells -> 0..MaxTries]
    /\ view \in [Cells -> 0..MaxTries]
    /\ busy \in [Cells -> BOOLEAN]
    /\ attempts \in [Cells -> [Tries -> Try]]
    /\ runs \in 0..MaxCommands
    /\ retries \in 0..MaxCommands
    /\ inherited \in 0..MaxRows
    /\ quiet \in BOOLEAN

(* A batch does not stop half-way: rows are left pending with no request that could    *)
(* report only when the list began with the currGroupNum of an earlier list, which     *)
(* handleCompleted then takes for a group it has already started.  (This is for groups *)
(* of more than one row; the code has 5.)                                              *)
StuckOnlyByStaleGroup ==
    quiet /\ Pending(tasks) # {} /\ NoRequestOpen
        => inherited # 0 /\ currGroupNum = inherited

\* The requests of a row that its view still waits for.
OpenTries(i) == {k \in Tries : attempts[i][k].state = "open"}

(* What the groups bound: in a list made while no request was open, a row has one open *)
(* request at most, however it fails, is reported twice, is retried or given up, and   *)
(* the rows that wait for their first report are at most one more than a group.        *)
(* Retries are not bound by the groups: "retry all" sends for every failed row at      *)
(* once, on top of a group that runs, and a request that its view has given up goes on *)
(* without being counted here.                                                         *)
GroupsBoundTheRequests ==
    quiet /\ isCallBatchAPI =>
        /\ \A i \in Rows : Cardinality(OpenTries(i)) <= 1
        /\ Cardinality({i \in Rows \ Failed : OpenTries(i) # {}}) <= GROUP_SIZE + 1

(* A completed row stays completed until the user replaces the list, although requests *)
(* that were given up go on: their ends are not reported any more.                     *)
CompletedStays ==
    [][quiet /\ runs' = runs
        => WithStatus(tasks, {"completed"}) \subseteq WithStatus(tasks', {"completed"})]_vars

(* Every row of the first list gets its turn, whatever the network does: each request  *)
(* ends or is given up, and its report starts the next group.                          *)
EveryRowGetsItsTurn ==
    \A i \in Rows : (tasks[i] = "pending" /\ inherited = 0) ~> (tasks[i] # "pending")
=============================================================================
