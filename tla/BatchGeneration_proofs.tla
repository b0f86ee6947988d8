------------------------ MODULE BatchGeneration_proofs ------------------------
(***************************************************************************)
(* What holds of the text generation page for every size of the groups,    *)
(* every file and any number of rows, clicks and requests: types, that a   *)
(* completed row is not taken back by a request that was given up, what    *)
(* the groups bound of the requests, and that a batch does not stop        *)
(* half-way but for the group number it inherited.                         *)
(***************************************************************************)
EXTENDS BatchGeneration, FiniteSetTheorems, FunctionTheorems, TLAPS

ListType == [Rows -> Status \cup {"none"}]
ReqType == [Cells -> [Tries -> Try]]

LEMMA ConstantTypes ==
    /\ MaxRows \in Nat /\ MaxCommands \in Nat /\ MaxTries \in Nat
    /\ Rows \subseteq Cells /\ 0 \in Cells /\ 0 \notin Rows
    /\ \A i \in Cells \ Rows : i = 0
    /\ "none" \notin Status
    /\ Status = {"pending", "running", "completed", "failed"}
BY BoundsAssumption DEF Rows, Cells, Status

-----------------------------------------------------------------------------
(* Types *)

\* handleCompleted: the reported row gets its result, pending ones may start.
LEMMA ListAfterResult ==
    ASSUME NEW list \in ListType, NEW group, NEW cell, NEW isSuccess \in BOOLEAN
    PROVE  /\ ListAfter(list, group, cell, isSuccess) \in ListType
           /\ \A j \in Rows : LET new == ListAfter(list, group, cell, isSuccess)[j]
                              IN  IF j = cell /\ list[j] # "none"
                                  THEN new = (IF isSuccess THEN "completed" ELSE "failed")
                                  ELSE new = list[j] \/ (list[j] = "pending" /\ new = "running")
<1> DEFINE new == ListAfter(list, group, cell, isSuccess)
<1>1. \A j \in Rows : new[j] =
          IF j = cell /\ list[j] # "none"
          THEN IF isSuccess THEN "completed" ELSE "failed"
          ELSE IF NeedsNextGroup(list, group) /\ j \in NextPending(list)
               THEN "running" ELSE list[j]
  BY DEF ListAfter
<1>2. \A j \in Rows : j \in NextPending(list) => list[j] = "pending"
  BY DEF NextPending, Pending, WithStatus
<1>3. \A j \in Rows : list[j] \in Status \cup {"none"}
  BY DEF ListType
<1>4. \A j \in Rows : new[j] \in Status \cup {"none"}
  BY <1>1, <1>3, ConstantTypes
<1>5. new \in ListType
  BY <1>4 DEF ListAfter, ListType
<1> HIDE DEF new
<1>6. \A j \in Rows : IF j = cell /\ list[j] # "none"
                      THEN new[j] = (IF isSuccess THEN "completed" ELSE "failed")
                      ELSE new[j] = list[j] \/ (list[j] = "pending" /\ new[j] = "running")
  BY <1>1, <1>2
<1> QED
  BY <1>5, <1>6 DEF new

\* The number of a group is at most that of the rows: a pending one is not finished.
LEMMA GroupAfterType ==
    ASSUME NEW list \in ListType, NEW group \in 0..MaxRows
    PROVE  GroupAfter(list, group) \in 0..MaxRows
<1>1. CASE ~NeedsNextGroup(list, group)
  BY <1>1 DEF GroupAfter
<1>2. CASE NeedsNextGroup(list, group)
  <2>1. PICK p \in Rows : list[p] = "pending"
    BY <1>2 DEF NeedsNextGroup, Pending, WithStatus
  <2>2. IsFiniteSet(Rows) /\ Cardinality(Rows) = MaxRows
    <3>1. IsFiniteSet(1..MaxRows)
          /\ Cardinality(1..MaxRows) = IF 1 > MaxRows THEN 0 ELSE MaxRows - 1 + 1
      BY ConstantTypes, FS_Interval
    <3> QED
      BY <3>1, ConstantTypes DEF Rows
  <2>3. Finished(list) \subseteq Rows \ {p}
    BY <2>1 DEF Finished, WithStatus
  <2>4. IsFiniteSet(Rows \ {p}) /\ Cardinality(Rows \ {p}) = MaxRows - 1
    BY <2>2, FS_RemoveElement
  <2>5. Cardinality(Finished(list)) <= MaxRows - 1 /\ IsFiniteSet(Finished(list))
    BY <2>3, <2>4, FS_Subset
  <2>6. Cardinality(Finished(list)) \in Nat
    BY <2>5, FS_CardinalityType
  <2> QED
    BY <1>2, <2>5, <2>6, ConstantTypes DEF GroupAfter, HadRun
<1> QED
  BY <1>1, <1>2

\* What the views send is added to the requests, and the rest stays.
LEMMA SendResult ==
    ASSUME TypeOK, NEW count \in [Cells -> 0..2], NEW views \in [Cells -> Nat],
           NEW flags \in [Cells -> BOOLEAN], NEW reqs \in ReqType,
           \A i \in Cells : views[i] <= MaxTries \/ (views[i] = tries[i] + 1 /\ count[i] # 0),
           Send(count, views, flags, reqs)
    PROVE  /\ tries' \in [Cells -> 0..MaxTries]
           /\ view' = views /\ view' \in [Cells -> 0..MaxTries]
           /\ busy' \in [Cells -> BOOLEAN]
           /\ \A i \in Cells : busy'[i] <=> flags[i] \/ count[i] > 0
           /\ attempts' \in ReqType
           /\ \A i \in Cells, k \in Tries :
                  \/ attempts'[i][k] = reqs[i][k]
                  \/ /\ attempts'[i][k] = [view |-> views[i], state |-> "open"]
                     /\ tries[i] < k /\ k <= tries[i] + count[i]
<1>1. tries \in [Cells -> 0..MaxTries] /\ MaxTries \in Nat
  BY ConstantTypes DEF TypeOK
<1>2. \A i \in Cells : count[i] \in 0..2 /\ tries[i] \in Nat /\ views[i] \in Nat
                       /\ tries[i] + count[i] <= MaxTries
  BY <1>1 DEF Send
<1>3. tries' \in [Cells -> 0..MaxTries]
  <2>1. \A i \in Cells : tries[i] + count[i] \in 0..MaxTries
    BY <1>1, <1>2
  <2>2. tries' = [i \in Cells |-> tries[i] + count[i]]
    BY DEF Send
  <2> QED
    BY <2>1, <2>2
<1>4. \A i \in Cells : views[i] \in 0..MaxTries
  BY <1>1, <1>2
<1>5. view' = views /\ view' \in [Cells -> 0..MaxTries]
  BY <1>4 DEF Send
<1>6. busy' \in [Cells -> BOOLEAN] /\ \A i \in Cells : busy'[i] <=> flags[i] \/ count[i] > 0
  BY DEF Send
<1>7. \A i \in Cells, k \in Tries :
          attempts'[i][k] = IF k > tries[i] /\ k <= tries[i] + count[i]
                            THEN [view |-> views[i], state |-> "open"] ELSE reqs[i][k]
  BY DEF Send
<1>8. \A i \in Cells, k \in Tries : attempts'[i][k] \in Try
  <2> SUFFICES ASSUME NEW i \in Cells, NEW k \in Tries PROVE attempts'[i][k] \in Try
    OBVIOUS
  <2>1. [view |-> views[i], state |-> "open"] \in Try
    BY <1>4 DEF Try
  <2>2. reqs[i][k] \in Try
    BY DEF ReqType
  <2> QED
    BY <1>7, <2>1, <2>2
<1>9. attempts' \in ReqType
  BY <1>8 DEF Send, ReqType
<1>10. \A i \in Cells, k \in Tries :
          \/ attempts'[i][k] = reqs[i][k]
          \/ /\ attempts'[i][k] = [view |-> views[i], state |-> "open"]
             /\ tries[i] < k /\ k <= tries[i] + count[i]
  BY <1>1, <1>2, <1>7 DEF Tries
<1> QED
  BY <1>3, <1>5, <1>6, <1>9, <1>10

\* What the views send with a new list: a view that is mounted sends.
LEMMA EffectsResult ==
    ASSUME TypeOK, NEW list \in ListType, NEW flags \in [Cells -> BOOLEAN]
    PROVE  /\ EffectsOf(list, flags) \in [Cells -> 0..2]
           /\ ViewsOf(list) \in [Cells -> Nat]
           /\ \A i \in Cells :
                 \/ ViewsOf(list)[i] <= MaxTries
                 \/ ViewsOf(list)[i] = tries[i] + 1 /\ EffectsOf(list, flags)[i] # 0
<1>1. view \in [Cells -> 0..MaxTries] /\ tries \in [Cells -> 0..MaxTries] /\ MaxTries \in Nat
  BY ConstantTypes DEF TypeOK
<1>2. \A i \in Cells : view[i] \in 0..MaxTries /\ tries[i] \in 0..MaxTries
  BY <1>1
<1>3. EffectsOf(list, flags) \in [Cells -> 0..2]
  BY DEF EffectsOf
<1>4. ViewsOf(list) \in [Cells -> Nat]
  BY <1>1, <1>2 DEF ViewsOf
<1>5. \A i \in Cells :
          \/ ViewsOf(list)[i] <= MaxTries
          \/ ViewsOf(list)[i] = tries[i] + 1 /\ EffectsOf(list, flags)[i] # 0
  BY <1>1, <1>2 DEF ViewsOf, EffectsOf
<1> QED
  BY <1>3, <1>4, <1>5

FlagsAfter(i, k) == IF Mounted(i, k) THEN [busy EXCEPT ![i] = FALSE] ELSE busy

Reports == {<<TRUE>>, <<FALSE>>, <<FALSE, TRUE>>}

LEMMA ReportsType ==
    ASSUME NEW reports \in Reports
    PROVE  /\ reports[1] \in BOOLEAN
           /\ Len(reports) # 1 => reports[2] \in BOOLEAN
<1>1. <<TRUE>> \in Seq(BOOLEAN) /\ <<FALSE>> \in Seq(BOOLEAN) /\ <<FALSE, TRUE>> \in Seq(BOOLEAN)
  OBVIOUS
<1>2. reports \in Seq(BOOLEAN)
  BY <1>1 DEF Reports
<1>3. Len(reports) \in {1, 2}
  <2>1. Len(<<TRUE>>) = 1 /\ Len(<<FALSE>>) = 1 /\ Len(<<FALSE, TRUE>>) = 2
    OBVIOUS
  <2> QED
    BY <2>1 DEF Reports
<1>4. \A n \in 1..Len(reports) : reports[n] \in BOOLEAN
  BY <1>2
<1> QED
  BY <1>3, <1>4

\* A report: its row gets a result, and other rows keep theirs or start.
LEMMA ReportResult ==
    ASSUME TypeOK, NEW i \in Cells, NEW k \in Tries, NEW reports \in Reports, NEW req \in Try,
           Report(i, k, reports, req)
    PROVE  /\ tasks' \in ListType
           /\ currGroupNum' \in 0..MaxRows
           /\ \A j \in Rows : IF j = i /\ tasks[j] # "none"
                              THEN tasks'[j] \in {"completed", "failed"}
                              ELSE tasks'[j] = tasks[j]
                                   \/ (tasks[j] = "pending" /\ tasks'[j] = "running")
<1>0. tasks \in ListType /\ currGroupNum \in 0..MaxRows
  BY DEF TypeOK, ListType
<1>1. CASE Len(reports) = 1
  <2>1. reports[1] \in BOOLEAN
    BY ReportsType
  <2>2. tasks' = ListAfter(tasks, currGroupNum, i, reports[1])
    BY <1>1 DEF Report
  <2>3. currGroupNum' = GroupAfter(tasks, currGroupNum)
    BY <1>1 DEF Report
  <2> QED
    BY <1>0, <2>1, <2>2, <2>3, ListAfterResult, GroupAfterType
<1>2. CASE Len(reports) # 1
  <2>1. reports[1] \in BOOLEAN /\ reports[2] \in BOOLEAN
    BY <1>2, ReportsType
  <2> DEFINE list1  == ListAfter(tasks, currGroupNum, i, reports[1])
             group1 == GroupAfter(tasks, currGroupNum)
  <2>2. tasks' = ListAfter(list1, group1, i, reports[2])
    BY <1>2 DEF Report
  <2>3. currGroupNum' = GroupAfter(list1, group1)
    BY <1>2 DEF Report
  <2>4. list1 \in ListType /\ group1 \in 0..MaxRows
    BY <1>0, <2>1, ListAfterResult, GroupAfterType
  <2>5. \A j \in Rows : IF j = i /\ tasks[j] # "none"
                        THEN list1[j] \in {"completed", "failed"}
                        ELSE list1[j] = tasks[j]
                             \/ (tasks[j] = "pending" /\ list1[j] = "running")
    BY <1>0, <2>1, ListAfterResult
  <2> HIDE DEF list1, group1
  <2>6. tasks' \in ListType /\ currGroupNum' \in 0..MaxRows
    BY <2>1, <2>2, <2>3, <2>4, ListAfterResult, GroupAfterType
  <2>7. \A j \in Rows : IF j = i /\ list1[j] # "none"
                        THEN tasks'[j] \in {"completed", "failed"}
                        ELSE tasks'[j] = list1[j]
                             \/ (list1[j] = "pending" /\ tasks'[j] = "running")
    BY <2>1, <2>2, <2>4, ListAfterResult
  <2> QED
    BY <2>5, <2>6, <2>7
<1> QED
  BY <1>1, <1>2

\* A report: what the views send after it.
LEMMA ReportSends ==
    ASSUME TypeOK, NEW i \in Cells, NEW k \in Tries, NEW reports \in Reports, NEW req \in Try,
           Report(i, k, reports, req)
    PROVE  /\ FlagsAfter(i, k) \in [Cells -> BOOLEAN]
           /\ [attempts EXCEPT ![i][k] = req] \in ReqType
           /\ IF isCallBatchAPI
              THEN Send(EffectsOf(tasks', FlagsAfter(i, k)), ViewsOf(tasks'),
                        FlagsAfter(i, k), [attempts EXCEPT ![i][k] = req])
              ELSE Send(Once({}), view, FlagsAfter(i, k), [attempts EXCEPT ![i][k] = req])
           /\ UNCHANGED <<isCallBatchAPI, controlRetry, runs, retries, inherited, quiet>>
<1>1. FlagsAfter(i, k) \in [Cells -> BOOLEAN]
  BY DEF FlagsAfter, TypeOK
<1>2. [attempts EXCEPT ![i][k] = req] \in ReqType
  BY DEF TypeOK, ReqType
<1> QED
  BY <1>1, <1>2 DEF Report, FlagsAfter, historyVars

\* A cell sends at most once for a click.
LEMMA OnceResult ==
    ASSUME NEW S
    PROVE  /\ Once(S) \in [Cells -> 0..2]
           /\ \A i \in Cells : Once(S)[i] = IF i \in S THEN 1 ELSE 0
BY DEF Once

LEMMA ReportTypes ==
    ASSUME TypeOK, NEW i \in Cells, NEW k \in Tries, NEW reports \in Reports, NEW req \in Try,
           Report(i, k, reports, req)
    PROVE  TypeOK'
<1> DEFINE reqs == [attempts EXCEPT ![i][k] = req]
<1>1. /\ tries' \in [Cells -> 0..MaxTries] /\ view' \in [Cells -> 0..MaxTries]
      /\ busy' \in [Cells -> BOOLEAN] /\ attempts' \in ReqType
  <2>1. CASE isCallBatchAPI
    <3> DEFINE count == EffectsOf(tasks', FlagsAfter(i, k))
               views == ViewsOf(tasks')
               flags == FlagsAfter(i, k)
    <3>1. tasks' \in ListType
      BY ReportResult
    <3>2. flags \in [Cells -> BOOLEAN] /\ reqs \in ReqType
      BY ReportSends
    <3>3. Send(count, views, flags, reqs)
      BY <2>1, ReportSends
    <3>4. /\ count \in [Cells -> 0..2] /\ views \in [Cells -> Nat]
          /\ \A j \in Cells : views[j] <= MaxTries \/ (views[j] = tries[j] + 1 /\ count[j] # 0)
      BY <3>1, <3>2, EffectsResult
    <3> HIDE DEF count, views, flags, reqs
    <3> QED
      BY <3>2, <3>3, <3>4, SendResult
  <2>2. CASE ~isCallBatchAPI
    <3>1. view \in [Cells -> Nat] /\ \A j \in Cells : view[j] <= MaxTries
      BY ConstantTypes DEF TypeOK
    <3> DEFINE count == Once({})
               flags == FlagsAfter(i, k)
    <3>2. flags \in [Cells -> BOOLEAN] /\ reqs \in ReqType
      BY ReportSends
    <3>3. Send(count, view, flags, reqs)
      BY <2>2, ReportSends
    <3>4. count \in [Cells -> 0..2]
      BY OnceResult
    <3> HIDE DEF count, flags, reqs
    <3> QED
      BY <3>1, <3>2, <3>3, <3>4, SendResult
  <2> QED
    BY <2>1, <2>2
<1>2. tasks' \in ListType /\ currGroupNum' \in 0..MaxRows
  BY ReportResult
<1>3. UNCHANGED <<isCallBatchAPI, controlRetry, runs, retries, inherited, quiet>>
  BY ReportSends
<1> QED
  BY <1>1, <1>2, <1>3 DEF TypeOK, ListType, ReqType

\* The views of a new list that RunBatch makes, and what they send
LEMMA NewListResult ==
    ASSUME NEW n
    PROVE  /\ NewTaskList(n) \in ListType
           /\ \A i \in Rows : NewTaskList(n)[i] \in {"none", "pending", "running"}
BY ConstantTypes DEF NewTaskList, ListType

RowViews(list) == [ViewsOf(list) EXCEPT ![0] = 0]
Starting(list) == {i \in Rows : view[i] # 0 /\ list[i] = "running" /\ ~busy[i]}
                  \cup {i \in Rows : view[i] = 0 /\ list[i] = "running"}
NoFlags == [i \in Cells |-> FALSE]

LEMMA RunBatchResult ==
    ASSUME TypeOK, NEW file \in Uploads, RunBatch(file)
    PROVE  /\ tasks' \in ListType
           /\ \A i \in Rows : tasks'[i] \in {"none", "pending", "running"}
           /\ Send(Once(Starting(tasks')), RowViews(tasks'), NoFlags, attempts)
           /\ isCallBatchAPI' = TRUE /\ quiet' = NoRequestOpen
           /\ inherited' = currGroupNum /\ runs' = runs + 1 /\ runs' \in 0..MaxCommands
           /\ UNCHANGED <<currGroupNum, controlRetry, retries>>
<1>1. tasks' \in ListType /\ \A i \in Rows : tasks'[i] \in {"none", "pending", "running"}
  BY NewListResult DEF RunBatch
<1>2. Send(Once(Starting(tasks')), RowViews(tasks'), NoFlags, attempts)
  BY DEF RunBatch, Starting, RowViews, NoFlags
<1>3. runs' = runs + 1 /\ runs' \in 0..MaxCommands
  BY ConstantTypes DEF RunBatch, ClickRun, TypeOK
<1> QED
  BY <1>1, <1>2, <1>3 DEF RunBatch, ClickRun

LEMMA RowViewsResult ==
    ASSUME TypeOK, NEW list \in ListType
    PROVE  /\ RowViews(list) \in [Cells -> Nat]
           /\ \A i \in Rows : RowViews(list)[i] = ViewsOf(list)[i]
           /\ \A i \in Rows : list[i] \in {"none", "pending", "running"} =>
                 \/ RowViews(list)[i] <= MaxTries
                 \/ RowViews(list)[i] = tries[i] + 1 /\ i \in Starting(list)
           /\ RowViews(list)[0] = 0
<1>1. view \in [Cells -> 0..MaxTries] /\ tries \in [Cells -> 0..MaxTries] /\ MaxTries \in Nat
  BY ConstantTypes DEF TypeOK
<1>2. ViewsOf(list) \in [Cells -> Nat]
  BY <1>1 DEF ViewsOf
<1>3. RowViews(list) \in [Cells -> Nat] /\ RowViews(list)[0] = 0
      /\ \A i \in Rows : RowViews(list)[i] = ViewsOf(list)[i]
  BY <1>2, ConstantTypes DEF RowViews
<1>4. \A i \in Rows : list[i] \in {"none", "pending", "running"} =>
          \/ ViewsOf(list)[i] <= MaxTries
          \/ ViewsOf(list)[i] = tries[i] + 1 /\ i \in Starting(list)
  BY <1>1, ConstantTypes DEF ViewsOf, Starting
<1> QED
  BY <1>3, <1>4

LEMMA RunBatchTypes ==
    ASSUME TypeOK, NEW file \in Uploads, RunBatch(file)
    PROVE  TypeOK'
<1> DEFINE count == Once(Starting(tasks'))
           views == RowViews(tasks')
<1>1. count \in [Cells -> 0..2] /\ views \in [Cells -> Nat] /\ attempts \in ReqType
      /\ NoFlags \in [Cells -> BOOLEAN]
  BY RunBatchResult, OnceResult, RowViewsResult DEF TypeOK, ReqType, NoFlags
<1>2. \A j \in Cells : views[j] <= MaxTries \/ (views[j] = tries[j] + 1 /\ count[j] # 0)
  <2> SUFFICES ASSUME NEW j \in Cells
               PROVE  views[j] <= MaxTries \/ (views[j] = tries[j] + 1 /\ count[j] # 0)
    OBVIOUS
  <2>1. CASE j = 0
    <3>1. tasks' \in ListType
      BY RunBatchResult
    <3>2. views[0] = 0
      BY <3>1, RowViewsResult
    <3> QED
      BY <2>1, <3>2, ConstantTypes
  <2>2. CASE j \in Rows
    <3>1. views[j] <= MaxTries \/ (views[j] = tries[j] + 1 /\ j \in Starting(tasks'))
      BY <2>2, RunBatchResult, RowViewsResult
    <3> QED
      BY <3>1, OnceResult
  <2> QED
    BY <2>1, <2>2, ConstantTypes
<1>3. Send(count, views, NoFlags, attempts)
  BY RunBatchResult
<1> HIDE DEF count, views
<1>4. /\ tries' \in [Cells -> 0..MaxTries] /\ view' \in [Cells -> 0..MaxTries]
      /\ busy' \in [Cells -> BOOLEAN] /\ attempts' \in ReqType
  BY <1>1, <1>2, <1>3, SendResult
<1>5. quiet' \in BOOLEAN
  BY RunBatchResult DEF NoRequestOpen
<1> QED
  BY <1>4, <1>5, RunBatchResult DEF TypeOK, ListType, ReqType

LEMMA RunOnceTypes ==
    ASSUME TypeOK, NEW canSend \in BOOLEAN, RunOnce(canSend)
    PROVE  /\ TypeOK' /\ isCallBatchAPI' = FALSE /\ runs' = runs + 1
           /\ \A i \in Rows : tasks'[i] = "none"
<1> DEFINE mounted == ~isCallBatchAPI /\ view[0] # 0
           views == [i \in Cells |-> IF i # 0 THEN 0
                                     ELSE IF mounted THEN view[0] ELSE tries[0] + 1]
           flags == [i \in Cells |-> i = 0 /\ mounted /\ busy[0]]
           count == Once(IF canSend /\ ~flags[0] THEN {0} ELSE {})
<1>0. 0 \in Cells /\ view[0] \in 0..MaxTries /\ tries[0] \in 0..MaxTries /\ MaxTries \in Nat
  BY ConstantTypes DEF TypeOK
<1>1. Send(count, views, flags, attempts) /\ views[0] <= MaxTries
  BY DEF RunOnce
<1>2. views \in [Cells -> Nat] /\ flags \in [Cells -> BOOLEAN] /\ attempts \in ReqType
  BY <1>0 DEF TypeOK, ReqType
<1>3. count \in [Cells -> 0..2]
  BY OnceResult
<1>4. \A j \in Cells : views[j] <= MaxTries
  <2>1. \A j \in Cells : j # 0 => views[j] = 0
    OBVIOUS
  <2> HIDE DEF views
  <2> QED
    BY <1>0, <1>1, <2>1
<1> HIDE DEF mounted, views, flags, count
<1>5. /\ tries' \in [Cells -> 0..MaxTries] /\ view' \in [Cells -> 0..MaxTries]
      /\ busy' \in [Cells -> BOOLEAN] /\ attempts' \in ReqType
  BY <1>1, <1>2, <1>3, <1>4, SendResult
<1>6. runs' = runs + 1 /\ runs' \in 0..MaxCommands /\ retries' = retries
  BY ConstantTypes DEF RunOnce, ClickRun, TypeOK
<1>7. tasks' \in ListType /\ \A i \in Rows : tasks'[i] = "none"
  BY DEF RunOnce, ListType
<1> QED
  BY <1>5, <1>6, <1>7 DEF TypeOK, ListType, ReqType, RunOnce, historyVars

\* The two ways to retry: the list and the views stay, some views send that did not
\* respond.
LEMMA RetryResult ==
    ASSUME TypeOK, RetryAll \/ \E i \in Rows : Retry(i)
    PROVE  /\ \E S \in SUBSET {i \in Failed : ~busy[i]} : Send(Once(S), view, busy, attempts)
           /\ UNCHANGED <<tasks, isCallBatchAPI, currGroupNum, runs, inherited, quiet>>
           /\ controlRetry' \in BOOLEAN
           /\ retries' \in 0..MaxCommands
<1>1. CASE RetryAll
  <2>1. retries' \in 0..MaxCommands /\ runs' = runs
    BY <1>1, ConstantTypes DEF RetryAll, ClickRetry, TypeOK
  <2> QED
    BY <1>1, <2>1 DEF RetryAll, historyVars
<1>2. ASSUME NEW i \in Rows, Retry(i) PROVE
           /\ \E S \in SUBSET {j \in Failed : ~busy[j]} : Send(Once(S), view, busy, attempts)
           /\ UNCHANGED <<tasks, isCallBatchAPI, currGroupNum, runs, inherited, quiet>>
           /\ controlRetry' \in BOOLEAN
           /\ retries' \in 0..MaxCommands
  <2>1. retries' \in 0..MaxCommands /\ runs' = runs
    BY <1>2, ConstantTypes DEF Retry, ClickRetry, TypeOK
  <2>2. {i} \in SUBSET {j \in Failed : ~busy[j]} /\ Send(Once({i}), view, busy, attempts)
    BY <1>2 DEF Retry
  <2>3. UNCHANGED <<tasks, isCallBatchAPI, currGroupNum, controlRetry, inherited, quiet>>
    BY <1>2 DEF Retry, historyVars
  <2> QED
    BY <2>1, <2>2, <2>3 DEF TypeOK
<1> QED
  BY <1>1, <1>2

LEMMA RetryTypes ==
    ASSUME TypeOK, RetryAll \/ \E i \in Rows : Retry(i)
    PROVE  TypeOK'
<1>1. PICK S \in SUBSET {i \in Failed : ~busy[i]} : Send(Once(S), view, busy, attempts)
  BY RetryResult
<1>2. view \in [Cells -> Nat] /\ \A j \in Cells : view[j] <= MaxTries
  BY ConstantTypes DEF TypeOK
<1>3. busy \in [Cells -> BOOLEAN] /\ attempts \in ReqType
  BY DEF TypeOK, ReqType
<1>4. Once(S) \in [Cells -> 0..2]
  BY OnceResult
<1>5. /\ tries' \in [Cells -> 0..MaxTries] /\ view' \in [Cells -> 0..MaxTries]
      /\ busy' \in [Cells -> BOOLEAN] /\ attempts' \in ReqType
  BY <1>1, <1>2, <1>3, <1>4, SendResult
<1> QED
  BY <1>5, RetryResult DEF TypeOK, ReqType

-----------------------------------------------------------------------------
(* A completed row stays completed: why no other request of it can report.             *)

Open(i, k) == attempts[i][k].state = "open"

\* Without a batch the list is empty.
NoListNoRows == ~isCallBatchAPI => \A i \in Rows : tasks[i] = "none"

\* The rows that have a view are those that are no longer pending.
ViewsFollowRows ==
    isCallBatchAPI => \A i \in Rows : view[i] # 0 <=> tasks[i] \notin {"none", "pending"}

\* When no request of an earlier list reports, a row has one open request at most, its
\* view waits for it, and it is not completed.
Awaited(i, k) ==
    /\ Mounted(i, k) /\ busy[i]
    /\ tasks[i] # "completed"
    /\ \A j \in Tries : Open(i, j) => j = k

OpenIsAwaited ==
    quiet /\ isCallBatchAPI => \A i \in Rows, k \in Tries : Open(i, k) => Awaited(i, k)

RowsInv == NoListNoRows /\ ViewsFollowRows /\ OpenIsAwaited

BatchInv == TypeOK /\ RowsInv

LEMMA OpenTypes ==
    ASSUME TypeOK
    PROVE  \A i \in Cells, k \in Tries :
              attempts[i][k] \in Try /\ attempts[i][k].view \in Nat
BY ConstantTypes DEF TypeOK, Try

\* A report without a batch changes no row.
LEMMA ReportWithoutBatch ==
    ASSUME BatchInv, ~isCallBatchAPI, NEW i \in Cells, NEW k \in Tries,
           NEW reports \in Reports, NEW req \in Try, Report(i, k, reports, req)
    PROVE  RowsInv' /\ \A j \in Rows : tasks'[j] = "none"
<1>1. \A j \in Rows : tasks[j] = "none"
  BY DEF BatchInv, RowsInv, NoListNoRows
<1>2. \A j \in Rows : tasks'[j] = "none"
  BY <1>1, ReportResult DEF BatchInv
<1>3. isCallBatchAPI' = isCallBatchAPI
  BY ReportSends DEF BatchInv
<1> QED
  BY <1>2, <1>3 DEF RowsInv, NoListNoRows, ViewsFollowRows, OpenIsAwaited

\* A report in a batch: the other rows, as long as requests are awaited, and its own.
LEMMA ReportOther ==
    ASSUME BatchInv, isCallBatchAPI, quiet, NEW i \in Cells, NEW k \in Tries,
           NEW reports \in Reports, NEW req \in Try, Report(i, k, reports, req),
           NEW j \in Rows, j # i
    PROVE  /\ tasks[j] \notin {"none", "pending"} =>
                 /\ tasks'[j] = tasks[j] /\ view'[j] = view[j] /\ busy'[j] = busy[j]
                 /\ attempts'[j] = attempts[j]
           /\ \A m \in Tries : Open(j, m)' => Awaited(j, m)'
<1> DEFINE count == EffectsOf(tasks', FlagsAfter(i, k))
           views == ViewsOf(tasks')
           flags == FlagsAfter(i, k)
           reqs == [attempts EXCEPT ![i][k] = req]
<1>a. j \in Cells /\ TypeOK /\ isCallBatchAPI' = isCallBatchAPI
  BY ConstantTypes, ReportSends DEF BatchInv
<1>1. tasks'[j] = tasks[j] \/ (tasks[j] = "pending" /\ tasks'[j] = "running")
  BY <1>a, ReportResult
<1>2. view[j] # 0 <=> tasks[j] \notin {"none", "pending"}
  BY DEF BatchInv, RowsInv, ViewsFollowRows
<1>3. flags[j] = busy[j] /\ reqs[j] = attempts[j]
  BY <1>a DEF FlagsAfter, TypeOK
<1>4. count[j] = IF view[j] = 0 /\ tasks'[j] = "running" THEN 1 ELSE 0
  BY <1>a, <1>1, <1>2, ConstantTypes DEF EffectsOf
<1>5. views[j] = IF tasks'[j] \in {"none", "pending"} THEN 0
                 ELSE IF view[j] # 0 THEN view[j] ELSE tries[j] + 1
  BY <1>a, ConstantTypes DEF ViewsOf
<1>6. /\ tasks' \in ListType /\ flags \in [Cells -> BOOLEAN] /\ reqs \in ReqType
      /\ Send(count, views, flags, reqs)
  BY <1>a, ReportResult, ReportSends
<1>7. /\ count \in [Cells -> 0..2] /\ views \in [Cells -> Nat]
      /\ \A c \in Cells : views[c] <= MaxTries \/ (views[c] = tries[c] + 1 /\ count[c] # 0)
  BY <1>a, <1>6, EffectsResult
<1> HIDE DEF count, views, flags, reqs
<1>8. /\ view' = views
      /\ busy' \in [Cells -> BOOLEAN] /\ (busy'[j] <=> flags[j] \/ count[j] > 0)
      /\ attempts' \in ReqType
      /\ \A m \in Tries :
            \/ attempts'[j][m] = reqs[j][m]
            \/ /\ attempts'[j][m] = [view |-> views[j], state |-> "open"]
               /\ tries[j] < m /\ m <= tries[j] + count[j]
  BY <1>a, <1>6, <1>7, SendResult
<1>9. tries[j] \in Nat /\ \A m \in Tries : m \in Nat
  BY <1>a DEF TypeOK, Tries
<1>10. CASE tasks[j] \notin {"none", "pending"}
  <2>1. tasks'[j] = tasks[j] /\ view[j] # 0 /\ count[j] = 0 /\ views[j] = view[j]
    BY <1>1, <1>2, <1>4, <1>5, <1>10
  <2>2. \A m \in Tries : attempts'[j][m] = attempts[j][m]
    BY <1>3, <1>8, <1>9, <2>1
  <2>3. attempts'[j] = attempts[j]
    BY <1>a, <1>8, <2>2 DEF ReqType, TypeOK
  <2>4. busy'[j] = busy[j]
    BY <1>a, <1>3, <1>8, <2>1 DEF TypeOK
  <2>5. \A m \in Tries : Open(j, m) => Awaited(j, m)
    BY DEF BatchInv, RowsInv, OpenIsAwaited
  <2>6. \A m \in Tries : Open(j, m)' => Awaited(j, m)'
    BY <1>8, <2>1, <2>3, <2>4, <2>5 DEF Open, Awaited, Mounted
  <2> QED
    BY <1>8, <2>1, <2>3, <2>4, <2>6
<1>11. CASE tasks[j] \in {"none", "pending"}
  <2>1. \A m \in Tries : ~Open(j, m)
    BY <1>2, <1>11 DEF BatchInv, RowsInv, OpenIsAwaited, Awaited, Mounted
  <2>2. \A m \in Tries : Open(j, m)' => m = tries[j] + 1 /\ count[j] = 1
                                        /\ attempts'[j][m].view = views[j]
    BY <1>3, <1>4, <1>8, <1>9, <2>1 DEF Open
  <2>3. \A m \in Tries : Open(j, m)' => Awaited(j, m)'
    <3> SUFFICES ASSUME NEW m \in Tries, Open(j, m)' PROVE Awaited(j, m)'
      OBVIOUS
    <3>1. count[j] = 1 /\ tasks'[j] = "running" /\ views[j] = tries[j] + 1
      BY <1>4, <1>5, <2>2
    <3>2. busy'[j] /\ view'[j] = attempts'[j][m].view /\ view'[j] # 0
      BY <1>8, <1>9, <2>2, <3>1
    <3>3. \A l \in Tries : Open(j, l)' => l = m
      BY <2>2
    <3> QED
      BY <3>1, <3>2, <3>3 DEF Awaited, Mounted, Open
  <2> QED
    BY <1>11, <2>3
<1> QED
  BY <1>10, <1>11

LEMMA ReportOwn ==
    ASSUME BatchInv, isCallBatchAPI, quiet, NEW i \in Rows, NEW k \in Tries,
           NEW reports \in Reports, NEW req \in Try, req.state # "open", Open(i, k),
           Report(i, k, reports, req)
    PROVE  \A m \in Tries : Open(i, m)' => Awaited(i, m)'
<1> DEFINE count == EffectsOf(tasks', FlagsAfter(i, k))
           views == ViewsOf(tasks')
           flags == FlagsAfter(i, k)
           reqs == [attempts EXCEPT ![i][k] = req]
<1>a. i \in Cells /\ i # 0 /\ TypeOK
  BY ConstantTypes DEF BatchInv
<1>b. Mounted(i, k) /\ busy[i] /\ \A j \in Tries : Open(i, j) => j = k
  BY DEF BatchInv, RowsInv, OpenIsAwaited, Awaited
<1>1. view[i] # 0
  BY <1>b DEF Mounted
<1>2. tasks[i] \notin {"none", "pending"}
  BY <1>1 DEF BatchInv, RowsInv, ViewsFollowRows
<1>3. tasks'[i] \in {"completed", "failed"}
  BY <1>a, <1>2, ReportResult
<1>4. ~flags[i]
  BY <1>a, <1>b DEF FlagsAfter, TypeOK
<1>5. \A m \in Tries : reqs[i][m].state # "open"
  BY <1>a, <1>b DEF Open, TypeOK
<1>6. count[i] \in {0, 1} /\ (count[i] = 1 => tasks'[i] = "failed")
  BY <1>a, <1>1, <1>3 DEF EffectsOf
<1>7. views[i] = view[i]
  BY <1>a, <1>1, <1>3 DEF ViewsOf
<1>8. /\ tasks' \in ListType /\ flags \in [Cells -> BOOLEAN] /\ reqs \in ReqType
      /\ Send(count, views, flags, reqs)
  BY <1>a, ReportResult, ReportSends
<1>9. /\ count \in [Cells -> 0..2] /\ views \in [Cells -> Nat]
      /\ \A c \in Cells : views[c] <= MaxTries \/ (views[c] = tries[c] + 1 /\ count[c] # 0)
  BY <1>a, <1>8, EffectsResult
<1> HIDE DEF count, views, flags, reqs
<1>10. /\ view' = views
       /\ (busy'[i] <=> flags[i] \/ count[i] > 0)
       /\ \A m \in Tries :
            \/ attempts'[i][m] = reqs[i][m]
            \/ /\ attempts'[i][m] = [view |-> views[i], state |-> "open"]
               /\ tries[i] < m /\ m <= tries[i] + count[i]
  BY <1>a, <1>8, <1>9, SendResult
<1>11. tries[i] \in Nat /\ \A m \in Tries : m \in Nat
  BY <1>a DEF TypeOK, Tries
<1>12. \A m \in Tries : Open(i, m)' => m = tries[i] + 1 /\ count[i] = 1
                                       /\ attempts'[i][m].view = view[i]
  BY <1>5, <1>6, <1>7, <1>10, <1>11 DEF Open
<1> SUFFICES ASSUME NEW m \in Tries, Open(i, m)' PROVE Awaited(i, m)'
  OBVIOUS
<1>13. busy'[i] /\ view'[i] = attempts'[i][m].view /\ view'[i] # 0
  BY <1>1, <1>7, <1>10, <1>12
<1>14. tasks'[i] # "completed"
  BY <1>6, <1>12
<1> QED
  BY <1>12, <1>13, <1>14 DEF Awaited, Mounted, Open

\* After a report in a batch the rows that have a view are again those not pending.
LEMMA ReportViews ==
    ASSUME BatchInv, isCallBatchAPI, NEW i \in Cells, NEW k \in Tries,
           NEW reports \in Reports, NEW req \in Try, Report(i, k, reports, req)
    PROVE  ViewsFollowRows' /\ isCallBatchAPI' = isCallBatchAPI /\ quiet' = quiet
<1>1. view' = ViewsOf(tasks') /\ isCallBatchAPI' = isCallBatchAPI /\ quiet' = quiet
  BY ReportSends DEF BatchInv, Send
<1>2. view \in [Cells -> 0..MaxTries] /\ tries \in [Cells -> 0..MaxTries]
  BY DEF BatchInv, TypeOK
<1>3. \A j \in Rows : ViewsOf(tasks')[j] # 0 <=> tasks'[j] \notin {"none", "pending"}
  BY <1>2, ConstantTypes DEF ViewsOf
<1> QED
  BY <1>1, <1>3 DEF ViewsFollowRows

LEMMA ReportKeeps ==
    ASSUME BatchInv, NEW i \in Cells, NEW k \in Tries, Open(i, k),
           NEW reports \in Reports, NEW req \in Try, req.state # "open",
           Report(i, k, reports, req)
    PROVE  /\ BatchInv'
           /\ quiet => \A j \in Rows : tasks[j] = "completed" => tasks'[j] = "completed"
<1>1. TypeOK'
  BY ReportTypes DEF BatchInv
<1>2. CASE ~isCallBatchAPI
  BY <1>1, <1>2, ReportWithoutBatch, ConstantTypes DEF BatchInv, RowsInv, NoListNoRows
<1>3. CASE isCallBatchAPI
  <2>1. ViewsFollowRows' /\ isCallBatchAPI' = isCallBatchAPI /\ quiet' = quiet
    BY <1>3, ReportViews
  <2>2. NoListNoRows'
    BY <1>3, <2>1 DEF NoListNoRows
  <2>3. ASSUME quiet, NEW j \in Rows
        PROVE  /\ \A m \in Tries : Open(j, m)' => Awaited(j, m)'
               /\ tasks[j] = "completed" => tasks'[j] = "completed"
    <3>1. CASE j # i
      BY <1>3, <2>3, <3>1, ReportOther
    <3>2. CASE j = i
      <4>1. tasks[j] # "completed"
        BY <1>3, <2>3, <3>2 DEF BatchInv, RowsInv, OpenIsAwaited, Awaited
      <4> QED
        BY <1>3, <2>3, <3>2, <4>1, ReportOwn
    <3> QED
      BY <3>1, <3>2
  <2>4. OpenIsAwaited'
    BY <2>1, <2>3 DEF OpenIsAwaited
  <2> QED
    BY <1>1, <2>1, <2>2, <2>3, <2>4 DEF BatchInv, RowsInv
<1> QED
  BY <1>2, <1>3

\* The end of a request that was given up: it is open no more, and nothing else.
LEMMA LateKeeps ==
    ASSUME BatchInv, NEW i \in Cells, NEW k \in Tries,
           attempts' = [attempts EXCEPT ![i][k] = NoTry],
           UNCHANGED <<pageVars, tries, view, busy, runs, retries, historyVars>>
    PROVE  BatchInv'
<1>1. NoTry \in Try
  BY ConstantTypes DEF NoTry, Try
<1>2. TypeOK'
  BY <1>1 DEF BatchInv, TypeOK, pageVars, historyVars
<1>3. \A j \in Cells, m \in Tries : Open(j, m)' => attempts'[j][m] = attempts[j][m] /\ Open(j, m)
  BY DEF Open, NoTry, BatchInv, TypeOK
<1>4. \A j \in Rows, m \in Tries : Open(j, m)' /\ Awaited(j, m) => Awaited(j, m)'
  BY <1>3, ConstantTypes DEF Awaited, Mounted, pageVars
<1>5. OpenIsAwaited'
  BY <1>3, <1>4, ConstantTypes DEF BatchInv, RowsInv, OpenIsAwaited, pageVars, historyVars
<1> QED
  BY <1>2, <1>5 DEF BatchInv, RowsInv, NoListNoRows, ViewsFollowRows, pageVars

LEMMA NetworkKeeps ==
    ASSUME BatchInv, NEW i \in Cells, NEW k \in Tries, Network(i, k) \/ TimeOut(i, k)
    PROVE  /\ BatchInv'
           /\ quiet => \A j \in Rows : tasks[j] = "completed" => tasks'[j] = "completed"
<1>1. NoTry \in Try /\ NoTry.state # "open"
  BY ConstantTypes DEF NoTry, Try
<1>2. ASSUME NEW reports \in Reports, End(i, k, reports)
      PROVE  /\ BatchInv'
             /\ quiet => \A j \in Rows : tasks[j] = "completed" => tasks'[j] = "completed"
  <2>1. CASE attempts[i][k].state = "open" /\ Report(i, k, reports, NoTry)
    BY <1>1, <2>1, ReportKeeps DEF Open
  <2>2. CASE /\ attempts' = [attempts EXCEPT ![i][k] = NoTry]
             /\ UNCHANGED <<pageVars, tries, view, busy, runs, retries, historyVars>>
    BY <2>2, LateKeeps DEF pageVars
  <2> QED
    BY <1>2, <2>1, <2>2 DEF End
<1>3. CASE Network(i, k)
  <2>1. <<TRUE>> \in Reports /\ <<FALSE>> \in Reports /\ <<FALSE, TRUE>> \in Reports
    BY DEF Reports
  <2> QED
    BY <1>2, <1>3, <2>1 DEF Network, Complete, Refuse, FailInStream
<1>4. CASE TimeOut(i, k)
  <2>1. [attempts[i][k] EXCEPT !.state = "late"] \in Try
    BY OpenTypes DEF BatchInv, Try
  <2>2. [attempts[i][k] EXCEPT !.state = "late"].state = "late"
    BY OpenTypes DEF BatchInv, Try
  <2>3. <<FALSE>> \in Reports
    BY DEF Reports
  <2> QED
    BY <1>4, <2>1, <2>2, <2>3, ReportKeeps DEF TimeOut, Open
<1> QED
  BY <1>3, <1>4

LEMMA RunBatchKeeps ==
    ASSUME BatchInv, NEW file \in Uploads, RunBatch(file)
    PROVE  BatchInv'
<1> DEFINE count == Once(Starting(tasks'))
           views == RowViews(tasks')
<1>a. TypeOK /\ TypeOK'
  BY RunBatchTypes DEF BatchInv
<1>1. /\ tasks' \in ListType /\ isCallBatchAPI' = TRUE /\ quiet' = NoRequestOpen
      /\ \A i \in Rows : tasks'[i] \in {"none", "pending", "running"}
      /\ Send(count, views, NoFlags, attempts)
  BY <1>a, RunBatchResult
<1>2. view' = views /\ \A i \in Rows : views[i] = ViewsOf(tasks')[i]
  BY <1>a, <1>1, RowViewsResult DEF Send
<1>3. view \in [Cells -> 0..MaxTries] /\ tries \in [Cells -> 0..MaxTries]
  BY <1>a DEF TypeOK
<1>4. \A i \in Rows : views[i] # 0 <=> tasks'[i] \notin {"none", "pending"}
  <2>1. \A i \in Rows : ViewsOf(tasks')[i] # 0 <=> tasks'[i] \notin {"none", "pending"}
    BY <1>3, ConstantTypes DEF ViewsOf
  <2> QED
    BY <1>2, <2>1
<1>5. ViewsFollowRows' /\ NoListNoRows'
  BY <1>1, <1>2, <1>4 DEF ViewsFollowRows, NoListNoRows
<1>6. ASSUME NoRequestOpen, NEW i \in Rows, NEW k \in Tries, Open(i, k)'
      PROVE  Awaited(i, k)'
  <2>1. i \in Cells /\ tries[i] \in Nat /\ \A m \in Tries : m \in Nat
    BY <1>3, ConstantTypes DEF Tries
  <2>2. \A m \in Tries : ~Open(i, m)
    BY <1>6, <2>1 DEF NoRequestOpen, Open
  <2>3. \A m \in Tries : attempts'[i][m] =
            IF m > tries[i] /\ m <= tries[i] + count[i]
            THEN [view |-> views[i], state |-> "open"] ELSE attempts[i][m]
    BY <1>1, <2>1 DEF Send
  <2>4. count[i] = IF i \in Starting(tasks') THEN 1 ELSE 0
    BY <2>1, OnceResult
  <2> HIDE DEF count
  <2>5. \A m \in Tries : Open(i, m)' => count[i] = 1 /\ m = tries[i] + 1
                                        /\ attempts'[i][m].view = views[i]
    BY <2>1, <2>2, <2>3, <2>4 DEF Open
  <2>6. tasks'[i] = "running"
    BY <1>6, <2>4, <2>5 DEF Starting
  <2>7. views[i] # 0
    BY <1>4, <2>6
  <2>8. busy'[i]
    <3>1. busy'[i] <=> NoFlags[i] \/ count[i] > 0
      BY <1>1, <2>1 DEF Send
    <3> QED
      BY <1>6, <2>5, <3>1
  <2> QED
    BY <1>2, <1>6, <2>5, <2>6, <2>7, <2>8 DEF Awaited, Mounted, Open
<1>7. OpenIsAwaited'
  BY <1>1, <1>6 DEF OpenIsAwaited
<1> QED
  BY <1>a, <1>5, <1>7 DEF BatchInv, RowsInv

LEMMA RetryKeeps ==
    ASSUME BatchInv, RetryAll \/ \E i \in Rows : Retry(i)
    PROVE  BatchInv' /\ tasks' = tasks
<1>a. TypeOK /\ TypeOK'
  BY RetryTypes DEF BatchInv
<1>1. UNCHANGED <<tasks, isCallBatchAPI, currGroupNum, runs, inherited, quiet>>
  BY <1>a, RetryResult
<1>2. PICK S \in SUBSET {i \in Failed : ~busy[i]} : Send(Once(S), view, busy, attempts)
  BY <1>a, RetryResult
<1>3. view' = view
  BY <1>2 DEF Send
<1>4. ASSUME quiet, isCallBatchAPI, NEW i \in Rows, NEW k \in Tries, Open(i, k)'
      PROVE  Awaited(i, k)'
  <2> DEFINE count == Once(S)
  <2>1. i \in Cells /\ tries[i] \in Nat /\ \A m \in Tries : m \in Nat
    BY <1>a, ConstantTypes DEF Tries, TypeOK
  <2>2. count[i] = IF i \in S THEN 1 ELSE 0
    BY <2>1, OnceResult
  <2>3. \A m \in Tries : attempts'[i][m] =
            IF m > tries[i] /\ m <= tries[i] + count[i]
            THEN [view |-> view[i], state |-> "open"] ELSE attempts[i][m]
    BY <1>2, <2>1 DEF Send
  <2>4. busy'[i] <=> busy[i] \/ count[i] > 0
    BY <1>2, <2>1 DEF Send
  <2> HIDE DEF count
  <2>5. \A m \in Tries : Open(i, m) => Awaited(i, m)
    BY <1>4 DEF BatchInv, RowsInv, OpenIsAwaited
  <2>6. CASE i \notin S
    <3>1. \A m \in Tries : attempts'[i][m] = attempts[i][m]
      BY <2>1, <2>2, <2>3, <2>6
    <3>2. Awaited(i, k)
      BY <1>4, <2>5, <3>1 DEF Open
    <3> QED
      BY <1>1, <1>3, <2>4, <3>1, <3>2 DEF Awaited, Mounted, Open
  <2>7. CASE i \in S
    <3>1. tasks[i] = "failed" /\ ~busy[i]
      BY <2>7 DEF Failed, WithStatus
    <3>2. \A m \in Tries : ~Open(i, m)
      BY <2>5, <3>1 DEF Awaited
    <3>3. view[i] # 0
      BY <1>4, <3>1 DEF BatchInv, RowsInv, ViewsFollowRows
    <3>4. \A m \in Tries : Open(i, m)' => m = tries[i] + 1 /\ attempts'[i][m].view = view[i]
      BY <2>1, <2>2, <2>3, <2>7, <3>2 DEF Open
    <3>5. busy'[i]
      BY <2>2, <2>4, <2>7
    <3> QED
      BY <1>1, <1>3, <1>4, <3>1, <3>3, <3>4, <3>5 DEF Awaited, Mounted, Open
  <2> QED
    BY <2>6, <2>7
<1>5. OpenIsAwaited'
  BY <1>1, <1>4 DEF OpenIsAwaited
<1>6. NoListNoRows' /\ ViewsFollowRows'
  BY <1>1, <1>3 DEF BatchInv, RowsInv, NoListNoRows, ViewsFollowRows
<1> QED
  BY <1>a, <1>1, <1>5, <1>6 DEF BatchInv, RowsInv

LEMMA BatchInvInit == Init => BatchInv
<1> SUFFICES ASSUME Init PROVE BatchInv
  OBVIOUS
<1>1. TypeOK
  <2>1. NoTry \in Try /\ "none" \in Status \cup {"none"} /\ 0 \in 0..MaxTries
        /\ 0 \in 0..MaxRows /\ 0 \in 0..MaxCommands
    BY ConstantTypes DEF NoTry, Try
  <2> QED
    BY <2>1 DEF Init, TypeOK
<1>2. RowsInv
  BY DEF Init, RowsInv, NoListNoRows, ViewsFollowRows, OpenIsAwaited
<1> QED
  BY <1>1, <1>2 DEF BatchInv

\* A step keeps the invariant, and, unless it is a run, the completed rows.
LEMMA BatchInvKept ==
    ASSUME BatchInv, [Next]_vars
    PROVE  /\ BatchInv'
           /\ quiet /\ runs' = runs =>
                 \A j \in Rows : tasks[j] = "completed" => tasks'[j] = "completed"
<1>0. runs \in Nat
  BY ConstantTypes DEF BatchInv, TypeOK
<1>1. CASE \E canSend \in BOOLEAN : RunOnce(canSend)
  <2>1. /\ TypeOK' /\ isCallBatchAPI' = FALSE /\ runs' = runs + 1
        /\ \A i \in Rows : tasks'[i] = "none"
    BY <1>1, RunOnceTypes DEF BatchInv
  <2> QED
    BY <1>0, <2>1 DEF BatchInv, RowsInv, NoListNoRows, ViewsFollowRows, OpenIsAwaited
<1>2. CASE \E file \in Uploads : RunBatch(file)
  <2>1. PICK file \in Uploads : RunBatch(file)
    BY <1>2
  <2>2. runs' = runs + 1
    BY <2>1 DEF RunBatch, ClickRun
  <2> QED
    BY <1>0, <2>1, <2>2, RunBatchKeeps
<1>3. CASE RetryAll \/ \E i \in Rows : Retry(i)
  BY <1>3, RetryKeeps
<1>4. CASE \E i \in Cells, k \in Tries : Network(i, k) \/ TimeOut(i, k)
  BY <1>4, NetworkKeeps
<1>5. CASE UNCHANGED vars
  <2>1. TypeOK'
    BY <1>5 DEF BatchInv, TypeOK, vars, pageVars, requestVars, historyVars
  <2>2. RowsInv'
    BY <1>5 DEF BatchInv, RowsInv, NoListNoRows, ViewsFollowRows, OpenIsAwaited, Awaited,
                Mounted, Open, vars, pageVars, requestVars, historyVars
  <2> QED
    BY <1>5, <2>1, <2>2 DEF BatchInv, vars, pageVars
<1> QED
  BY <1>1, <1>2, <1>3, <1>4, <1>5 DEF Next, User

(* Every variable of the page keeps its type; in particular the number of the group is *)
(* never more than that of the rows.                                                   *)
THEOREM TypeCorrect == Spec => []TypeOK
<1>1. BatchInv => TypeOK
  BY DEF BatchInv
<1>2. BatchInv /\ [Next]_vars => BatchInv'
  BY BatchInvKept
<1> QED
  BY <1>1, <1>2, BatchInvInit, PTL DEF Spec

(* A completed row stays completed until the user runs something: no other request of  *)
(* it can still report, whether it timed out, was retried or was reported twice.       *)
THEOREM CompletedRowsStay == Spec => CompletedStays
<1> DEFINE Stays == quiet /\ runs' = runs
               => WithStatus(tasks, {"completed"}) \subseteq WithStatus(tasks', {"completed"})
<1>1. BatchInv /\ [Next]_vars => Stays
  BY BatchInvKept DEF WithStatus
<1>2. BatchInv /\ [Next]_vars => BatchInv'
  BY BatchInvKept
<1>3. Spec => [][Stays]_vars
  BY <1>1, <1>2, BatchInvInit, PTL DEF Spec
<1> QED
  BY <1>3 DEF CompletedStays

-----------------------------------------------------------------------------
(* Groups: the arithmetic of hadRunedTaskNum % GROUP_SIZE                              *)

LEMMA Division ==
    ASSUME NEW x \in Nat, NEW g \in Nat \ {0}
    PROVE  x = g * (x \div g) + (x % g) /\ x % g \in 0..(g - 1) /\ x \div g \in Nat
OBVIOUS

\* What is left by a division is unique.
LEMMA SameRemainder ==
    ASSUME NEW g \in Nat \ {0}, NEW a \in Nat, NEW b \in Nat,
           NEW r \in 0..(g - 1), NEW s \in 0..(g - 1), g * a + r = g * b + s
    PROVE  r = s
<1>0. ASSUME NEW u \in Nat, NEW v \in Nat, u < v PROVE g * v >= g * u + g
  <2>1. PICK d \in Nat : v = u + 1 + d
    <3>1. v - u - 1 \in Nat /\ v = u + 1 + (v - u - 1)
      BY <1>0
    <3> QED
      BY <3>1
  <2>2. g * v = g * u + g + g * d
    BY <2>1
  <2>3. g * d \in Nat /\ g * u \in Nat
    OBVIOUS
  <2> QED
    BY <2>2, <2>3
<1>1. g * a \in Nat /\ g * b \in Nat
  OBVIOUS
<1>2. CASE a < b
  BY <1>0, <1>1, <1>2
<1>3. CASE b < a
  BY <1>0, <1>1, <1>3
<1>4. CASE a = b
  BY <1>1, <1>4
<1> QED
  BY <1>2, <1>3, <1>4

\* One report more
LEMMA NextRemainder ==
    ASSUME NEW x \in Nat, NEW g \in Nat \ {0}
    PROVE  (x + 1) % g = IF x % g = g - 1 THEN 0 ELSE (x % g) + 1
<1>0. PICK y \in Nat : y = x + 1
  OBVIOUS
<1>1. PICK q \in Nat, r \in 0..(g - 1) : x = g * q + r /\ r = x % g
  BY Division
<1>2. PICK p \in Nat, s \in 0..(g - 1) : y = g * p + s /\ s = y % g
  BY Division
<1>3. CASE r = g - 1
  <2>1. g * (q + 1) + 0 = g * p + s
    BY <1>0, <1>1, <1>2, <1>3
  <2>2. s = 0
    BY <2>1, SameRemainder
  <2> QED
    BY <1>0, <1>1, <1>2, <1>3, <2>2
<1>4. CASE r # g - 1
  <2>1. g * q + (r + 1) = g * p + s /\ r + 1 \in 0..(g - 1)
    BY <1>0, <1>1, <1>2, <1>4
  <2>2. r + 1 = s
    BY <2>1, SameRemainder
  <2> QED
    BY <1>0, <1>1, <1>2, <1>4, <2>2
<1> QED
  BY <1>3, <1>4

\* One group more
LEMMA NextGroupRemainder ==
    ASSUME NEW x \in Nat, NEW g \in Nat \ {0}
    PROVE  (x + g) % g = x % g
<1>0. PICK y \in Nat : y = x + g
  OBVIOUS
<1>1. PICK q \in Nat, r \in 0..(g - 1) : x = g * q + r /\ r = x % g
  BY Division
<1>2. PICK p \in Nat, s \in 0..(g - 1) : y = g * p + s /\ s = y % g
  BY Division
<1>3. g * (q + 1) + r = g * p + s
  BY <1>0, <1>1, <1>2
<1>4. r = s
  BY <1>3, SameRemainder
<1> QED
  BY <1>0, <1>1, <1>2, <1>4

-----------------------------------------------------------------------------
(* Groups: how many rows there are of each status                                      *)

Running(list) == WithStatus(list, {"running"})

PendingCount(list) == Cardinality(Pending(list))
RunningCount(list) == Cardinality(Running(list))
FinishedCount(list) == Cardinality(Finished(list))

LEMMA RowsFinite ==
    ASSUME NEW S \in SUBSET Rows
    PROVE  IsFiniteSet(S) /\ Cardinality(S) \in Nat
<1>1. IsFiniteSet(1..MaxRows)
  BY ConstantTypes, FS_Interval
<1>2. IsFiniteSet(S)
  BY <1>1, FS_Subset DEF Rows
<1> QED
  BY <1>2, FS_CardinalityType

LEMMA CountTypes ==
    ASSUME NEW list
    PROVE  /\ \A S : WithStatus(list, S) \in SUBSET Rows
           /\ IsFiniteSet(Pending(list)) /\ PendingCount(list) \in Nat
           /\ IsFiniteSet(Running(list)) /\ RunningCount(list) \in Nat
           /\ IsFiniteSet(Finished(list)) /\ FinishedCount(list) \in Nat
           /\ Pending(list) = {} <=> PendingCount(list) = 0
           /\ Running(list) = {} <=> RunningCount(list) = 0
<1>1. \A S : WithStatus(list, S) \in SUBSET Rows
  BY DEF WithStatus
<1>2. Pending(list) \in SUBSET Rows /\ Running(list) \in SUBSET Rows /\ Finished(list) \in SUBSET Rows
  BY <1>1 DEF Pending, Running, Finished
<1>3. IsFiniteSet(Pending(list)) /\ PendingCount(list) \in Nat
  BY <1>2, RowsFinite DEF PendingCount
<1>4. IsFiniteSet(Running(list)) /\ RunningCount(list) \in Nat
  BY <1>2, RowsFinite DEF RunningCount
<1>5. IsFiniteSet(Finished(list)) /\ FinishedCount(list) \in Nat
  BY <1>2, RowsFinite DEF FinishedCount
<1> QED
  BY <1>1, <1>3, <1>4, <1>5, FS_EmptySet DEF PendingCount, RunningCount

LEMMA DisjointCount ==
    ASSUME NEW A, NEW B, IsFiniteSet(A), IsFiniteSet(B), A \cap B = {}
    PROVE  /\ IsFiniteSet(A \cup B)
           /\ Cardinality(A \cup B) = Cardinality(A) + Cardinality(B)
<1>1. PICK a, b : a = Cardinality(A) /\ b = Cardinality(B) /\ a \in Nat /\ b \in Nat
  BY FS_CardinalityType
<1>2. IsFiniteSet(A \cup B)
      /\ Cardinality(A \cup B) = Cardinality(A) + Cardinality(B) - Cardinality(A \cap B)
  BY FS_Union
<1>3. Cardinality(A \cap B) = 0
  BY FS_EmptySet
<1>4. Cardinality(A \cup B) = a + b - 0
  BY <1>1, <1>2, <1>3
<1> QED
  BY <1>1, <1>2, <1>4

\* allTaskList holds the pending, the running and the finished rows.
LEMMA ListedCount ==
    ASSUME NEW list
    PROVE  Cardinality(Listed(list)) = PendingCount(list) + RunningCount(list) + FinishedCount(list)
<1>1. PICK P, R, F : P = Pending(list) /\ R = Running(list) /\ F = Finished(list)
  OBVIOUS
<1>2. IsFiniteSet(P) /\ IsFiniteSet(R) /\ IsFiniteSet(F)
  BY <1>1, CountTypes
<1>3. Listed(list) = (P \cup R) \cup F /\ P \cap R = {} /\ (P \cup R) \cap F = {}
  BY <1>1 DEF Listed, Pending, Running, Finished, WithStatus, Status
<1>4. IsFiniteSet(P \cup R) /\ Cardinality(P \cup R) = Cardinality(P) + Cardinality(R)
  BY <1>2, <1>3, DisjointCount
<1>5. Cardinality((P \cup R) \cup F) = Cardinality(P \cup R) + Cardinality(F)
  BY <1>2, <1>3, <1>4, DisjointCount
<1> QED
  BY <1>1, <1>3, <1>4, <1>5 DEF PendingCount, RunningCount, FinishedCount

Before(S, i) == {j \in S : j < i}

\* The rows of a set are numbered in their order, from 0.
LEMMA Ranks ==
    ASSUME NEW S \in SUBSET Rows
    PROVE  /\ [i \in S |-> Cardinality(Before(S, i))]
                 \in Bijection(S, 0..(Cardinality(S) - 1))
           /\ \A i \in S : Cardinality(Before(S, i)) \in 0..(Cardinality(S) - 1)
<1> DEFINE rank == [i \in S |-> Cardinality(Before(S, i))]
<1>1. IsFiniteSet(S) /\ Cardinality(S) \in Nat /\ S \in SUBSET Int
  BY RowsFinite, ConstantTypes DEF Rows
<1>2. PICK n \in Nat : n = Cardinality(S)
  BY <1>1
<1>3. ASSUME NEW i \in S
      PROVE  /\ IsFiniteSet(Before(S, i)) /\ Cardinality(Before(S, i)) \in 0..(n - 1)
  <2>1. IsFiniteSet(S \ {i}) /\ Cardinality(S \ {i}) = n - 1
    BY <1>1, <1>2, FS_RemoveElement
  <2>2. Before(S, i) \in SUBSET (S \ {i})
    BY <1>1 DEF Before
  <2>3. IsFiniteSet(Before(S, i)) /\ Cardinality(Before(S, i)) <= Cardinality(S \ {i})
    BY <2>1, <2>2, FS_Subset
  <2>4. Cardinality(Before(S, i)) \in Nat
    BY <2>3, FS_CardinalityType
  <2> QED
    BY <1>2, <2>1, <2>3, <2>4
<1>4. ASSUME NEW i \in S, NEW j \in S, i < j
      PROVE  Cardinality(Before(S, i)) < Cardinality(Before(S, j))
  <2>0. \A m \in S : m \in Int
    BY <1>1
  <2>1. Before(S, i) \in SUBSET Before(S, j) /\ Before(S, i) # Before(S, j)
    <3>1. \A m \in S : m < i => m < j
      BY <1>4, <2>0
    <3>2. i \in Before(S, j) /\ i \notin Before(S, i)
      BY <1>4, <2>0 DEF Before
    <3> QED
      BY <3>1, <3>2 DEF Before
  <2>2. Cardinality(Before(S, i)) <= Cardinality(Before(S, j))
        /\ Cardinality(Before(S, i)) # Cardinality(Before(S, j))
    BY <1>3, <2>1, FS_Subset
  <2> QED
    BY <1>2, <1>3, <2>2
<1>5. rank \in Injection(S, 0..(n - 1))
  <2>1. rank \in [S -> 0..(n - 1)]
    BY <1>3
  <2>2. ASSUME NEW i \in S, NEW j \in S, rank[i] = rank[j]
        PROVE  i = j
    <3>1. Cardinality(Before(S, i)) = Cardinality(Before(S, j))
      BY <2>2
    <3>2. ~(i < j) /\ ~(j < i)
      BY <1>2, <1>3, <1>4, <3>1
    <3> QED
      BY <1>1, <3>2
  <2> HIDE DEF rank
  <2> QED
    BY <2>1, <2>2 DEF Injection, IsInjective
<1>6. IsFiniteSet(0..(n - 1)) /\ Cardinality(0..(n - 1)) = n
  <2>1. PICK m \in Int : m = n - 1
    OBVIOUS
  <2>2. IsFiniteSet(0..m) /\ Cardinality(0..m) = IF 0 > m THEN 0 ELSE m - 0 + 1
    BY FS_Interval
  <2> QED
    BY <2>1, <2>2
<1> HIDE DEF rank
<1>7. rank \in Surjection(S, 0..(n - 1))
  BY <1>2, <1>5, <1>6, FS_Injection
<1>8. rank \in Bijection(S, 0..(n - 1))
  BY <1>5, <1>7 DEF Bijection
<1> QED
  BY <1>2, <1>3, <1>8 DEF rank

\* pendingTaskList.slice(0, GROUP_SIZE): a whole group, or all that is left.
LEMMA NextPendingCount ==
    ASSUME NEW list
    PROVE  /\ NextPending(list) \in SUBSET Pending(list)
           /\ PendingCount(list) <= GROUP_SIZE => NextPending(list) = Pending(list)
           /\ PendingCount(list) > GROUP_SIZE => Cardinality(NextPending(list)) = GROUP_SIZE
<1> DEFINE P == Pending(list)
           N == NextPending(list)
           rank == [i \in P |-> Cardinality(Before(P, i))]
<1>1. P \in SUBSET Rows /\ IsFiniteSet(P) /\ Cardinality(P) \in Nat
  BY CountTypes DEF Pending, PendingCount
<1>2. N = {i \in P : Cardinality(Before(P, i)) < GROUP_SIZE}
  BY DEF NextPending, Before
<1>3. PICK n \in Nat : n = Cardinality(P)
  BY <1>1
<1>4. /\ rank \in Bijection(P, 0..(n - 1))
      /\ \A i \in P : Cardinality(Before(P, i)) \in 0..(n - 1)
  BY <1>1, <1>3, Ranks
<1>5. GROUP_SIZE \in Nat \ {0}
  BY GroupAssumption
<1>6. \A i \in P : rank[i] = Cardinality(Before(P, i))
  OBVIOUS
<1>7. PendingCount(list) = n
  BY <1>3 DEF PendingCount
<1> HIDE DEF P, N, rank
<1>8. n <= GROUP_SIZE => N = P
  BY <1>2, <1>4, <1>5
<1>9. ASSUME n > GROUP_SIZE
      PROVE  Cardinality(N) = GROUP_SIZE
  <2> DEFINE first == [i \in N |-> rank[i]]
  <2>1. /\ rank \in [P -> 0..(n - 1)]
        /\ \A i, j \in P : rank[i] = rank[j] => i = j
        /\ \A r \in 0..(n - 1) : \E i \in P : rank[i] = r
    BY <1>4 DEF Bijection, Injection, Surjection, IsInjective
  <2>2. \A i \in N : i \in P /\ rank[i] \in 0..(GROUP_SIZE - 1)
    BY <1>2, <1>4, <1>5, <1>6
  <2>3. ASSUME NEW r \in 0..(GROUP_SIZE - 1)
        PROVE  \E i \in N : rank[i] = r
    <3>1. r \in 0..(n - 1)
      BY <1>5, <1>9
    <3>2. PICK i \in P : rank[i] = r
      BY <2>1, <3>1
    <3> QED
      BY <1>2, <1>5, <1>6, <3>2
  <2>4. /\ first \in [N -> 0..(GROUP_SIZE - 1)]
        /\ \A i, j \in N : first[i] = first[j] => i = j
        /\ \A r \in 0..(GROUP_SIZE - 1) : \E i \in N : first[i] = r
    BY <2>1, <2>2, <2>3
  <2> HIDE DEF first
  <2>5. first \in Bijection(N, 0..(GROUP_SIZE - 1))
    BY <2>4 DEF Bijection, Injection, Surjection, IsInjective
  <2>6. IsFiniteSet(N)
    BY <1>1, <1>2, FS_Subset
  <2>7. Cardinality(0..(GROUP_SIZE - 1)) = Cardinality(N)
    BY <2>5, <2>6, FS_Bijection DEF ExistsBijection
  <2>8. Cardinality(0..(GROUP_SIZE - 1)) = GROUP_SIZE
    <3>1. Cardinality(0..(GROUP_SIZE - 1))
            = IF 0 > GROUP_SIZE - 1 THEN 0 ELSE (GROUP_SIZE - 1) - 0 + 1
      BY <1>5, FS_Interval
    <3> QED
      BY <1>5, <3>1
  <2> QED
    BY <2>7, <2>8
<1>10. N \in SUBSET P
  BY <1>2
<1> QED
  BY <1>7, <1>8, <1>9, <1>10 DEF N, P

\* handleCompleted in numbers: some pending rows are started, and the reported row, if it
\* was running, is finished.
LEMMA ReportCounts ==
    ASSUME NEW list \in ListType, NEW group, NEW cell, NEW isSuccess \in BOOLEAN,
           cell \in Rows => list[cell] # "pending",
           NEW new, new = ListAfter(list, group, cell, isSuccess)
    PROVE  \E s, u \in Nat :
              /\ s = IF ~NeedsNextGroup(list, group) THEN 0
                     ELSE IF PendingCount(list) <= GROUP_SIZE THEN PendingCount(list)
                     ELSE GROUP_SIZE
              /\ u <= 1 /\ u <= RunningCount(list)
              /\ PendingCount(new) = PendingCount(list) - s
              /\ RunningCount(new) = RunningCount(list) + s - u
              /\ FinishedCount(new) = FinishedCount(list) + u
<1> DEFINE N == IF NeedsNextGroup(list, group) THEN NextPending(list) ELSE {}
           U == {i \in Rows : i = cell /\ list[i] = "running"}
<1>1. PICK P, R, F : P = Pending(list) /\ R = Running(list) /\ F = Finished(list)
  OBVIOUS
<1>2. /\ IsFiniteSet(P) /\ IsFiniteSet(R) /\ IsFiniteSet(F)
      /\ Cardinality(P) = PendingCount(list) /\ Cardinality(P) \in Nat
      /\ Cardinality(R) = RunningCount(list) /\ Cardinality(R) \in Nat
      /\ Cardinality(F) = FinishedCount(list) /\ Cardinality(F) \in Nat
  BY <1>1, CountTypes DEF PendingCount, RunningCount, FinishedCount
<1>3. PICK s \in Nat :
          /\ s = IF ~NeedsNextGroup(list, group) THEN 0
                 ELSE IF PendingCount(list) <= GROUP_SIZE THEN PendingCount(list) ELSE GROUP_SIZE
          /\ Cardinality(N) = s
  <2>1. CASE ~NeedsNextGroup(list, group)
    BY <2>1, FS_EmptySet
  <2>2. CASE NeedsNextGroup(list, group)
    BY <1>2, <2>2, NextPendingCount, GroupAssumption DEF PendingCount
  <2> QED
    BY <2>1, <2>2
<1>4. N \in SUBSET P /\ IsFiniteSet(N)
  <2>1. N \in SUBSET P
    BY <1>1, NextPendingCount
  <2> QED
    BY <1>2, <2>1, FS_Subset
<1>5. \A i \in Rows : list[i] \in Status \cup {"none"}
  BY DEF ListType
<1>6. \A i \in Rows : new[i] = IF i = cell /\ list[i] # "none"
                               THEN IF isSuccess THEN "completed" ELSE "failed"
                               ELSE IF i \in N THEN "running" ELSE list[i]
  BY DEF ListAfter
<1> HIDE DEF N
<1>7. cell \notin P
  BY <1>1 DEF Pending, WithStatus
<1>8. Pending(new) = P \ N
  BY <1>1, <1>4, <1>6, <1>7 DEF Pending, WithStatus
<1>9. R \cup N = Running(new) \cup U /\ Running(new) \cap U = {} /\ U \in SUBSET R
  BY <1>1, <1>4, <1>6, <1>7 DEF Running, Pending, WithStatus
<1>10. Finished(new) = F \cup U /\ F \cap U = {}
  BY <1>1, <1>4, <1>5, <1>6, <1>7 DEF Finished, Pending, WithStatus, Status
<1>11. R \cap N = {}
  BY <1>1, <1>4 DEF Running, Pending, WithStatus
<1>12. PICK u \in Nat : u = Cardinality(U) /\ u <= 1 /\ u <= Cardinality(R) /\ IsFiniteSet(U)
  <2>1. U = {} \/ U = {cell}
    OBVIOUS
  <2>2. IsFiniteSet(U) /\ Cardinality(U) \in {0, 1}
    <3>1. CASE U = {}
      BY <3>1, FS_EmptySet
    <3>2. CASE U = {cell}
      BY <3>2, FS_Singleton
    <3> QED
      BY <2>1, <3>1, <3>2
  <2>3. Cardinality(U) <= Cardinality(R)
    BY <1>2, <1>9, FS_Subset
  <2> QED
    BY <2>2, <2>3
<1> HIDE DEF U
<1>13. PendingCount(new) = PendingCount(list) - s
  <2>1. Cardinality(P \ N) = Cardinality(P) - Cardinality(P \cap N)
    BY <1>2, FS_Difference
  <2>2. P \cap N = N
    BY <1>4
  <2> QED
    BY <1>2, <1>3, <1>8, <2>1, <2>2 DEF PendingCount
<1>14. RunningCount(new) = RunningCount(list) + s - u
  <2>1. IsFiniteSet(R \cup N) /\ Cardinality(R \cup N) = Cardinality(R) + Cardinality(N)
    BY <1>2, <1>4, <1>11, DisjointCount
  <2>2. PICK r \in Nat : IsFiniteSet(Running(new)) /\ r = RunningCount(new)
    BY CountTypes
  <2>3. Cardinality(Running(new) \cup U) = r + Cardinality(U)
    BY <1>9, <1>12, <2>2, DisjointCount DEF RunningCount
  <2>4. Cardinality(R \cup N) = r + u /\ Cardinality(R \cup N) = RunningCount(list) + s
    BY <1>2, <1>3, <1>9, <1>12, <2>1, <2>3
  <2>5. RunningCount(list) \in Nat
    BY <1>2
  <2> QED
    BY <2>2, <2>4, <2>5
<1>15. FinishedCount(new) = FinishedCount(list) + u
  <2>1. Cardinality(F \cup U) = Cardinality(F) + Cardinality(U)
    BY <1>2, <1>10, <1>12, DisjointCount
  <2> QED
    BY <1>2, <1>10, <1>12, <2>1 DEF FinishedCount
<1> QED
  BY <1>2, <1>3, <1>12, <1>13, <1>14, <1>15

\* A list that RunBatch makes: its first group runs.
LEMMA NewListCounts ==
    ASSUME NEW n \in Int, NEW new, new = NewTaskList(n)
    PROVE  /\ FinishedCount(new) = 0
           /\ RunningCount(new) <= GROUP_SIZE
           /\ PendingCount(new) # 0 => RunningCount(new) = GROUP_SIZE
<1>1. \A i \in Rows : new[i] = IF i > n THEN "none"
                               ELSE IF i <= GROUP_SIZE THEN "running" ELSE "pending"
  BY DEF NewTaskList
<1>2. GROUP_SIZE \in Nat \ {0} /\ MaxRows \in Nat /\ Rows = 1..MaxRows
  BY GroupAssumption, ConstantTypes DEF Rows
<1>3. FinishedCount(new) = 0
  <2>1. Finished(new) = {}
    BY <1>1 DEF Finished, WithStatus
  <2> QED
    BY <2>1, FS_EmptySet DEF FinishedCount
<1>4. IsFiniteSet(1..GROUP_SIZE) /\ Cardinality(1..GROUP_SIZE) = GROUP_SIZE
  <2>1. IsFiniteSet(1..GROUP_SIZE)
        /\ Cardinality(1..GROUP_SIZE) = IF 1 > GROUP_SIZE THEN 0 ELSE GROUP_SIZE - 1 + 1
    BY <1>2, FS_Interval
  <2> QED
    BY <1>2, <2>1
<1>5. Running(new) = {i \in Rows : i <= n /\ i <= GROUP_SIZE}
  BY <1>1, <1>2 DEF Running, WithStatus
<1>6. RunningCount(new) <= GROUP_SIZE
  <2>1. Running(new) \in SUBSET (1..GROUP_SIZE)
    BY <1>2, <1>5
  <2> QED
    BY <1>4, <2>1, FS_Subset DEF RunningCount
<1>7. ASSUME PendingCount(new) # 0
      PROVE  RunningCount(new) = GROUP_SIZE
  <2>1. PICK p \in Rows : new[p] = "pending"
    BY <1>7, CountTypes DEF Pending, WithStatus
  <2>2. p <= n /\ GROUP_SIZE < p /\ p <= MaxRows
    BY <1>1, <1>2, <2>1
  <2>3. Running(new) = 1..GROUP_SIZE
    BY <1>2, <1>5, <2>2
  <2> QED
    BY <1>4, <2>3 DEF RunningCount
<1> QED
  BY <1>3, <1>6, <1>7

-----------------------------------------------------------------------------
(* Groups: what p pending, r running and f finished rows and the number g of the group *)
(* say about each other                                                                *)

\* At most what is left of the group that is under way runs, and one row more when the
\* report of a retried row has started the next group.
LoadFits(p, r, f, g) ==
    /\ r <= GROUP_SIZE + 1
    /\ \/ p = 0
       \/ (1 + f) % GROUP_SIZE = 0 /\ (r <= 1 \/ g = 1 + f)
       \/ (1 + f) % GROUP_SIZE # 0 /\ r <= GROUP_SIZE + 1 - ((1 + f) % GROUP_SIZE)

\* Whole groups have been started, and a group is under way whose end starts the next one,
\* unless the number of the group is still the one inherited, h.
GroupsGoOn(p, r, f, g, h) ==
    p # 0 => /\ (r + f) % GROUP_SIZE = 0
             /\ (h # 0 /\ g = h) \/ (r # 0 /\ r + f > g)

\* What ReportCounts and GroupAfter say of a report
Counted(p, r, f, g, p2, r2, f2, g2) ==
    /\ p \in Nat /\ r \in Nat /\ f \in Nat /\ g \in Nat
    /\ p2 \in Nat /\ r2 \in Nat /\ f2 \in Nat /\ g2 \in Nat
    /\ \E s, u \in Nat :
          LET needs == /\ g # 1 + f /\ p # 0
                       /\ (1 + f) % GROUP_SIZE = 0 \/ p + r - 1 < GROUP_SIZE
          IN  /\ s = IF ~needs THEN 0 ELSE IF p <= GROUP_SIZE THEN p ELSE GROUP_SIZE
              /\ u <= 1 /\ u <= r
              /\ p2 = p - s /\ r2 = r + s - u /\ f2 = f + u
              /\ g2 = IF needs THEN 1 + f ELSE g

LEMMA LoadStillFits ==
    ASSUME NEW p, NEW r, NEW f, NEW g, NEW p2, NEW r2, NEW f2, NEW g2,
           Counted(p, r, f, g, p2, r2, f2, g2)
    PROVE  LoadFits(p, r, f, g) => LoadFits(p2, r2, f2, g2)
<1> SUFFICES ASSUME LoadFits(p, r, f, g) PROVE LoadFits(p2, r2, f2, g2)
  OBVIOUS
<1>0. /\ GROUP_SIZE \in Nat \ {0}
      /\ p \in Nat /\ r \in Nat /\ f \in Nat /\ g \in Nat
  BY GroupAssumption DEF Counted
<1>1. PICK m, m2 : m = (1 + f) % GROUP_SIZE /\ m2 = (1 + f2) % GROUP_SIZE
  OBVIOUS
<1>2. m \in 0..(GROUP_SIZE - 1)
  <2>1. PICK x \in Nat : x = 1 + f
    BY <1>0
  <2> QED
    BY <1>0, <1>1, <2>1, Division
<1>3. (f2 = f => m2 = m)
      /\ (f2 = f + 1 => m2 = IF m = GROUP_SIZE - 1 THEN 0 ELSE m + 1)
  <2>1. PICK x \in Nat : x = 1 + f
    BY <1>0
  <2>2. (x + 1) % GROUP_SIZE = IF x % GROUP_SIZE = GROUP_SIZE - 1 THEN 0 ELSE (x % GROUP_SIZE) + 1
    BY <1>0, NextRemainder
  <2> QED
    BY <1>0, <1>1, <2>1, <2>2
<1> DEFINE needs == g # 1 + f /\ p # 0 /\ (m = 0 \/ p + r - 1 < GROUP_SIZE)
<1>4. PICK s \in Nat, u \in Nat :
           /\ s = IF ~needs THEN 0 ELSE IF p <= GROUP_SIZE THEN p ELSE GROUP_SIZE
           /\ u <= 1 /\ u <= r
           /\ p2 = p - s /\ r2 = r + s - u /\ f2 = f + u
           /\ g2 = IF needs THEN 1 + f ELSE g
  BY <1>1 DEF Counted
<1>5. /\ r <= GROUP_SIZE + 1
      /\ \/ p = 0
         \/ m = 0 /\ (r <= 1 \/ g = 1 + f)
         \/ m # 0 /\ r <= GROUP_SIZE + 1 - m
  BY <1>1 DEF LoadFits
<1>6. SUFFICES /\ r2 <= GROUP_SIZE + 1
               /\ \/ p2 = 0
                  \/ m2 = 0 /\ (r2 <= 1 \/ g2 = 1 + f2)
                  \/ m2 # 0 /\ r2 <= GROUP_SIZE + 1 - m2
  BY <1>1 DEF LoadFits
<1>7. \/ u = 0 /\ f2 = f /\ m2 = m
      \/ u = 1 /\ f2 = f + 1 /\ m2 = IF m = GROUP_SIZE - 1 THEN 0 ELSE m + 1
  BY <1>0, <1>3, <1>4
<1>8. CASE ~needs
  <2>1. p2 = p /\ r2 = r - u /\ g2 = g
    BY <1>0, <1>4, <1>8
  <2> QED
    BY <1>0, <1>2, <1>5, <1>7, <1>8, <2>1
<1>9. CASE needs /\ p <= GROUP_SIZE
  <2>1. p2 = 0 /\ r2 = r + p - u
    BY <1>4, <1>9
  <2>2. r + p <= GROUP_SIZE + 1
    BY <1>0, <1>2, <1>5, <1>9
  <2> QED
    BY <1>0, <1>4, <2>1, <2>2
<1>10. CASE needs /\ p > GROUP_SIZE
  <2>1. m = 0 /\ r <= 1 /\ r2 = r + GROUP_SIZE - u /\ g2 = 1 + f
    BY <1>0, <1>4, <1>5, <1>10
  <2> QED
    BY <1>0, <1>2, <1>4, <1>7, <2>1
<1> QED
  BY <1>0, <1>8, <1>9, <1>10

LEMMA GroupsStillGoOn ==
    ASSUME NEW p, NEW r, NEW f, NEW g, NEW h, NEW p2, NEW r2, NEW f2, NEW g2,
           GROUP_SIZE # 1,
           Counted(p, r, f, g, p2, r2, f2, g2), GroupsGoOn(p, r, f, g, h)
    PROVE  GroupsGoOn(p2, r2, f2, g2, h)
<1>0. /\ GROUP_SIZE \in Nat \ {0} /\ GROUP_SIZE >= 2
      /\ p \in Nat /\ r \in Nat /\ f \in Nat /\ g \in Nat
  BY GroupAssumption DEF Counted
<1> DEFINE needs == g # 1 + f /\ p # 0 /\ ((1 + f) % GROUP_SIZE = 0 \/ p + r - 1 < GROUP_SIZE)
<1>1. PICK s \in Nat, u \in Nat :
           /\ s = IF ~needs THEN 0 ELSE IF p <= GROUP_SIZE THEN p ELSE GROUP_SIZE
           /\ u <= 1 /\ u <= r
           /\ p2 = p - s /\ r2 = r + s - u /\ f2 = f + u
           /\ g2 = IF needs THEN 1 + f ELSE g
  BY DEF Counted
<1>2. SUFFICES ASSUME p2 # 0
               PROVE  (r2 + f2) % GROUP_SIZE = 0 /\ ((h # 0 /\ g2 = h) \/ (r2 # 0 /\ r2 + f2 > g2))
  BY DEF GroupsGoOn
<1>3. (r + f) % GROUP_SIZE = 0 /\ ((h # 0 /\ g = h) \/ (r # 0 /\ r + f > g))
  <2>1. p # 0
    BY <1>1, <1>2
  <2> QED
    BY <2>1 DEF GroupsGoOn
<1>4. CASE ~needs
  <2>1. s = 0 /\ p2 = p /\ r2 = r - u /\ f2 = f + u /\ g2 = g
    BY <1>0, <1>1, <1>4
  <2>2. r2 + f2 = r + f
    BY <1>0, <1>1, <2>1
  <2>3. ASSUME ~(h # 0 /\ g = h), r2 = 0
        PROVE  FALSE
    <3>1. r = 1 /\ 1 + f = r + f /\ g # 1 + f
      BY <1>0, <1>1, <1>3, <2>1, <2>3
    <3>2. (1 + f) % GROUP_SIZE = 0
      BY <1>3, <3>1
    <3> QED
      BY <1>2, <1>4, <2>1, <3>1, <3>2
  <2> QED
    BY <1>3, <2>1, <2>2, <2>3
<1>5. CASE needs
  <2>1. p > GROUP_SIZE /\ s = GROUP_SIZE
    BY <1>0, <1>1, <1>2, <1>5
  <2>2. r2 + f2 = (r + f) + GROUP_SIZE /\ r2 = r + GROUP_SIZE - u /\ g2 = 1 + f
    BY <1>0, <1>1, <1>5, <2>1
  <2>3. (r2 + f2) % GROUP_SIZE = 0
    <3>1. PICK x \in Nat : x = r + f
      BY <1>0
    <3>2. (x + GROUP_SIZE) % GROUP_SIZE = x % GROUP_SIZE
      BY <1>0, NextGroupRemainder
    <3> QED
      BY <1>3, <2>2, <3>1, <3>2
  <2>4. r2 # 0 /\ r2 + f2 > g2
    BY <1>0, <1>1, <2>2
  <2> QED
    BY <2>3, <2>4
<1> QED
  BY <1>4, <1>5

-----------------------------------------------------------------------------
(* Groups: the invariant                                                               *)

Fits(list, group) ==
    LoadFits(PendingCount(list), RunningCount(list), FinishedCount(list), group)

GoesOn(list, group, h) ==
    GroupsGoOn(PendingCount(list), RunningCount(list), FinishedCount(list), group, h)

\* One call of handleCompleted
LEMMA CompletedOnce ==
    ASSUME NEW list \in ListType, NEW group \in 0..MaxRows, NEW cell, NEW isSuccess \in BOOLEAN,
           cell \in Rows => list[cell] # "pending",
           NEW new, new = ListAfter(list, group, cell, isSuccess),
           NEW next, next = GroupAfter(list, group)
    PROVE  /\ Fits(list, group) => Fits(new, next)
           /\ \A h \in Nat : GROUP_SIZE # 1 /\ GoesOn(list, group, h) => GoesOn(new, next, h)
<1>1. PICK p \in Nat, r \in Nat, f \in Nat :
          p = PendingCount(list) /\ r = RunningCount(list) /\ f = FinishedCount(list)
  BY CountTypes
<1>2. PICK p2 \in Nat, r2 \in Nat, f2 \in Nat :
          p2 = PendingCount(new) /\ r2 = RunningCount(new) /\ f2 = FinishedCount(new)
  BY CountTypes
<1>3. group \in Nat /\ next \in Nat
  BY ConstantTypes, GroupAfterType
<1>4. HadRun(list) = 1 + f /\ Cardinality(Listed(list)) = p + r + f
  BY <1>1, ListedCount DEF HadRun, FinishedCount
<1>5. Pending(list) = {} <=> p = 0
  BY <1>1, CountTypes
<1>6. NeedsNextGroup(list, group) <=>
          /\ group # 1 + f /\ p # 0
          /\ (1 + f) % GROUP_SIZE = 0 \/ p + r - 1 < GROUP_SIZE
  <2>1. p + r + f - (1 + f) = p + r - 1
    OBVIOUS
  <2> QED
    BY <1>4, <1>5, <2>1 DEF NeedsNextGroup
<1>7. next = IF NeedsNextGroup(list, group) THEN 1 + f ELSE group
  BY <1>4 DEF GroupAfter
<1>8. PICK s \in Nat, u \in Nat :
          /\ s = IF ~NeedsNextGroup(list, group) THEN 0
                 ELSE IF p <= GROUP_SIZE THEN p ELSE GROUP_SIZE
          /\ u <= 1 /\ u <= r /\ p2 = p - s /\ r2 = r + s - u /\ f2 = f + u
  BY <1>1, <1>2, ReportCounts
<1>9. Counted(p, r, f, group, p2, r2, f2, next)
  BY <1>3, <1>6, <1>7, <1>8 DEF Counted
<1>10. LoadFits(p, r, f, group) => LoadFits(p2, r2, f2, next)
  BY <1>9, LoadStillFits
<1>11. \A h \in Nat : GROUP_SIZE # 1 /\ GroupsGoOn(p, r, f, group, h) => GroupsGoOn(p2, r2, f2, next, h)
  BY <1>9, GroupsStillGoOn
<1> QED
  BY <1>1, <1>2, <1>10, <1>11 DEF Fits, GoesOn

\* A report of a row that was started
LEMMA ReportGoesOn ==
    ASSUME TypeOK, NEW i \in Cells, NEW k \in Tries, NEW reports \in Reports, NEW req \in Try,
           Report(i, k, reports, req), i \in Rows => tasks[i] # "pending"
    PROVE  /\ Fits(tasks, currGroupNum) => Fits(tasks', currGroupNum')
           /\ \A h \in Nat : GROUP_SIZE # 1 /\ GoesOn(tasks, currGroupNum, h)
                             => GoesOn(tasks', currGroupNum', h)
<1>0. tasks \in ListType /\ currGroupNum \in 0..MaxRows
  BY DEF TypeOK, ListType
<1>a. PICK list, group : list = tasks /\ group = currGroupNum
  OBVIOUS
<1>1. CASE Len(reports) = 1
  <2>1. reports[1] \in BOOLEAN
    BY ReportsType
  <2>2. tasks' = ListAfter(list, group, i, reports[1])
    BY <1>1, <1>a DEF Report
  <2>3. currGroupNum' = GroupAfter(list, group)
    BY <1>1, <1>a DEF Report
  <2> QED
    BY <1>0, <1>a, <2>1, <2>2, <2>3, CompletedOnce
<1>2. CASE Len(reports) # 1
  <2>1. reports[1] \in BOOLEAN /\ reports[2] \in BOOLEAN
    BY <1>2, ReportsType
  <2>2. PICK list1, group1 :
            list1 = ListAfter(list, group, i, reports[1]) /\ group1 = GroupAfter(list, group)
    OBVIOUS
  <2>3. tasks' = ListAfter(list1, group1, i, reports[2]) /\ currGroupNum' = GroupAfter(list1, group1)
    BY <1>2, <1>a, <2>2 DEF Report
  <2>4. list1 \in ListType /\ group1 \in 0..MaxRows
    BY <1>0, <1>a, <2>1, <2>2, ListAfterResult, GroupAfterType
  <2>5. i \in Rows => list1[i] # "pending"
    BY <1>0, <1>a, <2>1, <2>2, ListAfterResult
  <2>6. /\ Fits(list, group) => Fits(list1, group1)
        /\ \A h \in Nat : GROUP_SIZE # 1 /\ GoesOn(list, group, h) => GoesOn(list1, group1, h)
    BY <1>0, <1>a, <2>1, <2>2, CompletedOnce
  <2>7. /\ Fits(list1, group1) => Fits(tasks', currGroupNum')
        /\ \A h \in Nat : GROUP_SIZE # 1 /\ GoesOn(list1, group1, h)
                          => GoesOn(tasks', currGroupNum', h)
    BY <2>1, <2>3, <2>4, <2>5, CompletedOnce
  <2> QED
    BY <1>a, <2>6, <2>7
<1> QED
  BY <1>1, <1>2

\* A list that RunBatch makes
LEMMA NewListFits ==
    ASSUME NEW n \in Int, NEW new, new = NewTaskList(n), NEW group \in Nat
    PROVE  Fits(new, group) /\ GoesOn(new, group, group)
<1>0. GROUP_SIZE \in Nat \ {0}
  BY GroupAssumption
<1>1. PICK p \in Nat, r \in Nat, f \in Nat :
          p = PendingCount(new) /\ r = RunningCount(new) /\ f = FinishedCount(new)
  BY CountTypes
<1>2. f = 0 /\ r <= GROUP_SIZE /\ (p # 0 => r = GROUP_SIZE)
  BY <1>1, NewListCounts
<1>3. LoadFits(p, r, f, group)
  <2>1. 1 + f = 1
    BY <1>2
  <2>2. CASE GROUP_SIZE = 1
    <3>1. 1 % GROUP_SIZE = 0
      BY <2>2
    <3> QED
      BY <1>2, <2>1, <2>2, <3>1 DEF LoadFits
  <2>3. CASE GROUP_SIZE # 1
    <3>1. 1 % GROUP_SIZE = 1
      BY <1>0, <2>3
    <3> QED
      BY <1>0, <1>2, <2>1, <3>1 DEF LoadFits
  <2> QED
    BY <2>2, <2>3
<1>4. GroupsGoOn(p, r, f, group, group)
  <2>1. (0 + GROUP_SIZE) % GROUP_SIZE = 0 % GROUP_SIZE /\ 0 % GROUP_SIZE = 0
    BY <1>0, NextGroupRemainder
  <2>2. CASE p # 0
    <3>1. r + f = 0 + GROUP_SIZE /\ r # 0
      BY <1>0, <1>2, <2>2
    <3>2. (r + f) % GROUP_SIZE = 0
      BY <2>1, <3>1
    <3> QED
      BY <1>0, <1>2, <3>1, <3>2 DEF GroupsGoOn
  <2> QED
    BY <2>2 DEF GroupsGoOn
<1> QED
  BY <1>1, <1>3, <1>4 DEF Fits, GoesOn

\* A list without rows that are pending or running
LEMMA EmptyListFits ==
    ASSUME NEW list, \A i \in Rows : list[i] = "none"
    PROVE  /\ \A group : Fits(list, group)
           /\ \A group, h : GoesOn(list, group, h)
<1>0. GROUP_SIZE \in Nat \ {0}
  BY GroupAssumption
<1>1. Pending(list) = {} /\ Running(list) = {}
  BY DEF Pending, Running, WithStatus
<1>2. PendingCount(list) = 0 /\ RunningCount(list) = 0
  BY <1>1, CountTypes
<1> QED
  BY <1>0, <1>2 DEF Fits, GoesOn, LoadFits, GroupsGoOn

\* A view responds only while a request of it is open.
BusyHasOpen == \A j \in Rows : busy[j] => \E m \in Tries : Open(j, m) /\ Mounted(j, m)

\* A row that runs is going to be reported.
RunningHasOpen ==
    quiet /\ isCallBatchAPI =>
        \A j \in Rows : tasks[j] = "running" => \E m \in Tries : Open(j, m)

LoadInv == quiet => Fits(tasks, currGroupNum)

ProgressInv == quiet /\ GROUP_SIZE # 1 => GoesOn(tasks, currGroupNum, inherited)

GroupInv == BatchInv /\ BusyHasOpen /\ RunningHasOpen /\ LoadInv /\ ProgressInv

\* What a view sends is open, and what was open stays so.
LEMMA SendOpens ==
    ASSUME TypeOK, NEW count \in [Cells -> 0..2], NEW views, NEW flags, NEW reqs,
           Send(count, views, flags, reqs), NEW j \in Cells
    PROVE  /\ view' = views
           /\ busy'[j] <=> flags[j] \/ count[j] > 0
           /\ count[j] > 0 => \E m \in Tries : attempts'[j][m] = [view |-> views[j], state |-> "open"]
           /\ \A m \in Tries : \/ attempts'[j][m] = reqs[j][m]
                               \/ attempts'[j][m] = [view |-> views[j], state |-> "open"]
<1>1. /\ tries[j] \in Nat /\ count[j] \in Nat /\ MaxTries \in Nat
      /\ tries[j] + count[j] <= MaxTries
  <2>1. tries[j] \in 0..MaxTries /\ count[j] \in 0..2 /\ MaxTries \in Nat
    BY ConstantTypes DEF TypeOK
  <2>2. tries[j] + count[j] <= MaxTries
    BY DEF Send
  <2> QED
    BY <2>1, <2>2
<1>2. \A m \in Tries :
          attempts'[j][m] = IF m > tries[j] /\ m <= tries[j] + count[j]
                            THEN [view |-> views[j], state |-> "open"] ELSE reqs[j][m]
  BY DEF Send
<1>3. ASSUME count[j] > 0
      PROVE  \E m \in Tries : attempts'[j][m] = [view |-> views[j], state |-> "open"]
  <2>1. PICK m \in Nat : m = tries[j] + 1
    BY <1>1
  <2>2. m \in Tries /\ m > tries[j] /\ m <= tries[j] + count[j]
    BY <1>1, <1>3, <2>1 DEF Tries
  <2> QED
    BY <1>2, <2>2
<1>4. view' = views /\ (busy'[j] <=> flags[j] \/ count[j] > 0)
  BY DEF Send
<1> QED
  BY <1>2, <1>3, <1>4

\* A report: the views that respond and the rows that run have requests.
LEMMA ReportOpens ==
    ASSUME BatchInv, BusyHasOpen, RunningHasOpen, NEW i \in Cells, NEW k \in Tries, Open(i, k),
           NEW reports \in Reports, NEW req \in Try, Report(i, k, reports, req)
    PROVE  BusyHasOpen' /\ RunningHasOpen'
<1> DEFINE flags == FlagsAfter(i, k)
           reqs == [attempts EXCEPT ![i][k] = req]
<1>a. TypeOK /\ Rows \subseteq Cells
      /\ UNCHANGED <<isCallBatchAPI, controlRetry, runs, retries, inherited, quiet>>
  BY ConstantTypes, ReportSends DEF BatchInv
<1>1. \A j \in Cells, m \in Tries : j # i \/ m # k => reqs[j][m] = attempts[j][m]
  BY <1>a DEF TypeOK
<1>2. \A j \in Cells : flags[j] => busy[j] /\ (j = i => ~Mounted(i, k))
  BY <1>a DEF FlagsAfter, TypeOK
<1>3. tasks' \in ListType /\ flags \in [Cells -> BOOLEAN]
  BY <1>a, ReportResult, ReportSends
<1>4. \A j \in Rows : IF j = i /\ tasks[j] # "none"
                      THEN tasks'[j] \in {"completed", "failed"}
                      ELSE tasks'[j] = tasks[j]
                           \/ (tasks[j] = "pending" /\ tasks'[j] = "running")
  BY <1>a, ReportResult
<1>5. ASSUME NEW j \in Rows, flags[j]
      PROVE  \E m \in Tries : reqs[j][m] = attempts[j][m] /\ Open(j, m) /\ Mounted(j, m)
  <2>1. PICK m \in Tries : Open(j, m) /\ Mounted(j, m)
    BY <1>2, <1>5, <1>a DEF BusyHasOpen
  <2>2. j # i \/ m # k
    BY <1>2, <1>5, <1>a, <2>1
  <2> QED
    BY <1>1, <1>a, <2>1, <2>2
<1> HIDE DEF flags, reqs
<1>6. CASE isCallBatchAPI
  <2> DEFINE count == EffectsOf(tasks', flags)
             views == ViewsOf(tasks')
  <2>1. Send(count, views, flags, reqs)
    BY <1>6, <1>a, ReportSends DEF flags, reqs
  <2>2. count \in [Cells -> 0..2]
    BY <1>3, <1>a, EffectsResult
  <2>3. \A j \in Rows : view[j] # 0 <=> tasks[j] \notin {"none", "pending"}
    BY <1>6 DEF BatchInv, RowsInv, ViewsFollowRows
  <2>4. \A j \in Rows :
            /\ view[j] # 0 => views[j] = view[j]
            /\ tasks'[j] \notin {"none", "pending"} => views[j] # 0
            /\ tasks'[j] \in {"none", "pending"} => count[j] = 0
            /\ view[j] = 0 /\ tasks'[j] = "running" => count[j] > 0
    <3>1. \A j \in Rows : j \in Cells /\ j # 0 /\ view[j] \in Nat /\ tries[j] \in Nat
      BY <1>a, ConstantTypes DEF TypeOK
    <3>2. \A j \in Rows : view[j] # 0 => tasks'[j] \notin {"none", "pending"}
      BY <1>4, <2>3
    <3> QED
      BY <3>1, <3>2 DEF ViewsOf, EffectsOf
  <2> HIDE DEF count, views
  <2>5. \A j \in Rows :
            /\ view' = views
            /\ busy'[j] <=> flags[j] \/ count[j] > 0
            /\ count[j] > 0 =>
                  \E m \in Tries : attempts'[j][m] = [view |-> views[j], state |-> "open"]
            /\ \A m \in Tries : \/ attempts'[j][m] = reqs[j][m]
                                \/ attempts'[j][m] = [view |-> views[j], state |-> "open"]
    BY <1>a, <2>1, <2>2, SendOpens
  <2>6. BusyHasOpen'
    <3> SUFFICES ASSUME NEW j \in Rows, busy'[j]
                 PROVE  \E m \in Tries : Open(j, m)' /\ Mounted(j, m)'
      BY DEF BusyHasOpen
    <3>1. CASE count[j] > 0
      <4>1. PICK m \in Tries : attempts'[j][m] = [view |-> views[j], state |-> "open"]
        BY <2>5, <3>1
      <4>2. views[j] # 0
        <5>1. count[j] # 0
          BY <3>1
        <5> QED
          BY <2>4, <5>1
      <4> QED
        BY <2>5, <4>1, <4>2 DEF Open, Mounted
    <3>2. CASE flags[j]
      <4>1. PICK m \in Tries : reqs[j][m] = attempts[j][m] /\ Open(j, m) /\ Mounted(j, m)
        BY <1>5, <3>2
      <4>2. views[j] = view[j] /\ view[j] # 0
        BY <2>4, <4>1 DEF Mounted
      <4>3. attempts[j][m].state = "open" /\ attempts[j][m].view = view[j]
        BY <4>1 DEF Open, Mounted
      <4>4. \/ attempts'[j][m] = attempts[j][m]
            \/ attempts'[j][m] = [view |-> views[j], state |-> "open"]
        BY <2>5, <4>1
      <4>5. attempts'[j][m].state = "open" /\ attempts'[j][m].view = views[j]
        BY <4>2, <4>3, <4>4
      <4> QED
        BY <2>5, <4>2, <4>5 DEF Open, Mounted
    <3> QED
      BY <2>5, <3>1, <3>2
  <2>7. RunningHasOpen'
    <3> SUFFICES ASSUME quiet, NEW j \in Rows, tasks'[j] = "running"
                 PROVE  \E m \in Tries : Open(j, m)'
      BY <1>a DEF RunningHasOpen
    <3>1. CASE view[j] = 0
      <4>1. count[j] > 0
        BY <2>4, <3>1
      <4>2. PICK m \in Tries : attempts'[j][m] = [view |-> views[j], state |-> "open"]
        BY <2>5, <4>1
      <4> QED
        BY <4>2 DEF Open
    <3>2. CASE view[j] # 0
      <4>1. j # i /\ tasks[j] = "running"
        BY <1>4, <2>3, <3>2
      <4>2. PICK m \in Tries : Open(j, m)
        BY <1>6, <4>1 DEF RunningHasOpen
      <4>3. reqs[j][m] = attempts[j][m]
        BY <1>1, <1>a, <4>1
      <4>4. \/ attempts'[j][m] = attempts[j][m]
            \/ attempts'[j][m] = [view |-> views[j], state |-> "open"]
        BY <2>5, <4>3
      <4>5. attempts'[j][m].state = "open"
        BY <4>2, <4>4 DEF Open
      <4> QED
        BY <4>5 DEF Open
    <3> QED
      BY <3>1, <3>2
  <2> QED
    BY <2>6, <2>7
<1>7. CASE ~isCallBatchAPI
  <2> DEFINE count == Once({})
  <2>1. Send(count, view, flags, reqs)
    BY <1>7, <1>a, ReportSends DEF flags, reqs
  <2>2. count \in [Cells -> 0..2] /\ \A j \in Cells : count[j] = 0
    BY OnceResult
  <2> HIDE DEF count
  <2>3. \A j \in Rows :
            /\ view' = view
            /\ busy'[j] <=> flags[j]
            /\ \A m \in Tries : \/ attempts'[j][m] = reqs[j][m]
                                \/ attempts'[j][m] = [view |-> view[j], state |-> "open"]
    <3> TAKE j \in Rows
    <3>1. ~(count[j] > 0) /\ j \in Cells
      BY <1>a, <2>2
    <3> QED
      BY <1>a, <2>1, <2>2, <3>1, SendOpens
  <2>4. BusyHasOpen'
    <3> SUFFICES ASSUME NEW j \in Rows, busy'[j]
                 PROVE  \E m \in Tries : Open(j, m)' /\ Mounted(j, m)'
      BY DEF BusyHasOpen
    <3>1. PICK m \in Tries : reqs[j][m] = attempts[j][m] /\ Open(j, m) /\ Mounted(j, m)
      BY <1>5, <2>3
    <3>2. attempts[j][m].state = "open" /\ attempts[j][m].view = view[j] /\ view[j] # 0
      BY <3>1 DEF Open, Mounted
    <3>3. \/ attempts'[j][m] = attempts[j][m]
          \/ attempts'[j][m] = [view |-> view[j], state |-> "open"]
      BY <2>3, <3>1
    <3>4. attempts'[j][m].state = "open" /\ attempts'[j][m].view = view[j]
      BY <3>2, <3>3
    <3> QED
      BY <2>3, <3>2, <3>4 DEF Open, Mounted
  <2> QED
    BY <1>7, <1>a, <2>4 DEF RunningHasOpen
<1> QED
  BY <1>6, <1>7

\* A report that comes in: with no request of an earlier list open, its row was started.
LEMMA ReportKeepsGroups ==
    ASSUME GroupInv, NEW i \in Cells, NEW k \in Tries, Open(i, k),
           NEW reports \in Reports, NEW req \in Try, req.state # "open",
           Report(i, k, reports, req)
    PROVE  GroupInv'
<1>a. BatchInv /\ TypeOK /\ inherited \in Nat
      /\ UNCHANGED <<isCallBatchAPI, controlRetry, runs, retries, inherited, quiet>>
  <2>1. BatchInv /\ TypeOK
    BY DEF GroupInv, BatchInv
  <2>2. inherited \in Nat
    BY <2>1, ConstantTypes DEF TypeOK
  <2> QED
    BY <2>1, <2>2, ReportSends
<1>1. BatchInv' /\ BusyHasOpen' /\ RunningHasOpen'
  BY <1>a, ReportKeeps, ReportOpens DEF GroupInv
<1>2. ASSUME quiet
      PROVE  /\ Fits(tasks', currGroupNum')
             /\ GROUP_SIZE # 1 => GoesOn(tasks', currGroupNum', inherited)
  <2>1. i \in Rows => tasks[i] # "pending"
    <3>1. CASE isCallBatchAPI
      BY <1>2, <1>a, <3>1
         DEF BatchInv, RowsInv, OpenIsAwaited, ViewsFollowRows, Awaited, Mounted
    <3>2. CASE ~isCallBatchAPI
      BY <1>a, <3>2 DEF BatchInv, RowsInv, NoListNoRows
    <3> QED
      BY <3>1, <3>2
  <2>2. Fits(tasks, currGroupNum) /\ (GROUP_SIZE # 1 => GoesOn(tasks, currGroupNum, inherited))
    BY <1>2 DEF GroupInv, LoadInv, ProgressInv
  <2> QED
    BY <1>a, <2>1, <2>2, ReportGoesOn
<1>3. LoadInv' /\ ProgressInv'
  BY <1>2, <1>a DEF LoadInv, ProgressInv
<1> QED
  BY <1>1, <1>3 DEF GroupInv

\* The end of a request that was given up
LEMMA LateKeepsGroups ==
    ASSUME GroupInv, NEW i \in Cells, NEW k \in Tries, ~Open(i, k),
           attempts' = [attempts EXCEPT ![i][k] = NoTry],
           UNCHANGED <<pageVars, tries, view, busy, runs, retries, historyVars>>
    PROVE  GroupInv'
<1>1. BatchInv'
  BY LateKeeps DEF GroupInv
<1>2. \A j \in Rows, m \in Tries : Open(j, m) => attempts'[j][m] = attempts[j][m] /\ Open(j, m)'
  BY ConstantTypes DEF Open, GroupInv, BatchInv, TypeOK
<1>3. BusyHasOpen'
  BY <1>2 DEF GroupInv, BusyHasOpen, Mounted
<1>4. RunningHasOpen'
  BY <1>2 DEF GroupInv, RunningHasOpen, pageVars, historyVars
<1>5. LoadInv' /\ ProgressInv'
  BY DEF GroupInv, LoadInv, ProgressInv, pageVars, historyVars
<1> QED
  BY <1>1, <1>3, <1>4, <1>5 DEF GroupInv

LEMMA NetworkKeepsGroups ==
    ASSUME GroupInv, NEW i \in Cells, NEW k \in Tries, Network(i, k) \/ TimeOut(i, k)
    PROVE  GroupInv'
<1>1. NoTry \in Try /\ NoTry.state # "open"
  BY ConstantTypes DEF NoTry, Try
<1>2. ASSUME NEW reports \in Reports, End(i, k, reports)
      PROVE  GroupInv'
  <2>1. CASE attempts[i][k].state = "open" /\ Report(i, k, reports, NoTry)
    BY <1>1, <2>1, ReportKeepsGroups DEF Open
  <2>2. CASE /\ attempts[i][k].state = "late"
             /\ attempts' = [attempts EXCEPT ![i][k] = NoTry]
             /\ UNCHANGED <<pageVars, tries, view, busy, runs, retries, historyVars>>
    <3>1. ~Open(i, k)
      BY <2>2 DEF Open
    <3> QED
      BY <2>2, <3>1, LateKeepsGroups
  <2> QED
    BY <1>2, <2>1, <2>2 DEF End
<1>3. CASE Network(i, k)
  <2>1. <<TRUE>> \in Reports /\ <<FALSE>> \in Reports /\ <<FALSE, TRUE>> \in Reports
    BY DEF Reports
  <2> QED
    BY <1>2, <1>3, <2>1 DEF Network, Complete, Refuse, FailInStream
<1>4. CASE TimeOut(i, k)
  <2>1. /\ [attempts[i][k] EXCEPT !.state = "late"] \in Try
        /\ [attempts[i][k] EXCEPT !.state = "late"].state # "open"
    BY OpenTypes DEF GroupInv, BatchInv, Try
  <2>2. <<FALSE>> \in Reports
    BY DEF Reports
  <2> QED
    BY <1>4, <2>1, <2>2, ReportKeepsGroups DEF TimeOut, Open
<1> QED
  BY <1>3, <1>4

\* A new list: the rows of its first group have sent, as no view was waiting.
LEMMA RunBatchKeepsGroups ==
    ASSUME GroupInv, NEW file \in Uploads, RunBatch(file)
    PROVE  GroupInv'
<1> DEFINE count == Once(Starting(tasks'))
           views == RowViews(tasks')
<1>a. TypeOK /\ BatchInv /\ BusyHasOpen /\ Rows \subseteq Cells
  BY ConstantTypes DEF GroupInv, BatchInv
<1>1. BatchInv'
  BY <1>a, RunBatchKeeps
<1>2. /\ tasks' \in ListType /\ isCallBatchAPI' = TRUE /\ quiet' = NoRequestOpen
      /\ Send(count, views, NoFlags, attempts)
      /\ inherited' = currGroupNum /\ currGroupNum' = currGroupNum
  BY <1>a, RunBatchResult
<1>3. count \in [Cells -> 0..2] /\ \A j \in Cells : count[j] = IF j \in Starting(tasks') THEN 1 ELSE 0
  BY OnceResult
<1>4. \A j \in Rows : tasks'[j] = "running" => views[j] # 0
  <2>1. \A j \in Rows : j \in Cells /\ view[j] \in Nat /\ tries[j] \in Nat
    BY <1>a, ConstantTypes DEF TypeOK
  <2>2. \A j \in Rows : views[j] = ViewsOf(tasks')[j]
    BY <1>2, <1>a, RowViewsResult
  <2>3. \A j \in Rows : tasks'[j] = "running" => ViewsOf(tasks')[j] # 0
    BY <2>1, ConstantTypes DEF ViewsOf
  <2> QED
    BY <2>2, <2>3
<1> HIDE DEF count, views
<1>5. \A j \in Rows :
          /\ view' = views
          /\ busy'[j] <=> NoFlags[j] \/ count[j] > 0
          /\ count[j] > 0 =>
                \E m \in Tries : attempts'[j][m] = [view |-> views[j], state |-> "open"]
  BY <1>2, <1>3, <1>a, SendOpens
<1>6. \A j \in Rows : count[j] > 0 <=> j \in Starting(tasks')
  BY <1>3, <1>a
<1>7. BusyHasOpen'
  <2> SUFFICES ASSUME NEW j \in Rows, busy'[j]
               PROVE  \E m \in Tries : Open(j, m)' /\ Mounted(j, m)'
    BY DEF BusyHasOpen
  <2>1. ~NoFlags[j]
    BY <1>a DEF NoFlags
  <2>2. count[j] > 0
    BY <1>5, <2>1
  <2>3. tasks'[j] = "running"
    BY <1>6, <2>2 DEF Starting
  <2>4. PICK m \in Tries : attempts'[j][m] = [view |-> views[j], state |-> "open"]
    BY <1>5, <2>2
  <2> QED
    BY <1>4, <1>5, <2>3, <2>4 DEF Open, Mounted
<1>8. RunningHasOpen'
  <2> SUFFICES ASSUME NoRequestOpen, NEW j \in Rows, tasks'[j] = "running"
               PROVE  \E m \in Tries : Open(j, m)'
    BY <1>2 DEF RunningHasOpen
  <2>1. ~busy[j]
    BY <1>a DEF BusyHasOpen, NoRequestOpen, Open
  <2>2. j \in Starting(tasks')
    BY <2>1 DEF Starting
  <2>3. PICK m \in Tries : attempts'[j][m] = [view |-> views[j], state |-> "open"]
    BY <1>5, <1>6, <2>2
  <2> QED
    BY <2>3 DEF Open
<1>9. Fits(tasks', currGroupNum') /\ GoesOn(tasks', currGroupNum', inherited')
  <2>1. PICK n : n = Cardinality(FilledLines(file)) /\ tasks' = NewTaskList(n)
    BY DEF RunBatch
  <2>2. n \in Int
    <3>1. file \in Seq({"good", "bad", "empty"})
      BY UploadsAssumption
    <3>2. IsFiniteSet(1..Len(file)) /\ DOMAIN file = 1..Len(file)
      <4>1. Len(file) \in Nat /\ DOMAIN file = 1..Len(file)
        BY <3>1
      <4>2. PICK l \in Nat : l = Len(file)
        BY <4>1
      <4>3. l \in Int /\ IsFiniteSet(1..l)
        BY FS_Interval
      <4> QED
        BY <4>1, <4>2, <4>3
    <3>3. FilledLines(file) \in SUBSET (1..Len(file))
      BY <3>2 DEF FilledLines
    <3>4. IsFiniteSet(FilledLines(file))
      BY <3>2, <3>3, FS_Subset
    <3> QED
      BY <2>1, <3>4, FS_CardinalityType
  <2>3. PICK group \in Nat : group = currGroupNum
    BY <1>a, ConstantTypes DEF TypeOK
  <2>4. Fits(tasks', group) /\ GoesOn(tasks', group, group)
    BY <2>1, <2>2, NewListFits
  <2> QED
    BY <1>2, <2>3, <2>4
<1>10. LoadInv' /\ ProgressInv'
  BY <1>9 DEF LoadInv, ProgressInv
<1> QED
  BY <1>1, <1>7, <1>8, <1>10 DEF GroupInv

\* "Run once" clears the list.
LEMMA RunOnceKeepsGroups ==
    ASSUME GroupInv, NEW canSend \in BOOLEAN, RunOnce(canSend)
    PROVE  GroupInv'
<1>1. /\ TypeOK' /\ isCallBatchAPI' = FALSE /\ \A j \in Rows : tasks'[j] = "none"
  BY RunOnceTypes DEF GroupInv, BatchInv
<1>2. BatchInv'
  BY <1>1 DEF BatchInv, RowsInv, NoListNoRows, ViewsFollowRows, OpenIsAwaited
<1>3. \A j \in Rows : ~busy'[j]
  <2> DEFINE mounted == ~isCallBatchAPI /\ view[0] # 0
             flags == [i \in Cells |-> i = 0 /\ mounted /\ busy[0]]
             count == Once(IF canSend /\ ~flags[0] THEN {0} ELSE {})
  <2>1. \A j \in Cells : busy'[j] <=> flags[j] \/ count[j] > 0
    BY DEF RunOnce, Send
  <2>2. \A j \in Rows : j \in Cells /\ j # 0 /\ ~flags[j]
    BY ConstantTypes
  <2>3. \A j \in Rows : count[j] = 0
    BY <2>2, OnceResult
  <2> HIDE DEF flags, count
  <2>4. \A j \in Rows : ~(count[j] > 0)
    BY <2>3
  <2> QED
    BY <2>1, <2>2, <2>4
<1>4. BusyHasOpen' /\ RunningHasOpen'
  BY <1>1, <1>3 DEF BusyHasOpen, RunningHasOpen
<1>5. (\A group : Fits(tasks', group)) /\ (\A group, h : GoesOn(tasks', group, h))
  BY <1>1, EmptyListFits
<1>6. LoadInv' /\ ProgressInv'
  BY <1>5 DEF LoadInv, ProgressInv
<1> QED
  BY <1>2, <1>4, <1>6 DEF GroupInv

\* A retry sends from views of failed rows, and changes no row.
LEMMA RetryKeepsGroups ==
    ASSUME GroupInv, RetryAll \/ \E i \in Rows : Retry(i)
    PROVE  GroupInv'
<1>a. TypeOK /\ BatchInv /\ BusyHasOpen /\ RunningHasOpen /\ Rows \subseteq Cells
  BY ConstantTypes DEF GroupInv, BatchInv
<1>1. BatchInv'
  BY <1>a, RetryKeeps
<1>2. UNCHANGED <<tasks, isCallBatchAPI, currGroupNum, runs, inherited, quiet>>
  BY <1>a, RetryResult
<1>3. PICK S \in SUBSET {i \in Failed : ~busy[i]} : Send(Once(S), view, busy, attempts)
  BY <1>a, RetryResult
<1> DEFINE count == Once(S)
<1>4. count \in [Cells -> 0..2] /\ \A j \in Cells : count[j] = IF j \in S THEN 1 ELSE 0
  BY OnceResult
<1> HIDE DEF count
<1>5. \A j \in Rows :
          /\ view' = view
          /\ busy'[j] <=> busy[j] \/ count[j] > 0
          /\ count[j] > 0 =>
                \E m \in Tries : attempts'[j][m] = [view |-> view[j], state |-> "open"]
          /\ \A m \in Tries : \/ attempts'[j][m] = attempts[j][m]
                              \/ attempts'[j][m] = [view |-> view[j], state |-> "open"]
  BY <1>3, <1>4, <1>a, SendOpens DEF count
<1>6. BusyHasOpen'
  <2> SUFFICES ASSUME NEW j \in Rows, busy'[j]
               PROVE  \E m \in Tries : Open(j, m)' /\ Mounted(j, m)'
    BY DEF BusyHasOpen
  <2>1. CASE count[j] > 0
    <3>1. PICK m \in Tries : attempts'[j][m] = [view |-> view[j], state |-> "open"]
      BY <1>5, <2>1
    <3>2. j \in S
      BY <1>4, <1>a, <2>1
    <3>3. tasks[j] = "failed"
      BY <3>2 DEF Failed, WithStatus
    <3>4. view[j] # 0
      BY <1>a, <3>3 DEF BatchInv, RowsInv, NoListNoRows, ViewsFollowRows
    <3> QED
      BY <1>5, <3>1, <3>4 DEF Open, Mounted
  <2>2. CASE busy[j]
    <3>1. PICK m \in Tries : Open(j, m) /\ Mounted(j, m)
      BY <1>a, <2>2 DEF BusyHasOpen
    <3>2. attempts[j][m].state = "open" /\ attempts[j][m].view = view[j] /\ view[j] # 0
      BY <3>1 DEF Open, Mounted
    <3>3. \/ attempts'[j][m] = attempts[j][m]
          \/ attempts'[j][m] = [view |-> view[j], state |-> "open"]
      BY <1>5
    <3>4. attempts'[j][m].state = "open" /\ attempts'[j][m].view = view[j]
      BY <3>2, <3>3
    <3> QED
      BY <1>5, <3>2, <3>4 DEF Open, Mounted
  <2> QED
    BY <1>5, <2>1, <2>2
<1>7. RunningHasOpen'
  <2> SUFFICES ASSUME quiet, isCallBatchAPI, NEW j \in Rows, tasks[j] = "running"
               PROVE  \E m \in Tries : Open(j, m)'
    BY <1>2 DEF RunningHasOpen
  <2>1. PICK m \in Tries : Open(j, m)
    BY <1>a DEF RunningHasOpen
  <2>2. \/ attempts'[j][m] = attempts[j][m]
        \/ attempts'[j][m] = [view |-> view[j], state |-> "open"]
    BY <1>5
  <2>3. attempts'[j][m].state = "open"
    BY <2>1, <2>2 DEF Open
  <2> QED
    BY <2>3 DEF Open
<1>8. LoadInv' /\ ProgressInv'
  BY <1>2 DEF GroupInv, LoadInv, ProgressInv
<1> QED
  BY <1>1, <1>6, <1>7, <1>8 DEF GroupInv

LEMMA GroupInvInit == Init => GroupInv
<1> SUFFICES ASSUME Init PROVE GroupInv
  OBVIOUS
<1>1. BatchInv
  BY BatchInvInit
<1>2. BusyHasOpen /\ RunningHasOpen
  BY ConstantTypes DEF Init, BusyHasOpen, RunningHasOpen
<1>3. \A j \in Rows : tasks[j] = "none"
  BY DEF Init
<1>4. LoadInv /\ ProgressInv
  BY <1>3, EmptyListFits DEF LoadInv, ProgressInv
<1> QED
  BY <1>1, <1>2, <1>4 DEF GroupInv

LEMMA GroupInvKept == GroupInv /\ [Next]_vars => GroupInv'
<1> SUFFICES ASSUME GroupInv, [Next]_vars PROVE GroupInv'
  OBVIOUS
<1>1. CASE \E canSend \in BOOLEAN : RunOnce(canSend)
  BY <1>1, RunOnceKeepsGroups
<1>2. CASE \E file \in Uploads : RunBatch(file)
  BY <1>2, RunBatchKeepsGroups
<1>3. CASE RetryAll \/ \E i \in Rows : Retry(i)
  BY <1>3, RetryKeepsGroups
<1>4. CASE \E i \in Cells, k \in Tries : Network(i, k) \/ TimeOut(i, k)
  BY <1>4, NetworkKeepsGroups
<1>5. CASE UNCHANGED vars
  <2>1. BatchInv'
    BY <1>5, BatchInvKept DEF GroupInv
  <2>2. BusyHasOpen' /\ RunningHasOpen'
    BY <1>5 DEF GroupInv, BusyHasOpen, RunningHasOpen, Mounted, Open,
                vars, pageVars, requestVars, historyVars
  <2>3. LoadInv' /\ ProgressInv'
    BY <1>5 DEF GroupInv, LoadInv, ProgressInv, vars, pageVars, historyVars
  <2> QED
    BY <2>1, <2>2, <2>3 DEF GroupInv
<1> QED
  BY <1>1, <1>2, <1>3, <1>4, <1>5 DEF Next, User

\* The rows with a request that are not retried wait for their first report.
LEMMA UnretriedRun ==
    ASSUME GroupInv, quiet, isCallBatchAPI
    PROVE  {i \in Rows \ Failed : OpenTries(i) # {}} \subseteq Running(tasks)
<1> SUFFICES ASSUME NEW i \in Rows \ Failed, NEW k \in Tries, Open(i, k)
             PROVE  tasks[i] = "running"
  BY DEF OpenTries, Open, Running, WithStatus
<1>1. Awaited(i, k)
  BY DEF GroupInv, BatchInv, RowsInv, OpenIsAwaited
<1>2. tasks[i] \notin {"none", "pending", "completed"}
  BY <1>1 DEF Awaited, Mounted, GroupInv, BatchInv, RowsInv, ViewsFollowRows
<1>3. tasks[i] # "failed"
  BY DEF Failed, WithStatus
<1>4. tasks[i] \in Status \cup {"none"}
  BY DEF GroupInv, BatchInv, TypeOK
<1> QED
  BY <1>2, <1>3, <1>4, ConstantTypes

\* A row has one open request at most.
LEMMA OneRequestPerRow ==
    ASSUME GroupInv, quiet, isCallBatchAPI, NEW i \in Rows
    PROVE  Cardinality(OpenTries(i)) <= 1
<1>1. \A j, k \in OpenTries(i) : j = k
  BY DEF OpenTries, Open, GroupInv, BatchInv, RowsInv, OpenIsAwaited, Awaited
<1>2. CASE OpenTries(i) = {}
  BY <1>2, FS_EmptySet
<1>3. CASE OpenTries(i) # {}
  <2>1. PICK k : OpenTries(i) = {k}
    BY <1>1, <1>3
  <2>2. Cardinality(OpenTries(i)) = 1
    BY <2>1, FS_Singleton
  <2> QED
    BY <2>2
<1> QED
  BY <1>2, <1>3

(* What the groups bound, for every size of the groups, every file and any number of   *)
(* rows and clicks: a row never has two open requests, and the rows that wait for      *)
(* their first report are at most one more than a group, since the next group starts   *)
(* only when at most one row of those before it still runs, or when all rows that are  *)
(* left fit into one.  The requests of retried rows come on top.                       *)
THEOREM LoadIsBounded == Spec => []GroupsBoundTheRequests
<1>1. GroupInv => GroupsBoundTheRequests
  <2> SUFFICES ASSUME GroupInv, quiet, isCallBatchAPI
               PROVE  /\ \A i \in Rows : Cardinality(OpenTries(i)) <= 1
                      /\ Cardinality({i \in Rows \ Failed : OpenTries(i) # {}})
                             <= GROUP_SIZE + 1
    BY DEF GroupsBoundTheRequests
  <2> DEFINE first == {i \in Rows \ Failed : OpenTries(i) # {}}
  <2>1. IsFiniteSet(Running(tasks)) /\ RunningCount(tasks) \in Nat
    BY CountTypes, RowsFinite, FS_Subset, FS_CardinalityType
       DEF RunningCount, Running, WithStatus
  <2>2. first \subseteq Running(tasks)
    BY UnretriedRun
  <2> HIDE DEF first
  <2>3. Cardinality(first) <= RunningCount(tasks) /\ Cardinality(first) \in Nat
    BY <2>1, <2>2, FS_Subset, FS_CardinalityType DEF RunningCount
  <2>4. RunningCount(tasks) <= GROUP_SIZE + 1
    BY DEF GroupInv, LoadInv, Fits, LoadFits
  <2>5. Cardinality(first) <= GROUP_SIZE + 1
    BY <2>1, <2>3, <2>4, GroupAssumption
  <2> QED
    BY <2>5, OneRequestPerRow DEF first
<1> QED
  BY <1>1, GroupInvInit, GroupInvKept, PTL DEF Spec

(* A batch whose groups have more than one row stops half-way only by a group number   *)
(* that it inherited: otherwise whole groups have been started, so the last report of  *)
(* a group finds hadRunedTaskNum a multiple of GROUP_SIZE and starts the next one.     *)
(* (With groups of one row it is not so: the second report of a row that is reported   *)
(* twice can start the next row under the number that the end of this row counts.)     *)
THEOREM BatchGoesOn ==
    ASSUME GROUP_SIZE # 1
    PROVE  Spec => []StuckOnlyByStaleGroup
<1>1. GroupInv => StuckOnlyByStaleGroup
  <2> SUFFICES ASSUME GroupInv, quiet, Pending(tasks) # {}, NoRequestOpen
               PROVE  inherited # 0 /\ currGroupNum = inherited
    BY DEF StuckOnlyByStaleGroup
  <2>1. isCallBatchAPI
    BY DEF GroupInv, BatchInv, RowsInv, NoListNoRows, Pending, WithStatus
  <2>2. Running(tasks) = {}
    BY <2>1, ConstantTypes
       DEF GroupInv, RunningHasOpen, NoRequestOpen, Open, Running, WithStatus
  <2>3. RunningCount(tasks) = 0 /\ PendingCount(tasks) # 0
    BY <2>2, CountTypes
  <2>4. GoesOn(tasks, currGroupNum, inherited)
    BY DEF GroupInv, ProgressInv
  <2> QED
    BY <2>3, <2>4 DEF GoesOn, GroupsGoOn
<1> QED
  BY <1>1, GroupInvInit, GroupInvKept, PTL DEF Spec
=============================================================================
