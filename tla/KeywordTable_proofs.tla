------------------------ MODULE KeywordTable_proofs ------------------------
(* Theorems about KeywordTable, for every value of its constants.          *)
EXTENDS KeywordTable, TLAPS

-----------------------------------------------------------------------------
(* The operations on the dictionary *)

LEMMA AddTextsResult ==
    ASSUME NEW t \in Dictionary, NEW S \in SUBSET Nodes, NEW words \in WordsOf(S)
    PROVE  /\ AddTexts(t, words) \in Dictionary
           /\ \A n \in Nodes : Entries(AddTexts(t, words), n) =
                IF n \in S THEN Entries(t, n) \cup words[n] ELSE Entries(t, n)
  <1> DEFINE given == UNION {words[n] : n \in S}
             K == DOMAIN t \cup given
             At(k) == Get(t, k) \cup {n \in S : k \in words[n]}
             r == [k \in K |-> At(k)]
  <1>1. DOMAIN words = S /\ \A n \in S : words[n] \subseteq Keywords
    BY DEF WordsOf
  <1>2. AddTexts(t, words) = r
    BY <1>1 DEF AddTexts
  <1>3. PICK K0 \in SUBSET Keywords : t \in [K0 -> (SUBSET Nodes) \ {{}}]
    BY DEF Dictionary
  <1>4. DOMAIN t = K0 /\ \A k \in K0 : t[k] \in SUBSET Nodes /\ t[k] # {}
    BY <1>3
  <1>5. K \in SUBSET Keywords
    BY <1>1, <1>4
  <1>6. \A k \in K : At(k) \in (SUBSET Nodes) \ {{}}
    <2> TAKE k \in K
    <2>1. At(k) \in SUBSET Nodes
      BY <1>4 DEF Get
    <2>2. CASE k \in DOMAIN t
      BY <2>1, <2>2, <1>4 DEF Get
    <2>3. CASE k \in given
      <3>1. PICK n \in S : k \in words[n]
        BY <2>3
      <3>2. n \in At(k)
        BY <3>1
      <3>3. QED
        BY <2>1, <3>2
    <2>4. QED
      BY <2>2, <2>3
  <1>7. r \in [K -> (SUBSET Nodes) \ {{}}]
    BY <1>6
  <1>8. r \in Dictionary
    BY <1>5, <1>7 DEF Dictionary
  <1>9. ASSUME NEW n \in Nodes
        PROVE  Entries(r, n) = IF n \in S THEN Entries(t, n) \cup words[n] ELSE Entries(t, n)
    <2>1. Entries(r, n) = {k \in K : n \in At(k)}
      BY DEF Entries
    <2>2. ASSUME NEW k
          PROVE  (k \in K /\ n \in At(k)) <=>
                   (k \in DOMAIN t /\ n \in t[k]) \/ (n \in S /\ k \in words[n])
      BY DEF Get
    <2>3. QED
      BY <2>1, <2>2 DEF Entries
  <1>10. QED
    BY <1>2, <1>8, <1>9

LEMMA DeleteIdsResult ==
    ASSUME NEW t \in Dictionary, NEW S \in SUBSET Nodes
    PROVE  /\ DeleteIds(t, S) \in Dictionary
           /\ \A n \in Nodes : Entries(DeleteIds(t, S), n) =
                IF n \in S THEN {} ELSE Entries(t, n)
  <1> DEFINE emptied == {k \in DOMAIN t : t[k] \cap S # {} /\ t[k] \subseteq S}
             K == DOMAIN t \ emptied
             r == [k \in K |-> t[k] \ S]
  <1>1. DeleteIds(t, S) = r
    BY DEF DeleteIds
  <1>2. PICK K0 \in SUBSET Keywords : t \in [K0 -> (SUBSET Nodes) \ {{}}]
    BY DEF Dictionary
  <1>3. DOMAIN t = K0 /\ \A k \in K0 : t[k] \in SUBSET Nodes /\ t[k] # {}
    BY <1>2
  <1>4. \A k \in K : t[k] \ S \in (SUBSET Nodes) \ {{}}
    BY <1>3
  <1>5. r \in [K -> (SUBSET Nodes) \ {{}}] /\ K \in SUBSET Keywords
    BY <1>3, <1>4
  <1>6. r \in Dictionary
    BY <1>5 DEF Dictionary
  <1>7. ASSUME NEW n \in Nodes
        PROVE  Entries(r, n) = IF n \in S THEN {} ELSE Entries(t, n)
    <2>1. Entries(r, n) = {k \in K : n \in t[k] \ S}
      BY DEF Entries
    <2>2. QED
      BY <2>1 DEF Entries
  <1>8. QED
    BY <1>1, <1>6, <1>7

LEMMA EmptyDictionary ==
    Empty \in Dictionary /\ \A n \in Nodes : Entries(Empty, n) = {}
  <1>1. Empty \in [{} -> (SUBSET Nodes) \ {{}}]
    BY DEF Empty
  <1>2. QED
    BY <1>1 DEF Empty, Dictionary, Entries

-----------------------------------------------------------------------------
(* Type correctness *)

LEMMA CallsType ==
    ASSUME NEW s \in Seq(Call), s # <<>>, NEW c \in Call
    PROVE  /\ Head(s) \in Call /\ Tail(s) \in Seq(Call)
           /\ <<c>> \o Tail(s) \in Seq(Call)
           /\ <<c>> \o Tail(s) # <<>>
           /\ Head(<<c>> \o Tail(s)) = c
  OBVIOUS

LEMMA CallType ==
    ASSUME NEW c \in Call
    PROVE  /\ Touched(c) \in SUBSET Nodes
           /\ c.words \in WordsOf(Touched(c))
           /\ Erased(c) \in SUBSET Nodes
           /\ Columns(c) \in SUBSET Nodes
           /\ \A n \in Touched(c) : c.words[n] \in SUBSET Keywords
  <1>1. PICK S \in SUBSET Nodes : c.words \in WordsOf(S)
    BY DEF Call
  <1>2. Touched(c) = S
    BY <1>1 DEF Touched, WordsOf
  <1>3. QED
    BY <1>1, <1>2 DEF Erased, Columns, WordsOf

LEMMA MakeCall ==
    /\ \A S \in SUBSET Nodes : DeleteCall(S) \in Call
    /\ \A S \in SUBSET Nodes : \A words \in WordsOf(S) :
         \A kind \in {"add_texts", "multi_create", "update_index"} : AddCall(kind, words) \in Call
  <1>1. ASSUME NEW S \in SUBSET Nodes
        PROVE  DeleteCall(S) \in Call
    <2>1. [n \in S |-> {}] \in WordsOf(S)
      BY DEF WordsOf
    <2>2. QED
      BY <2>1 DEF DeleteCall, Call
  <1>2. QED
    BY <1>1 DEF AddCall, Call

LEMMA RestingType == Resting \in WriterState
  <1>1. <<>> \in Seq(Call)
    OBVIOUS
  <1>2. QED
    BY <1>1, EmptyDictionary DEF Resting, WriterState

LEMMA MissType ==
    ASSUME TypeOK, NEW w \in Writers, NEW S \in SUBSET Nodes, Miss(w, S)
    PROVE  missed' \in [Writers -> SUBSET Nodes]
  BY DEF Miss, TypeOK

LEMMA InitTypeOK == Init => TypeOK
  <1>1. 0 \in 0..MaxJobs /\ 0 \in 0..MaxKills
    BY MaxAssumption
  <1>2. Empty \in Dictionary
    BY EmptyDictionary
  <1>3. QED
    BY <1>1, <1>2, RestingType DEF Init, TypeOK

LEMMA StartTypeOK ==
    ASSUME TypeOK, NEW w \in Writers, NEW job, NEW calls \in Seq(Call), Start(w, job, calls)
    PROVE  /\ exists' \in BOOLEAN /\ table' \in Dictionary
           /\ writer' \in [Writers -> WriterState]
           /\ jobs' \in 0..MaxJobs /\ kills' \in 0..MaxKills
           /\ missed' \in [Writers -> SUBSET Nodes] /\ unsure' \in SUBSET Nodes
  <1>1. [Resting EXCEPT !.pc = "call", !.calls = calls] \in WriterState
    BY EmptyDictionary DEF Resting, WriterState
  <1>2. QED
    BY <1>1, MaxAssumption DEF Start, TypeOK

LEMMA StartJobTypeOK ==
    ASSUME TypeOK, NEW w \in Writers, StartJob(w)
    PROVE  TypeOK'
  <1>1. ASSUME NEW S \in SUBSET Nodes, NEW words \in [S -> WordSets],
               IndexTexts(w, words) \/ CreateSegments(w, words)
        PROVE  TypeOK'
    <2>1. words \in WordsOf(S)
      BY WordSetsAssumption DEF WordsOf
    <2>2. /\ <<AddCall("add_texts", words)>> \in Seq(Call)
          /\ <<AddCall("multi_create", words)>> \in Seq(Call)
      BY <2>1, MakeCall
    <2>3. QED
      BY <1>1, <2>2, StartTypeOK DEF IndexTexts, CreateSegments, TypeOK
  <1>2. ASSUME NEW S \in SUBSET Nodes, Remove(w, S)
        PROVE  TypeOK'
    <2>1. <<DeleteCall(S)>> \in Seq(Call)
      BY MakeCall
    <2>2. QED
      BY <1>2, <2>1, StartTypeOK DEF Remove, TypeOK
  <1>3. ASSUME NEW n \in Nodes, NEW ks \in WordSets,
               Rewrite(w, n, ks) \/ Edit(w, n, ks) \/ EditFails(w, n, ks)
        PROVE  TypeOK'
    <2>1. [m \in {n} |-> ks] \in WordsOf({n}) /\ {n} \in SUBSET Nodes /\ ks \in SUBSET Keywords
      BY WordSetsAssumption DEF WordsOf
    <2>2. /\ <<DeleteCall({n}), AddCall("add_texts", [m \in {n} |-> ks])>> \in Seq(Call)
          /\ <<DeleteCall({n}), AddCall("update_index", [m \in {n} |-> ks])>> \in Seq(Call)
      BY <2>1, MakeCall
    <2>3. CASE Rewrite(w, n, ks)
      BY <2>2, <2>3, StartTypeOK DEF Rewrite, TypeOK
    <2>4. CASE Edit(w, n, ks)
      <3>1. /\ keywords' \in [Nodes -> SUBSET Keywords]
            /\ doubtful' \in SUBSET Nodes
        BY <2>1, <2>4 DEF Edit, TypeOK
      <3>2. QED
        BY <2>2, <2>4, <3>1, StartTypeOK DEF Edit, TypeOK
    <2>5. CASE EditFails(w, n, ks)
      BY <2>1, <2>5, MaxAssumption DEF EditFails, TypeOK
    <2>6. QED
      BY <1>3, <2>3, <2>4, <2>5
  <1>4. CASE DropTable(w)
    <2>1. missed' \in [Writers -> SUBSET Nodes]
      BY <1>4, MissType DEF DropTable
    <2>2. doubtful' \in SUBSET Nodes
      BY <1>4 DEF DropTable, TypeOK
    <2>3. jobs' \in 0..MaxJobs
      BY <1>4, MaxAssumption DEF DropTable, TypeOK
    <2>4. Empty \in Dictionary
      BY EmptyDictionary
    <2>5. QED
      BY <1>4, <2>1, <2>2, <2>3, <2>4 DEF DropTable, TypeOK
  <1>5. QED
    BY <1>1, <1>2, <1>3, <1>4 DEF StartJob

LEMMA AbortTypeOK ==
    ASSUME TypeOK, NEW w \in Writers, Abort(w), kills' \in 0..MaxKills,
           keywords' \in [Nodes -> SUBSET Keywords]
    PROVE  TypeOK'
  <1>1. Mentioned(w) \in SUBSET Nodes
    <2>1. \A i \in 1..Len(writer[w].calls) : writer[w].calls[i] \in Call
      BY DEF TypeOK, WriterState
    <2>2. QED
      BY <2>1, CallType DEF Mentioned
  <1>2. QED
    BY <1>1, RestingType DEF Abort, TypeOK

\* What holds of a writer with calls to make
LEMMA CurrentType ==
    ASSUME TypeOK, NEW w \in Writers, writer[w].calls # <<>>
    PROVE  /\ Current(w) \in Call
           /\ Touched(Current(w)) \in SUBSET Nodes
           /\ Erased(Current(w)) \in SUBSET Nodes
           /\ Columns(Current(w)) \in SUBSET Nodes
           /\ \A n \in Touched(Current(w)) : Current(w).words[n] \in SUBSET Keywords
           /\ Tail(writer[w].calls) \in Seq(Call)
  <1>1. writer[w].calls \in Seq(Call)
    BY DEF TypeOK, WriterState
  <1>2. Current(w) \in Call /\ Tail(writer[w].calls) \in Seq(Call)
    BY <1>1, CallsType DEF Current
  <1>3. QED
    BY <1>2, CallType

TextsOf(c) == IF c.kind = "add_texts" THEN Touched(c) ELSE {}

\* What is so of a writer with state r: it has a call at hand once it has loaded
\* the keywords or begun, what is to do belongs to it, and before the row is
\* inserted nothing was added.
Shape(r) ==
    /\ r.pc \in {"loaded", "insert", "texts"} => r.calls # <<>>
    /\ r.pc \in {"insert", "texts"} => r.todo \subseteq TextsOf(Head(r.calls))
    /\ r.pc = "insert" => r.memory = Empty /\ r.todo = TextsOf(Head(r.calls))

CallsAtHand == \A w \in Writers : Shape(writer[w])

LEMMA ResultType ==
    ASSUME TypeOK, NEW w \in Writers, writer[w].calls # <<>>
    PROVE  Result(w) \in Dictionary
  <1>1. writer[w].memory \in Dictionary
    BY DEF TypeOK, WriterState
  <1>2. Current(w).words \in WordsOf(Touched(Current(w))) /\ Touched(Current(w)) \in SUBSET Nodes
    BY CurrentType, CallType
  <1>3. /\ AddTexts(writer[w].memory, Current(w).words) \in Dictionary
        /\ DeleteIds(writer[w].memory, Touched(Current(w))) \in Dictionary
    BY <1>1, <1>2, AddTextsResult, DeleteIdsResult
  <1>4. QED
    BY <1>1, <1>3 DEF Result

LEMMA RunCallTypeOK ==
    ASSUME TypeOK, CallsAtHand, NEW w \in Writers, RunCall(w)
    PROVE  TypeOK'
  <1>1. CASE LoadKeywords(w)
    <2> DEFINE c == [Current(w) EXCEPT !.words = [n \in DOMAIN @ |-> keywords[n]]]
    <2>1. writer[w].calls \in Seq(Call) /\ writer[w].calls # <<>> /\ Current(w) \in Call
      BY <1>1, CurrentType DEF LoadKeywords, TypeOK, WriterState
    <2>2. [n \in DOMAIN Current(w).words |-> keywords[n]] \in WordsOf(Touched(Current(w)))
      BY <1>1, CurrentType DEF Touched, WordsOf, LoadKeywords, TypeOK
    <2>3. c \in Call
      BY <1>1, <2>1, <2>2, CurrentType DEF Call, LoadKeywords
    <2>4. <<c>> \o Tail(writer[w].calls) \in Seq(Call)
      BY <2>1, <2>3, CallsType
    <2> DEFINE calls == <<c>> \o Tail(writer[w].calls)
    <2>5. writer' = [writer EXCEPT ![w] = [writer[w] EXCEPT !.pc = "loaded", !.calls = calls]]
      BY <1>1 DEF LoadKeywords, TypeOK, WriterState
    <2>6. writer' \in [Writers -> WriterState]
      <3> HIDE DEF calls
      <3>1. [writer[w] EXCEPT !.pc = "loaded", !.calls = calls] \in WriterState
        BY <2>4 DEF TypeOK, WriterState, calls
      <3>2. QED
        BY <2>5, <3>1 DEF TypeOK
    <2>7. QED
      BY <1>1, <2>6 DEF LoadKeywords, TypeOK, historyVars
  <1>2. CASE ReadTable(w)
    <2>1. writer[w].calls # <<>>
      BY <1>2 DEF ReadTable, CallsAtHand, Shape
    <2> DEFINE pc == IF exists THEN "texts" ELSE "insert"
               todo == IF Current(w).kind = "add_texts" THEN Touched(Current(w)) ELSE {}
    <2>2. todo \in SUBSET Nodes
      BY <2>1, CurrentType
    <2>3. writer' = [writer EXCEPT ![w] = [writer[w] EXCEPT !.pc = pc, !.memory = table,
                                                            !.todo = todo]]
      BY <1>2 DEF ReadTable, TypeOK, WriterState
    <2>4. [writer[w] EXCEPT !.pc = pc, !.memory = table, !.todo = todo] \in WriterState
      BY <2>2 DEF TypeOK, WriterState
    <2>5. QED
      BY <1>2, <2>3, <2>4 DEF ReadTable, TypeOK
  <1>3. CASE InsertRow(w)
    BY <1>3, EmptyDictionary DEF InsertRow, TypeOK, historyVars, WriterState
  <1>4. CASE InsertFails(w)
    BY <1>4, AbortTypeOK DEF InsertFails, TypeOK
  <1>5. ASSUME NEW n \in Nodes, AddText(w, n)
        PROVE  TypeOK'
    <2>1. writer[w].calls # <<>>
      BY <1>5 DEF AddText, CallsAtHand, Shape
    <2>2. n \in Touched(Current(w))
      BY <1>5 DEF AddText, CallsAtHand, Shape, TextsOf, Current
    <2> DEFINE ks == Current(w).words[n]
               m == AddTexts(writer[w].memory, [k \in {n} |-> ks])
    <2>3. ks \in SUBSET Keywords
      BY <2>1, <2>2, CurrentType
    <2>4. [k \in {n} |-> ks] \in WordsOf({n}) /\ {n} \in SUBSET Nodes
      BY <2>3 DEF WordsOf
    <2>5. m \in Dictionary
      BY <2>4, AddTextsResult DEF TypeOK, WriterState
    <2>6. writer' = [writer EXCEPT ![w] = [writer[w] EXCEPT !.memory = m,
                                                            !.todo = writer[w].todo \ {n}]]
      BY <1>5 DEF AddText, TypeOK, WriterState
    <2>7. writer' \in [Writers -> WriterState]
      <3> HIDE DEF m
      <3>1. [writer[w] EXCEPT !.memory = m, !.todo = writer[w].todo \ {n}] \in WriterState
        BY <2>5 DEF TypeOK, WriterState
      <3>2. QED
        BY <2>6, <3>1 DEF TypeOK
    <2>8. keywords' \in [Nodes -> SUBSET Keywords] /\ doubtful' \in SUBSET Nodes
      BY <1>5, <2>3 DEF AddText, TypeOK
    <2>9. QED
      BY <1>5, <2>7, <2>8 DEF AddText, TypeOK
  <1>6. CASE Save(w)
    <2>1. writer[w].calls # <<>>
      BY <1>6 DEF Save, CallsAtHand, Shape
    <2>2. missed' \in [Writers -> SUBSET Nodes]
      BY <1>6, <2>1, CurrentType, MissType DEF Save
    <2>3. keywords' \in [Nodes -> SUBSET Keywords]
      BY <1>6, <2>1, CurrentType DEF Save, CommitColumns, Columns, TypeOK
    <2>4. unsure' \in SUBSET Nodes /\ doubtful' \in SUBSET Nodes
      BY <1>6, <2>1, CurrentType DEF Save, TypeOK
    <2>5. [Resting EXCEPT !.pc = "call", !.calls = Tail(writer[w].calls)] \in WriterState
      BY <2>1, CurrentType, RestingType DEF Resting, WriterState
    <2>6. QED
      BY <1>6, <2>1, <2>2, <2>3, <2>4, <2>5, ResultType DEF Save, TypeOK
  <1>7. CASE SaveFails(w)
    <2>1. writer[w].calls # <<>>
      BY <1>7 DEF SaveFails, CallsAtHand, Shape
    <2>2. keywords' \in [Nodes -> SUBSET Keywords]
      BY <1>7, <2>1, CurrentType DEF SaveFails, CommitColumns, Columns, TypeOK
    <2>3. QED
      BY <1>7, <2>2, AbortTypeOK DEF SaveFails, TypeOK
  <1>8. CASE EndJob(w)
    BY <1>8, RestingType DEF EndJob, TypeOK, historyVars
  <1>9. QED
    BY <1>1, <1>2, <1>3, <1>4, <1>5, <1>6, <1>7, <1>8 DEF RunCall

LEMMA KillTypeOK ==
    ASSUME TypeOK, NEW w \in Writers, Kill(w)
    PROVE  TypeOK'
  <1>1. kills' \in 0..MaxKills
    BY MaxAssumption DEF Kill, TypeOK
  <1>2. QED
    BY <1>1, AbortTypeOK DEF Kill, TypeOK

LEMMA StutterTypeOK == TypeOK /\ UNCHANGED vars => TypeOK'
  BY DEF TypeOK, vars, historyVars

-----------------------------------------------------------------------------
(* What a writer has in memory *)

NoRowNoTable == ~exists => table = Empty

\* The dictionary that a writer with state r read and has changed so far is the
\* table t with these changes, except on the nodes S.
Agrees(r, t, S) ==
    \A n \in Nodes \ S :
      Entries(r.memory, n) =
        Entries(t, n) \cup IF n \in TextsOf(Head(r.calls)) \ r.todo
                             THEN Head(r.calls).words[n] ELSE {}

MemoryAgrees ==
    \A w \in Writers :
      writer[w].pc = "texts" => Agrees(writer[w], table, missed[w] \cup unsure)

TableInv == TypeOK /\ CallsAtHand /\ NoRowNoTable /\ MemoryAgrees

\* Why a save keeps the contract: on a node that is not unsure afterwards, what
\* the writer puts into the table is the table changed by its call.
LEMMA SaveEffect ==
    ASSUME TableInv, NEW w \in Writers, Save(w), NEW n \in Nodes, n \notin unsure'
    PROVE  LET c == Current(w) IN
             /\ Entries(table', n) =
                  IF n \in Erased(c) THEN {}
                  ELSE IF n \in Touched(c) THEN Entries(table, n) \cup c.words[n]
                  ELSE Entries(table, n)
             /\ n \notin Erased(c) => n \notin unsure
  <1>0. PICK c : c = Current(w)
    OBVIOUS
  <1>m. PICK m : m = writer[w].memory
    OBVIOUS
  <1>1. writer[w].pc = "texts" /\ writer[w].todo = {} /\ writer[w].calls # <<>>
    BY DEF Save, TableInv, CallsAtHand, Shape
  <1>2. c \in Call /\ Touched(c) \in SUBSET Nodes /\ c.words \in WordsOf(Touched(c))
    <2>1. c \in Call
      BY <1>0, <1>1, CurrentType DEF TableInv
    <2>2. QED
      BY <2>1, CallType
  <1>3. m \in Dictionary
    BY <1>m DEF TableInv, TypeOK, WriterState
  <1>4. table' = Result(w) /\ unsure' = (unsure \cup missed[w]) \ Erased(c)
    BY <1>0 DEF Save
  <1>5. n \notin Erased(c) => n \notin unsure \cup missed[w]
    BY <1>4
  <1>6. n \notin Erased(c) =>
          Entries(m, n) = Entries(table, n) \cup IF n \in TextsOf(c) THEN c.words[n] ELSE {}
    BY <1>0, <1>m, <1>1, <1>5 DEF TableInv, MemoryAgrees, Agrees, Current
  <1>7. CASE c.kind = "delete_by_ids"
    <2>1. table' = DeleteIds(m, Touched(c)) /\ Erased(c) = Touched(c) /\ TextsOf(c) = {}
      BY <1>0, <1>m, <1>4, <1>7 DEF Result, Erased, TextsOf
    <2>2. Entries(DeleteIds(m, Touched(c)), n) = IF n \in Touched(c) THEN {} ELSE Entries(m, n)
      BY <1>2, <1>3, DeleteIdsResult
    <2>3. QED
      BY <1>0, <1>5, <1>6, <2>1, <2>2
  <1>8. CASE c.kind \in {"multi_create", "update_index"}
    <2>1. table' = AddTexts(m, c.words) /\ Erased(c) = {} /\ TextsOf(c) = {}
      BY <1>0, <1>m, <1>4, <1>8 DEF Result, Erased, TextsOf
    <2>2. Entries(AddTexts(m, c.words), n) =
            IF n \in Touched(c) THEN Entries(m, n) \cup c.words[n] ELSE Entries(m, n)
      <3>1. PICK words : words = c.words
        OBVIOUS
      <3>2. PICK S : S = Touched(c)
        OBVIOUS
      <3>3. S \in SUBSET Nodes /\ words \in WordsOf(S)
        BY <1>2, <3>1, <3>2
      <3>4. Entries(AddTexts(m, words), n) =
              IF n \in S THEN Entries(m, n) \cup words[n] ELSE Entries(m, n)
        BY <1>3, <3>3, AddTextsResult
      <3>5. QED
        BY <3>1, <3>2, <3>4
    <2>3. QED
      BY <1>0, <1>5, <1>6, <2>1, <2>2
  <1>9. CASE c.kind = "add_texts"
    <2>1. table' = m /\ Erased(c) = {} /\ TextsOf(c) = Touched(c)
      BY <1>0, <1>m, <1>4, <1>9 DEF Result, Erased, TextsOf
    <2>2. QED
      BY <1>0, <1>5, <1>6, <2>1
  <1>10. QED
    BY <1>2, <1>7, <1>8, <1>9 DEF Call

\* A step that gives writer w the state r keeps the invariant when r has the
\* right shape and memory, and the others have missed what it changed.
LEMMA WriterStep ==
    ASSUME TableInv, NEW w \in Writers, NEW r,
           writer' = [writer EXCEPT ![w] = r], Shape(r),
           r.pc = "texts" => Agrees(r, table', missed'[w] \cup unsure'),
           \A v \in Writers \ {w} : writer[v].pc = "texts" =>
             \A n \in Nodes \ (missed'[v] \cup unsure') :
               n \notin missed[v] \cup unsure /\ Entries(table', n) = Entries(table, n)
    PROVE  CallsAtHand' /\ MemoryAgrees'
  <1>1. \A v \in Writers : writer'[v] = IF v = w THEN r ELSE writer[v]
    BY DEF TableInv, TypeOK
  <1>2. CallsAtHand'
    BY <1>1 DEF CallsAtHand, TableInv
  <1>3. ASSUME NEW v \in Writers, v # w, writer[v].pc = "texts"
        PROVE  Agrees(writer[v], table', missed'[v] \cup unsure')
    <2>1. Agrees(writer[v], table, missed[v] \cup unsure)
      BY <1>3 DEF TableInv, MemoryAgrees
    <2>2. QED
      BY <1>3, <2>1 DEF Agrees
  <1>4. MemoryAgrees'
    BY <1>1, <1>3 DEF MemoryAgrees
  <1>5. QED
    BY <1>2, <1>4

\* The same when the table and what was missed stay.
LEMMA QuietStep ==
    ASSUME TableInv, NEW w \in Writers, NEW r,
           writer' = [writer EXCEPT ![w] = r], Shape(r),
           r.pc = "texts" => Agrees(r, table, missed[w] \cup unsure),
           UNCHANGED <<exists, table, missed, unsure>>, TypeOK'
    PROVE  TableInv'
  <1>1. CallsAtHand' /\ MemoryAgrees'
    BY WriterStep
  <1>2. QED
    BY <1>1 DEF TableInv, NoRowNoTable

LEMMA RestingShape == Shape(Resting) /\ Resting.pc # "texts"
  BY DEF Shape, Resting

LEMMA InitTableInv == Init => TableInv
  BY InitTypeOK, RestingShape
     DEF Init, TableInv, CallsAtHand, NoRowNoTable, MemoryAgrees

LEMMA StartJobTableInv ==
    ASSUME TableInv, NEW w \in Writers, StartJob(w)
    PROVE  TableInv'
  <1>1. TypeOK'
    BY StartJobTypeOK DEF TableInv
  <1>2. ASSUME NEW job, NEW calls, Start(w, job, calls)
        PROVE  TableInv'
    <2> DEFINE r == [Resting EXCEPT !.pc = "call", !.calls = calls]
    <2>1. Shape(r) /\ r.pc # "texts"
      BY DEF Shape, Resting
    <2>2. writer' = [writer EXCEPT ![w] = r] /\ UNCHANGED <<exists, table, missed, unsure>>
      BY <1>2 DEF Start
    <2>3. QED
      BY <1>1, <2>1, <2>2, QuietStep
  <1>3. ASSUME NEW n \in Nodes, NEW ks \in WordSets, EditFails(w, n, ks)
        PROVE  TableInv'
    BY <1>1, <1>3 DEF EditFails, TableInv, CallsAtHand, NoRowNoTable, MemoryAgrees
  <1>4. CASE DropTable(w)
    <2>1. writer' = [writer EXCEPT ![w] = writer[w]]
      BY <1>4 DEF DropTable, TableInv, TypeOK
    <2>2. Shape(writer[w]) /\ writer[w].pc # "texts"
      BY <1>4 DEF DropTable, Idle, TableInv, CallsAtHand
    <2>3. \A v \in Writers \ {w} : writer[v].pc = "texts" => missed'[v] = missed[v] \cup Nodes
      BY <1>4 DEF DropTable, Miss, InCall
    <2>4. CallsAtHand' /\ MemoryAgrees'
      BY <2>1, <2>2, <2>3, WriterStep
    <2>5. QED
      BY <1>1, <1>4, <2>4 DEF DropTable, TableInv, NoRowNoTable
  <1>5. QED
    BY <1>2, <1>3, <1>4
       DEF StartJob, IndexTexts, CreateSegments, Remove, Rewrite, Edit

\* A writer gives its job up.
LEMMA AbortTableInv ==
    ASSUME TableInv, NEW w \in Writers, Abort(w), TypeOK'
    PROVE  TableInv'
  <1>1. writer' = [writer EXCEPT ![w] = Resting] /\ UNCHANGED <<exists, table, missed, unsure>>
    BY DEF Abort
  <1>2. QED
    BY <1>1, QuietStep, RestingShape

LEMMA RunCallTableInv ==
    ASSUME TableInv, NEW w \in Writers, RunCall(w)
    PROVE  TableInv'
  <1>1. TypeOK'
    BY RunCallTypeOK DEF TableInv
  <1>2. writer[w] \in WriterState /\ Shape(writer[w])
    BY DEF TableInv, TypeOK, CallsAtHand
  <1>3. CASE LoadKeywords(w)
    <2> DEFINE c == [Current(w) EXCEPT !.words = [n \in DOMAIN @ |-> keywords[n]]]
               calls == <<c>> \o Tail(writer[w].calls)
               r == [writer[w] EXCEPT !.pc = "loaded", !.calls = calls]
    <2>1. writer' = [writer EXCEPT ![w] = r] /\ UNCHANGED <<exists, table, missed, unsure>>
      BY <1>3 DEF LoadKeywords, TableInv, TypeOK, WriterState, historyVars
    <2>2. calls # <<>>
      <3>1. writer[w].calls \in Seq(Call) /\ writer[w].calls # <<>>
        BY <1>2, <1>3 DEF LoadKeywords, WriterState
      <3>2. \A x : <<x>> \o Tail(writer[w].calls) # <<>>
        BY <3>1
      <3>3. QED
        BY <3>2
    <2> HIDE DEF calls
    <2>3. r.pc = "loaded" /\ r.calls = calls
      BY <1>2 DEF WriterState
    <2>4. Shape(r)
      BY <2>2, <2>3 DEF Shape
    <2>5. QED
      BY <1>1, <2>1, <2>3, <2>4, QuietStep
  <1>4. CASE ReadTable(w)
    <2>0. writer[w].calls # <<>>
      BY <1>2, <1>4 DEF ReadTable, Shape
    <2> DEFINE r == [writer[w] EXCEPT !.pc = IF exists THEN "texts" ELSE "insert",
                                      !.memory = table, !.todo = TextsOf(Current(w))]
    <2>1. writer' = [writer EXCEPT ![w] = r]
      BY <1>4 DEF ReadTable, TextsOf, TableInv, TypeOK, WriterState
    <2>2. /\ r.pc = IF exists THEN "texts" ELSE "insert"
          /\ r.calls = writer[w].calls /\ r.memory = table /\ r.todo = TextsOf(Head(r.calls))
      BY <1>2 DEF WriterState, Current
    <2> HIDE DEF r
    <2>3. Shape(r)
      BY <2>0, <2>2 DEF Shape, TableInv, NoRowNoTable
    <2>4. Agrees(r, table, missed'[w] \cup unsure)
      BY <2>2 DEF Agrees
    <2>5. \A v \in Writers \ {w} : missed'[v] = missed[v]
      BY <1>4 DEF ReadTable, TableInv, TypeOK
    <2>6. UNCHANGED <<exists, table, unsure>>
      BY <1>4 DEF ReadTable
    <2>7. CallsAtHand' /\ MemoryAgrees'
      BY <2>1, <2>3, <2>4, <2>5, <2>6, WriterStep
    <2>8. QED
      BY <1>1, <2>6, <2>7 DEF TableInv, NoRowNoTable
  <1>5. CASE InsertRow(w)
    <2> DEFINE r == [writer[w] EXCEPT !.pc = "texts"]
    <2>1. writer' = [writer EXCEPT ![w] = r] /\ UNCHANGED <<missed, unsure>>
      BY <1>5 DEF InsertRow, historyVars, TableInv, TypeOK, WriterState
    <2>2. UNCHANGED table /\ table = Empty
      BY <1>5 DEF InsertRow, TableInv, NoRowNoTable
    <2>3. /\ r.pc = "texts" /\ r.calls = writer[w].calls /\ r.calls # <<>>
          /\ r.memory = Empty /\ r.todo = TextsOf(Head(r.calls))
      BY <1>2, <1>5 DEF InsertRow, Shape, WriterState
    <2> HIDE DEF r
    <2>4. Shape(r)
      BY <2>3 DEF Shape
    <2>5. Agrees(r, table, missed[w] \cup unsure)
      BY <2>2, <2>3 DEF Agrees
    <2>6. CallsAtHand' /\ MemoryAgrees'
      BY <2>1, <2>2, <2>4, <2>5, WriterStep
    <2>7. QED
      BY <1>1, <1>5, <2>6 DEF InsertRow, TableInv, NoRowNoTable
  <1>6. CASE InsertFails(w)
    BY <1>1, <1>6, AbortTableInv DEF InsertFails
  <1>7. ASSUME NEW n \in Nodes, AddText(w, n)
        PROVE  TableInv'
    <2>1. PICK r0 : r0 = writer[w]
      OBVIOUS
    <2>2. PICK c : c = Head(r0.calls)
      OBVIOUS
    <2>3. PICK ks : ks = c.words[n]
      OBVIOUS
    <2> DEFINE m == AddTexts(r0.memory, [k \in {n} |-> ks])
               r == [r0 EXCEPT !.memory = m, !.todo = r0.todo \ {n}]
    <2>4. writer' = [writer EXCEPT ![w] = r] /\ UNCHANGED <<exists, table, missed, unsure>>
      BY <1>7, <2>1, <2>2, <2>3 DEF AddText, Current, TableInv, TypeOK, WriterState
    <2>5. /\ r0.pc = "texts" /\ r0.calls # <<>> /\ r0.todo \subseteq TextsOf(c)
          /\ n \in r0.todo /\ r0 \in WriterState
      BY <1>2, <1>7, <2>1, <2>2 DEF AddText, Shape
    <2>6. /\ r.pc = "texts" /\ r.calls = r0.calls /\ r.memory = m /\ r.todo = r0.todo \ {n}
      BY <2>5 DEF WriterState
    <2>7. ks \in SUBSET Keywords
      <3>1. c \in Call
        BY <2>2, <2>5, CallsType DEF WriterState
      <3>2. n \in Touched(c)
        BY <2>5 DEF TextsOf
      <3>3. QED
        BY <2>3, <3>1, <3>2, CallType
    <2>8. \A k \in Nodes : Entries(m, k) =
            IF k = n THEN Entries(r0.memory, k) \cup ks ELSE Entries(r0.memory, k)
      <3>1. PICK words : words = [k \in {n} |-> ks]
        OBVIOUS
      <3>2. words \in WordsOf({n}) /\ {n} \in SUBSET Nodes /\ words[n] = ks
        BY <2>7, <3>1 DEF WordsOf
      <3>3. PICK t : t = r0.memory
        OBVIOUS
      <3>4. t \in Dictionary
        BY <2>5, <3>3 DEF WriterState
      <3>5. \A k \in Nodes : Entries(AddTexts(t, words), k) =
              IF k \in {n} THEN Entries(t, k) \cup words[k] ELSE Entries(t, k)
        BY <3>2, <3>4, AddTextsResult
      <3>6. QED
        BY <3>1, <3>2, <3>3, <3>5
    <2>9. Agrees(r0, table, missed[w] \cup unsure)
      BY <2>1, <2>5 DEF TableInv, MemoryAgrees
    <2> HIDE DEF r, m
    <2>10. Shape(r)
      BY <2>2, <2>5, <2>6 DEF Shape
    <2>11. Agrees(r, table, missed[w] \cup unsure)
      BY <2>2, <2>3, <2>5, <2>6, <2>8, <2>9 DEF Agrees
    <2>12. QED
      BY <1>1, <2>4, <2>10, <2>11, QuietStep
  <1>8. CASE Save(w)
    <2> DEFINE r == [Resting EXCEPT !.pc = "call", !.calls = Tail(writer[w].calls)]
    <2>1. writer' = [writer EXCEPT ![w] = r] /\ Shape(r) /\ r.pc # "texts"
      BY <1>8 DEF Save, Shape, Resting
    <2>2. ASSUME NEW v \in Writers \ {w}, writer[v].pc = "texts",
                 NEW n \in Nodes \ (missed'[v] \cup unsure')
          PROVE  n \notin missed[v] \cup unsure /\ Entries(table', n) = Entries(table, n)
      <3>1. missed'[v] = missed[v] \cup Touched(Current(w))
        BY <1>8, <2>2 DEF Save, Miss, InCall
      <3>2. n \notin missed[v] /\ n \notin Touched(Current(w)) /\ n \notin Erased(Current(w))
        BY <3>1 DEF Erased
      <3>3. QED
        BY <1>8, <3>2, SaveEffect
    <2>3. CallsAtHand' /\ MemoryAgrees'
      BY <2>1, <2>2, WriterStep
    <2>4. QED
      BY <1>1, <1>8, <2>3 DEF Save, TableInv, NoRowNoTable
  <1>9. CASE SaveFails(w)
    BY <1>1, <1>9, AbortTableInv DEF SaveFails
  <1>10. CASE EndJob(w)
    BY <1>1, <1>10, QuietStep, RestingShape DEF EndJob, historyVars
  <1>11. QED
    BY <1>3, <1>4, <1>5, <1>6, <1>7, <1>8, <1>9, <1>10 DEF RunCall

LEMMA NextTableInv == TableInv /\ [Next]_vars => TableInv'
  <1>1. ASSUME TableInv, UNCHANGED vars
        PROVE  TableInv'
    BY <1>1, StutterTypeOK
       DEF vars, historyVars, TableInv, CallsAtHand, NoRowNoTable, MemoryAgrees
  <1>2. ASSUME TableInv, NEW w \in Writers, Kill(w)
        PROVE  TableInv'
    BY <1>2, KillTypeOK, AbortTableInv DEF Kill, TableInv
  <1>3. QED
    BY <1>1, <1>2, StartJobTableInv, RunCallTableInv DEF Next

\* TableInv is an inductive invariant.
LEMMA TableInvHolds == Spec => []TableInv
  BY InitTableInv, NextTableInv, PTL DEF Spec

\* Every reachable state has the types of TypeOK: no call makes the dictionary
\* map a keyword to no node, or to a node that is not the dataset's.
THEOREM TypeCorrect == Spec => []TypeOK
  <1>1. TableInv => TypeOK
    BY DEF TableInv
  <1>2. QED
    BY <1>1, TableInvHolds, PTL

-----------------------------------------------------------------------------
(* The table keeps its contract *)

\* What the contract sees of a call
LEMMA AbstractCallIs ==
    ASSUME NEW c \in Call
    PROVE  /\ AbstractCall(c) \in Contract!Call
           /\ AbstractCall(c) # NoCall
           /\ AbstractCall(c).words = c.words
           /\ Contract!Touched(AbstractCall(c)) = Touched(c)
           /\ Contract!Erased(AbstractCall(c)) = Erased(c)
  <1>1. AbstractCall(c) \in AbstractCalls
    BY DEF AbstractCall, AbstractCalls, Call, WordsOf
  <1>2. QED
    BY <1>1, NoCallAssumption
       DEF AbstractCall, AbstractCalls, Contract!Call, Contract!Touched, Contract!Erased,
           Touched, Erased

\* The call the contract sees of a writer with state r
OpenOf(r) == IF r.pc \in {"insert", "texts"} THEN AbstractCall(Head(r.calls)) ELSE NoCall

LEMMA OpenCallsIs ==
    ASSUME TableInv
    PROVE  /\ OpenCalls = [v \in Writers |-> OpenOf(writer[v])]
           /\ \A v \in Writers : OpenCalls[v] # NoCall <=> InCall(v)
           /\ \A v \in Writers : InCall(v) =>
                Current(v) \in Call /\ OpenCalls[v] = AbstractCall(Current(v))
  <1>1. OpenCalls = [v \in Writers |-> OpenOf(writer[v])]
    BY DEF OpenCalls, OpenOf, InCall, Current
  <1>2. ASSUME NEW v \in Writers, InCall(v)
        PROVE  Current(v) \in Call /\ OpenCalls[v] = AbstractCall(Current(v)) /\ OpenCalls[v] # NoCall
    <2>1. PICK c : c = Current(v)
      OBVIOUS
    <2>2. c \in Call
      BY <1>2, <2>1, CurrentType DEF TableInv, CallsAtHand, Shape, InCall
    <2>3. OpenCalls[v] = AbstractCall(c)
      BY <1>2, <2>1 DEF OpenCalls
    <2>4. AbstractCall(c) # NoCall
      BY <2>2, AbstractCallIs
    <2>5. QED
      BY <2>1, <2>2, <2>3, <2>4
  <1>3. QED
    BY <1>1, <1>2 DEF OpenCalls

LEMMA OpenCallsStep ==
    ASSUME TableInv, NEW w \in Writers, NEW r, writer' = [writer EXCEPT ![w] = r]
    PROVE  OpenCalls' = [OpenCalls EXCEPT ![w] = OpenOf(r)]
  <1>1. \A v \in Writers : writer'[v] = IF v = w THEN r ELSE writer[v]
    BY DEF TableInv, TypeOK
  <1>2. OpenCalls' = [v \in Writers |-> OpenOf(writer'[v])]
    BY DEF OpenCalls, OpenOf, InCall, Current
  <1>3. OpenCalls = [v \in Writers |-> OpenOf(writer[v])]
    BY OpenCallsIs
  <1>4. QED
    BY <1>1, <1>2, <1>3

\* A step that the contract does not see
LEMMA Unseen ==
    ASSUME TableInv, NEW w \in Writers, NEW r, writer' = [writer EXCEPT ![w] = r],
           OpenOf(r) = OpenOf(writer[w]), UNCHANGED <<table, missed, unsure>>
    PROVE  UNCHANGED Contract!vars
  <1>1. OpenCalls' = OpenCalls
    <2>1. OpenCalls' = [OpenCalls EXCEPT ![w] = OpenOf(r)]
      BY OpenCallsStep
    <2>2. OpenCalls = [v \in Writers |-> OpenOf(writer[v])]
      BY OpenCallsIs
    <2>3. QED
      BY <2>1, <2>2
  <1>2. SureEntries' = SureEntries
    BY DEF SureEntries, Entries
  <1>3. QED
    BY <1>1, <1>2 DEF Contract!vars

LEMMA AbortFails ==
    ASSUME TableInv, NEW w \in Writers, Abort(w)
    PROVE  [Contract!Next]_Contract!vars
  <1>1. writer' = [writer EXCEPT ![w] = Resting] /\ UNCHANGED <<table, missed, unsure>>
    BY DEF Abort
  <1>2. OpenOf(Resting) = NoCall
    BY DEF OpenOf, Resting
  <1>3. CASE InCall(w)
    <2>1. OpenCalls' = [OpenCalls EXCEPT ![w] = NoCall]
      BY <1>1, <1>2, OpenCallsStep
    <2>2. SureEntries' = SureEntries
      BY <1>1 DEF SureEntries, Entries
    <2>3. OpenCalls[w] # NoCall
      BY <1>3, OpenCallsIs
    <2>4. Contract!Fail(w)
      BY <1>1, <2>1, <2>2, <2>3 DEF Contract!Fail
    <2>5. QED
      BY <2>4 DEF Contract!Next
  <1>4. CASE ~InCall(w)
    <2>1. OpenOf(writer[w]) = NoCall
      BY <1>4 DEF OpenOf, InCall
    <2>2. QED
      BY <1>1, <1>2, <2>1, Unseen
  <1>5. QED
    BY <1>3, <1>4

LEMMA MissIsMiss ==
    ASSUME TableInv, NEW w \in Writers, NEW S, Miss(w, S)
    PROVE  Contract!Miss(w, S)
  BY OpenCallsIs DEF Miss, Contract!Miss

LEMMA StartJobImplements ==
    ASSUME TableInv, NEW w \in Writers, StartJob(w)
    PROVE  [Contract!Next]_Contract!vars
  <1>1. ASSUME NEW job, NEW calls, Start(w, job, calls)
        PROVE  UNCHANGED Contract!vars
    <2> DEFINE r == [Resting EXCEPT !.pc = "call", !.calls = calls]
    <2>1. OpenOf(r) = NoCall /\ OpenOf(writer[w]) = NoCall
      BY <1>1 DEF OpenOf, Resting, Start, Idle
    <2>2. writer' = [writer EXCEPT ![w] = r] /\ UNCHANGED <<table, missed, unsure>>
      BY <1>1 DEF Start
    <2>3. QED
      BY <2>1, <2>2, Unseen
  <1>2. ASSUME NEW n \in Nodes, NEW ks \in WordSets, EditFails(w, n, ks)
        PROVE  UNCHANGED Contract!vars
    BY <1>2 DEF EditFails, Contract!vars, SureEntries, OpenCalls, Entries, InCall, Current
  <1>3. CASE DropTable(w)
    <2>1. OpenCalls[w] = NoCall
      BY <1>3, OpenCallsIs DEF DropTable, Idle, InCall
    <2>2. SureEntries' = [n \in Nodes |-> {}]
      BY <1>3, EmptyDictionary DEF DropTable, SureEntries, Entries
    <2>3. Contract!Miss(w, Nodes)
      BY <1>3, MissIsMiss DEF DropTable
    <2>4. UNCHANGED OpenCalls
      BY <1>3 DEF DropTable, OpenCalls, InCall, Current
    <2>5. Contract!Drop(w)
      BY <1>3, <2>1, <2>2, <2>3, <2>4 DEF DropTable, Contract!Drop
    <2>6. QED
      BY <2>5 DEF Contract!Next
  <1>4. QED
    BY <1>1, <1>2, <1>3
       DEF StartJob, IndexTexts, CreateSegments, Remove, Rewrite, Edit

LEMMA ReadTableImplements ==
    ASSUME TableInv, NEW w \in Writers, ReadTable(w)
    PROVE  Contract!Begin(w)
  <1>1. PICK c : c = Current(w)
    OBVIOUS
  <1>2. c \in Call /\ ~InCall(w) /\ writer[w] \in WriterState
    BY <1>1, CurrentType
       DEF ReadTable, InCall, TableInv, TypeOK, CallsAtHand, Shape
  <1> DEFINE todo == IF c.kind = "add_texts" THEN Touched(c) ELSE {}
             r == [writer[w] EXCEPT !.pc = IF exists THEN "texts" ELSE "insert",
                                    !.memory = table, !.todo = todo]
  <1>3. writer' = [writer EXCEPT ![w] = r]
    BY <1>1 DEF ReadTable, TableInv, TypeOK, WriterState
  <1>4. OpenOf(r) = AbstractCall(c)
    BY <1>1, <1>2 DEF OpenOf, WriterState, Current
  <1>5. OpenCalls' = [OpenCalls EXCEPT ![w] = AbstractCall(c)]
    <2> HIDE DEF r
    <2>1. QED
      BY <1>3, <1>4, OpenCallsStep
  <1>6. AbstractCall(c) \in Contract!Call
    BY <1>2, AbstractCallIs
  <1>7. OpenCalls[w] = NoCall
    BY <1>2, OpenCallsIs
  <1>8. UNCHANGED <<SureEntries, unsure>> /\ missed' = [missed EXCEPT ![w] = {}]
    BY DEF ReadTable, SureEntries, Entries
  <1>9. QED
    BY <1>5, <1>6, <1>7, <1>8 DEF Contract!Begin

LEMMA SaveImplements ==
    ASSUME TableInv, NEW w \in Writers, Save(w)
    PROVE  Contract!Return(w)
  <1>1. PICK c : c = Current(w)
    OBVIOUS
  <1>2. InCall(w)
    BY DEF Save, InCall
  <1>3. c \in Call /\ OpenCalls[w] = AbstractCall(c) /\ OpenCalls[w] # NoCall
    BY <1>1, <1>2, OpenCallsIs
  <1>4. PICK a : a = AbstractCall(c)
    OBVIOUS
  <1>5. a.words = c.words /\ Contract!Touched(a) = Touched(c) /\ Contract!Erased(a) = Erased(c)
    BY <1>3, <1>4, AbstractCallIs
  <1> DEFINE r == [Resting EXCEPT !.pc = "call", !.calls = Tail(writer[w].calls)]
  <1>6. OpenCalls' = [OpenCalls EXCEPT ![w] = NoCall]
    <2>1. writer' = [writer EXCEPT ![w] = r]
      BY DEF Save
    <2>2. OpenOf(r) = NoCall
      BY DEF OpenOf, Resting
    <2> HIDE DEF r
    <2>3. QED
      BY <2>1, <2>2, OpenCallsStep
  <1>7. unsure' = (unsure \cup missed[w]) \ Contract!Erased(a)
    BY <1>1, <1>5 DEF Save
  <1>8. Contract!Miss(w, Contract!Touched(a))
    BY <1>1, <1>5, MissIsMiss DEF Save
  <1>9. ASSUME NEW n \in Nodes, n \notin unsure'
        PROVE  Entries(table', n) = Contract!Effect(a, n)
    <2>1. /\ Entries(table', n) = IF n \in Erased(c) THEN {}
                                  ELSE IF n \in Touched(c) THEN Entries(table, n) \cup c.words[n]
                                  ELSE Entries(table, n)
          /\ n \notin Erased(c) => n \notin unsure
      BY <1>1, <1>9, SaveEffect
    <2>2. n \notin Erased(c) => SureEntries[n] = Entries(table, n)
      BY <2>1 DEF SureEntries
    <2>3. QED
      BY <1>5, <2>1, <2>2 DEF Contract!Effect
  <1>10. SureEntries' = [n \in Nodes |-> IF n \in unsure' THEN {} ELSE Contract!Effect(a, n)]
    BY <1>9 DEF SureEntries, Entries
  <1>11. OpenCalls[w] = a
    BY <1>3, <1>4
  <1>12. QED
    BY <1>3, <1>6, <1>7, <1>8, <1>10, <1>11 DEF Contract!Return

LEMMA RunCallImplements ==
    ASSUME TableInv, NEW w \in Writers, RunCall(w)
    PROVE  [Contract!Next]_Contract!vars
  <1>1. writer[w] \in WriterState
    BY DEF TableInv, TypeOK
  <1>2. CASE LoadKeywords(w)
    <2> DEFINE c == [Current(w) EXCEPT !.words = [n \in DOMAIN @ |-> keywords[n]]]
               calls == <<c>> \o Tail(writer[w].calls)
               r == [writer[w] EXCEPT !.pc = "loaded", !.calls = calls]
    <2>1. writer' = [writer EXCEPT ![w] = r] /\ UNCHANGED <<table, missed, unsure>>
      BY <1>2 DEF LoadKeywords, TableInv, TypeOK, WriterState, historyVars
    <2> HIDE DEF calls
    <2>2. OpenOf(r) = NoCall /\ OpenOf(writer[w]) = NoCall
      BY <1>1, <1>2 DEF OpenOf, LoadKeywords, WriterState
    <2>3. QED
      BY <2>1, <2>2, Unseen
  <1>3. CASE ReadTable(w)
    BY <1>3, ReadTableImplements DEF Contract!Next
  <1>4. CASE InsertRow(w)
    <2> DEFINE r == [writer[w] EXCEPT !.pc = "texts"]
    <2>1. writer' = [writer EXCEPT ![w] = r] /\ UNCHANGED <<table, missed, unsure>>
      BY <1>4 DEF InsertRow, historyVars, TableInv, NoRowNoTable, TypeOK, WriterState
    <2>2. OpenOf(r) = OpenOf(writer[w])
      BY <1>1, <1>4 DEF OpenOf, InsertRow, WriterState
    <2>3. QED
      BY <2>1, <2>2, Unseen
  <1>5. CASE InsertFails(w)
    BY <1>5, AbortFails DEF InsertFails
  <1>6. ASSUME NEW n \in Nodes, AddText(w, n)
        PROVE  [Contract!Next]_Contract!vars
    <2> DEFINE m == AddTexts(writer[w].memory, [k \in {n} |-> Current(w).words[n]])
               r == [writer[w] EXCEPT !.memory = m, !.todo = writer[w].todo \ {n}]
    <2>1. writer' = [writer EXCEPT ![w] = r] /\ UNCHANGED <<table, missed, unsure>>
      BY <1>6 DEF AddText, TableInv, TypeOK, WriterState
    <2> HIDE DEF m
    <2>2. OpenOf(r) = OpenOf(writer[w])
      BY <1>1, <1>6 DEF OpenOf, WriterState
    <2>3. QED
      BY <2>1, <2>2, Unseen
  <1>7. CASE Save(w)
    BY <1>7, SaveImplements DEF Contract!Next
  <1>8. CASE SaveFails(w)
    BY <1>8, AbortFails DEF SaveFails
  <1>9. CASE EndJob(w)
    <2>1. OpenOf(Resting) = NoCall /\ OpenOf(writer[w]) = NoCall
      BY <1>9 DEF OpenOf, Resting, EndJob
    <2>2. writer' = [writer EXCEPT ![w] = Resting] /\ UNCHANGED <<table, missed, unsure>>
      BY <1>9 DEF EndJob, historyVars
    <2>3. QED
      BY <2>1, <2>2, Unseen
  <1>10. QED
    BY <1>2, <1>3, <1>4, <1>5, <1>6, <1>7, <1>8, <1>9 DEF RunCall

LEMMA InitImplements == Init => Contract!Init
  <1>1. SUFFICES ASSUME Init PROVE Contract!Init
    OBVIOUS
  <1>2. SureEntries = [n \in Nodes |-> {}]
    BY <1>1, EmptyDictionary DEF Init, SureEntries
  <1>3. OpenCalls = [w \in Writers |-> NoCall]
    BY <1>1 DEF Init, OpenCalls, InCall, Resting
  <1>4. QED
    BY <1>1, <1>2, <1>3 DEF Init, Contract!Init

LEMMA NextImplements == TableInv /\ [Next]_vars => [Contract!Next]_Contract!vars
  <1>1. ASSUME TableInv, UNCHANGED vars
        PROVE  UNCHANGED Contract!vars
    BY <1>1 DEF vars, historyVars, Contract!vars, SureEntries, OpenCalls, Entries, InCall, Current
  <1>2. ASSUME TableInv, NEW w \in Writers, Kill(w)
        PROVE  [Contract!Next]_Contract!vars
    BY <1>2, AbortFails DEF Kill
  <1>3. QED
    BY <1>1, <1>2, StartJobImplements, RunCallImplements DEF Next

\* The keyword table implements KeywordIndex, for any number of writers, nodes,
\* keywords, jobs and kills: a save is the atomic effect of its call on its own
\* nodes, and only nodes that others wrote since it read the table may suffer.
THEOREM TableKeepsContract == Spec => KeepsContract
  <1>1. Spec => Contract!Init /\ [][Contract!Next]_Contract!vars
    BY InitImplements, NextImplements, TableInvHolds, PTL DEF Spec
  <1>2. QED
    BY <1>1 DEF KeepsContract, Contract!Spec

-----------------------------------------------------------------------------
(* The keywords shown with a segment find it *)

\* The nodes that the calls of s name
Mentions(s) == UNION {Touched(s[i]) : i \in 1..Len(s)}

LEMMA MentionsNothing == Mentions(<<>>) = {}
  BY DEF Mentions

LEMMA MentionsSplit ==
    ASSUME NEW s \in Seq(Call), s # <<>>
    PROVE  Mentions(s) = Touched(Head(s)) \cup Mentions(Tail(s))
  <1>1. Len(s) \in Nat /\ Len(s) >= 1 /\ Head(s) = s[1]
    BY DEF Call
  <1>2. Len(Tail(s)) = Len(s) - 1 /\ \A i \in 1..Len(s) - 1 : Tail(s)[i] = s[i + 1]
    BY <1>1
  <1>3. ASSUME NEW n \in Mentions(s)
        PROVE  n \in Touched(Head(s)) \cup Mentions(Tail(s))
    <2>1. PICK i \in 1..Len(s) : n \in Touched(s[i])
      BY <1>3 DEF Mentions
    <2>2. CASE i = 1
      BY <1>1, <2>1, <2>2
    <2>3. CASE i # 1
      <3>1. i - 1 \in 1..Len(Tail(s)) /\ Tail(s)[i - 1] = s[i]
        BY <1>1, <1>2, <2>1, <2>3
      <3>2. QED
        BY <2>1, <3>1 DEF Mentions
    <2>4. QED
      BY <2>2, <2>3
  <1>4. ASSUME NEW n \in Mentions(Tail(s))
        PROVE  n \in Mentions(s)
    <2>1. PICK i \in 1..Len(Tail(s)) : n \in Touched(Tail(s)[i])
      BY <1>4 DEF Mentions
    <2>2. i + 1 \in 1..Len(s) /\ n \in Touched(s[i + 1])
      BY <1>1, <1>2, <2>1
    <2>3. QED
      BY <2>2 DEF Mentions
  <1>5. Touched(Head(s)) \subseteq Mentions(s)
    <2>1. 1 \in 1..Len(s) /\ s[1] = Head(s)
      BY <1>1
    <2>2. QED
      BY <2>1 DEF Mentions
  <1>6. QED
    BY <1>3, <1>4, <1>5

\* The call at hand is given other words for the same nodes.
LEMMA MentionsOfReplaced ==
    ASSUME NEW s \in Seq(Call), s # <<>>, NEW c \in Call, Touched(c) = Touched(Head(s))
    PROVE  Mentions(<<c>> \o Tail(s)) = Mentions(s)
  <1>1. PICK r : r = <<c>> \o Tail(s)
    OBVIOUS
  <1>2. r \in Seq(Call) /\ r # <<>> /\ Head(r) = c /\ Tail(r) = Tail(s)
    BY <1>1, CallsType
  <1>3. Mentions(r) = Touched(c) \cup Mentions(Tail(s))
    BY <1>2, MentionsSplit
  <1>4. QED
    BY <1>1, <1>3, MentionsSplit

LEMMA MentionedIs ==
    /\ \A w \in Writers : Mentioned(w) = Mentions(writer[w].calls)
    /\ \A w \in Writers : \A n : Free(w, n) <=>
         \A v \in Writers \ {w} : n \notin Mentions(writer[v].calls)
  BY DEF Mentioned, Mentions, Free

LEMMA CurrentMentioned ==
    ASSUME TypeOK, NEW w \in Writers, writer[w].calls # <<>>
    PROVE  Mentions(writer[w].calls) =
             Touched(Current(w)) \cup Mentions(Tail(writer[w].calls))
  <1>1. writer[w].calls \in Seq(Call)
    BY DEF TypeOK, WriterState
  <1>2. QED
    BY <1>1, MentionsSplit DEF Current

\* What is so of a writer with state r besides its shape
Phase(r) ==
    /\ r.pc = "idle" => r.calls = <<>>
    /\ r.pc = "loaded" => Head(r.calls).kind = "update_index"

Phases == \A w \in Writers : Phase(writer[w])

UnsureDoubtful == unsure \subseteq doubtful

\* The keywords that a writer has loaded are those of the column.
LoadedAgrees ==
    \A w \in Writers : writer[w].pc = "loaded" =>
      \A n \in Touched(Current(w)) \ doubtful : keywords[n] = Current(w).words[n]

\* The nodes whose column a writer with state r has committed or read for the
\* call at hand; multi_create commits the columns with its save.
Written(r) ==
    IF r.pc \in {"insert", "texts"} /\ Head(r.calls).kind \in {"add_texts", "update_index"}
      THEN Touched(Head(r.calls)) \ r.todo ELSE {}

\* What a writer in a call has committed is in the column still, unless others
\* are at work on the node: whoever writes the column either has it among its
\* calls until it saves, and then the writer has missed it, or makes it doubtful.
WrittenAgrees ==
    \A w \in Writers : \A n \in Written(writer[w]) \ (missed[w] \cup doubtful) :
      keywords[n] = Current(w).words[n] \/ ~Free(w, n)

ColumnInv == UnsureDoubtful /\ Phases /\ LoadedAgrees /\ WrittenAgrees /\ ShownKeywordsFind

LEMMA WrittenMentioned ==
    ASSUME TableInv, NEW w \in Writers
    PROVE  /\ Written(writer[w]) \subseteq Touched(Current(w))
           /\ Written(writer[w]) # {} \/ writer[w].pc = "loaded" =>
                Touched(Current(w)) \subseteq Mentions(writer[w].calls) \cap Nodes
  <1>1. Written(writer[w]) \subseteq Touched(Current(w))
    BY DEF Written, Current
  <1>2. Written(writer[w]) # {} \/ writer[w].pc = "loaded" => writer[w].calls # <<>>
    BY DEF Written, TableInv, CallsAtHand, Shape
  <1>3. writer[w].calls # <<>> =>
          Touched(Current(w)) \subseteq Mentions(writer[w].calls) \cap Nodes
    BY CurrentMentioned, CurrentType DEF TableInv
  <1>4. QED
    BY <1>1, <1>2, <1>3

\* A step that gives writer w the state r keeps the invariant when that is so of
\* w, a node is cleared of doubt only if no other mentions it, and a column
\* changes only if w goes on mentioning the node or it becomes doubtful.
LEMMA ColumnStep ==
    ASSUME TableInv, ColumnInv, NEW w \in Writers, NEW r,
           writer' = [writer EXCEPT ![w] = r], Phase(r), unsure' \subseteq doubtful',
           r.pc = "loaded" =>
             \A n \in Touched(Head(r.calls)) \ doubtful' :
               keywords'[n] = Head(r.calls).words[n],
           \A n \in Written(r) \ (missed'[w] \cup doubtful') :
             \/ keywords'[n] = Head(r.calls).words[n]
             \/ \E v \in Writers \ {w} : n \in Mentions(writer[v].calls),
           \A v \in Writers \ {w} : missed[v] \subseteq missed'[v],
           \A n \in Nodes \ doubtful' : \A v \in Writers \ {w} :
             n \in Mentions(writer[v].calls) => n \notin doubtful,
           \A n \in Nodes \ doubtful' : \A v \in Writers \ {w} :
             writer[v].pc = "loaded" /\ n \in Touched(Current(v)) => keywords'[n] = keywords[n],
           \A n \in Nodes \ doubtful' : \A v \in Writers \ {w} :
             n \in Written(writer[v]) \ missed'[v] =>
               \/ n \in Mentions(r.calls)
               \/ n \notin Mentions(writer[w].calls) /\ keywords'[n] = keywords[n],
           \A n \in Nodes \ doubtful' :
             n \notin Mentions(r.calls)
               /\ (\A v \in Writers \ {w} : n \notin Mentions(writer[v].calls)) =>
               Entries(table', n) = {} \/ keywords'[n] \subseteq Entries(table', n)
    PROVE  ColumnInv'
  <1>1. \A v \in Writers : writer'[v] = IF v = w THEN r ELSE writer[v]
    BY DEF TableInv, TypeOK
  <1>2. /\ \A v \in Writers : Mentioned(v)' = Mentions(writer'[v].calls)
        /\ \A v \in Writers : \A n : Free(v, n)' <=>
             \A u \in Writers \ {v} : n \notin Mentions(writer'[u].calls)
    BY DEF Mentioned, Mentions, Free
  <1>3. UnsureDoubtful' /\ Phases'
    BY <1>1 DEF UnsureDoubtful, Phases, ColumnInv
  <1>4. LoadedAgrees'
    <2>1. ASSUME NEW v \in Writers \ {w}, writer[v].pc = "loaded",
                 NEW n \in Touched(Current(v)) \ doubtful'
          PROVE  keywords'[n] = Current(v).words[n]
      <3>1. n \in Nodes /\ n \in Mentions(writer[v].calls)
        BY <2>1, WrittenMentioned
      <3>2. n \notin doubtful /\ keywords'[n] = keywords[n]
        BY <2>1, <3>1
      <3>3. QED
        BY <2>1, <3>2 DEF ColumnInv, LoadedAgrees
    <2>2. QED
      BY <1>1, <2>1 DEF LoadedAgrees, Current
  <1>5. WrittenAgrees'
    <2>1. ASSUME NEW v \in Writers \ {w}, NEW n \in Written(writer[v]) \ (missed'[v] \cup doubtful')
          PROVE  keywords'[n] = Current(v).words[n] \/ ~Free(v, n)'
      <3>1. n \in Nodes /\ n \in Mentions(writer[v].calls)
        BY <2>1, WrittenMentioned
      <3>2. n \notin doubtful /\ n \notin missed[v]
        BY <2>1, <3>1
      <3>3. CASE n \in Mentions(r.calls)
        BY <1>1, <1>2, <2>1, <3>3
      <3>4. CASE n \notin Mentions(writer[w].calls) /\ keywords'[n] = keywords[n]
        <4>1. keywords[n] = Current(v).words[n] \/ ~Free(v, n)
          BY <2>1, <3>2 DEF ColumnInv, WrittenAgrees
        <4>2. CASE ~Free(v, n)
          <5>1. PICK u \in Writers \ {v} : n \in Mentions(writer[u].calls)
            BY <4>2, MentionedIs
          <5>2. u # w /\ writer'[u] = writer[u]
            BY <1>1, <3>4, <5>1
          <5>3. QED
            BY <1>2, <2>1, <5>1, <5>2
        <4>3. QED
          BY <3>4, <4>1, <4>2
      <3>5. QED
        BY <2>1, <3>1, <3>3, <3>4
    <2>2. ASSUME NEW n \in Written(r) \ (missed'[w] \cup doubtful')
          PROVE  keywords'[n] = Head(r.calls).words[n] \/ ~Free(w, n)'
      BY <1>1, <1>2, <2>2
    <2>3. \A v \in Writers \ {w} : Current(v)' = Current(v) /\ Written(writer[v])' = Written(writer[v])
      BY <1>1 DEF Current
    <2>4. Current(w)' = Head(r.calls) /\ writer'[w] = r
      BY <1>1 DEF Current
    <2>5. ASSUME NEW v \in Writers, NEW n \in Written(writer'[v]) \ (missed'[v] \cup doubtful')
          PROVE  keywords'[n] = Current(v)'.words[n] \/ ~Free(v, n)'
      <3>1. CASE v = w
        BY <2>2, <2>4, <2>5, <3>1
      <3>2. CASE v # w
        BY <1>1, <2>1, <2>3, <2>5, <3>2
      <3>3. QED
        BY <3>1, <3>2
    <2>6. QED
      BY <2>5 DEF WrittenAgrees
  <1>6. ShownKeywordsFind'
    <2>1. ASSUME NEW n \in Nodes \ doubtful', \A v \in Writers : n \notin Mentioned(v)'
          PROVE  Entries(table', n) = {} \/ keywords'[n] \subseteq Entries(table', n)
      <3>1. n \notin Mentions(r.calls) /\ \A v \in Writers \ {w} : n \notin Mentions(writer[v].calls)
        BY <1>1, <1>2, <2>1
      <3>2. QED
        BY <3>1
    <2>2. QED
      BY <2>1 DEF ShownKeywordsFind, Entries
  <1>7. QED
    BY <1>3, <1>4, <1>5, <1>6 DEF ColumnInv

\* The same when the table, the columns and the doubts stay.
LEMMA QuietColumns ==
    ASSUME TableInv, ColumnInv, NEW w \in Writers, NEW r,
           writer' = [writer EXCEPT ![w] = r], Phase(r),
           UNCHANGED <<table, keywords, unsure, doubtful>>,
           \A v \in Writers \ {w} : missed'[v] = missed[v],
           Mentions(writer[w].calls) \subseteq Mentions(r.calls),
           r.pc = "loaded" =>
             \A n \in Touched(Head(r.calls)) \ doubtful : keywords[n] = Head(r.calls).words[n],
           \A n \in Written(r) \ (missed'[w] \cup doubtful) :
             \/ keywords[n] = Head(r.calls).words[n]
             \/ \E v \in Writers \ {w} : n \in Mentions(writer[v].calls)
    PROVE  ColumnInv'
  <1>1. unsure' \subseteq doubtful'
    BY DEF ColumnInv, UnsureDoubtful
  <1>2. ASSUME NEW n \in Nodes \ doubtful', n \notin Mentions(r.calls),
               \A v \in Writers \ {w} : n \notin Mentions(writer[v].calls)
        PROVE  Entries(table', n) = {} \/ keywords'[n] \subseteq Entries(table', n)
    <2>1. \A v \in Writers : n \notin Mentioned(v)
      BY <1>2, MentionedIs
    <2>2. QED
      BY <2>1 DEF ColumnInv, ShownKeywordsFind
  <1>3. QED
    BY <1>1, <1>2, ColumnStep

\* A job that starts mentions nodes that its writer did not.
LEMMA StartColumns ==
    ASSUME TableInv, ColumnInv, NEW w \in Writers, NEW job, NEW calls, Start(w, job, calls),
           UNCHANGED <<keywords, doubtful>>
    PROVE  ColumnInv'
  <1> DEFINE r == [Resting EXCEPT !.pc = "call", !.calls = calls]
  <1>1. r.pc = "call" /\ r.calls = calls /\ writer' = [writer EXCEPT ![w] = r]
    BY DEF Start, Resting
  <1>2. Mentions(writer[w].calls) = {}
    BY MentionsNothing DEF Start, Idle, ColumnInv, Phases, Phase
  <1>3. UNCHANGED <<table, missed, unsure>>
    BY DEF Start
  <1> HIDE DEF r
  <1>4. Phase(r) /\ Written(r) = {}
    BY <1>1 DEF Phase, Written
  <1>5. QED
    BY <1>1, <1>2, <1>3, <1>4, QuietColumns

LEMMA LoadedIs ==
    ASSUME NEW w \in Writers, NEW v \in Writers \ {w}, writer[v].pc = "loaded"
    PROVE  Touched(Current(v)) \subseteq Loaded(w)
  BY DEF Loaded, Touched, Current

\* An edit changes the column before the node is deleted from the table.
LEMMA EditColumns ==
    ASSUME TableInv, ColumnInv, NEW w \in Writers, NEW n \in Nodes, NEW ks \in WordSets,
           Edit(w, n, ks)
    PROVE  ColumnInv'
  <1> DEFINE calls == <<DeleteCall({n}), AddCall("update_index", [m \in {n} |-> ks])>>
             r == [Resting EXCEPT !.pc = "call", !.calls = calls]
  <1>1. r.pc = "call" /\ r.calls = calls /\ writer' = [writer EXCEPT ![w] = r]
    BY DEF Edit, Start, Resting
  <1>2. UNCHANGED <<table, missed, unsure>> /\ doubtful' = doubtful \cup ({n} \cap Loaded(w))
    BY DEF Edit, Start
  <1>3. n \in Mentions(calls)
    <2>1. Touched(DeleteCall({n})) = {n}
      BY DEF Touched, DeleteCall
    <2>2. Len(calls) = 2 /\ calls[1] = DeleteCall({n})
      OBVIOUS
    <2>3. QED
      BY <2>1, <2>2 DEF Mentions
  <1>4. \A m \in Nodes \ {n} : keywords'[m] = keywords[m]
    BY DEF Edit, TableInv, TypeOK
  <1>5. Mentions(writer[w].calls) = {}
    BY MentionsNothing DEF Edit, Start, Idle, ColumnInv, Phases, Phase
  <1> HIDE DEF r, calls
  <1>6. Phase(r) /\ Written(r) = {}
    BY <1>1 DEF Phase, Written
  <1>7. unsure' \subseteq doubtful'
    BY <1>2 DEF ColumnInv, UnsureDoubtful
  <1>8. ASSUME NEW m \in Nodes \ doubtful', NEW v \in Writers \ {w},
               writer[v].pc = "loaded", m \in Touched(Current(v))
        PROVE  keywords'[m] = keywords[m]
    BY <1>2, <1>4, <1>8, LoadedIs
  <1>9. ASSUME NEW m \in Nodes \ doubtful', m \notin Mentions(r.calls),
               \A v \in Writers \ {w} : m \notin Mentions(writer[v].calls)
        PROVE  Entries(table', m) = {} \/ keywords'[m] \subseteq Entries(table', m)
    <2>1. \A v \in Writers : m \notin Mentioned(v)
      BY <1>5, <1>9, MentionedIs
    <2>2. m # n /\ m \notin doubtful
      BY <1>1, <1>2, <1>3, <1>9
    <2>3. QED
      BY <1>2, <1>4, <2>1, <2>2 DEF ColumnInv, ShownKeywordsFind
  <1>10. \A m \in Nodes \ doubtful' : \A v \in Writers \ {w} :
            m \in Written(writer[v]) \ missed'[v] =>
              \/ m \in Mentions(r.calls)
              \/ m \notin Mentions(writer[w].calls) /\ keywords'[m] = keywords[m]
    BY <1>1, <1>3, <1>4, <1>5
  <1>11. doubtful \subseteq doubtful' /\ missed' = missed
    BY <1>2
  <1>12. QED
    BY <1>1, <1>6, <1>7, <1>8, <1>9, <1>10, <1>11, ColumnStep

\* A step that leaves the table, and makes doubtful what it stops mentioning
\* and the nodes whose column it changes.
LEMMA DoubtingStep ==
    ASSUME TableInv, ColumnInv, NEW w \in Writers, NEW r,
           writer' = [writer EXCEPT ![w] = r], r.pc = "idle" /\ r.calls = <<>>,
           UNCHANGED <<table, missed, unsure>>,
           doubtful \cup Mentions(writer[w].calls) \subseteq doubtful',
           \A n \in Nodes \ doubtful' : keywords'[n] = keywords[n]
    PROVE  ColumnInv'
  <1>1. Phase(r) /\ Written(r) = {}
    BY DEF Phase, Written
  <1>2. unsure' \subseteq doubtful'
    BY DEF ColumnInv, UnsureDoubtful
  <1>3. ASSUME NEW n \in Nodes \ doubtful', n \notin Mentions(r.calls),
               \A v \in Writers \ {w} : n \notin Mentions(writer[v].calls)
        PROVE  Entries(table', n) = {} \/ keywords'[n] \subseteq Entries(table', n)
    <2>1. \A v \in Writers : n \notin Mentioned(v)
      BY <1>3, MentionedIs
    <2>2. n \notin doubtful /\ keywords'[n] = keywords[n]
      OBVIOUS
    <2>3. QED
      BY <2>1, <2>2 DEF ColumnInv, ShownKeywordsFind
  <1>4. \A n \in Nodes \ doubtful' : n \notin doubtful /\ n \notin Mentions(writer[w].calls)
    OBVIOUS
  <1>5. QED
    BY <1>1, <1>2, <1>3, <1>4, ColumnStep

LEMMA AbortColumns ==
    ASSUME TableInv, ColumnInv, NEW w \in Writers, Abort(w),
           \A n \in Nodes \ doubtful' : keywords'[n] = keywords[n]
    PROVE  ColumnInv'
  <1>1. writer' = [writer EXCEPT ![w] = Resting] /\ Resting.pc = "idle" /\ Resting.calls = <<>>
    BY DEF Abort, Resting
  <1>2. UNCHANGED <<table, missed, unsure>> /\ doubtful' = doubtful \cup Mentions(writer[w].calls)
    BY MentionedIs DEF Abort
  <1>3. QED
    BY <1>1, <1>2, DoubtingStep

\* The table that is dropped finds nothing.
LEMMA DropColumns ==
    ASSUME TableInv, ColumnInv, NEW w \in Writers, DropTable(w)
    PROVE  ColumnInv'
  <1> DEFINE r == writer[w]
  <1>1. /\ writer' = [writer EXCEPT ![w] = r]
        /\ r.pc = "idle" /\ Mentions(r.calls) = {} /\ Phase(r) /\ Written(r) = {}
    BY MentionsNothing
       DEF DropTable, Idle, TableInv, TypeOK, ColumnInv, Phases, Phase, Written
  <1>2. /\ unsure' = {} /\ keywords' = keywords /\ table' = Empty
        /\ doubtful' = {n \in doubtful : ~Free(w, n)}
    BY DEF DropTable
  <1>3. \A v \in Writers \ {w} :
          missed[v] \subseteq missed'[v] /\ (InCall(v) => Nodes \subseteq missed'[v])
    BY DEF DropTable, Miss
  <1>4. \A n \in Nodes : Entries(table', n) = {}
    BY <1>2, EmptyDictionary
  <1>5. ASSUME NEW n \in Nodes \ doubtful', NEW v \in Writers \ {w},
               n \in Mentions(writer[v].calls)
        PROVE  n \notin doubtful
    BY <1>2, <1>5, MentionedIs
  <1>6. \A v \in Writers \ {w} : Written(writer[v]) # {} => InCall(v)
    BY DEF Written, InCall
  <1> HIDE DEF r
  <1>7. QED
    BY <1>1, <1>2, <1>3, <1>4, <1>5, <1>6, ColumnStep

LEMMA StartJobColumns ==
    ASSUME TableInv, ColumnInv, NEW w \in Writers, StartJob(w)
    PROVE  ColumnInv'
  <1>1. ASSUME NEW n \in Nodes, NEW ks \in WordSets, EditFails(w, n, ks)
        PROVE  ColumnInv'
    <2>1. /\ writer' = [writer EXCEPT ![w] = writer[w]]
          /\ writer[w].pc = "idle" /\ writer[w].calls = <<>>
      BY <1>1 DEF EditFails, Idle, TableInv, TypeOK, ColumnInv, Phases, Phase
    <2>2. UNCHANGED <<table, missed, unsure>> /\ doubtful' = doubtful \cup {n}
      BY <1>1 DEF EditFails
    <2>3. \A m \in Nodes \ doubtful' : keywords'[m] = keywords[m]
      BY <1>1, <2>2 DEF EditFails, TableInv, TypeOK
    <2>4. QED
      BY <2>1, <2>2, <2>3, MentionsNothing, DoubtingStep
  <1>2. QED
    BY <1>1, StartColumns, EditColumns, DropColumns
       DEF StartJob, IndexTexts, CreateSegments, Remove, Rewrite

LEMMA LoadKeywordsColumns ==
    ASSUME TableInv, ColumnInv, NEW w \in Writers, LoadKeywords(w)
    PROVE  ColumnInv'
  <1>1. PICK s : s = writer[w].calls
    OBVIOUS
  <1>2. s \in Seq(Call) /\ s # <<>> /\ Head(s) \in Call /\ Head(s).kind = "update_index"
    BY <1>1, CurrentType DEF LoadKeywords, TableInv, TypeOK, WriterState, Current
  <1> DEFINE c == [Head(s) EXCEPT !.words = [n \in DOMAIN @ |-> keywords[n]]]
             calls == <<c>> \o Tail(s)
             r == [writer[w] EXCEPT !.pc = "loaded", !.calls = calls]
  <1>3. /\ c \in Call /\ c.kind = "update_index" /\ Touched(c) = Touched(Head(s))
        /\ \A n \in Touched(c) : c.words[n] = keywords[n]
    <2>1. Touched(Head(s)) \in SUBSET Nodes
      BY <1>2, CallType
    <2>2. [n \in DOMAIN Head(s).words |-> keywords[n]] \in WordsOf(Touched(Head(s)))
      BY <2>1 DEF Touched, WordsOf, TableInv, TypeOK
    <2>3. c \in Call
      BY <1>2, <2>1, <2>2 DEF Call
    <2>4. c.kind = "update_index" /\ c.words = [n \in DOMAIN Head(s).words |-> keywords[n]]
      BY <1>2 DEF Call
    <2>5. QED
      BY <2>3, <2>4 DEF Touched
  <1>4. writer' = [writer EXCEPT ![w] = r]
    BY <1>1 DEF LoadKeywords, Current, TableInv, TypeOK, WriterState
  <1> HIDE DEF c
  <1>5. Head(calls) = c /\ Mentions(calls) = Mentions(s)
    BY <1>2, <1>3, CallsType, MentionsOfReplaced
  <1> HIDE DEF calls
  <1>6. r.pc = "loaded" /\ r.calls = calls
    BY DEF TableInv, TypeOK, WriterState
  <1> HIDE DEF r
  <1>7. Phase(r) /\ Written(r) = {}
    BY <1>3, <1>5, <1>6 DEF Phase, Written
  <1>8. UNCHANGED <<table, keywords, missed, unsure, doubtful>>
    BY DEF LoadKeywords, historyVars
  <1>9. QED
    BY <1>1, <1>3, <1>4, <1>5, <1>6, <1>7, <1>8, QuietColumns

LEMMA ReadTableColumns ==
    ASSUME TableInv, ColumnInv, NEW w \in Writers, ReadTable(w)
    PROVE  ColumnInv'
  <1> DEFINE r == [writer[w] EXCEPT !.pc = IF exists THEN "texts" ELSE "insert",
                                    !.memory = table, !.todo = TextsOf(Current(w))]
  <1>1. writer' = [writer EXCEPT ![w] = r]
    BY DEF ReadTable, TextsOf, TableInv, TypeOK, WriterState
  <1>2. /\ r.pc \in {"insert", "texts"} /\ r.calls = writer[w].calls
        /\ r.todo = TextsOf(Head(r.calls))
    BY DEF TableInv, TypeOK, WriterState, Current
  <1> HIDE DEF r
  <1>3. Phase(r)
    BY <1>2 DEF Phase
  <1>4. ASSUME NEW n \in Written(r) \ doubtful
        PROVE  keywords[n] = Head(r.calls).words[n]
    <2>1. Head(r.calls) = Current(w) /\ Current(w).kind = "update_index" /\ n \in Touched(Current(w))
      BY <1>2, <1>4 DEF Written, TextsOf, Current
    <2>2. writer[w].pc = "loaded"
      BY <2>1 DEF ReadTable
    <2>3. QED
      BY <1>4, <2>1, <2>2 DEF ColumnInv, LoadedAgrees
  <1>5. /\ UNCHANGED <<table, keywords, unsure, doubtful>>
        /\ \A v \in Writers \ {w} : missed'[v] = missed[v]
    BY DEF ReadTable, TableInv, TypeOK
  <1>6. QED
    BY <1>1, <1>2, <1>3, <1>4, <1>5, QuietColumns

LEMMA InsertRowColumns ==
    ASSUME TableInv, ColumnInv, NEW w \in Writers, InsertRow(w)
    PROVE  ColumnInv'
  <1> DEFINE r == [writer[w] EXCEPT !.pc = "texts"]
  <1>1. writer' = [writer EXCEPT ![w] = r] /\ UNCHANGED <<keywords, missed, unsure, doubtful>>
    BY DEF InsertRow, historyVars, TableInv, TypeOK, WriterState
  <1>2. UNCHANGED table
    BY DEF InsertRow, TableInv, NoRowNoTable
  <1>3. r.pc = "texts" /\ r.calls = writer[w].calls /\ r.todo = writer[w].todo
    BY DEF TableInv, TypeOK, WriterState
  <1> HIDE DEF r
  <1>4. Phase(r) /\ Written(r) = Written(writer[w])
    BY <1>3 DEF InsertRow, Phase, Written
  <1>5. \A n \in Written(r) \ (missed[w] \cup doubtful) :
          \/ keywords[n] = Head(r.calls).words[n]
          \/ \E v \in Writers \ {w} : n \in Mentions(writer[v].calls)
    BY <1>3, <1>4, MentionedIs DEF ColumnInv, WrittenAgrees, Current
  <1>6. QED
    BY <1>1, <1>2, <1>3, <1>4, <1>5, QuietColumns

\* The column of a node is committed: the writer mentions the node.
LEMMA AddTextColumns ==
    ASSUME TableInv, ColumnInv, NEW w \in Writers, NEW n \in Nodes, AddText(w, n)
    PROVE  ColumnInv'
  <1> DEFINE memory == AddTexts(writer[w].memory, [m \in {n} |-> Current(w).words[n]])
             r == [writer[w] EXCEPT !.memory = memory, !.todo = writer[w].todo \ {n}]
  <1>1. writer' = [writer EXCEPT ![w] = r]
    BY DEF AddText, TableInv, TypeOK, WriterState
  <1> HIDE DEF memory
  <1>2. r.pc = "texts" /\ r.calls = writer[w].calls /\ r.todo = writer[w].todo \ {n}
    BY DEF AddText, TableInv, TypeOK, WriterState
  <1> HIDE DEF r
  <1>3. /\ UNCHANGED <<table, missed, unsure>>
        /\ doubtful' = doubtful \cup ({n} \cap Loaded(w))
        /\ keywords'[n] = Current(w).words[n]
        /\ \A m \in Nodes \ {n} : keywords'[m] = keywords[m]
    BY DEF AddText, TableInv, TypeOK
  <1>4. writer[w].pc = "texts" /\ writer[w].calls # <<>> /\ n \in Touched(Current(w))
    BY DEF AddText, TableInv, CallsAtHand, Shape, TextsOf, Current
  <1>5. n \in Mentions(r.calls)
    BY <1>2, <1>4, CurrentMentioned DEF TableInv
  <1>6. Phase(r) /\ Written(r) \subseteq Written(writer[w]) \cup {n}
    BY <1>2, <1>4 DEF Phase, Written
  <1>7. unsure' \subseteq doubtful'
    BY <1>3 DEF ColumnInv, UnsureDoubtful
  <1>8. ASSUME NEW m \in Written(r) \ (missed'[w] \cup doubtful')
        PROVE  \/ keywords'[m] = Head(r.calls).words[m]
               \/ \E v \in Writers \ {w} : m \in Mentions(writer[v].calls)
    <2>1. CASE m = n
      BY <1>2, <1>3, <2>1 DEF Current
    <2>2. CASE m # n
      <3>1. m \in Written(writer[w]) \ (missed[w] \cup doubtful) /\ m \in Nodes
        BY <1>3, <1>6, <1>8, <2>2, WrittenMentioned
      <3>2. keywords[m] = Current(w).words[m] \/ ~Free(w, m)
        BY <3>1 DEF ColumnInv, WrittenAgrees
      <3>3. QED
        BY <1>2, <1>3, <2>2, <3>1, <3>2, MentionedIs DEF Current
    <2>3. QED
      BY <2>1, <2>2
  <1>9. ASSUME NEW m \in Nodes \ doubtful', NEW v \in Writers \ {w},
               writer[v].pc = "loaded", m \in Touched(Current(v))
        PROVE  keywords'[m] = keywords[m]
    BY <1>3, <1>9, LoadedIs
  <1>10. ASSUME NEW m \in Nodes \ doubtful', m \notin Mentions(r.calls),
                \A v \in Writers \ {w} : m \notin Mentions(writer[v].calls)
         PROVE  Entries(table', m) = {} \/ keywords'[m] \subseteq Entries(table', m)
    <2>1. \A v \in Writers : m \notin Mentioned(v)
      BY <1>2, <1>10, MentionedIs
    <2>2. m # n /\ m \notin doubtful
      BY <1>3, <1>5, <1>10
    <2>3. QED
      BY <1>3, <2>1, <2>2 DEF ColumnInv, ShownKeywordsFind
  <1>11. \A m \in Nodes \ doubtful' :
            \/ m \in Mentions(r.calls)
            \/ m \notin Mentions(writer[w].calls) /\ keywords'[m] = keywords[m]
    BY <1>2, <1>3, <1>5
  <1>12. doubtful \subseteq doubtful' /\ missed' = missed
    BY <1>3
  <1>13. r.pc # "loaded"
    BY <1>2
  <1>14. QED
    BY <1>1, <1>6, <1>7, <1>8, <1>9, <1>10, <1>11, <1>12, <1>13, ColumnStep

\* A save puts the keywords of its nodes into the table. Those that nobody else
\* missed or mentions are the columns by then.
LEMMA SaveColumns ==
    ASSUME TableInv, ColumnInv, NEW w \in Writers, Save(w)
    PROVE  ColumnInv'
  <1>1. PICK c : c = Current(w)
    OBVIOUS
  <1>2. PICK s : s = Tail(writer[w].calls)
    OBVIOUS
  <1> DEFINE r == [Resting EXCEPT !.pc = "call", !.calls = s]
  <1>3. r.pc = "call" /\ r.calls = s /\ writer' = [writer EXCEPT ![w] = r]
    BY <1>2 DEF Save, Resting
  <1> HIDE DEF r
  <1>4. writer[w].pc = "texts" /\ writer[w].todo = {} /\ writer[w].calls # <<>>
    BY DEF Save, TableInv, CallsAtHand, Shape
  <1>5. /\ c \in Call /\ Touched(c) \in SUBSET Nodes
        /\ Mentions(writer[w].calls) = Touched(c) \cup Mentions(s)
    BY <1>1, <1>2, <1>4, CurrentType, CurrentMentioned DEF TableInv
  <1>6. /\ unsure' = (unsure \cup missed[w]) \ Erased(c)
        /\ doubtful' = (doubtful \cup missed[w] \cup (Columns(c) \cap Loaded(w)))
                          \ {n \in Erased(c) : Free(w, n)}
        /\ Miss(w, Touched(c))
        /\ keywords' = [n \in Nodes |-> IF n \in Columns(c) THEN c.words[n] ELSE keywords[n]]
    BY <1>1 DEF Save, CommitColumns
  <1>7. Columns(c) \subseteq Touched(c) /\ Erased(c) \subseteq Touched(c)
    BY DEF Columns, Erased
  <1>8. /\ \A v \in Writers \ {w} : missed[v] \subseteq missed'[v]
        /\ \A v \in Writers \ {w} : InCall(v) => Touched(c) \subseteq missed'[v]
    BY <1>6 DEF Miss
  <1>9. Phase(r) /\ Written(r) = {}
    BY <1>3 DEF Phase, Written
  <1>10. unsure' \subseteq doubtful'
    BY <1>6 DEF ColumnInv, UnsureDoubtful
  <1>11. ASSUME NEW n \in Nodes \ doubtful', NEW v \in Writers \ {w},
                n \in Mentions(writer[v].calls)
         PROVE  n \notin doubtful
    BY <1>6, <1>11, MentionedIs
  <1>12. ASSUME NEW n \in Nodes \ doubtful', NEW v \in Writers \ {w},
                writer[v].pc = "loaded", n \in Touched(Current(v))
         PROVE  keywords'[n] = keywords[n]
    <2>1. n \in Loaded(w)
      BY <1>12, LoadedIs
    <2>2. n \in Mentions(writer[v].calls)
      BY <1>12, WrittenMentioned
    <2>3. n \notin Columns(c)
      BY <1>6, <2>1, <2>2, MentionedIs
    <2>4. QED
      BY <1>6, <2>3
  <1>13. ASSUME NEW n \in Nodes \ doubtful', NEW v \in Writers \ {w},
                n \in Written(writer[v]) \ missed'[v]
         PROVE  \/ n \in Mentions(r.calls)
                \/ n \notin Mentions(writer[w].calls) /\ keywords'[n] = keywords[n]
    <2>1. InCall(v)
      BY <1>13 DEF Written, InCall
    <2>2. n \notin Touched(c)
      BY <1>8, <1>13, <2>1
    <2>3. QED
      BY <1>3, <1>5, <1>6, <1>7, <2>2
  <1>14. ASSUME NEW n \in Nodes \ doubtful', n \notin Mentions(r.calls),
                \A v \in Writers \ {w} : n \notin Mentions(writer[v].calls)
         PROVE  Entries(table', n) = {} \/ keywords'[n] \subseteq Entries(table', n)
    <2>1. n \notin unsure'
      BY <1>10
    <2>2. Entries(table', n) = IF n \in Erased(c) THEN {}
                               ELSE IF n \in Touched(c) THEN Entries(table, n) \cup c.words[n]
                               ELSE Entries(table, n)
      BY <1>1, <2>1, SaveEffect
    <2>3. CASE n \in Erased(c)
      BY <2>2, <2>3
    <2>4. CASE n \notin Touched(c)
      <3>1. \A v \in Writers : n \notin Mentioned(v)
        BY <1>3, <1>5, <1>14, <2>4, MentionedIs
      <3>2. n \notin doubtful /\ keywords'[n] = keywords[n] /\ Entries(table', n) = Entries(table, n)
        BY <1>6, <1>7, <2>2, <2>4
      <3>3. QED
        BY <3>1, <3>2 DEF ColumnInv, ShownKeywordsFind
    <2>5. CASE n \in Columns(c) /\ n \notin Erased(c)
      BY <1>6, <1>7, <2>2, <2>5
    <2>6. CASE n \in Touched(c) \ (Erased(c) \cup Columns(c))
      <3>1. c.kind \in {"add_texts", "update_index"}
        BY <1>5, <2>6 DEF Call, Erased, Columns
      <3>2. n \in Written(writer[w])
        BY <1>1, <1>4, <2>6, <3>1 DEF Written, Current
      <3>3. n \notin missed[w] \cup doubtful /\ keywords'[n] = keywords[n]
        BY <1>6, <2>6
      <3>4. keywords[n] = c.words[n] \/ ~Free(w, n)
        BY <1>1, <3>2, <3>3 DEF ColumnInv, WrittenAgrees
      <3>5. Free(w, n)
        BY <1>14, MentionedIs
      <3>6. QED
        BY <2>2, <2>6, <3>3, <3>4, <3>5
    <2>7. QED
      BY <2>3, <2>4, <2>5, <2>6
  <1>15. r.pc # "loaded"
    BY <1>3
  <1>16. QED
    BY <1>3, <1>8, <1>9, <1>10, <1>11, <1>12, <1>13, <1>14, <1>15, ColumnStep

LEMMA RunCallColumns ==
    ASSUME TableInv, ColumnInv, NEW w \in Writers, RunCall(w)
    PROVE  ColumnInv'
  <1>1. CASE InsertFails(w)
    BY <1>1, AbortColumns DEF InsertFails
  <1>2. CASE SaveFails(w)
    <2>1. writer[w].calls # <<>>
      BY <1>2 DEF SaveFails, TableInv, CallsAtHand, Shape
    <2>2. Columns(Current(w)) \subseteq Mentions(writer[w].calls)
      BY <2>1, CurrentMentioned DEF TableInv, Columns
    <2>3. \A n \in Nodes \ doubtful' : keywords'[n] = keywords[n]
      BY <1>2, <2>2, MentionedIs DEF SaveFails, Abort, CommitColumns
    <2>4. QED
      BY <1>2, <2>3, AbortColumns DEF SaveFails
  <1>3. CASE EndJob(w)
    <2>1. /\ writer' = [writer EXCEPT ![w] = Resting] /\ Resting.pc = "idle" /\ Resting.calls = <<>>
          /\ UNCHANGED <<table, keywords, missed, unsure, doubtful>>
      BY <1>3 DEF EndJob, Resting, historyVars
    <2>2. Mentions(writer[w].calls) = {}
      BY <1>3, MentionsNothing DEF EndJob
    <2>3. QED
      BY <2>1, <2>2, DoubtingStep
  <1>4. QED
    BY <1>1, <1>2, <1>3, LoadKeywordsColumns, ReadTableColumns, InsertRowColumns, AddTextColumns,
       SaveColumns DEF RunCall

LEMMA InitColumnInv == Init => ColumnInv
  <1>1. SUFFICES ASSUME Init PROVE ColumnInv
    OBVIOUS
  <1>2. \A n \in Nodes : Entries(table, n) = {}
    BY <1>1, EmptyDictionary DEF Init
  <1>3. \A w \in Writers : writer[w].pc = "idle" /\ writer[w].calls = <<>>
    BY <1>1 DEF Init, Resting
  <1>4. \A w \in Writers : Written(writer[w]) = {}
    BY <1>3 DEF Written
  <1>5. QED
    BY <1>1, <1>2, <1>3, <1>4
       DEF Init, ColumnInv, UnsureDoubtful, Phases, Phase, LoadedAgrees, WrittenAgrees,
           ShownKeywordsFind

LEMMA NextColumnInv == TableInv /\ ColumnInv /\ [Next]_vars => ColumnInv'
  <1>1. ASSUME ColumnInv, UNCHANGED vars
        PROVE  ColumnInv'
    BY <1>1
       DEF vars, historyVars, ColumnInv, UnsureDoubtful, Phases, LoadedAgrees, WrittenAgrees,
           ShownKeywordsFind, Current, Free, Mentioned, Entries
  <1>2. ASSUME TableInv, ColumnInv, NEW w \in Writers, Kill(w)
        PROVE  ColumnInv'
    BY <1>2, AbortColumns DEF Kill
  <1>3. QED
    BY <1>1, <1>2, StartJobColumns, RunCallColumns DEF Next

\* Keywords that a user sees with a segment find it, however jobs on it overlap,
\* fail, or are killed, and whatever the writers are: once no job is at work on a
\* segment of which nothing is in doubt, its column and the table agree.
THEOREM ShownKeywordsAreFound == Spec => []ShownKeywordsFind
  <1>1. Init => ColumnInv
    BY InitColumnInv
  <1>2. Spec => []ColumnInv
    BY <1>1, NextColumnInv, TableInvHolds, PTL DEF Spec
  <1>3. ColumnInv => ShownKeywordsFind
    BY DEF ColumnInv
  <1>4. QED
    BY <1>2, <1>3, PTL

=============================================================================
