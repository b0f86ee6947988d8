---------------------------- MODULE KeywordTable ----------------------------
(***************************************************************************)
(* The keyword table of one dataset                                        *)
(* (core/index/keyword_table_index/keyword_table_index.py): one database   *)
(* row with a JSON dictionary from keywords to node ids, which every       *)
(* writer - a Celery task or an API request - reads as a whole, changes in *)
(* memory and writes back as a whole, without a lock.  The keywords of a   *)
(* segment are also kept in the column DocumentSegment.keywords.           *)
(*                                                                         *)
(* Writers run the jobs that tasks and services make of these calls.  Each *)
(* action is what happens between two commits.                             *)
(***************************************************************************)
EXTENDS Naturals, Sequences, FiniteSets

CONSTANTS
    Nodes,      \* the index node ids of the segments of the dataset
    Keywords,
    Writers,    \* tasks and requests that may run at a time
    NoCall,     \* of the contract: a writer that is in no call
    WordSets,   \* the sets of keywords a text may have
    Jobs,       \* which jobs the writers run
    MaxJobs,    \* bound: jobs started
    MaxKills    \* bound: writers killed in the middle of a job

ASSUME WordSetsAssumption == WordSets \subseteq SUBSET Keywords
ASSUME MaxAssumption == MaxJobs \in Nat /\ MaxKills \in Nat

\* The calls as KeywordIndex has them
AbstractCalls ==
    [kind : {"add", "delete"}, words : UNION {[S -> SUBSET Keywords] : S \in SUBSET Nodes}]

ASSUME NoCallAssumption == NoCall \notin AbstractCalls

VARIABLES
    exists,     \* the dataset has its row of dataset_keyword_tables
    table,      \* its dictionary, empty while there is no row
    keywords,   \* DocumentSegment.keywords
    writer,     \* what each writer is doing
    jobs,       \* jobs started
    kills,      \* writers killed
    missed,     \* history: the nodes others wrote since a writer began a call
    unsure,     \* history: nodes whose entries an overlap may have undone
    doubtful    \* history: unsure nodes, those of a job that did not end and those
                \* whose column changed between its loading and the call it was
                \* loaded for, until they are erased with nobody at work on them

historyVars == <<missed, unsure, doubtful>>
vars == <<exists, table, keywords, writer, jobs, kills, historyVars>>

-----------------------------------------------------------------------------
(* The dictionary.  A keyword without nodes is not in it. *)

Dictionary == UNION {[K -> (SUBSET Nodes) \ {{}}] : K \in SUBSET Keywords}

Empty == [k \in {} |-> {}]

Get(t, k) == IF k \in DOMAIN t THEN t[k] ELSE {}

\* The keywords that find node n.
Entries(t, n) == {k \in DOMAIN t : n \in t[k]}

\* _add_text_to_keyword_table, of each node that words names
AddTexts(t, words) ==
    LET given == UNION {words[n] : n \in DOMAIN words} IN
      [k \in DOMAIN t \cup given |-> Get(t, k) \cup {n \in DOMAIN words : k \in words[n]}]

\* Mutant: a keyword that loses its last node stays.
DeleteIds_KeepsKeywords(t, S) == [k \in DOMAIN t |-> t[k] \ S]

\* _delete_ids_from_keyword_table
DeleteIds(t, S) ==
    LET emptied == {k \in DOMAIN t : t[k] \cap S # {} /\ t[k] \subseteq S} IN
      [k \in DOMAIN t \ emptied |-> t[k] \ S]

-----------------------------------------------------------------------------
(* Types *)

WordsOf(S) == [S -> SUBSET Keywords]

Call == [kind : {"add_texts", "multi_create", "update_index", "delete_by_ids"},
         words : UNION {WordsOf(S) : S \in SUBSET Nodes}]

WriterState == [pc : {"idle", "call", "loaded", "insert", "texts"},
                calls : Seq(Call),          \* the call at hand and those to come
                memory : Dictionary,        \* the dictionary as this call has it
                todo : SUBSET Nodes]        \* texts still to be added

Resting == [pc |-> "idle", calls |-> <<>>, memory |-> Empty, todo |-> {}]

TypeOK ==
    /\ exists \in BOOLEAN
    /\ table \in Dictionary
    /\ keywords \in [Nodes -> SUBSET Keywords]
    /\ writer \in [Writers -> WriterState]
    /\ jobs \in 0..MaxJobs
    /\ kills \in 0..MaxKills
    /\ missed \in [Writers -> SUBSET Nodes]
    /\ unsure \in SUBSET Nodes
    /\ doubtful \in SUBSET Nodes

Init ==
    /\ exists = FALSE
    /\ table = Empty
    /\ keywords = [n \in Nodes |-> {}]
    /\ writer = [w \in Writers |-> Resting]
    /\ jobs = 0
    /\ kills = 0
    /\ missed = [w \in Writers |-> {}]
    /\ unsure = {}
    /\ doubtful = {}

-----------------------------------------------------------------------------
(* Jobs: the calls that tasks and services make, in their order *)

Idle(w) == writer[w].pc = "idle"

\* Nodes whose column another writer has just loaded to index it.
Loaded(w) ==
    UNION {DOMAIN Head(writer[v].calls).words : v \in {v \in Writers \ {w} : writer[v].pc = "loaded"}}

AddCall(kind, words) == [kind |-> kind, words |-> words]

DeleteCall(S) == [kind |-> "delete_by_ids", words |-> [n \in S |-> {}]]

Start(w, job, calls) ==
    /\ Idle(w)
    /\ job \in Jobs
    /\ jobs < MaxJobs
    /\ jobs' = jobs + 1
    /\ writer' = [writer EXCEPT ![w] = [Resting EXCEPT !.pc = "call", !.calls = calls]]
    /\ UNCHANGED <<exists, table, kills, missed, unsure>>

\* A chunk is indexed, or a segment, a document or an archived one comes back.
IndexTexts(w, words) ==
    /\ Start(w, "index", <<AddCall("add_texts", words)>>)
    /\ UNCHANGED <<keywords, doubtful>>

\* A list of segments is created (multi_create_segment_vector).
CreateSegments(w, words) ==
    /\ Start(w, "create", <<AddCall("multi_create", words)>>)
    /\ UNCHANGED <<keywords, doubtful>>

\* Segments are disabled or deleted, or a document is.
Remove(w, S) ==
    /\ Start(w, "remove", <<DeleteCall(S)>>)
    /\ UNCHANGED <<keywords, doubtful>>

\* The content of a segment is changed (update_segment_vector).
Rewrite(w, n, ks) ==
    /\ Start(w, "rewrite", <<DeleteCall({n}), AddCall("add_texts", [m \in {n} |-> ks])>>)
    /\ UNCHANGED <<keywords, doubtful>>

\* The keywords of a segment are changed: the column first, and committed.
Edit(w, n, ks) ==
    /\ ks # {}
    /\ Start(w, "edit", <<DeleteCall({n}), AddCall("update_index", [m \in {n} |-> ks])>>)
    /\ keywords' = [keywords EXCEPT ![n] = ks]
    /\ doubtful' = doubtful \cup ({n} \cap Loaded(w))

\* update_segment reads args['enabled'], which the console does not send: the
\* handler of the KeyError commits the column, and the table stays as it was.
EditFails(w, n, ks) ==
    /\ ks # {}
    /\ Idle(w)
    /\ "edit" \in Jobs
    /\ jobs < MaxJobs
    /\ jobs' = jobs + 1
    /\ keywords' = [keywords EXCEPT ![n] = ks]
    /\ doubtful' = doubtful \cup {n}
    /\ UNCHANGED <<exists, table, writer, kills, missed, unsure>>

-----------------------------------------------------------------------------
(* Calls *)

Current(w) == Head(writer[w].calls)

Touched(c) == DOMAIN c.words

InCall(w) == writer[w].pc \in {"insert", "texts"}

Mentioned(w) == UNION {Touched(writer[w].calls[i]) : i \in 1..Len(writer[w].calls)}

Free(w, n) == \A v \in Writers \ {w} : n \notin Mentioned(v)

\* The job ends with the exception of the call.
Abort(w) ==
    /\ writer' = [writer EXCEPT ![w] = Resting]
    /\ doubtful' = doubtful \cup Mentioned(w)
    /\ UNCHANGED <<exists, table, jobs, missed, unsure>>

\* Mutant: the keywords that the request brought are indexed.
LoadKeywords_OfRequest(w) ==
    /\ writer[w].pc = "call" /\ writer[w].calls # <<>>
    /\ Current(w).kind = "update_index"
    /\ writer' = [writer EXCEPT ![w].pc = "loaded"]
    /\ UNCHANGED <<exists, table, keywords, jobs, kills, historyVars>>

\* update_segment_keywords_index is given segment.keywords, which the commits
\* before it have expired: the column is read again.
LoadKeywords(w) ==
    /\ writer[w].pc = "call" /\ writer[w].calls # <<>>
    /\ Current(w).kind = "update_index"
    /\ LET c == [Current(w) EXCEPT !.words = [n \in DOMAIN @ |-> keywords[n]]] IN
         writer' = [writer EXCEPT ![w].pc = "loaded", ![w].calls = <<c>> \o Tail(@)]
    /\ UNCHANGED <<exists, table, keywords, jobs, kills, historyVars>>

\* _get_dataset_keyword_table finds the row, or finds none and inserts one.
ReadTable(w) ==
    /\ \/ writer[w].pc = "call" /\ writer[w].calls # <<>> /\ Current(w).kind # "update_index"
       \/ writer[w].pc = "loaded"
    /\ writer' = [writer EXCEPT
         ![w].pc = IF exists THEN "texts" ELSE "insert",
         ![w].memory = table,
         ![w].todo = IF Current(w).kind = "add_texts" THEN Touched(Current(w)) ELSE {}]
    /\ missed' = [missed EXCEPT ![w] = {}]
    /\ UNCHANGED <<exists, table, keywords, jobs, kills, unsure, doubtful>>

\* Mutant: dataset_id is not unique, and the new row is the one found.
InsertRow_NotUnique(w) ==
    /\ writer[w].pc = "insert"
    /\ exists' = TRUE
    /\ table' = Empty
    /\ writer' = [writer EXCEPT ![w].pc = "texts"]
    /\ UNCHANGED <<keywords, jobs, kills, historyVars>>

InsertRow(w) ==
    /\ writer[w].pc = "insert"
    /\ ~exists
    /\ exists' = TRUE
    /\ table' = Empty
    /\ writer' = [writer EXCEPT ![w].pc = "texts"]
    /\ UNCHANGED <<keywords, jobs, kills, historyVars>>

\* dataset_id is unique: the second of two first writers fails.
InsertFails(w) ==
    /\ writer[w].pc = "insert"
    /\ exists
    /\ Abort(w)
    /\ UNCHANGED <<keywords, kills>>

\* add_texts and create_segment_keywords: the column is committed node by node.
AddText(w, n) ==
    /\ writer[w].pc = "texts"
    /\ n \in writer[w].todo
    /\ LET ks == Current(w).words[n] IN
         /\ keywords' = [keywords EXCEPT ![n] = ks]
         /\ writer' = [writer EXCEPT ![w].memory = AddTexts(@, [m \in {n} |-> ks]),
                                     ![w].todo = @ \ {n}]
    /\ doubtful' = doubtful \cup ({n} \cap Loaded(w))
    /\ UNCHANGED <<exists, table, jobs, kills, missed, unsure>>

Result(w) ==
    LET c == Current(w) IN
      CASE c.kind = "delete_by_ids" -> DeleteIds(writer[w].memory, Touched(c))
        [] c.kind \in {"multi_create", "update_index"} -> AddTexts(writer[w].memory, c.words)
        [] OTHER -> writer[w].memory

\* multi_create_segment_keywords sets the columns, the next commit writes them.
Columns(c) == IF c.kind = "multi_create" THEN Touched(c) ELSE {}

CommitColumns(c) ==
    keywords' = [n \in Nodes |-> IF n \in Columns(c) THEN c.words[n] ELSE keywords[n]]

Erased(c) == IF c.kind = "delete_by_ids" THEN Touched(c) ELSE {}

Miss(w, S) ==
    missed' = [v \in Writers |-> IF v # w /\ InCall(v) THEN missed[v] \cup S ELSE missed[v]]

\* _save_dataset_keyword_table queries the row anew and overwrites whatever it
\* holds by now.
Save(w) ==
    /\ writer[w].pc = "texts" /\ writer[w].todo = {}
    /\ exists
    /\ table' = Result(w)
    /\ LET c == Current(w) IN
         /\ CommitColumns(c)
         /\ unsure' = (unsure \cup missed[w]) \ Erased(c)
         /\ doubtful' = (doubtful \cup missed[w] \cup (Columns(c) \cap Loaded(w)))
                           \ {n \in Erased(c) : Free(w, n)}
         /\ Miss(w, Touched(c))
    /\ writer' = [writer EXCEPT ![w] = [Resting EXCEPT !.pc = "call", !.calls = Tail(writer[w].calls)]]
    /\ UNCHANGED <<exists, jobs, kills>>

\* The row has gone: self.dataset.dataset_keyword_table is None.  The handler of
\* multi_create_segment commits the columns all the same.
SaveFails(w) ==
    /\ writer[w].pc = "texts" /\ writer[w].todo = {}
    /\ ~exists
    /\ Abort(w)
    /\ CommitColumns(Current(w))
    /\ UNCHANGED kills

EndJob(w) ==
    /\ writer[w].pc = "call" /\ writer[w].calls = <<>>
    /\ writer' = [writer EXCEPT ![w] = Resting]
    /\ UNCHANGED <<exists, table, keywords, jobs, kills, historyVars>>

\* delete(), when an unused dataset is cleaned (commands.py)
DropTable(w) ==
    /\ Idle(w)
    /\ "drop" \in Jobs
    /\ jobs < MaxJobs
    /\ jobs' = jobs + 1
    /\ exists' = FALSE
    /\ table' = Empty
    /\ unsure' = {}
    /\ Miss(w, Nodes)
    /\ doubtful' = {n \in doubtful : ~Free(w, n)}
    /\ UNCHANGED <<keywords, writer, kills>>

Kill(w) ==
    /\ ~Idle(w)
    /\ kills < MaxKills
    /\ kills' = kills + 1
    /\ Abort(w)
    /\ UNCHANGED keywords

-----------------------------------------------------------------------------

StartJob(w) ==
    \/ \E S \in (SUBSET Nodes) \ {{}} :
         \/ \E words \in [S -> WordSets] : IndexTexts(w, words) \/ CreateSegments(w, words)
         \/ Remove(w, S)
    \/ \E n \in Nodes, ks \in WordSets : Rewrite(w, n, ks) \/ Edit(w, n, ks) \/ EditFails(w, n, ks)
    \/ DropTable(w)

RunCall(w) ==
    \/ LoadKeywords(w) \/ ReadTable(w) \/ InsertRow(w) \/ InsertFails(w)
    \/ \E n \in Nodes : AddText(w, n)
    \/ Save(w) \/ SaveFails(w) \/ EndJob(w)

Next == \E w \in Writers : StartJob(w) \/ RunCall(w) \/ Kill(w)

Spec == Init /\ [][Next]_vars

-----------------------------------------------------------------------------
(* Properties *)

AbstractCall(c) ==
    [kind |-> IF c.kind = "delete_by_ids" THEN "delete" ELSE "add", words |-> c.words]

SureEntries == [n \in Nodes |-> IF n \in unsure THEN {} ELSE Entries(table, n)]

OpenCalls == [w \in Writers |-> IF InCall(w) THEN AbstractCall(Current(w)) ELSE NoCall]

Contract == INSTANCE KeywordIndex WITH entries <- SureEntries, open <- OpenCalls

\* The table keeps the promise of KeywordIndex: each call takes effect at its
\* return, on its own nodes alone, except that it may undo what was written
\* between its reading and its writing of the table.
KeepsContract == Contract!Spec

\* The keywords a user sees with a segment are keywords that find it, unless
\* it is not indexed at all: the column and the table, which different commits
\* write, agree once no job is at work on the segment.
ShownKeywordsFind ==
    \A n \in Nodes :
      n \notin doubtful /\ (\A w \in Writers : n \notin Mentioned(w)) =>
        Entries(table, n) = {} \/ keywords[n] \subseteq Entries(table, n)

\* What the API documents of an edit ("<code>enabled</code> (bool) false/true,
\* not required", template.en.mdx:944): given only content and keywords it is
\* carried out, so the keywords shown afterwards find the segment.
EditsAreIndexed ==
    \A n \in Nodes :
      (\A w \in Writers : Idle(w)) =>
        Entries(table, n) = {} \/ keywords[n] \subseteq Entries(table, n)
=============================================================================
