--------------------- MODULE DocumentLifecycle_proofs ---------------------
(***************************************************************************)
(* Theorems about DocumentIndexing that rest on one inductive invariant of *)
(* the life of an undisturbed document: what its rows, its index entries,  *)
(* its status, the requests and tasks that name it and the worker that has *)
(* it have to do with each other at every step (LifeInv).                  *)
(***************************************************************************)
EXTENDS DocumentIndexing_proofs, FiniteSetTheorems

-----------------------------------------------------------------------------
(* The invariant: the rows and entries of an undisturbed document, what is   *)
(* pending of it, and the worker that has it *)

(* The segments of the n-th split of d; S is what one split of d made.  *)
Fresh(d, n) == [doc : {d}, split : {n}, piece : Pieces]

OneSplit(S, d) == \E n \in 1..MaxSplits : S = Fresh(d, n)

(* What the vector index has of d.  *)
Entries(d) == {s \in index : s.doc = d}

(* A request of d is at one of pcs; a task of d of one of kinds is queued.  *)
AtClient(pcs, d) == \E c \in Clients : client[c].pc \in pcs /\ d \in client[c].docs

InQueue(kinds, d) == \E i \in 1..Len(queue) : queue[i].kind \in kinds /\ d \in queue[i].docs

(* An update is to come, whose request has marked the document as waiting.  *)
UpdatePending(d) == AtClient({"update_mark", "update_enqueue"}, d) \/ InQueue({"update"}, d)

(* A task is to come that begins with the document as a whole.  *)
StartPending(d) ==
    AtClient({"upload_enqueue", "update_mark", "update_enqueue"}, d) \/ InQueue({"index", "update"}, d)

(* The clean-up task was sent and the row is about to be deleted.  *)
DeletePending(d) == \E c \in Clients : Request(c, "delete_commit", d)

Deleting(d) == DeletePending(d) \/ status[d] = "deleted"

(* Somebody knows the name of d.  *)
Mentioned(d) ==
    \/ AtClient(ClientPC, d)
    \/ InQueue({"index", "recover", "update", "clean"}, d)

(* The state of a worker: x has d, and is cleaning up after a deletion or    *)
(* for an update.                                                            *)
Has(x, d) == x.doc = d \/ d \in x.batch
Cleaning(x, d) == x.doc = d /\ x.pc \in {"clean_index", "clean_rows"}
Updating(x, d) == x.doc = d /\ x.pc \in {"update_index", "update_rows"}

(* What the worker in state x, which has d at hand, relies on at each pc.    *)
(* Wherever the status says how far d is, d may have been deleted meanwhile. *)
Stage(x, d) ==
    /\ d \notin x.batch
    /\ x.pc \notin {"idle", "next"}
    /\ x.pc \in {"load", "set_splitting"} =>
         status[d] \in {"waiting", "parsing", "splitting", "deleted"} /\ Rows(d) = {}
    /\ x.pc = "split" => status[d] \in {"splitting", "deleted"} /\ Rows(d) = {}
    /\ x.pc \in {"save", "set_indexing"} =>
         /\ status[d] \in {"splitting", "deleted"}
         /\ Entries(d) = {} /\ OneSplit(x.todo, d)
         /\ x.part \subseteq x.todo /\ Rows(d) = x.todo \ x.part
    /\ x.pc = "set_indexing" => x.part = {}
    /\ x.pc = "mark" =>
         /\ status[d] \in {"indexing", "deleted"}
         /\ Entries(d) = {} /\ OneSplit(x.todo, d) /\ Rows(d) = x.todo
    /\ x.pc \in {"collect", "chunk", "embed", "finish", "set_completed"} =>
         /\ status[d] \in {"indexing", "deleted"}
         /\ OneSplit(Rows(d), d)
         /\ \A s \in Rows(d) : segment[s] \in {"indexing", "completed"}
    /\ x.pc \in {"chunk", "embed", "finish", "set_completed"} =>
         /\ x.todo \subseteq Rows(d)
         /\ \A s \in Rows(d) : segment[s] = "indexing" <=> s \in x.todo
    /\ x.pc \in {"embed", "finish"} => x.part \subseteq x.todo
    /\ x.pc = "set_completed" => x.todo = {}
    /\ x.pc = "purge" => status[d] \in {"splitting", "deleted"} /\ Entries(d) = {}
    /\ x.pc \in {"update_index", "update_rows"} => status[d] \in {"parsing", "deleted"}
    /\ x.pc \in {"clean_index", "clean_rows"} => Deleting(d)
    /\ x.pc \in {"update_rows", "clean_rows"} => Entries(d) = {} /\ x.part = Rows(d)

(* What holds of d whoever has it: x is the state of the worker that has d,  *)
(* NoWork if none has.                                                       *)
Settled(x, d) ==
    /\ Entries(d) \subseteq Rows(d)
    /\ \A s \in Rows(d) : segment[s] = "completed" => s \in enabled
    /\ status[d] = "absent" => Rows(d) = {} /\ ~Has(x, d) /\ ~Mentioned(d)
    /\ StartPending(d) =>
         status[d] \in {"waiting", "deleted"} /\ (Has(x, d) => Cleaning(x, d))
    /\ status[d] \in {"waiting", "parsing"} /\ ~UpdatePending(d) /\ ~Updating(x, d) =>
         Rows(d) = {}
    /\ status[d] = "splitting" => Entries(d) = {}
    /\ status[d] = "indexing" /\ ~DeletePending(d) =>
         /\ OneSplit(Rows(d), d)
         /\ \/ x.doc = d /\ x.pc = "mark"
            \/ \A s \in Rows(d) : segment[s] \in {"indexing", "completed"}
    /\ status[d] = "completed" /\ ~DeletePending(d) =>
         OneSplit(Rows(d), d) /\ \A s \in Rows(d) : segment[s] = "completed"
    /\ InQueue({"clean"}, d) => Deleting(d)
    /\ Deleting(d) /\ ~InQueue({"clean"}, d) =>
         (Has(x, d) => Cleaning(x, d)) /\ (Cleaning(x, d) \/ Rows(d) = {})

(* d is in order while it is with a worker in state x.  *)
Fits(x, d) ==
    /\ x.doc = d => Stage(x, d)
    /\ d \in x.batch => status[d] \in {"waiting", "parsing", "deleted"} /\ Rows(d) = {}
    /\ Settled(x, d)

DocumentFits(d) ==
    /\ \A w \in Workers : Holds(w, d) => Fits(worker[w], d)
    /\ (\A w \in Workers : ~Holds(w, d)) => Fits(NoWork, d)

(* Between two tasks, and between two documents, a worker has none at hand.  *)
AtRest(x) ==
    /\ x.pc = "idle" => x.doc = NoDocument /\ x.batch = {}
    /\ x.pc = "next" => x.doc = NoDocument

LifeInv ==
    /\ \A w \in Workers : AtRest(worker[w])
    /\ \A d \in Documents : d \notin disturbed => DocumentFits(d)

-----------------------------------------------------------------------------
(* Requests and tasks that name a document *)

(* What the requests other than c do.  *)
AtOther(c, pcs, d) == \E b \in Clients \ {c} : client[b].pc \in pcs /\ d \in client[b].docs

OtherDeletes(c, d) == \E b \in Clients \ {c} : Request(b, "delete_commit", d)

LEMMA ClientNow ==
    ASSUME NEW c \in Clients, NEW d
    PROVE  /\ \A pcs : AtClient(pcs, d) <=>
                 AtOther(c, pcs, d) \/ (client[c].pc \in pcs /\ d \in client[c].docs)
           /\ DeletePending(d) <=> OtherDeletes(c, d) \/ Request(c, "delete_commit", d)
  BY DEF AtClient, AtOther, DeletePending, OtherDeletes

LEMMA ClientNext ==
    ASSUME TypeOK, NEW c \in Clients, NEW y, client' = [client EXCEPT ![c] = y], NEW d
    PROVE  /\ \A pcs : AtClient(pcs, d)' <=> AtOther(c, pcs, d) \/ (y.pc \in pcs /\ d \in y.docs)
           /\ DeletePending(d)' <=>
                OtherDeletes(c, d) \/ (y.pc = "delete_commit" /\ y.docs = {d})
  BY DEF TypeOK, AtClient, AtOther, DeletePending, OtherDeletes, Request

LEMMA AppendInQueue ==
    ASSUME TypeOK, NEW t \in Task, queue' = Append(queue, t), NEW kinds, NEW d
    PROVE  InQueue(kinds, d)' <=> InQueue(kinds, d) \/ (t.kind \in kinds /\ d \in t.docs)
  <1>1. queue \in Seq(Task)
    BY DEF TypeOK
  <1>2. /\ Len(queue') = Len(queue) + 1
        /\ \A i \in 1..Len(queue) : queue'[i] = queue[i]
        /\ queue'[Len(queue) + 1] = t
        /\ Len(queue) \in Nat
    BY <1>1
  <1>3. QED
    BY <1>2 DEF InQueue

LEMMA TailInQueue ==
    ASSUME TypeOK, queue # <<>>, queue' = Tail(queue), NEW kinds, NEW d
    PROVE  /\ InQueue(kinds, d)' <=>
                \E i \in 2..Len(queue) : queue[i].kind \in kinds /\ d \in queue[i].docs
           /\ InQueue(kinds, d) <=>
                InQueue(kinds, d)' \/ (Head(queue).kind \in kinds /\ d \in Head(queue).docs)
  <1>1. queue \in Seq(Task)
    BY DEF TypeOK
  <1>2. /\ Len(queue') = Len(queue) - 1
        /\ \A i \in 1..Len(queue) - 1 : queue'[i] = queue[i + 1]
        /\ Head(queue) = queue[1]
        /\ Len(queue) \in Nat \ {0}
    BY <1>1
  <1>3. InQueue(kinds, d)' <=>
          \E i \in 2..Len(queue) : queue[i].kind \in kinds /\ d \in queue[i].docs
    <2>1. ASSUME NEW i \in 1..Len(queue'), queue'[i].kind \in kinds, d \in queue'[i].docs
          PROVE  \E j \in 2..Len(queue) : queue[j].kind \in kinds /\ d \in queue[j].docs
      <3>1. i + 1 \in 2..Len(queue) /\ queue'[i] = queue[i + 1]
        BY <1>2
      <3>2. QED
        BY <2>1, <3>1
    <2>2. ASSUME NEW j \in 2..Len(queue), queue[j].kind \in kinds, d \in queue[j].docs
          PROVE  InQueue(kinds, d)'
      <3>1. j - 1 \in 1..Len(queue') /\ queue'[j - 1] = queue[j]
        BY <1>2
      <3>2. QED
        BY <2>2, <3>1 DEF InQueue
    <2>3. QED
      BY <2>1, <2>2 DEF InQueue
  <1>4. InQueue(kinds, d) <=>
          \/ Head(queue).kind \in kinds /\ d \in Head(queue).docs
          \/ \E i \in 2..Len(queue) : queue[i].kind \in kinds /\ d \in queue[i].docs
    BY <1>2 DEF InQueue
  <1>5. QED
    BY <1>3, <1>4

-----------------------------------------------------------------------------
(* Documents that a step leaves alone *)

SameRows(d) ==
    /\ status'[d] = status[d]
    /\ Rows(d)' = Rows(d)
    /\ Entries(d)' = Entries(d)
    /\ \A s \in Rows(d) : segment'[s] = segment[s] /\ (s \in enabled => s \in enabled')

SamePending(d) ==
    /\ StartPending(d)' <=> StartPending(d)
    /\ UpdatePending(d)' <=> UpdatePending(d)
    /\ DeletePending(d)' <=> DeletePending(d)
    /\ InQueue({"clean"}, d)' <=> InQueue({"clean"}, d)
    /\ Mentioned(d)' <=> Mentioned(d)

LEMMA RowsUntouched ==
    ASSUME NEW d, status'[d] = status[d],
           index \subseteq Segment, index' \subseteq Segment,
           \A s \in Segment : s.doc = d =>
             /\ segment'[s] = segment[s]
             /\ s \in enabled => s \in enabled'
             /\ s \in index' <=> s \in index
    PROVE  SameRows(d)
  <1>1. Rows(d)' = Rows(d)
    BY DEF Rows
  <1>2. Entries(d)' = Entries(d)
    BY DEF Entries
  <1>3. \A s \in Rows(d) : segment'[s] = segment[s] /\ (s \in enabled => s \in enabled')
    BY DEF Rows
  <1>4. QED
    BY <1>1, <1>2, <1>3 DEF SameRows

LEMMA NothingPending ==
    ASSUME UNCHANGED <<client, queue>>, NEW d
    PROVE  SamePending(d)
  BY DEF SamePending, StartPending, UpdatePending, DeletePending, Mentioned, AtClient, InQueue, Request

(* The worker may also let go of a document that is still in its batch. *)
LEMMA FitsFrame ==
    ASSUME NEW d, NEW x, NEW y, Fits(x, d), SameRows(d), SamePending(d),
           y = x \/ (x.doc # d /\ y.doc # d /\ (d \in y.batch => d \in x.batch))
    PROVE  Fits(y, d)'
  <1>1. Deleting(d)' <=> Deleting(d)
    BY DEF Deleting, SameRows, SamePending
  <1>2. Settled(y, d)'
    BY <1>1 DEF Fits, Settled, SameRows, SamePending, Has, Cleaning, Updating
  <1>3. y.doc = d => Stage(y, d)'
    BY <1>1 DEF Fits, Stage, SameRows
  <1>4. d \in y.batch => (status[d] \in {"waiting", "parsing", "deleted"} /\ Rows(d) = {})'
    BY DEF Fits, SameRows
  <1>5. QED
    BY <1>2, <1>3, <1>4 DEF Fits

LEMMA FitsWithout ==
    ASSUME NEW d, NEW x, NEW y, Fits(x, d), ~Has(x, d), ~Has(y, d)
    PROVE  Fits(y, d)
  BY DEF Fits, Settled, Has, Cleaning, Updating

LEMMA FitsWithoutNext ==
    ASSUME NEW d, NEW x, NEW y, Fits(x, d)', ~Has(x, d), ~Has(y, d)
    PROVE  Fits(y, d)'
  BY DEF Fits, Settled, Has, Cleaning, Updating

(* What is known of a document that no other worker has. *)
LEMMA FitsNow ==
    ASSUME NEW w \in Workers, NEW d \in Documents, DocumentFits(d),
           \A v \in Workers \ {w} : ~Holds(v, d)
    PROVE  Fits(worker[w], d)
  <1>1. CASE Holds(w, d)
    BY <1>1 DEF DocumentFits
  <1>2. CASE ~Holds(w, d)
    <2>1. Fits(NoWork, d)
      BY <1>2 DEF DocumentFits
    <2>2. ~Has(NoWork, d) /\ ~Has(worker[w], d)
      BY <1>2, NoDocumentAssumption DEF Has, Holds, NoWork
    <2>3. QED
      BY <2>1, <2>2, FitsWithout
  <1>3. QED
    BY <1>1, <1>2

LEMMA FitsNext ==
    ASSUME NEW w \in Workers, NEW d \in Documents, NEW new, worker \in [Workers -> WorkerState],
           worker' = [worker EXCEPT ![w] = new],
           \A v \in Workers \ {w} : ~Holds(v, d),
           Fits(new, d)'
    PROVE  DocumentFits(d)'
  <1>1. worker'[w] = new /\ \A v \in Workers \ {w} : worker'[v] = worker[v]
    OBVIOUS
  <1>2. \A v \in Workers \ {w} : ~Holds(v, d)'
    BY <1>1 DEF Holds
  <1>3. Holds(w, d)' <=> Has(new, d)
    BY <1>1 DEF Holds, Has
  <1>4. ~Has(new, d) => Fits(NoWork, d)'
    <2>1. ~Has(NoWork, d)
      BY NoDocumentAssumption DEF Has, NoWork
    <2>2. QED
      BY <2>1, FitsWithoutNext
  <1>5. \A v \in Workers : Holds(v, d)' => v = w
    BY <1>2
  <1>6. \A v \in Workers : Holds(v, d)' => Fits(worker[v], d)'
    BY <1>1, <1>5 DEF Fits, Stage, Settled, Has, Cleaning, Updating
  <1>7. (\A v \in Workers : ~Holds(v, d)') => Fits(NoWork, d)'
    BY <1>3, <1>4
  <1>8. QED
    BY <1>6, <1>7 DEF DocumentFits

-----------------------------------------------------------------------------
(* Steps of a worker.  Each goes on from the state old to the state new with *)
(* the document e; what it must show is that e is in order afterwards.       *)

Moves(w, old, new) ==
    /\ worker[w] = old
    /\ worker' = [worker EXCEPT ![w] = new]
    /\ UNCHANGED <<client, queue>>

(* Whoever has d now had it before, in the same state.  *)
LEMMA SameHolderFits ==
    ASSUME TypeOK, NEW d \in Documents, DocumentFits(d),
           \A v \in Workers : worker'[v] = worker[v] \/ (~Holds(v, d) /\ ~Holds(v, d)'),
           \A x \in WorkerState : Fits(x, d) => Fits(x, d)'
    PROVE  DocumentFits(d)'
  <1>1. \A v \in Workers : Holds(v, d)' <=> Holds(v, d)
    BY DEF Holds
  <1>2. ASSUME NEW v \in Workers, Holds(v, d)'
        PROVE  Fits(worker[v], d)'
    <2>1. Holds(v, d)
      BY <1>1, <1>2
    <2>2. PICK x \in WorkerState : x = worker[v]
      BY DEF TypeOK
    <2>3. Fits(x, d)
      BY <2>1, <2>2 DEF DocumentFits
    <2>4. Fits(x, d)'
      BY <2>3
    <2>5. worker'[v] = x
      BY <1>2, <2>1, <2>2
    <2>6. QED
      BY <2>4, <2>5 DEF Fits, Stage, Settled, Has, Cleaning, Updating
  <1>3. (\A v \in Workers : ~Holds(v, d)') => Fits(NoWork, d)'
    <2>1. NoWork \in WorkerState
      BY DEF NoWork, WorkerState, WorkerPC
    <2>2. QED
      BY <1>1, <2>1 DEF DocumentFits
  <1>4. QED
    BY <1>2, <1>3 DEF DocumentFits

LEMMA FrameFits ==
    ASSUME IndexInv, NEW w \in Workers, NEW old \in WorkerState, NEW new \in WorkerState,
           Moves(w, old, new), NEW d \in Documents, d \notin disturbed, DocumentFits(d),
           SameRows(d), old.doc # d, new.doc # d, d \in new.batch => d \in old.batch
    PROVE  DocumentFits(d)'
  <1>0. /\ worker \in [Workers -> WorkerState] /\ worker[w] = old
        /\ worker' = [worker EXCEPT ![w] = new]
        /\ worker'[w] = new /\ \A v \in Workers \ {w} : worker'[v] = worker[v]
    BY DEF Moves, IndexInv, TypeOK
  <1>1. SamePending(d)
    BY NothingPending DEF Moves
  <1>2. CASE Has(old, d)
    <2>1. \A v \in Workers \ {w} : ~Holds(v, d)
      BY <1>0, <1>2 DEF IndexInv, OneWorkerPerDocument, Has, Holds
    <2>2. Fits(old, d)
      BY <1>0, <2>1, FitsNow
    <2>3. Fits(new, d)'
      BY <1>1, <2>2, FitsFrame
    <2>4. QED
      BY <1>0, <2>1, <2>3, FitsNext
  <1>3. CASE ~Has(old, d)
    <2>1. ~Has(new, d)
      BY <1>3 DEF Has
    <2>2. \A v \in Workers : worker'[v] = worker[v] \/ (~Holds(v, d) /\ ~Holds(v, d)')
      BY <1>0, <1>3, <2>1 DEF Holds, Has
    <2>3. \A x : Fits(x, d) => Fits(x, d)'
      BY <1>1, FitsFrame
    <2>4. QED
      BY <2>2, <2>3, SameHolderFits DEF IndexInv
  <1>4. QED
    BY <1>2, <1>3

LEMMA MoveRests ==
    ASSUME IndexInv, LifeInv, NEW w \in Workers, NEW old, NEW new,
           Moves(w, old, new), AtRest(new)
    PROVE  \A v \in Workers : AtRest(worker[v])'
  BY DEF IndexInv, TypeOK, LifeInv, Moves, AtRest

(* A step that touches no undisturbed document but may let go of some.  *)
LEMMA FrameLifeInv ==
    ASSUME IndexInv, LifeInv, NEW w \in Workers, NEW old \in WorkerState, NEW new \in WorkerState,
           Moves(w, old, new), AtRest(new), disturbed \subseteq disturbed',
           \A d \in Documents : d \notin disturbed' =>
             /\ SameRows(d)
             /\ old.doc # d /\ new.doc # d
             /\ d \in new.batch => d \in old.batch
    PROVE  LifeInv'
  <1>1. \A v \in Workers : AtRest(worker[v])'
    BY MoveRests
  <1>2. ASSUME NEW d \in Documents, d \notin disturbed'
        PROVE  DocumentFits(d)'
    <2>1. DocumentFits(d) /\ d \notin disturbed
      BY <1>2 DEF LifeInv
    <2>2. SameRows(d) /\ old.doc # d /\ new.doc # d /\ (d \in new.batch => d \in old.batch)
      BY <1>2
    <2>3. QED
      BY <2>1, <2>2, FrameFits
  <1>3. QED
    BY <1>1, <1>2 DEF LifeInv

LEMMA MoveFits ==
    ASSUME IndexInv, LifeInv, NEW w \in Workers, NEW old \in WorkerState, NEW new \in WorkerState,
           Moves(w, old, new), AtRest(new), NEW e \in Documents, Has(old, e),
           disturbed \subseteq disturbed',
           \A d \in Documents \ {e} :
             /\ SameRows(d)
             /\ old.doc # d /\ new.doc # d
             /\ d \in new.batch => d \in old.batch,
           e \notin disturbed' /\ Fits(old, e) /\ SamePending(e) => Fits(new, e)'
    PROVE  LifeInv'
  <1>1. \A v \in Workers : AtRest(worker[v])'
    BY MoveRests
  <1>2. ASSUME NEW d \in Documents, d \notin disturbed'
        PROVE  DocumentFits(d)'
    <2>1. DocumentFits(d) /\ d \notin disturbed
      BY <1>2 DEF LifeInv
    <2>2. CASE d = e
      <3>1. /\ worker \in [Workers -> WorkerState] /\ worker[w] = old
            /\ worker' = [worker EXCEPT ![w] = new]
        BY DEF Moves, IndexInv, TypeOK
      <3>2. \A v \in Workers \ {w} : ~Holds(v, d)
        BY <2>1, <2>2, <3>1 DEF IndexInv, OneWorkerPerDocument, Has, Holds
      <3>3. Fits(old, d)
        BY <2>1, <3>1, <3>2, FitsNow
      <3>4. SamePending(d)
        BY NothingPending DEF Moves
      <3>5. Fits(new, d)'
        BY <1>2, <2>2, <3>3, <3>4
      <3>6. QED
        BY <3>1, <3>2, <3>5, FitsNext
    <2>3. CASE d # e
      <3>1. SameRows(d) /\ old.doc # d /\ new.doc # d /\ (d \in new.batch => d \in old.batch)
        BY <2>3
      <3>2. QED
        BY <2>1, <3>1, FrameFits
    <2>4. QED
      BY <2>2, <2>3
  <1>3. QED
    BY <1>1, <1>2 DEF LifeInv

LEMMA RunFits ==
    ASSUME IndexInv, LifeInv, TypeOK', NEW w \in Workers,
           NEW old \in WorkerState, NEW new \in WorkerState, NEW e \in Documents,
           worker[w] = old, WorkerSet(w, new), AtRest(new),
           old.doc = e, new.doc \in {e, NoDocument}, new.batch \subseteq old.batch \cup {e},
           disturbed \subseteq disturbed',
           \A d \in Documents \ {e} : status'[d] = status[d],
           \A s \in Segment : s.doc # e =>
             /\ segment'[s] = segment[s]
             /\ s \in enabled => s \in enabled'
             /\ s \in index' <=> s \in index,
           e \notin disturbed' /\ Fits(old, e) /\ SamePending(e) => Fits(new, e)'
    PROVE  LifeInv'
  <1>1. Moves(w, old, new)
    BY DEF Moves, WorkerSet
  <1>2. \A d \in Documents \ {e} : SameRows(d)
    <2> SUFFICES ASSUME NEW d \in Documents \ {e}
                 PROVE  SameRows(d)
      OBVIOUS
    <2>1. index \subseteq Segment /\ index' \subseteq Segment
      BY DEF IndexInv, TypeOK
    <2>2. QED
      BY <2>1, RowsUntouched
  <1>3. \A d \in Documents \ {e} :
          old.doc # d /\ new.doc # d /\ (d \in new.batch => d \in old.batch)
    BY NoDocumentAssumption
  <1>4. \A d \in Documents \ {e} :
          /\ SameRows(d)
          /\ old.doc # d /\ new.doc # d
          /\ d \in new.batch => d \in old.batch
    BY <1>2, <1>3
  <1>5. Has(old, e)
    BY DEF Has
  <1>6. QED
    BY <1>1, <1>4, <1>5, MoveFits

(* A step that leaves every row and index entry as it is.  *)
LEMMA RunFitsQuietly ==
    ASSUME IndexInv, LifeInv, TypeOK', NEW w \in Workers,
           NEW old \in WorkerState, NEW new \in WorkerState, NEW e \in Documents,
           worker[w] = old, WorkerSet(w, new), AtRest(new),
           old.doc = e, new.doc \in {e, NoDocument}, new.batch \subseteq old.batch \cup {e},
           UNCHANGED <<segment, enabled, index, disturbed>>,
           \A d \in Documents \ {e} : status'[d] = status[d],
           /\ Fits(old, e) /\ SamePending(e)
           /\ Rows(e)' = Rows(e) /\ Entries(e)' = Entries(e)
           => Fits(new, e)'
    PROVE  LifeInv'
  <1>1. Rows(e)' = Rows(e) /\ Entries(e)' = Entries(e)
    BY DEF Rows, Entries
  <1>2. QED
    BY <1>1, RunFits

LEMMA LetGoFits ==
    ASSUME IndexInv, LifeInv, TypeOK', NEW w \in Workers, Release(w),
           NEW old \in WorkerState, NEW e \in Documents, worker[w] = old, old.doc = e,
           Fits(old, e) /\ SamePending(e) /\ SameRows(e) => Fits(NoWork, e)'
    PROVE  LifeInv'
  <1>1. NoWork \in WorkerState /\ WorkerSet(w, NoWork) /\ disturbed \subseteq disturbed'
    BY WorkerStates DEF IndexInv, Release
  <1>2. AtRest(NoWork) /\ NoWork.doc = NoDocument /\ NoWork.batch = {}
    BY DEF AtRest, NoWork
  <1>3. UNCHANGED <<status, segment, enabled, index, disturbed>>
    BY DEF Release
  <1>4. SameRows(e)
    BY <1>3, RowsUntouched DEF IndexInv, TypeOK
  <1>5. QED
    BY <1>1, <1>2, <1>3, <1>4, RunFits

LEMMA RunStartLifeInv ==
    ASSUME IndexInv, LifeInv, TypeOK', NEW w \in Workers, NEW e \in Documents,
           \/ Load(w, e) \/ SetSplitting(w, e) \/ Split(w, e) \/ EndSplit(w, e)
           \/ SetIndexing(w, e)
    PROVE  LifeInv'
  <1>0. PICK old \in WorkerState : worker[w] = old
    BY DEF IndexInv, TypeOK
  <1>1. status \in [Documents -> Status] /\ e # NoDocument
    BY NoDocumentAssumption DEF IndexInv, TypeOK
  <1> USE DEF At
  <1>2. CASE Load(w, e)
    <2> DEFINE new == [old EXCEPT !.pc = "set_splitting"]
    <2>1. /\ new \in WorkerState /\ AtRest(new)
          /\ new.pc = "set_splitting" /\ new.doc = e /\ new.batch = old.batch
          /\ old.pc = "load" /\ old.doc = e
      BY <1>0, <1>2 DEF Load, WorkerState, WorkerPC, AtRest
    <2>2. /\ WorkerSet(w, new)
          /\ UNCHANGED <<status, segment, enabled, index, disturbed>>
      BY <1>0, <1>2 DEF Load, GoTo
    <2> HIDE DEF new
    <2>3. /\ Fits(old, e) /\ SamePending(e)
          /\ Rows(e)' = Rows(e) /\ Entries(e)' = Entries(e)
          => Fits(new, e)'
      BY <2>1, <2>2 DEF Fits, Stage, Settled, SamePending, Has, Cleaning, Updating, Deleting
    <2>4. QED
      BY <1>0, <2>1, <2>2, <2>3, RunFitsQuietly
  <1>3. CASE SetSplitting(w, e)
    <2> DEFINE new == [old EXCEPT !.pc = "split"]
    <2>1. /\ new \in WorkerState /\ AtRest(new)
          /\ new.pc = "split" /\ new.doc = e /\ new.batch = old.batch
          /\ old.pc = "set_splitting" /\ old.doc = e
      BY <1>0, <1>3 DEF SetSplitting, WorkerState, WorkerPC, AtRest
    <2>2. /\ WorkerSet(w, new)
          /\ UNCHANGED <<segment, enabled, index, disturbed>>
          /\ \A d \in Documents \ {e} : status'[d] = status[d]
          /\ status'[e] = IF Exists(e) THEN "splitting" ELSE status[e]
      BY <1>0, <1>1, <1>3 DEF SetSplitting, GoTo, WriteStatus
    <2> HIDE DEF new
    <2>3. /\ Fits(old, e) /\ SamePending(e)
          /\ Rows(e)' = Rows(e) /\ Entries(e)' = Entries(e)
          => Fits(new, e)'
      BY <2>1, <2>2
         DEF Fits, Stage, Settled, SamePending, Has, Cleaning, Updating, Deleting, Exists
    <2>4. QED
      BY <1>0, <2>1, <2>2, <2>3, RunFitsQuietly
  <1>4. CASE Split(w, e)
    <2>0. splits[e] + 1 \in 1..MaxSplits
      BY <1>4, BoundsAssumption DEF Split, IndexInv, TypeOK
    <2>1. PICK S : S = Fresh(e, splits[e] + 1)
      OBVIOUS
    <2>2. OneSplit(S, e)
      BY <2>0, <2>1 DEF OneSplit
    <2>3. S \subseteq Segment
      BY <2>0, <2>1 DEF Fresh, Segment
    <2> DEFINE new == [old EXCEPT !.pc = "save", !.todo = S, !.part = S]
    <2>4. /\ WorkerSet(w, new)
          /\ UNCHANGED <<status, segment, enabled, index, disturbed>>
          /\ old.pc = "split" /\ old.doc = e
      BY <1>0, <1>4, <2>1 DEF Split, Fresh
    <2>5. /\ new \in WorkerState /\ AtRest(new)
          /\ new.pc = "save" /\ new.doc = e /\ new.batch = old.batch
          /\ new.todo = S /\ new.part = S
      BY <2>3, <2>4 DEF WorkerState, WorkerPC, AtRest
    <2> HIDE DEF new
    <2>6. /\ Fits(old, e) /\ SamePending(e)
          /\ Rows(e)' = Rows(e) /\ Entries(e)' = Entries(e)
          => Fits(new, e)'
      BY <2>2, <2>4, <2>5 DEF Fits, Stage, Settled, SamePending, Has, Cleaning, Updating, Deleting
    <2>7. QED
      BY <1>0, <2>4, <2>5, <2>6, RunFitsQuietly
  <1>5. CASE EndSplit(w, e)
    <2> DEFINE new == [old EXCEPT !.pc = "set_indexing"]
    <2>1. /\ new \in WorkerState /\ AtRest(new)
          /\ new.pc = "set_indexing" /\ new.doc = e /\ new.batch = old.batch
          /\ new.todo = old.todo /\ new.part = old.part
          /\ old.pc = "save" /\ old.doc = e /\ old.part = {}
      BY <1>0, <1>5 DEF EndSplit, WorkerState, WorkerPC, AtRest
    <2>2. /\ WorkerSet(w, new)
          /\ UNCHANGED <<status, segment, enabled, index, disturbed>>
      BY <1>0, <1>5 DEF EndSplit, GoTo
    <2> HIDE DEF new
    <2>3. /\ Fits(old, e) /\ SamePending(e)
          /\ Rows(e)' = Rows(e) /\ Entries(e)' = Entries(e)
          => Fits(new, e)'
      BY <2>1, <2>2 DEF Fits, Stage, Settled, SamePending, Has, Cleaning, Updating, Deleting
    <2>4. QED
      BY <1>0, <2>1, <2>2, <2>3, RunFitsQuietly
  <1>6. CASE SetIndexing(w, e)
    <2> DEFINE new == [old EXCEPT !.pc = "mark"]
    <2>1. /\ new \in WorkerState /\ AtRest(new)
          /\ new.pc = "mark" /\ new.doc = e /\ new.batch = old.batch
          /\ new.todo = old.todo /\ new.part = old.part
          /\ old.pc = "set_indexing" /\ old.doc = e
      BY <1>0, <1>6 DEF SetIndexing, WorkerState, WorkerPC, AtRest
    <2>2. /\ WorkerSet(w, new)
          /\ UNCHANGED <<segment, enabled, index, disturbed>>
          /\ \A d \in Documents \ {e} : status'[d] = status[d]
          /\ status'[e] = IF Exists(e) THEN "indexing" ELSE status[e]
      BY <1>0, <1>1, <1>6 DEF SetIndexing, GoTo, WriteStatus
    <2> HIDE DEF new
    <2>3. /\ Fits(old, e) /\ SamePending(e)
          /\ Rows(e)' = Rows(e) /\ Entries(e)' = Entries(e)
          => Fits(new, e)'
      BY SMTT(30), <2>1, <2>2
         DEF Fits, Stage, Settled, SamePending, Has, Cleaning, Updating, Deleting, Exists
    <2>4. QED
      BY <1>0, <2>1, <2>2, <2>3, RunFitsQuietly
  <1>7. QED
    BY <1>2, <1>3, <1>4, <1>5, <1>6

LEMMA SaveSegmentLifeInv ==
    ASSUME IndexInv, LifeInv, TypeOK', NEW w \in Workers, NEW s \in Segment, SaveSegment(w, s)
    PROVE  LifeInv'
  <1>0. PICK old \in WorkerState : worker[w] = old
    BY DEF IndexInv, TypeOK
  <1>1. old.pc = "save" /\ s \in old.part /\ s.doc = old.doc
    BY <1>0 DEF SaveSegment, At, IndexInv, WorkersOwn, Owns
  <1>2. PICK e \in Documents : e = old.doc
    BY <1>1 DEF Segment
  <1> DEFINE new == [old EXCEPT !.part = @ \ {s}]
  <1>3. /\ new \in WorkerState /\ AtRest(new)
        /\ new.pc = "save" /\ new.doc = e /\ new.batch = old.batch
        /\ new.todo = old.todo /\ new.part = old.part \ {s}
    BY <1>1, <1>2 DEF WorkerState, AtRest
  <1>4. /\ WorkerSet(w, new)
        /\ UNCHANGED <<status, enabled, index, disturbed>>
        /\ segment' = SegmentsSet({s}, "waiting")
    BY <1>0 DEF SaveSegment
  <1> HIDE DEF new
  <1>5. \A t \in Segment : segment'[t] = IF t = s THEN "waiting" ELSE segment[t]
    BY <1>4 DEF SegmentsSet
  <1>6. Rows(e)' = Rows(e) \cup {s} /\ Entries(e)' = Entries(e)
    BY <1>1, <1>2, <1>4, <1>5 DEF Rows, Entries
  <1>7. Fits(old, e) /\ SamePending(e) => Fits(new, e)'
    <2> SUFFICES ASSUME Fits(old, e), SamePending(e)
                 PROVE  Fits(new, e)'
      OBVIOUS
    <2>1. s \in old.todo /\ Rows(e)' = new.todo \ new.part
      BY <1>1, <1>2, <1>3, <1>6 DEF Fits, Stage
    <2>2. Stage(new, e)'
      BY <1>1, <1>2, <1>3, <1>4, <1>6, <2>1 DEF Fits, Stage
    <2>3. \A t \in Rows(e)' : segment'[t] = "completed" => t \in Rows(e) /\ segment[t] = "completed"
      BY <1>5, <1>6 DEF Rows
    <2>4. /\ status[e] \in {"splitting", "deleted"}
          /\ Deleting(e) => InQueue({"clean"}, e)
          /\ Entries(e) = {} /\ ~StartPending(e)
      BY <1>1, <1>2 DEF Fits, Stage, Settled, Has, Cleaning
    <2>5. Settled(new, e)'
      BY <1>1, <1>2, <1>3, <1>4, <1>6, <2>3, <2>4
         DEF Fits, Settled, SamePending, Has, Cleaning, Updating, Deleting
    <2>6. QED
      BY <1>1, <1>2, <1>3, <2>2, <2>5 DEF Fits, Stage
  <1>8. \A t \in Segment : t.doc # e => segment'[t] = segment[t]
    BY <1>1, <1>2, <1>5
  <1>9. QED
    BY <1>0, <1>2, <1>3, <1>4, <1>7, <1>8, RunFits

LEMMA MarkSegmentsLifeInv ==
    ASSUME IndexInv, LifeInv, TypeOK', NEW w \in Workers, NEW e \in Documents, MarkSegments(w, e)
    PROVE  LifeInv'
  <1>0. PICK old \in WorkerState : worker[w] = old
    BY DEF IndexInv, TypeOK
  <1> DEFINE new == [old EXCEPT !.pc = "chunk"]
  <1>1. /\ new \in WorkerState /\ AtRest(new)
        /\ new.pc = "chunk" /\ new.doc = e /\ new.batch = old.batch
        /\ new.todo = old.todo /\ new.part = old.part
        /\ old.pc = "mark" /\ old.doc = e /\ Exists(e)
    BY <1>0 DEF MarkSegments, At, WorkerState, WorkerPC, AtRest
  <1>2. /\ WorkerSet(w, new)
        /\ UNCHANGED <<status, enabled, index, disturbed>>
        /\ segment' = SegmentsSet(Rows(e), "indexing")
    BY <1>0 DEF MarkSegments, GoTo
  <1> HIDE DEF new
  <1>3. \A t \in Segment : segment'[t] = IF t \in Rows(e) THEN "indexing" ELSE segment[t]
    BY <1>2 DEF SegmentsSet
  <1>4. Rows(e)' = Rows(e) /\ Entries(e)' = Entries(e)
    BY <1>2, <1>3 DEF Rows, Entries
  <1>5. \A t \in Rows(e)' : segment'[t] = "indexing"
    BY <1>3, <1>4 DEF Rows
  <1>6. Fits(old, e) /\ SamePending(e) => Fits(new, e)'
    BY <1>1, <1>2, <1>4, <1>5
       DEF Fits, Stage, Settled, SamePending, Has, Cleaning, Updating, Deleting, Exists
  <1>7. \A t \in Segment : t.doc # e => segment'[t] = segment[t]
    BY <1>3 DEF Rows
  <1>8. QED
    BY <1>0, <1>1, <1>2, <1>6, <1>7, RunFits

LEMMA BuildLifeInv ==
    ASSUME IndexInv, LifeInv, TypeOK', NEW w \in Workers, NEW e \in Documents,
           \/ CollectSegments(w, e) \/ BeginChunk(w, e) \/ EndBuild(w, e) \/ SetCompleted(w, e)
    PROVE  LifeInv'
  <1>0. PICK old \in WorkerState : worker[w] = old
    BY DEF IndexInv, TypeOK
  <1>1. status \in [Documents -> Status] /\ e # NoDocument
    BY NoDocumentAssumption DEF IndexInv, TypeOK
  <1>2. UNCHANGED <<segment, enabled, index, disturbed>> /\ old.doc = e
    BY <1>0 DEF CollectSegments, BeginChunk, EndBuild, SetCompleted
  <1>3. CASE CollectSegments(w, e)
    <2>1. PICK S : S = {s \in Rows(e) : segment[s] # "completed"}
      OBVIOUS
    <2> DEFINE new == [old EXCEPT !.pc = "chunk", !.todo = S]
    <2>2. S \subseteq Segment /\ old.pc = "collect" /\ WorkerSet(w, new) /\ UNCHANGED status
      BY <1>0, <1>3, <2>1 DEF CollectSegments, At, Rows
    <2>3. /\ new \in WorkerState /\ AtRest(new)
          /\ new.pc = "chunk" /\ new.doc = e /\ new.batch = old.batch
          /\ new.todo = S /\ new.part = old.part
      BY <1>2, <2>2 DEF WorkerState, WorkerPC, AtRest
    <2> HIDE DEF new
    <2>4. /\ Fits(old, e) /\ SamePending(e)
          /\ Rows(e)' = Rows(e) /\ Entries(e)' = Entries(e)
          => Fits(new, e)'
      BY <1>2, <2>1, <2>2, <2>3
         DEF Fits, Stage, Settled, SamePending, Has, Cleaning, Updating, Deleting
    <2>5. QED
      BY <1>0, <1>2, <2>2, <2>3, <2>4, RunFitsQuietly
  <1>4. CASE BeginChunk(w, e)
    <2>1. PICK C \in Chunks(old.todo) : WorkerSet(w, [old EXCEPT !.pc = "embed", !.part = C])
      BY <1>0, <1>4 DEF BeginChunk
    <2> DEFINE new == [old EXCEPT !.pc = "embed", !.part = C]
    <2>2. C \subseteq old.todo /\ old.pc = "chunk" /\ UNCHANGED status
      BY <1>0, <1>4, <2>1 DEF BeginChunk, At, Chunks
    <2>3. /\ new \in WorkerState /\ AtRest(new)
          /\ new.pc = "embed" /\ new.doc = e /\ new.batch = old.batch
          /\ new.todo = old.todo /\ new.part = C
      BY <1>2, <2>2 DEF WorkerState, WorkerPC, AtRest
    <2>4. WorkerSet(w, new)
      BY <2>1
    <2> HIDE DEF new
    <2>5. /\ Fits(old, e) /\ SamePending(e)
          /\ Rows(e)' = Rows(e) /\ Entries(e)' = Entries(e)
          => Fits(new, e)'
      BY <1>2, <2>2, <2>3
         DEF Fits, Stage, Settled, SamePending, Has, Cleaning, Updating, Deleting
    <2>6. QED
      BY <1>0, <1>2, <2>2, <2>3, <2>4, <2>5, RunFitsQuietly
  <1>5. CASE EndBuild(w, e)
    <2> DEFINE new == [old EXCEPT !.pc = "set_completed"]
    <2>1. /\ new \in WorkerState /\ AtRest(new)
          /\ new.pc = "set_completed" /\ new.doc = e /\ new.batch = old.batch
          /\ new.todo = old.todo /\ new.part = old.part
          /\ old.pc = "chunk" /\ old.todo = {}
      BY <1>0, <1>2, <1>5 DEF EndBuild, At, WorkerState, WorkerPC, AtRest
    <2>2. WorkerSet(w, new) /\ UNCHANGED status
      BY <1>0, <1>5 DEF EndBuild, GoTo
    <2> HIDE DEF new
    <2>3. /\ Fits(old, e) /\ SamePending(e)
          /\ Rows(e)' = Rows(e) /\ Entries(e)' = Entries(e)
          => Fits(new, e)'
      BY <1>2, <2>1, <2>2
         DEF Fits, Stage, Settled, SamePending, Has, Cleaning, Updating, Deleting
    <2>4. QED
      BY <1>0, <1>2, <2>1, <2>2, <2>3, RunFitsQuietly
  <1>6. CASE SetCompleted(w, e)
    <2> DEFINE new == [old EXCEPT !.pc = "next", !.doc = NoDocument, !.todo = {}, !.part = {}]
    <2>1. /\ new \in WorkerState /\ AtRest(new)
          /\ new.pc = "next" /\ new.doc = NoDocument /\ new.batch = old.batch
          /\ old.pc = "set_completed"
      BY <1>0, <1>6 DEF SetCompleted, At, WorkerState, WorkerPC, AtRest
    <2>2. /\ WorkerSet(w, new)
          /\ \A d \in Documents \ {e} : status'[d] = status[d]
          /\ status'[e] = IF Exists(e) THEN "completed" ELSE status[e]
      BY <1>0, <1>1, <1>6 DEF SetCompleted, EndDocument, WriteStatus
    <2> HIDE DEF new
    <2>3. /\ Fits(old, e) /\ SamePending(e)
          /\ Rows(e)' = Rows(e) /\ Entries(e)' = Entries(e)
          => Fits(new, e)'
      BY <1>1, <1>2, <2>1, <2>2
         DEF Fits, Stage, Settled, SamePending, Has, Cleaning, Updating, Deleting, Exists
    <2>4. QED
      BY <1>0, <1>2, <2>1, <2>2, <2>3, RunFitsQuietly
  <1>7. QED
    BY <1>3, <1>4, <1>5, <1>6

LEMMA AddTextsLifeInv ==
    ASSUME IndexInv, LifeInv, TypeOK', NEW w \in Workers, AddTexts(w)
    PROVE  LifeInv'
  <1>0. PICK old \in WorkerState : worker[w] = old
    BY DEF IndexInv, TypeOK
  <1> DEFINE new == [old EXCEPT !.pc = "finish"]
  <1>1. /\ old.pc = "embed" /\ WorkerSet(w, new) /\ index' = index \cup old.part
        /\ UNCHANGED <<status, segment, enabled, disturbed>>
    BY <1>0 DEF AddTexts, At, GoTo
  <1>2. /\ new \in WorkerState /\ AtRest(new)
        /\ new.pc = "finish" /\ new.doc = old.doc /\ new.batch = old.batch
        /\ new.todo = old.todo /\ new.part = old.part
    BY <1>1 DEF WorkerState, WorkerPC, AtRest
  <1> HIDE DEF new
  <1>3. Owns(old) /\ old.part \subseteq Segment
    BY <1>0 DEF IndexInv, WorkersOwn, WorkerState
  <1>4. CASE old.doc \in Documents
    <2>1. PICK e \in Documents : e = old.doc
      BY <1>4
    <2>2. Rows(e)' = Rows(e) /\ Entries(e)' = Entries(e) \cup old.part
      BY <1>1, <1>3, <2>1 DEF Rows, Entries, Owns
    <2>3. Fits(old, e) /\ SamePending(e) => Fits(new, e)'
      BY <1>1, <1>2, <2>1, <2>2
         DEF Fits, Stage, Settled, SamePending, Has, Cleaning, Updating, Deleting
    <2>4. \A s \in Segment : s.doc # e => (s \in index' <=> s \in index)
      BY <1>1, <1>3, <2>1 DEF Owns
    <2>5. QED
      BY <1>0, <1>1, <1>2, <2>1, <2>3, <2>4, RunFits
  <1>5. CASE old.doc \notin Documents
    <2>1. old.part = {}
      BY <1>3, <1>5 DEF Owns, Segment
    <2>2. UNCHANGED index
      BY <1>1, <2>1
    <2>3. \A d \in Documents : SameRows(d)
      BY <1>1, <2>2, RowsUntouched DEF IndexInv, TypeOK
    <2>4. QED
      BY <1>0, <1>1, <1>2, <1>5, <2>3, FrameLifeInv DEF Moves, WorkerSet
  <1>6. QED
    BY <1>4, <1>5

LEMMA FinishChunkLifeInv ==
    ASSUME IndexInv, LifeInv, TypeOK', NEW w \in Workers, NEW e \in Documents, FinishChunk(w, e)
    PROVE  LifeInv'
  <1>0. PICK old \in WorkerState : worker[w] = old
    BY DEF IndexInv, TypeOK
  <1>1. PICK done : done = {s \in old.part : segment[s] = "indexing"}
    OBVIOUS
  <1> DEFINE new == [old EXCEPT !.pc = "chunk", !.todo = @ \ old.part, !.part = {}]
  <1>2. /\ old.pc = "finish" /\ old.doc = e /\ Exists(e) /\ WorkerSet(w, new)
        /\ segment' = SegmentsSet(done, "completed") /\ enabled' = enabled \cup done
        /\ UNCHANGED <<status, index, disturbed>>
    BY <1>0, <1>1 DEF FinishChunk, At
  <1>3. /\ new \in WorkerState /\ AtRest(new)
        /\ new.pc = "chunk" /\ new.doc = e /\ new.batch = old.batch
        /\ new.todo = old.todo \ old.part
    BY <1>2 DEF WorkerState, WorkerPC, AtRest
  <1> HIDE DEF new
  <1>4. /\ \A s \in done : s \in Segment /\ s.doc = e
        /\ \A s \in Segment : segment'[s] = IF s \in done THEN "completed" ELSE segment[s]
    BY <1>0, <1>1, <1>2 DEF IndexInv, WorkersOwn, Owns, WorkerState, SegmentsSet
  <1>5. Rows(e)' = Rows(e) /\ Entries(e)' = Entries(e)
    BY <1>1, <1>2, <1>4 DEF Rows, Entries
  <1>6. Fits(old, e) /\ SamePending(e) => Fits(new, e)'
    <2> SUFFICES ASSUME Fits(old, e), SamePending(e)
                 PROVE  Fits(new, e)'
      OBVIOUS
    <2>1. /\ old.part \subseteq old.todo /\ old.todo \subseteq Rows(e)
          /\ \A s \in Rows(e) : segment[s] \in {"indexing", "completed"}
          /\ \A s \in Rows(e) : segment[s] = "indexing" <=> s \in old.todo
      BY <1>2 DEF Fits, Stage
    <2>2. done = old.part
      BY <1>1, <2>1
    <2>3. Rows(e) \subseteq Segment
      BY DEF Rows
    <2>4. /\ \A s \in Rows(e) : segment'[s] \in {"indexing", "completed"}
          /\ \A s \in Rows(e) : segment'[s] = "indexing" <=> s \in new.todo
      BY <1>3, <1>4, <2>1, <2>2, <2>3
    <2>5. Stage(new, e)'
      BY <1>2, <1>3, <1>5, <2>1, <2>4 DEF Fits, Stage
    <2>6. \A s \in Rows(e) : segment'[s] = "completed" => s \in enabled'
      BY <1>2, <1>4, <2>3 DEF Fits, Settled
    <2>7. Settled(new, e)'
      BY <1>2, <1>3, <1>5, <2>4, <2>6
         DEF Fits, Stage, Settled, SamePending, Has, Cleaning, Updating, Deleting, Exists
    <2>8. QED
      BY <1>2, <1>3, <2>5, <2>7 DEF Fits, Stage
  <1>7. \A s \in Segment : s.doc # e => segment'[s] = segment[s]
    BY <1>4
  <1>8. QED
    BY <1>0, <1>2, <1>3, <1>6, <1>7, RunFits

LEMMA StopPausedLifeInv ==
    ASSUME IndexInv, LifeInv, TypeOK', NEW w \in Workers, NEW e \in Documents,
           StopPaused(w, e) \/ NothingToClean(w, e)
    PROVE  LifeInv'
  <1>0. PICK old \in WorkerState : worker[w] = old
    BY DEF IndexInv, TypeOK
  <1>1. Release(w) /\ old.doc = e
    BY <1>0 DEF StopPaused, NothingToClean
  <1>2. old.pc \in {"load", "save", "chunk"} \/ (old.pc = "clean_index" /\ Rows(e) = {})
    BY <1>0 DEF StopPaused, NothingToClean, At
  <1>3. Fits(old, e) /\ SamePending(e) /\ SameRows(e) => Fits(NoWork, e)'
    <2>1. NoWork.doc # e /\ NoWork.batch = {}
      BY NoDocumentAssumption DEF NoWork
    <2>2. QED
      BY <1>1, <1>2, <2>1
         DEF Fits, Stage, Settled, SamePending, SameRows, Has, Cleaning, Updating, Deleting
  <1>4. QED
    BY <1>0, <1>1, <1>3, LetGoFits

LEMMA StopDeletedLifeInv ==
    ASSUME IndexInv, LifeInv, TypeOK', NEW w \in Workers, NEW e \in Documents, StopDeleted(w, e)
    PROVE  LifeInv'
  <1>0. PICK old \in WorkerState : worker[w] = old
    BY DEF IndexInv, TypeOK
  <1>1. Release(w) /\ ~Exists(e) /\ old.pc \notin {"clean_index", "clean_rows"}
    BY <1>0 DEF StopDeleted, At
  <1>2. CASE old.doc = e
    <2>1. NoWork.doc # e /\ NoWork.batch = {}
      BY NoDocumentAssumption DEF NoWork
    <2>2. Fits(old, e) /\ SamePending(e) /\ SameRows(e) => Fits(NoWork, e)'
      BY <1>1, <1>2, <2>1
         DEF Fits, Stage, Settled, SamePending, SameRows, Has, Cleaning, Updating, Deleting, Exists
    <2>3. QED
      BY <1>0, <1>1, <1>2, <2>2, LetGoFits
  <1>3. CASE old.doc # e
    <2>1. old.doc = NoDocument
      BY <1>0, <1>3 DEF StopDeleted, At, LifeInv, AtRest
    <2>2. Moves(w, old, NoWork) /\ UNCHANGED <<status, segment, enabled, index, disturbed>>
      BY <1>0, <1>1 DEF Release, Moves, WorkerSet
    <2>3. AtRest(NoWork) /\ NoWork.doc = NoDocument /\ NoWork.batch = {} /\ NoWork \in WorkerState
      BY WorkerStates DEF AtRest, NoWork, IndexInv
    <2>4. \A d \in Documents : SameRows(d)
      BY <2>2, RowsUntouched DEF IndexInv, TypeOK
    <2>5. QED
      BY <2>1, <2>2, <2>3, <2>4, NoDocumentAssumption, FrameLifeInv
  <1>4. QED
    BY <1>2, <1>3

LEMMA EndTaskLifeInv ==
    ASSUME IndexInv, LifeInv, TypeOK', NEW w \in Workers, EndTask(w) \/ Crash(w)
    PROVE  LifeInv'
  <1>0. PICK old \in WorkerState : worker[w] = old
    BY DEF IndexInv, TypeOK
  <1>1. /\ Moves(w, old, NoWork) /\ UNCHANGED <<status, segment, enabled, index>>
        /\ disturbed \subseteq disturbed'
    BY <1>0 DEF EndTask, Crash, Release, Moves, WorkerSet
  <1>2. AtRest(NoWork) /\ NoWork.doc = NoDocument /\ NoWork.batch = {} /\ NoWork \in WorkerState
    BY WorkerStates DEF AtRest, NoWork, IndexInv
  <1>3. \A d \in Documents : SameRows(d)
    BY <1>1, RowsUntouched DEF IndexInv, TypeOK
  <1>4. \A d \in Documents : d \notin disturbed' => old.doc # d
    BY <1>0, NoDocumentAssumption DEF EndTask, Crash, At, LifeInv, AtRest, Holds
  <1>5. QED
    BY <1>1, <1>2, <1>3, <1>4, NoDocumentAssumption, FrameLifeInv

LEMMA NextDocumentLifeInv ==
    ASSUME IndexInv, LifeInv, TypeOK', NEW w \in Workers, NEW e \in Documents, NextDocument(w, e)
    PROVE  LifeInv'
  <1>0. PICK old \in WorkerState : worker[w] = old
    BY DEF IndexInv, TypeOK
  <1> DEFINE new == [old EXCEPT !.pc = "load", !.doc = e, !.batch = @ \ {e}]
  <1>1. /\ old.pc = "next" /\ old.doc = NoDocument /\ e \in old.batch /\ Exists(e)
        /\ WorkerSet(w, new) /\ UNCHANGED <<status, segment, enabled, index, disturbed>>
    BY <1>0 DEF NextDocument, At, LifeInv, AtRest
  <1>2. /\ new \in WorkerState /\ AtRest(new)
        /\ new.pc = "load" /\ new.doc = e /\ new.batch = old.batch \ {e}
    BY <1>1 DEF WorkerState, WorkerPC, AtRest
  <1> HIDE DEF new
  <1>3. \A d \in Documents : SameRows(d)
    BY <1>1, RowsUntouched DEF IndexInv, TypeOK
  <1>4. Fits(old, e) /\ SamePending(e) => Fits(new, e)'
    <2>1. SameRows(e)
      BY <1>3
    <2>2. QED
      BY <1>1, <1>2, <2>1, NoDocumentAssumption
         DEF Fits, Stage, Settled, SamePending, SameRows, Has, Cleaning, Updating, Deleting, Exists
  <1>5. Moves(w, old, new) /\ Has(old, e)
    BY <1>0, <1>1 DEF Moves, WorkerSet, Has
  <1>6. \A d \in Documents \ {e} :
          old.doc # d /\ new.doc # d /\ (d \in new.batch => d \in old.batch)
    BY <1>1, <1>2, NoDocumentAssumption
  <1>7. QED
    BY <1>1, <1>2, <1>3, <1>4, <1>5, <1>6, MoveFits

LEMMA FailLifeInv ==
    ASSUME IndexInv, LifeInv, TypeOK', NEW w \in Workers, NEW e \in Documents, Fail(w, e)
    PROVE  LifeInv'
  <1>0. PICK old \in WorkerState : worker[w] = old
    BY DEF IndexInv, TypeOK
  <1>1. status \in [Documents -> Status] /\ Owns(old) /\ old.part \subseteq Segment
    BY <1>0 DEF IndexInv, TypeOK, WorkersOwn, WorkerState
  <1>2. PICK taken \in IF old.pc = "embed" THEN SUBSET old.part ELSE {{}} : index' = index \cup taken
    BY <1>0 DEF Fail, At
  <1>3. /\ old.doc = e /\ old.pc \in {"load", "split", "save", "chunk", "embed"}
        /\ \A d \in Documents \ {e} : status'[d] = status[d]
        /\ status'[e] = IF Exists(e) THEN "error" ELSE status[e]
        /\ UNCHANGED <<segment, enabled, disturbed>>
    BY <1>0, <1>1 DEF Fail, WriteStatus
  <1>4. PICK new \in WorkerState :
          /\ WorkerSet(w, new) /\ AtRest(new)
          /\ new.doc = NoDocument /\ (new.batch = old.batch \/ new.batch = {})
    <2>1. WorkerSet(w, NoWork) \/ WorkerSet(w, EndDocument(w))
      BY DEF Fail
    <2>2. NoWork.doc = NoDocument /\ NoWork.batch = {} /\ AtRest(NoWork)
      BY DEF NoWork, AtRest
    <2>3. EndDocument(w).doc = NoDocument /\ EndDocument(w).batch = old.batch /\ AtRest(EndDocument(w))
      BY <1>0 DEF EndDocument, AtRest, WorkerState
    <2>4. NoWork \in WorkerState /\ EndDocument(w) \in WorkerState
      BY WorkerStates DEF IndexInv
    <2>5. PICK next : next = EndDocument(w)
      OBVIOUS
    <2>6. QED
      BY <2>1, <2>2, <2>3, <2>4, <2>5
  <1>5. taken \subseteq old.part /\ (old.pc # "embed" => taken = {})
    BY <1>2
  <1>6. Rows(e)' = Rows(e) /\ Entries(e)' = Entries(e) \cup taken
    BY <1>1, <1>2, <1>3, <1>5 DEF Rows, Entries, Owns
  <1>7. Fits(old, e) /\ SamePending(e) => Fits(new, e)'
    <2> SUFFICES ASSUME Fits(old, e), SamePending(e)
                 PROVE  Fits(new, e)'
      OBVIOUS
    <2>1. /\ e \notin old.batch /\ status[e] \in {"waiting", "parsing", "splitting", "indexing", "deleted"}
          /\ ~StartPending(e) /\ (Deleting(e) => InQueue({"clean"}, e))
          /\ \A s \in Rows(e) : segment[s] = "completed" => s \in enabled
          /\ InQueue({"clean"}, e) => Deleting(e)
          /\ old.pc = "save" => status[e] \in {"splitting", "deleted"}
      <3>1. e \notin old.batch /\ ~StartPending(e)
        BY <1>3 DEF Fits, Stage, Settled, Has, Cleaning
      <3>2. status[e] # "absent" /\ status[e] # "completed" /\ status[e] # "error"
        BY <1>3 DEF Fits, Stage
      <3>3. /\ Deleting(e) => InQueue({"clean"}, e)
            /\ InQueue({"clean"}, e) => Deleting(e)
            /\ \A s \in Rows(e) : segment[s] = "completed" => s \in enabled
        BY <1>3 DEF Fits, Settled, Has, Cleaning
      <3>4. old.pc = "save" => status[e] \in {"splitting", "deleted"}
        BY <1>3 DEF Fits, Stage
      <3>5. QED
        BY <1>1, <3>1, <3>2, <3>3, <3>4 DEF Status
    <2>2. Entries(e)' \subseteq Rows(e)'
      BY <1>3, <1>5, <1>6 DEF Fits, Stage, Settled
    <2>3. new.doc # e /\ e \notin new.batch
      BY <1>4, <2>1, NoDocumentAssumption
    <2>4. status'[e] \in {"error", "deleted"} /\ (status'[e] = "deleted" <=> status[e] = "deleted")
      BY <1>3, <2>1 DEF Exists
    <2>5. Settled(new, e)'
      BY <1>3, <1>6, <2>1, <2>2, <2>3, <2>4 DEF Settled, SamePending, Has, Cleaning, Updating, Deleting
    <2>6. QED
      BY <2>3, <2>5 DEF Fits
  <1>8. \A s \in Segment : s.doc # e => (s \in index' <=> s \in index)
    BY <1>1, <1>2, <1>3, <1>5 DEF Owns
  <1>9. QED
    BY <1>0, <1>3, <1>4, <1>7, <1>8, RunFits

LEMMA PurgeSegmentsLifeInv ==
    ASSUME IndexInv, LifeInv, TypeOK', NEW w \in Workers, NEW e \in Documents, PurgeSegments(w, e)
    PROVE  LifeInv'
  <1>0. PICK old \in WorkerState : worker[w] = old
    BY DEF IndexInv, TypeOK
  <1> DEFINE new == [old EXCEPT !.pc = "load"]
  <1>1. /\ old.pc = "purge" /\ old.doc = e /\ WorkerSet(w, new)
        /\ segment' = SegmentsSet(Rows(e), "none") /\ enabled' = enabled \ Rows(e)
        /\ UNCHANGED <<status, index, disturbed>>
    BY <1>0 DEF PurgeSegments, At, GoTo
  <1>2. /\ new \in WorkerState /\ AtRest(new)
        /\ new.pc = "load" /\ new.doc = e /\ new.batch = old.batch
    BY <1>1 DEF WorkerState, WorkerPC, AtRest
  <1> HIDE DEF new
  <1>3. \A s \in Segment : segment'[s] = IF s \in Rows(e) THEN "none" ELSE segment[s]
    BY <1>1 DEF SegmentsSet
  <1>4. Rows(e)' = {} /\ Entries(e)' = Entries(e)
    BY <1>1, <1>3 DEF Rows, Entries
  <1>5. Fits(old, e) /\ SamePending(e) => Fits(new, e)'
    BY <1>1, <1>2, <1>4
       DEF Fits, Stage, Settled, SamePending, Has, Cleaning, Updating, Deleting
  <1>6. \A s \in Segment : s.doc # e =>
          segment'[s] = segment[s] /\ (s \in enabled => s \in enabled')
    BY <1>1, <1>3 DEF Rows
  <1>7. QED
    BY <1>0, <1>1, <1>2, <1>5, <1>6, RunFits

LEMMA DropIndexLifeInv ==
    ASSUME IndexInv, LifeInv, TypeOK', NEW w \in Workers, NEW e \in Documents, DropIndex(w, e)
    PROVE  LifeInv'
  <1>0. PICK old \in WorkerState : worker[w] = old
    BY DEF IndexInv, TypeOK
  <1>1. PICK R : R = Rows(e)
    OBVIOUS
  <1>2. PICK pc \in {"update_rows", "clean_rows"} :
          /\ old.pc = IF pc = "update_rows" THEN "update_index" ELSE "clean_index"
          /\ WorkerSet(w, [old EXCEPT !.pc = pc, !.part = R])
    BY <1>0, <1>1 DEF DropIndex, At
  <1> DEFINE new == [old EXCEPT !.pc = pc, !.part = R]
  <1>3. /\ old.doc = e /\ UNCHANGED <<status, segment, enabled, disturbed>>
        /\ R \subseteq Segment /\ \A s \in R : s.doc = e
    BY <1>0, <1>1 DEF DropIndex, Rows
  <1>4. /\ new \in WorkerState /\ AtRest(new) /\ WorkerSet(w, new)
        /\ new.pc = pc /\ new.doc = e /\ new.batch = old.batch /\ new.part = R
    BY <1>2, <1>3 DEF WorkerState, WorkerPC, AtRest
  <1> HIDE DEF new
  <1>5. Rows(e)' = Rows(e)
    BY <1>3 DEF Rows
  <1>6. index' = index \ R \/ index' = {s \in index : s.doc # e}
    BY <1>1 DEF DropIndex
  <1>7. Entries(e) \subseteq R => Entries(e)' = {}
    BY <1>6 DEF Entries
  <1>8. Fits(old, e) /\ SamePending(e) => Fits(new, e)'
    <2> SUFFICES ASSUME Fits(old, e), SamePending(e)
                 PROVE  Fits(new, e)'
      OBVIOUS
    <2>1. Entries(e)' = {}
      BY <1>1, <1>7 DEF Fits, Settled
    <2>2. QED
      BY <1>1, <1>2, <1>3, <1>4, <1>5, <2>1
         DEF Fits, Stage, Settled, SamePending, Has, Cleaning, Updating, Deleting
  <1>9. \A s \in Segment : s.doc # e => (s \in index' <=> s \in index)
    BY <1>3, <1>6
  <1>10. QED
    BY <1>0, <1>3, <1>4, <1>8, <1>9, RunFits

LEMMA DropRowsLifeInv ==
    ASSUME IndexInv, LifeInv, TypeOK', NEW w \in Workers, NEW e \in Documents,
           DropRows(w, e) \/ CleanUpFails(w, e)
    PROVE  LifeInv'
  <1>0. PICK old \in WorkerState : worker[w] = old
    BY DEF IndexInv, TypeOK
  <1>1. old.doc = e /\ UNCHANGED <<status, index>> /\ disturbed \subseteq disturbed'
    BY <1>0 DEF DropRows, CleanUpFails
  <1>2. PICK new \in WorkerState :
          /\ WorkerSet(w, new) /\ AtRest(new) /\ new.doc = NoDocument /\ new.batch \subseteq {e}
          /\ e \in new.batch => old.pc \in {"update_index", "update_rows"} /\ new.pc = "next"
          /\ e \notin new.batch => old.pc \in {"clean_index", "clean_rows"}
    <2>1. \/ /\ WorkerSet(w, NoWork)
             /\ old.pc \in {"clean_index", "clean_rows"}
          \/ /\ WorkerSet(w, [NoWork EXCEPT !.pc = "next", !.batch = {e}])
             /\ old.pc \in {"update_index", "update_rows"}
      BY <1>0 DEF DropRows, CleanUpFails, At
    <2>2. NoWork \in WorkerState /\ [NoWork EXCEPT !.pc = "next", !.batch = {e}] \in WorkerState
      BY WorkerStates DEF IndexInv
    <2>3. QED
      BY <2>1, <2>2 DEF NoWork, AtRest
  <1>3. \A s \in old.part : s.doc = e
    BY <1>0, <1>1 DEF IndexInv, WorkersOwn, Owns
  <1>4. CASE CleanUpFails(w, e)
    <2>1. e \in disturbed' /\ UNCHANGED <<segment, enabled>>
      BY <1>4 DEF CleanUpFails
    <2>2. QED
      BY <1>0, <1>1, <1>2, <2>1, RunFits
  <1>5. CASE DropRows(w, e)
    <2>1. /\ segment' = SegmentsSet(old.part, "none") /\ enabled' = enabled \ old.part
          /\ UNCHANGED disturbed /\ old.pc \in {"update_rows", "clean_rows"}
      BY <1>0, <1>5 DEF DropRows, At
    <2>2. \A s \in Segment : segment'[s] = IF s \in old.part THEN "none" ELSE segment[s]
      BY <2>1 DEF SegmentsSet
    <2>3. Entries(e)' = Entries(e) /\ (old.part = Rows(e) => Rows(e)' = {})
      BY <1>1, <2>2 DEF Rows, Entries
    <2>4. Fits(old, e) /\ SamePending(e) => Fits(new, e)'
      <3> SUFFICES ASSUME Fits(old, e), SamePending(e)
                   PROVE  Fits(new, e)'
        OBVIOUS
      <3>1. Rows(e)' = {} /\ Entries(e)' = {}
        BY <1>1, <2>1, <2>3 DEF Fits, Stage
      <3>2. QED
        BY <1>1, <1>2, <2>1, <3>1, NoDocumentAssumption
           DEF Fits, Stage, Settled, SamePending, Has, Cleaning, Updating, Deleting
    <2>5. \A s \in Segment : s.doc # e =>
            segment'[s] = segment[s] /\ (s \in enabled => s \in enabled')
      BY <1>3, <2>1, <2>2
    <2>6. QED
      BY <1>0, <1>1, <1>2, <2>1, <2>4, <2>5, RunFits
  <1>6. QED
    BY <1>4, <1>5

LEMMA RunTaskLifeInv ==
    ASSUME IndexInv, LifeInv, TypeOK', NEW w \in Workers, RunTask(w) \/ Crash(w)
    PROVE  LifeInv'
  <1>1. ASSUME NEW e \in Documents, RunDocument(w, e)
        PROVE  LifeInv'
    BY <1>1, RunStartLifeInv, MarkSegmentsLifeInv, BuildLifeInv, FinishChunkLifeInv,
       StopPausedLifeInv, StopDeletedLifeInv, NextDocumentLifeInv, FailLifeInv,
       PurgeSegmentsLifeInv, DropIndexLifeInv, DropRowsLifeInv
       DEF RunDocument
  <1>2. QED
    BY <1>1, AddTextsLifeInv, SaveSegmentLifeInv, EndTaskLifeInv DEF RunTask

-----------------------------------------------------------------------------
(* Requests *)

(* What a request that neither starts, updates nor deletes d may do.  *)
NoMorePending(d) ==
    /\ StartPending(d)' => StartPending(d)
    /\ (UpdatePending(d)' <=> UpdatePending(d)) \/ status[d] \notin {"waiting", "parsing"}
    /\ DeletePending(d)' <=> DeletePending(d)
    /\ InQueue({"clean"}, d)' <=> InQueue({"clean"}, d)
    /\ status[d] = "absent" /\ ~Mentioned(d) => ~Mentioned(d)'

LEMMA NoMoreFits ==
    ASSUME NEW d, NoMorePending(d), SameRows(d)
    PROVE  \A x : Fits(x, d) => Fits(x, d)'
  <1> SUFFICES ASSUME NEW x, Fits(x, d)
               PROVE  Fits(x, d)'
    OBVIOUS
  <1>1. Deleting(d)' <=> Deleting(d)
    BY DEF Deleting, SameRows, NoMorePending
  <1>2. Settled(x, d)'
    BY <1>1 DEF Fits, Settled, SameRows, NoMorePending, Has, Cleaning, Updating
  <1>3. x.doc = d => Stage(x, d)'
    BY <1>1 DEF Fits, Stage, SameRows
  <1>4. QED
    BY <1>2, <1>3 DEF Fits, SameRows

LEMMA QuietLifeInv ==
    ASSUME TypeOK, LifeInv, UNCHANGED worker, disturbed \subseteq disturbed',
           \A d \in Documents : d \notin disturbed' =>
             \A x \in WorkerState : Fits(x, d) => Fits(x, d)'
    PROVE  LifeInv'
  <1>1. \A v \in Workers : AtRest(worker[v])'
    BY DEF LifeInv, AtRest
  <1>2. ASSUME NEW d \in Documents, d \notin disturbed'
        PROVE  DocumentFits(d)'
    BY <1>2, SameHolderFits DEF LifeInv
  <1>3. QED
    BY <1>1, <1>2 DEF LifeInv

(* A request of c that appends nothing to the queue and goes on from where   *)
(* it neither starts, updates nor deletes to where it does not.              *)
Starting == {"upload_enqueue", "update_mark", "update_enqueue", "delete_commit"}

LEMMA OtherRequestFits ==
    ASSUME TypeOK, NEW c \in Clients, NEW y, client' = [client EXCEPT ![c] = y],
           UNCHANGED <<worker, status, segment, enabled, index, disturbed>>, LifeInv,
           client[c].pc \notin Starting, y.pc \notin Starting,
           \A d \in y.docs : d \in client[c].docs \/ status[d] # "absent",
           client[c].docs = y.docs \/ y.docs = {} \/ client[c].pc = "idle",
           \/ UNCHANGED queue
           \/ \E d \in client[c].docs : queue' = Append(queue, [kind |-> "recover", docs |-> {d}])
    PROVE  LifeInv'
  <1>1. client[c].pc \in ClientPC
    BY DEF TypeOK, ClientState
  <1>2. \A K, d : InQueue(K, d)' <=>
          InQueue(K, d) \/ (InQueue(K, d)' /\ "recover" \in K /\ d \in client[c].docs)
    <2>1. CASE UNCHANGED queue
      BY <2>1 DEF InQueue
    <2>2. ASSUME NEW e \in client[c].docs, queue' = Append(queue, [kind |-> "recover", docs |-> {e}])
          PROVE  \A K, d : InQueue(K, d)' <=>
                   InQueue(K, d) \/ (InQueue(K, d)' /\ "recover" \in K /\ d \in client[c].docs)
      <3>1. e \in Documents
        BY DEF TypeOK, ClientState
      <3>2. PICK t \in Task : t = [kind |-> "recover", docs |-> {e}]
        BY <3>1 DEF Task
      <3>3. \A K, d : InQueue(K, d)' <=> InQueue(K, d) \/ (t.kind \in K /\ d \in t.docs)
        BY <2>2, <3>2, AppendInQueue
      <3>4. QED
        BY <3>2, <3>3
    <2>3. QED
      BY <2>1, <2>2
  <1>3. ASSUME NEW d \in Documents
        PROVE  NoMorePending(d)
    <2>1. /\ \A pcs : AtClient(pcs, d) <=>
                 AtOther(c, pcs, d) \/ (client[c].pc \in pcs /\ d \in client[c].docs)
          /\ \A pcs : AtClient(pcs, d)' <=> AtOther(c, pcs, d) \/ (y.pc \in pcs /\ d \in y.docs)
      BY ClientNow, ClientNext
    <2>2. DeletePending(d)' <=> DeletePending(d)
      BY ClientNow, ClientNext DEF Starting, Request
    <2>3. \A pcs \in SUBSET Starting : AtClient(pcs, d)' <=> AtClient(pcs, d)
      BY <2>1
    <2>4. \A K : "recover" \notin K => (InQueue(K, d)' <=> InQueue(K, d))
      BY <1>2
    <2>5. /\ StartPending(d)' <=> StartPending(d)
          /\ UpdatePending(d)' <=> UpdatePending(d)
          /\ InQueue({"clean"}, d)' <=> InQueue({"clean"}, d)
      BY <2>3, <2>4 DEF StartPending, UpdatePending, Starting
    <2>6. Mentioned(d)' => Mentioned(d) \/ status[d] # "absent"
      <3> SUFFICES ASSUME Mentioned(d)', status[d] = "absent"
                   PROVE  Mentioned(d)
        OBVIOUS
      <3>1. d \in client[c].docs => AtClient(ClientPC, d)
        BY <1>1, <2>1
      <3>2. AtClient(ClientPC, d)' => AtClient(ClientPC, d)
        BY <2>1, <3>1
      <3>3. QED
        BY <1>2, <3>1, <3>2 DEF Mentioned
    <2>7. QED
      BY <2>2, <2>5, <2>6 DEF NoMorePending
  <1>4. \A d \in Documents : SameRows(d)
    BY RowsUntouched DEF TypeOK, SameRows, Rows, Entries
  <1>5. QED
    BY <1>3, <1>4, NoMoreFits, QuietLifeInv

LEMMA PauseLifeInv ==
    ASSUME TypeOK, LifeInv, NEW c \in Clients, NEW d \in Documents,
           \/ PauseRequest(c, d) \/ RecoverRequest(c, d) \/ UpdateRequest(c, d)
           \/ PauseCommit(c, d) \/ PauseSetFlag(c, d)
           \/ RecoverCommit(c, d) \/ RecoverClearFlag(c, d) \/ RecoverEnqueue(c, d)
    PROVE  LifeInv'
  <1>0. NoRequest.pc = "idle" /\ NoRequest.docs = {}
    BY DEF NoRequest
  <1>1. ASSUME NEW op, NEW pc \in {"pause_commit", "recover_commit", "update_commit"},
               Accept(c, d, op, pc), UNCHANGED queue
        PROVE  LifeInv'
    <2>1. PICK y : y = [pc |-> pc, docs |-> {d}, seen |-> is_paused[d]]
      OBVIOUS
    <2>2. client' = [client EXCEPT ![c] = y] /\ client[c].pc = "idle" /\ Exists(d)
          /\ UNCHANGED <<worker, status, segment, enabled, index, disturbed>>
      BY <1>1, <2>1 DEF Accept, sharedVars
    <2>3. y.pc = pc /\ y.docs = {d}
      BY <2>1
    <2>4. y.pc \notin Starting /\ client[c].pc \notin Starting
      BY <2>2, <2>3 DEF Starting
    <2>5. \A e \in y.docs : e \in client[c].docs \/ status[e] # "absent"
      BY <2>2, <2>3 DEF Exists
    <2>6. QED
      BY <1>1, <2>2, <2>4, <2>5, OtherRequestFits
  <1>2. ASSUME NEW from \in {"pause_commit", "pause_flag", "recover_commit", "recover_flag", "recover_enqueue"},
               NEW to \in {"idle", "pause_flag", "recover_flag", "recover_enqueue"}, Step(c, from, to, d),
               UNCHANGED <<status, segment, enabled, index, disturbed>>,
               UNCHANGED queue \/ queue' = Append(queue, [kind |-> "recover", docs |-> {d}])
        PROVE  LifeInv'
    <2>1. PICK y : y = IF to = "idle" THEN NoRequest ELSE [client[c] EXCEPT !.pc = to]
      OBVIOUS
    <2>2. client' = [client EXCEPT ![c] = y] /\ client[c].pc = from /\ client[c].docs = {d}
          /\ UNCHANGED worker
      BY <1>2, <2>1 DEF Step, Request, TypeOK
    <2>3. y.pc = to /\ (y.docs = {} \/ y.docs = {d})
      BY <1>0, <2>1, <2>2 DEF TypeOK, ClientState
    <2>4. QED
      BY <1>2, <2>2, <2>3, OtherRequestFits DEF Starting
  <1>3. CASE PauseRequest(c, d) \/ RecoverRequest(c, d) \/ UpdateRequest(c, d)
    BY <1>1, <1>3 DEF PauseRequest, RecoverRequest, UpdateRequest
  <1>4. CASE \/ PauseCommit(c, d) \/ PauseSetFlag(c, d) \/ RecoverCommit(c, d)
             \/ RecoverClearFlag(c, d) \/ RecoverEnqueue(c, d)
    BY <1>2, <1>4
       DEF PauseCommit, PauseSetFlag, RecoverCommit, RecoverClearFlag, RecoverEnqueue, rowVars, sharedVars
  <1>5. QED
    BY <1>3, <1>4

(* What is pending of the documents other than those of a request.  *)
LEMMA OthersPending ==
    ASSUME TypeOK, NEW c \in Clients, NEW y, client' = [client EXCEPT ![c] = y],
           NEW d, client[c].pc = "idle" \/ d \notin client[c].docs, d \notin y.docs,
           \/ UNCHANGED queue
           \/ \E t \in Task : queue' = Append(queue, t) /\ d \notin t.docs
    PROVE  NoMorePending(d)
  <1>1. \A K : InQueue(K, d)' <=> InQueue(K, d)
    <2>1. CASE UNCHANGED queue
      BY <2>1 DEF InQueue
    <2>2. ASSUME NEW t \in Task, queue' = Append(queue, t), d \notin t.docs
          PROVE  \A K : InQueue(K, d)' <=> InQueue(K, d)
      BY <2>2, AppendInQueue
    <2>3. QED
      BY <2>1, <2>2
  <1>2. /\ \A pcs : AtClient(pcs, d) <=>
             AtOther(c, pcs, d) \/ (client[c].pc \in pcs /\ d \in client[c].docs)
        /\ \A pcs : AtClient(pcs, d)' <=> AtOther(c, pcs, d)
    <2>1. \A pcs : AtClient(pcs, d) <=>
            AtOther(c, pcs, d) \/ (client[c].pc \in pcs /\ d \in client[c].docs)
      BY ClientNow
    <2>2. \A pcs : AtClient(pcs, d)' <=> AtOther(c, pcs, d) \/ (y.pc \in pcs /\ d \in y.docs)
      BY ClientNext
    <2>3. QED
      BY <2>1, <2>2
  <1>3. \A pcs : AtClient(pcs, d)' => AtClient(pcs, d)
    BY <1>2
  <1>4. \A pcs : "idle" \notin pcs => (AtClient(pcs, d)' <=> AtClient(pcs, d))
    BY <1>2
  <1>5. DeletePending(d)' <=> DeletePending(d)
    <2>1. DeletePending(d) <=> OtherDeletes(c, d) \/ Request(c, "delete_commit", d)
      BY ClientNow
    <2>2. DeletePending(d)' <=>
            OtherDeletes(c, d) \/ (y.pc = "delete_commit" /\ y.docs = {d})
      BY ClientNext
    <2>3. (client[c].pc = "idle" \/ client[c].docs # {d}) /\ y.docs # {d}
      OBVIOUS
    <2>4. QED
      BY <2>1, <2>2, <2>3 DEF Request
  <1>6. QED
    BY <1>1, <1>3, <1>4, <1>5 DEF NoMorePending, StartPending, UpdatePending, Mentioned

LEMMA PendingIsMentioned ==
    ASSUME TypeOK, NEW d
    PROVE  StartPending(d) \/ UpdatePending(d) \/ DeletePending(d) \/ InQueue({"clean"}, d) => Mentioned(d)
  <1>1. \A pcs \in SUBSET ClientPC : AtClient(pcs, d) => AtClient(ClientPC, d)
    BY DEF AtClient
  <1>2. \A K \in SUBSET {"index", "recover", "update", "clean"} :
          InQueue(K, d) => InQueue({"index", "recover", "update", "clean"}, d)
    BY DEF InQueue
  <1>3. DeletePending(d) => AtClient({"delete_commit"}, d)
    BY DEF DeletePending, AtClient, Request
  <1>4. {"upload_enqueue", "update_mark", "update_enqueue"} \in SUBSET ClientPC
        /\ {"update_mark", "update_enqueue"} \in SUBSET ClientPC
        /\ {"delete_commit"} \in SUBSET ClientPC
    BY DEF ClientPC
  <1>5. /\ InQueue({"clean"}, d) => InQueue({"index", "recover", "update", "clean"}, d)
        /\ InQueue({"update"}, d) => InQueue({"index", "recover", "update", "clean"}, d)
        /\ InQueue({"index", "update"}, d) => InQueue({"index", "recover", "update", "clean"}, d)
    BY <1>2
  <1>6. QED
    BY <1>1, <1>3, <1>4, <1>5 DEF StartPending, UpdatePending, Mentioned

LEMMA UploadCommitLifeInv ==
    ASSUME TypeOK, LifeInv, NEW c \in Clients, NEW ds \in SUBSET Documents, UploadCommit(c, ds)
    PROVE  LifeInv'
  <1>1. PICK y : y = [pc |-> "upload_enqueue", docs |-> ds, seen |-> FALSE]
    OBVIOUS
  <1>2. /\ client[c].pc = "idle" /\ client' = [client EXCEPT ![c] = y]
        /\ \A d \in ds : status[d] = "absent"
        /\ \A d \in Documents : status'[d] = IF d \in ds THEN "waiting" ELSE status[d]
        /\ UNCHANGED <<segment, enabled, index, queue, worker, disturbed>>
    BY <1>1 DEF UploadCommit, historyVars
  <1>3. y.pc = "upload_enqueue" /\ y.docs = ds
    BY <1>1
  <1>4. index \subseteq Segment /\ index' \subseteq Segment
    BY <1>2 DEF TypeOK
  <1>5. ASSUME NEW d \in Documents \ ds
        PROVE  \A x : Fits(x, d) => Fits(x, d)'
    <2>1. NoMorePending(d)
      BY <1>2, <1>3, <1>5, OthersPending
    <2>2. SameRows(d)
      BY <1>2, <1>4, <1>5, RowsUntouched
    <2>3. QED
      BY <2>1, <2>2, NoMoreFits
  <1>6. ASSUME NEW d \in ds
        PROVE  \A x : Fits(x, d) => Fits(x, d)'
    <2> SUFFICES ASSUME NEW x, Fits(x, d)
                 PROVE  Fits(x, d)'
      OBVIOUS
    <2>1. status[d] = "absent" /\ status'[d] = "waiting"
      BY <1>2
    <2>2. Rows(d) = {} /\ ~Has(x, d) /\ ~Mentioned(d) /\ Entries(d) = {}
      BY <2>1 DEF Fits, Settled
    <2>3. Rows(d)' = {} /\ Entries(d)' = {}
      BY <1>2, <2>2 DEF Rows, Entries
    <2>4. ~DeletePending(d) /\ ~InQueue({"clean"}, d)
      BY <2>2, PendingIsMentioned
    <2>5. ~DeletePending(d)'
      BY <1>2, <1>3, <2>4, ClientNow, ClientNext DEF Request
    <2>6. ~InQueue({"clean"}, d)'
      BY <1>2, <2>4 DEF InQueue
    <2>7. QED
      BY <2>1, <2>2, <2>3, <2>5, <2>6 DEF Fits, Settled, Has, Cleaning, Updating, Deleting
  <1>7. QED
    BY <1>2, <1>5, <1>6, QuietLifeInv

LEMMA UploadEnqueueLifeInv ==
    ASSUME TypeOK, LifeInv, NEW c \in Clients, UploadEnqueue(c)
    PROVE  LifeInv'
  <1>1. PICK t \in Task : t = [kind |-> "index", docs |-> client[c].docs]
    BY DEF TypeOK, Task, ClientState
  <1>2. PICK y : y = NoRequest
    OBVIOUS
  <1>3. /\ client[c].pc = "upload_enqueue" /\ client' = [client EXCEPT ![c] = y]
        /\ queue' = Append(queue, t)
        /\ UNCHANGED <<status, segment, enabled, index, worker, disturbed>>
    BY <1>1, <1>2 DEF UploadEnqueue, sharedVars, historyVars
  <1>4. y.pc = "idle" /\ y.docs = {} /\ t.kind = "index" /\ t.docs = client[c].docs
    BY <1>1, <1>2 DEF NoRequest
  <1>5. ASSUME NEW d \in Documents
        PROVE  NoMorePending(d)
    <2>1. \A K : InQueue(K, d)' <=> InQueue(K, d) \/ ("index" \in K /\ d \in client[c].docs)
      BY <1>3, <1>4, AppendInQueue
    <2>2. /\ \A pcs : AtClient(pcs, d)' <=> AtOther(c, pcs, d)
          /\ \A pcs : AtClient(pcs, d) <=>
                 AtOther(c, pcs, d) \/ ("upload_enqueue" \in pcs /\ d \in client[c].docs)
      <3>1. \A pcs : AtClient(pcs, d) <=>
              AtOther(c, pcs, d) \/ (client[c].pc \in pcs /\ d \in client[c].docs)
        BY ClientNow
      <3>2. \A pcs : AtClient(pcs, d)' <=> AtOther(c, pcs, d) \/ (y.pc \in pcs /\ d \in y.docs)
        BY <1>3, ClientNext
      <3>3. QED
        BY <1>3, <1>4, <3>1, <3>2
    <2>3. DeletePending(d)' <=> DeletePending(d)
      BY <1>3, <1>4, ClientNow, ClientNext DEF Request
    <2>4. /\ StartPending(d)' <=> StartPending(d)
          /\ UpdatePending(d)' <=> UpdatePending(d)
          /\ InQueue({"clean"}, d)' <=> InQueue({"clean"}, d)
      BY <2>1, <2>2 DEF StartPending, UpdatePending
    <2>5. "upload_enqueue" \in ClientPC
      BY DEF ClientPC
    <2>6. Mentioned(d)' <=> Mentioned(d)
      BY <2>1, <2>2, <2>5 DEF Mentioned
    <2>7. QED
      BY <2>3, <2>4, <2>6 DEF NoMorePending
  <1>6. \A d \in Documents : SameRows(d)
    BY <1>3, RowsUntouched DEF TypeOK
  <1>7. QED
    BY <1>3, <1>5, <1>6, NoMoreFits, QuietLifeInv

(* A request for the one document d may change what is pending of d.  *)
LEMMA OneRequestLifeInv ==
    ASSUME TypeOK, TypeOK', LifeInv, NEW c \in Clients, NEW d \in Documents, NEW y,
           client' = [client EXCEPT ![c] = y], client[c].pc = "idle" \/ client[c].docs = {d},
           y.docs \subseteq {d},
           UNCHANGED queue \/ \E t \in Task : queue' = Append(queue, t) /\ t.docs = {d},
           UNCHANGED <<worker, enabled, index>>, disturbed \subseteq disturbed',
           \A e \in Documents \ {d} : status'[e] = status[e],
           \A s \in Segment : s.doc # d => segment'[s] = segment[s],
           d \notin disturbed' => \A x \in WorkerState : Fits(x, d) => Fits(x, d)'
    PROVE  LifeInv'
  <1>1. ASSUME NEW e \in Documents \ {d}
        PROVE  \A x : Fits(x, e) => Fits(x, e)'
    <2>1. client[c].pc = "idle" \/ e \notin client[c].docs
      OBVIOUS
    <2>2. UNCHANGED queue \/ \E t \in Task : queue' = Append(queue, t) /\ e \notin t.docs
      OBVIOUS
    <2>3. NoMorePending(e)
      BY <2>1, <2>2, OthersPending
    <2>4. SameRows(e)
      BY RowsUntouched DEF TypeOK
    <2>5. QED
      BY <2>3, <2>4, NoMoreFits
  <1>2. QED
    BY <1>1, QuietLifeInv

LEMMA DeleteLifeInv ==
    ASSUME TypeOK, TypeOK', LifeInv, NEW c \in Clients, NEW d \in Documents,
           DeleteRequest(c, d) \/ DeleteCommit(c, d)
    PROVE  LifeInv'
  <1>1. CASE DeleteRequest(c, d)
    <2>1. PICK y : y = [pc |-> "delete_commit", docs |-> {d}, seen |-> is_paused[d]]
      OBVIOUS
    <2>2. PICK t \in Task : t = [kind |-> "clean", docs |-> {d}]
      BY DEF Task
    <2>3. /\ client[c].pc = "idle" /\ client' = [client EXCEPT ![c] = y]
          /\ queue' = Append(queue, t) /\ Exists(d)
          /\ UNCHANGED <<worker, status, segment, enabled, index, disturbed>>
      BY <1>1, <2>1, <2>2 DEF DeleteRequest, Accept, sharedVars
    <2>4. y.pc = "delete_commit" /\ y.docs = {d} /\ t.kind = "clean" /\ t.docs = {d}
      BY <2>1, <2>2
    <2>5. Rows(d)' = Rows(d) /\ Entries(d)' = Entries(d)
      BY <2>3 DEF Rows, Entries
    <2>6. \A K : InQueue(K, d)' <=> InQueue(K, d) \/ "clean" \in K
      BY <2>3, <2>4, AppendInQueue
    <2>7. InQueue({"clean"}, d)' /\ (InQueue({"update"}, d)' <=> InQueue({"update"}, d))
          /\ (InQueue({"index", "update"}, d)' <=> InQueue({"index", "update"}, d))
      BY <2>6
    <2>8. \A pcs : "idle" \notin pcs /\ "delete_commit" \notin pcs =>
            (AtClient(pcs, d)' <=> AtClient(pcs, d))
      <3>1. \A pcs : AtClient(pcs, d) <=>
              AtOther(c, pcs, d) \/ (client[c].pc \in pcs /\ d \in client[c].docs)
        BY ClientNow
      <3>2. \A pcs : AtClient(pcs, d)' <=> AtOther(c, pcs, d) \/ (y.pc \in pcs /\ d \in y.docs)
        BY <2>3, ClientNext
      <3>3. QED
        BY <2>3, <2>4, <3>1, <3>2
    <2>9. /\ StartPending(d)' <=> StartPending(d)
          /\ UpdatePending(d)' <=> UpdatePending(d)
      BY <2>7, <2>8 DEF StartPending, UpdatePending
    <2>10. DeletePending(d)'
      BY <2>3, <2>4, ClientNext
    <2>11. \A x : Fits(x, d) => Fits(x, d)'
      BY <2>3, <2>5, <2>7, <2>9, <2>10
         DEF Fits, Stage, Settled, Has, Cleaning, Updating, Deleting, Exists
    <2>12. QED
      BY <2>3, <2>4, <2>11, OneRequestLifeInv
  <1>2. CASE DeleteCommit(c, d)
    <2>1. PICK y : y = NoRequest
      OBVIOUS
    <2>2. /\ client[c].pc = "delete_commit" /\ client[c].docs = {d}
          /\ client' = [client EXCEPT ![c] = y]
          /\ status' = [status EXCEPT ![d] = "deleted"]
          /\ UNCHANGED <<worker, queue, segment, enabled, index, disturbed>>
      BY <1>2, <2>1 DEF DeleteCommit, Step, Request
    <2>3. y.pc = "idle" /\ y.docs = {}
      BY <2>1 DEF NoRequest
    <2>4. status'[d] = "deleted" /\ \A e \in Documents \ {d} : status'[e] = status[e]
      BY <2>2 DEF TypeOK
    <2>5. Rows(d)' = Rows(d) /\ Entries(d)' = Entries(d)
      BY <2>2 DEF Rows, Entries
    <2>6. \A K : InQueue(K, d)' <=> InQueue(K, d)
      BY <2>2 DEF InQueue
    <2>7. \A pcs : "idle" \notin pcs /\ "delete_commit" \notin pcs =>
            (AtClient(pcs, d)' <=> AtClient(pcs, d))
      <3>1. \A pcs : AtClient(pcs, d) <=>
              AtOther(c, pcs, d) \/ (client[c].pc \in pcs /\ d \in client[c].docs)
        BY ClientNow
      <3>2. \A pcs : AtClient(pcs, d)' <=> AtOther(c, pcs, d) \/ (y.pc \in pcs /\ d \in y.docs)
        BY <2>2, ClientNext
      <3>3. QED
        BY <2>2, <2>3, <3>1, <3>2
    <2>8. /\ StartPending(d)' <=> StartPending(d)
          /\ UpdatePending(d)' <=> UpdatePending(d)
          /\ InQueue({"clean"}, d)' <=> InQueue({"clean"}, d)
      BY <2>6, <2>7 DEF StartPending, UpdatePending
    <2>9. DeletePending(d)
      BY <2>2 DEF DeletePending, Request
    <2>10. \A x : Fits(x, d) => Fits(x, d)'
      BY <2>2, <2>4, <2>5, <2>8, <2>9
         DEF Fits, Stage, Settled, Has, Cleaning, Updating, Deleting
    <2>11. QED
      BY <2>2, <2>3, <2>4, <2>10, OneRequestLifeInv
  <1>3. QED
    BY <1>1, <1>2

LEMMA UpdateLifeInv ==
    ASSUME TypeOK, TypeOK', LifeInv, NEW c \in Clients, NEW d \in Documents,
           \/ UpdateCommit(c, d) \/ UpdateMark(c, d) \/ UpdateEnqueue(c, d) \/ RequestFails(c, d)
    PROVE  LifeInv'
  <1>0. client[c].docs = {d} /\ client[c] \in ClientState /\ disturbed \subseteq disturbed'
        /\ UNCHANGED <<worker, enabled, index>>
        /\ NoRequest.pc = "idle" /\ NoRequest.docs = {}
    BY DEF UpdateCommit, UpdateMark, UpdateEnqueue, RequestFails, Step, Request, TypeOK,
           sharedVars, historyVars, NoRequest
  <1>1. \A pcs : AtClient(pcs, d) <=> AtOther(c, pcs, d) \/ client[c].pc \in pcs
    <2>1. \A pcs : AtClient(pcs, d) <=>
            AtOther(c, pcs, d) \/ (client[c].pc \in pcs /\ d \in client[c].docs)
      BY ClientNow
    <2>2. QED
      BY <1>0, <2>1
  <1>2. DeletePending(d) <=> OtherDeletes(c, d) \/ client[c].pc = "delete_commit"
    BY <1>0, ClientNow DEF Request
  <1>3. CASE UpdateCommit(c, d)
    <2>1. PICK y : y = [client[c] EXCEPT !.pc = "update_mark"]
      OBVIOUS
    <2>2. /\ client[c].pc = "update_commit" /\ client' = [client EXCEPT ![c] = y]
          /\ status' = [status EXCEPT ![d] = "waiting"]
          /\ d \notin disturbed' => status[d] = "completed"
          /\ UNCHANGED <<queue, segment>>
      BY <1>3, <2>1 DEF UpdateCommit, Step, Request, TypeOK
    <2>3. y.pc = "update_mark" /\ y.docs = {d}
      BY <1>0, <2>1 DEF ClientState
    <2>4. status'[d] = "waiting" /\ \A e \in Documents \ {d} : status'[e] = status[e]
      BY <2>2 DEF TypeOK
    <2>5. Rows(d)' = Rows(d) /\ Entries(d)' = Entries(d)
      BY <1>0, <2>2 DEF Rows, Entries
    <2>6. InQueue({"clean"}, d)' <=> InQueue({"clean"}, d)
      BY <2>2 DEF InQueue
    <2>7. \A pcs : "update_mark" \in pcs => AtClient(pcs, d)'
      <3>1. \A pcs : AtClient(pcs, d)' <=> AtOther(c, pcs, d) \/ (y.pc \in pcs /\ d \in y.docs)
        BY <2>2, ClientNext
      <3>2. d \in y.docs
        BY <2>3
      <3>3. QED
        BY <2>3, <3>1, <3>2
    <2>8. StartPending(d)' /\ UpdatePending(d)'
      BY <2>7 DEF StartPending, UpdatePending
    <2>9. DeletePending(d)' <=> DeletePending(d)
      BY <1>2, <2>2, <2>3, ClientNext
    <2>10. ASSUME d \notin disturbed', NEW x \in WorkerState, Fits(x, d)
           PROVE  Fits(x, d)'
      <3>1. status[d] = "completed"
        BY <2>2, <2>10
      <3>2. x.doc = d => Cleaning(x, d)
        BY <2>10, <3>1 DEF Fits, Stage, Cleaning, WorkerState, WorkerPC
      <3>3. d \notin x.batch
        BY <2>10, <3>1 DEF Fits
      <3>4. Deleting(d)' <=> Deleting(d)
        BY <2>4, <2>9, <3>1 DEF Deleting
      <3>5. Settled(x, d)'
        BY <1>0, <2>4, <2>5, <2>6, <2>8, <2>10, <3>2, <3>3, <3>4, <2>2
           DEF Fits, Settled, Has, Cleaning, Updating
      <3>6. x.doc = d => Stage(x, d)'
        BY <2>5, <2>10, <3>2, <3>3, <3>4 DEF Fits, Stage, Cleaning
      <3>7. QED
        BY <3>3, <3>5, <3>6 DEF Fits
    <2>11. QED
      BY <1>0, <2>2, <2>3, <2>4, <2>10, OneRequestLifeInv
  <1>4. CASE UpdateMark(c, d)
    <2>1. PICK y : y = [client[c] EXCEPT !.pc = "update_enqueue"]
      OBVIOUS
    <2>2. /\ client[c].pc = "update_mark" /\ client' = [client EXCEPT ![c] = y]
          /\ segment' = SegmentsSet(Rows(d), "re_segment") /\ Exists(d)
          /\ UNCHANGED <<queue, status, disturbed>>
      BY <1>4, <2>1 DEF UpdateMark, Step, Request, TypeOK
    <2>3. y.pc = "update_enqueue" /\ y.docs = {d}
      BY <1>0, <2>1 DEF ClientState
    <2>4. \A s \in Segment : segment'[s] = IF s \in Rows(d) THEN "re_segment" ELSE segment[s]
      BY <2>2 DEF SegmentsSet
    <2>5. Rows(d)' = Rows(d) /\ Entries(d)' = Entries(d) /\ \A s \in Rows(d) : segment'[s] = "re_segment"
      BY <1>0, <2>4 DEF Rows, Entries
    <2>6. InQueue({"clean"}, d)' <=> InQueue({"clean"}, d)
      BY <2>2 DEF InQueue
    <2>7. \A pcs : "update_enqueue" \in pcs => AtClient(pcs, d)'
      <3>1. \A pcs : AtClient(pcs, d)' <=> AtOther(c, pcs, d) \/ (y.pc \in pcs /\ d \in y.docs)
        BY <2>2, ClientNext
      <3>2. QED
        BY <2>3, <3>1
    <2>8. StartPending(d)' /\ UpdatePending(d)' /\ StartPending(d)
      BY <1>1, <2>2, <2>7 DEF StartPending, UpdatePending
    <2>9. DeletePending(d)' <=> DeletePending(d)
      BY <1>2, <2>2, <2>3, ClientNext
    <2>10. \A x : Fits(x, d) => Fits(x, d)'
      BY <1>0, <2>2, <2>5, <2>6, <2>8, <2>9
         DEF Fits, Stage, Settled, Has, Cleaning, Updating, Deleting, Exists
    <2>11. \A s \in Segment : s.doc # d => segment'[s] = segment[s]
      BY <2>4 DEF Rows
    <2>12. QED
      BY <1>0, <2>2, <2>3, <2>10, <2>11, OneRequestLifeInv
  <1>5. CASE UpdateEnqueue(c, d)
    <2>1. PICK y : y = NoRequest
      OBVIOUS
    <2>2. PICK t \in Task : t = [kind |-> "update", docs |-> {d}]
      BY DEF Task
    <2>3. /\ client[c].pc = "update_enqueue" /\ client' = [client EXCEPT ![c] = y]
          /\ queue' = Append(queue, t)
          /\ UNCHANGED <<status, segment, disturbed>>
      BY <1>5, <2>1, <2>2 DEF UpdateEnqueue, Step, Request, sharedVars
    <2>4. y.pc = "idle" /\ y.docs = {} /\ t.kind = "update" /\ t.docs = {d}
      BY <1>0, <2>1, <2>2
    <2>5. \A K : InQueue(K, d)' <=> InQueue(K, d) \/ "update" \in K
      BY <2>3, <2>4, AppendInQueue
    <2>6. \A pcs : "idle" \notin pcs => (AtClient(pcs, d)' => AtClient(pcs, d))
      <3>1. \A pcs : AtClient(pcs, d)' <=> AtOther(c, pcs, d) \/ (y.pc \in pcs /\ d \in y.docs)
        BY <2>3, ClientNext
      <3>2. QED
        BY <1>1, <2>4, <3>1
    <2>7. DeletePending(d)' <=> DeletePending(d)
      BY <1>2, <2>3, <2>4, ClientNext
    <2>8. StartPending(d) /\ UpdatePending(d) /\ StartPending(d)' /\ UpdatePending(d)'
      BY <1>1, <2>3, <2>5 DEF StartPending, UpdatePending
    <2>9. Mentioned(d) /\ (InQueue({"clean"}, d)' <=> InQueue({"clean"}, d))
      BY <2>5, <2>8, PendingIsMentioned
    <2>10. NoMorePending(d)
      BY <2>7, <2>8, <2>9 DEF NoMorePending
    <2>11. SameRows(d)
      BY <1>0, <2>3, RowsUntouched DEF TypeOK
    <2>12. \A x : Fits(x, d) => Fits(x, d)'
      BY <2>10, <2>11, NoMoreFits
    <2>13. QED
      BY <1>0, <2>3, <2>4, <2>12, OneRequestLifeInv
  <1>6. CASE RequestFails(c, d)
    <2>1. PICK y : y = NoRequest
      OBVIOUS
    <2>2. /\ client[c].pc # "delete_commit" /\ client' = [client EXCEPT ![c] = y] /\ ~Exists(d)
          /\ UNCHANGED <<status, segment, queue, disturbed>>
      BY <1>6, <2>1 DEF RequestFails, sharedVars, historyVars
    <2>3. y.pc = "idle" /\ y.docs = {}
      BY <1>0, <2>1
    <2>4. \A K : InQueue(K, d)' <=> InQueue(K, d)
      BY <2>2 DEF InQueue
    <2>5. client[c].pc \in ClientPC
      BY <1>0 DEF ClientState
    <2>6. Mentioned(d)
      BY <1>1, <2>5 DEF Mentioned
    <2>7. \A pcs : "idle" \notin pcs => (AtClient(pcs, d)' => AtClient(pcs, d))
      <3>1. \A pcs : AtClient(pcs, d)' <=> AtOther(c, pcs, d) \/ (y.pc \in pcs /\ d \in y.docs)
        BY <2>2, ClientNext
      <3>2. QED
        BY <1>1, <2>3, <3>1
    <2>8. DeletePending(d)' <=> DeletePending(d)
      BY <1>2, <2>2, <2>3, ClientNext
    <2>9. StartPending(d)' => StartPending(d)
      BY <2>4, <2>7 DEF StartPending
    <2>10. NoMorePending(d)
      BY <2>2, <2>4, <2>6, <2>8, <2>9 DEF NoMorePending, Exists
    <2>11. SameRows(d)
      BY <1>0, <2>2, RowsUntouched DEF TypeOK
    <2>12. \A x : Fits(x, d) => Fits(x, d)'
      BY <2>10, <2>11, NoMoreFits
    <2>13. QED
      BY <1>0, <2>2, <2>3, <2>12, OneRequestLifeInv
  <1>7. QED
    BY <1>3, <1>4, <1>5, <1>6

LEMMA RequestLifeInv ==
    ASSUME TypeOK, TypeOK', LifeInv, NEW c \in Clients, NEW d \in Documents,
           StartRequest(c, d) \/ ContinueRequest(c, d)
    PROVE  LifeInv'
  BY PauseLifeInv, DeleteLifeInv, UpdateLifeInv DEF StartRequest, ContinueRequest


-----------------------------------------------------------------------------
(* Taking a task *)

(* Only what the task at the head names is no longer pending.  *)
LEMMA TakePending ==
    ASSUME TypeOK, NEW w \in Workers, NEW kind, Take(w, kind), NEW d
    PROVE  /\ \A pcs : AtClient(pcs, d)' <=> AtClient(pcs, d)
           /\ DeletePending(d)' <=> DeletePending(d)
           /\ \A K : InQueue(K, d) <=> InQueue(K, d)' \/ (kind \in K /\ d \in Head(queue).docs)
  <1>1. UNCHANGED client /\ queue # <<>> /\ queue' = Tail(queue) /\ Head(queue).kind = kind
    BY DEF Take
  <1>2. \A K : InQueue(K, d) <=> InQueue(K, d)' \/ (kind \in K /\ d \in Head(queue).docs)
    BY <1>1, TailInQueue
  <1>3. QED
    BY <1>1, <1>2 DEF AtClient, DeletePending, Request

LEMMA TakeNoMorePending ==
    ASSUME TypeOK, NEW w \in Workers, NEW kind, Take(w, kind), NEW d,
           d \notin Head(queue).docs \/ kind # "clean",
           d \notin Head(queue).docs \/ kind # "update" \/ status[d] \notin {"waiting", "parsing"}
    PROVE  NoMorePending(d)
  <1>1. /\ \A pcs : AtClient(pcs, d)' <=> AtClient(pcs, d)
        /\ DeletePending(d)' <=> DeletePending(d)
    BY TakePending
  <1>2. \A K : InQueue(K, d) <=> InQueue(K, d)' \/ (kind \in K /\ d \in Head(queue).docs)
    BY TakePending
  <1>3. InQueue({"clean"}, d)' <=> InQueue({"clean"}, d)
    BY <1>2
  <1>4. (UpdatePending(d)' <=> UpdatePending(d)) \/ status[d] \notin {"waiting", "parsing"}
    BY <1>1, <1>2 DEF UpdatePending
  <1>5. StartPending(d)' => StartPending(d)
    BY <1>1, <1>2 DEF StartPending
  <1>6. Mentioned(d)' => Mentioned(d)
    BY <1>1, <1>2 DEF Mentioned
  <1>7. QED
    BY <1>1, <1>3, <1>4, <1>5, <1>6 DEF NoMorePending

(* What is not pending of a document when a worker that takes a task of it   *)
(* finds it free of the races of Busy.                                       *)
LEMMA NotBusyPending ==
    ASSUME TypeOK, NEW w \in Workers, NEW kind, Take(w, kind), NEW d, ~Busy(w, d)
    PROVE  /\ \A v \in Workers \ {w} : ~Holds(v, d)
           /\ ~StartPending(d)' /\ ~UpdatePending(d)'
           /\ ~DeletePending(d) /\ ~DeletePending(d)'
           /\ kind # "update" => ~UpdatePending(d)
           /\ kind \notin {"index", "update"} => ~StartPending(d)
  <1>1. \A v \in Workers \ {w} : ~Holds(v, d)
    BY DEF Busy
  <1>2. ~AtClient({"upload_enqueue", "update_mark", "update_enqueue"}, d)
        /\ ~AtClient({"update_mark", "update_enqueue"}, d)
    BY DEF Busy, AtClient
  <1>3. ~DeletePending(d)
    BY DEF Busy, DeletePending, Request
  <1>4. queue # <<>> /\ queue' = Tail(queue)
    BY DEF Take
  <1>5. ~InQueue({"index", "update"}, d)' /\ ~InQueue({"update"}, d)'
    <2>1. \A K : InQueue(K, d)' <=>
            \E i \in 2..Len(queue) : queue[i].kind \in K /\ d \in queue[i].docs
      BY <1>4, TailInQueue
    <2>2. QED
      BY <2>1 DEF Busy
  <1>6. /\ \A pcs : AtClient(pcs, d)' <=> AtClient(pcs, d)
        /\ DeletePending(d)' <=> DeletePending(d)
    BY TakePending
  <1>7. \A K : InQueue(K, d) <=> InQueue(K, d)' \/ (kind \in K /\ d \in Head(queue).docs)
    BY TakePending
  <1>8. QED
    BY <1>1, <1>2, <1>3, <1>5, <1>6, <1>7 DEF StartPending, UpdatePending

(* The worker that takes a task had nothing; of each document of the task it *)
(* either has it from now on, and nobody else has, or leaves it as it is.    *)
LEMMA TakeFits ==
    ASSUME IndexInv, LifeInv, TypeOK', NEW w \in Workers, NEW kind, Take(w, kind),
           NEW new \in WorkerState, AtRest(new), worker' = [worker EXCEPT ![w] = new],
           disturbed \subseteq disturbed',
           \A d \in Documents : d \notin Head(queue).docs => ~Has(new, d) /\ status'[d] = status[d],
           \A d \in Documents : d \in Head(queue).docs /\ d \notin disturbed' =>
             \/ /\ \A v \in Workers \ {w} : ~Holds(v, d)
                /\ Fits(NoWork, d) => Fits(new, d)'
             \/ /\ ~Has(new, d)
                /\ \A x \in WorkerState : Fits(x, d) => Fits(x, d)'
    PROVE  LifeInv'
  <1>1. TypeOK /\ worker \in [Workers -> WorkerState]
    BY DEF IndexInv, TypeOK
  <1>2. worker'[w] = new /\ \A v \in Workers \ {w} : worker'[v] = worker[v]
    BY <1>1
  <1>3. \A v \in Workers : AtRest(worker[v])'
    BY <1>2 DEF LifeInv, AtRest
  <1>4. \A d \in Documents : ~Holds(w, d)
    BY NoDocumentAssumption DEF LifeInv, AtRest, Take, Holds
  <1>5. UNCHANGED <<segment, enabled, index>>
    BY DEF Take
  <1>6. ASSUME NEW d \in Documents, d \notin disturbed'
        PROVE  DocumentFits(d)'
    <2>1. DocumentFits(d)
      BY <1>6 DEF LifeInv
    <2>2. ASSUME ~Has(new, d), \A x \in WorkerState : Fits(x, d) => Fits(x, d)'
          PROVE  DocumentFits(d)'
      <3>1. \A v \in Workers : worker'[v] = worker[v] \/ (~Holds(v, d) /\ ~Holds(v, d)')
        BY <1>2, <1>4, <2>2 DEF Has, Holds
      <3>2. QED
        BY <1>1, <2>1, <2>2, <3>1, SameHolderFits
    <2>3. ASSUME \A v \in Workers \ {w} : ~Holds(v, d), Fits(NoWork, d) => Fits(new, d)'
          PROVE  DocumentFits(d)'
      <3>1. Fits(NoWork, d)
        BY <1>4, <2>1, <2>3 DEF DocumentFits
      <3>2. QED
        BY <1>1, <2>3, <3>1, FitsNext
    <2>4. CASE d \notin Head(queue).docs
      <3>1. SameRows(d)
        BY <1>1, <1>5, <2>4, RowsUntouched DEF TypeOK
      <3>2. NoMorePending(d)
        BY <1>1, <2>4, TakeNoMorePending
      <3>3. QED
        BY <2>2, <2>4, <3>1, <3>2, NoMoreFits
    <2>5. QED
      BY <1>6, <2>2, <2>3, <2>4
  <1>7. QED
    BY <1>3, <1>6 DEF LifeInv

LEMMA TakeIndexLifeInv ==
    ASSUME IndexInv, LifeInv, TypeOK', NEW w \in Workers, TakeIndex(w)
    PROVE  LifeInv'
  <1>0. PICK ds : ds = {d \in Head(queue).docs : Exists(d)}
    OBVIOUS
  <1>1. PICK new : new = [NoWork EXCEPT !.pc = "next", !.batch = ds]
    OBVIOUS
  <1>2. /\ TypeOK /\ Take(w, "index")
        /\ worker' = [worker EXCEPT ![w] = new]
        /\ \A d \in Documents : status'[d] = IF d \in ds THEN "parsing" ELSE status[d]
        /\ disturbed' = disturbed \cup {d \in ds : Busy(w, d)}
    BY <1>0, <1>1 DEF TakeIndex, IndexInv
  <1>3. UNCHANGED <<segment, enabled, index>> /\ queue # <<>> /\ queue \in Seq(Task)
    BY <1>2 DEF Take, TypeOK
  <1>4. ds \subseteq Documents
    <2>1. Head(queue) \in Task
      BY <1>3
    <2>2. QED
      BY <1>0, <2>1 DEF Task
  <1>5. new.pc = "next" /\ new.doc = NoDocument /\ new.batch = ds /\ new \in WorkerState
    BY <1>1, <1>4 DEF NoWork, WorkerState, WorkerPC
  <1>6. \A d \in Documents : Has(new, d) <=> d \in ds
    BY <1>5, NoDocumentAssumption DEF Has
  <1>7. ASSUME NEW d \in ds, d \notin disturbed', Fits(NoWork, d)
        PROVE  Fits(new, d)'
    <2>1. /\ ~StartPending(d)' /\ ~UpdatePending(d)' /\ ~DeletePending(d)
          /\ ~DeletePending(d)' /\ ~UpdatePending(d)
      <3>1. ~Busy(w, d)
        BY <1>2, <1>7
      <3>2. QED
        BY <1>2, <3>1, NotBusyPending
    <2>2. /\ InQueue({"index", "update"}, d)
          /\ InQueue({"clean"}, d) <=> InQueue({"clean"}, d)'
      <3>1. \A K : InQueue(K, d) <=> InQueue(K, d)' \/ ("index" \in K /\ d \in Head(queue).docs)
        BY <1>2, TakePending
      <3>2. QED
        BY <1>0, <3>1
    <2>3. status[d] = "waiting" /\ status'[d] = "parsing"
      BY <1>0, <1>2, <1>4, <1>7, <2>2 DEF Fits, Settled, StartPending, Exists
    <2>4. Rows(d) = {} /\ Entries(d) = {} /\ ~InQueue({"clean"}, d)
      <3>1. ~Updating(NoWork, d) /\ d \in Documents
        BY <1>4 DEF Updating, NoWork
      <3>2. QED
        BY <1>7, <2>1, <2>3, <3>1 DEF Fits, Settled, Deleting
    <2>5. Rows(d)' = {} /\ Entries(d)' = {}
      BY <1>3, <2>4 DEF Rows, Entries
    <2>6. new.doc # d
      BY <1>4, <1>5, NoDocumentAssumption
    <2>7. Settled(new, d)'
      BY <2>1, <2>2, <2>3, <2>4, <2>5 DEF Settled, Deleting
    <2>8. QED
      BY <2>3, <2>5, <2>6, <2>7 DEF Fits
  <1>8. ASSUME NEW d \in Documents, d \in Head(queue).docs, d \notin ds
        PROVE  \A x : Fits(x, d) => Fits(x, d)'
    <2>1. SameRows(d)
      BY <1>2, <1>3, <1>8, RowsUntouched DEF TypeOK
    <2>2. NoMorePending(d)
      BY <1>2, TakeNoMorePending
    <2>3. QED
      BY <2>1, <2>2, NoMoreFits
  <1>9. AtRest(new)
    BY <1>5 DEF AtRest
  <1>10. \A d \in Documents : d \notin Head(queue).docs => ~Has(new, d) /\ status'[d] = status[d]
    BY <1>0, <1>2, <1>6
  <1>11. \A d \in ds : d \notin disturbed' => \A v \in Workers \ {w} : ~Holds(v, d)
    BY <1>2 DEF Busy
  <1>12. disturbed \subseteq disturbed'
    BY <1>2
  <1>13. QED
    BY <1>2, <1>5, <1>6, <1>7, <1>8, <1>9, <1>10, <1>11, <1>12, TakeFits

(* A task of the one document d that a worker takes up.  *)
LEMMA TakeOneLifeInv ==
    ASSUME IndexInv, LifeInv, TypeOK', NEW w \in Workers, NEW kind, Take(w, kind),
           NEW d \in Documents, Head(queue).docs = {d},
           NEW new \in WorkerState, AtRest(new), worker' = [worker EXCEPT ![w] = new],
           \A e \in Documents : Has(new, e) => e = d,
           \A e \in Documents \ {d} : status'[e] = status[e],
           disturbed \subseteq disturbed',
           d \notin disturbed' =>
             /\ \A v \in Workers \ {w} : ~Holds(v, d)
             /\ Fits(NoWork, d) => Fits(new, d)'
    PROVE  LifeInv'
  <1>1. \A e \in Documents : e \notin Head(queue).docs => ~Has(new, e) /\ status'[e] = status[e]
    OBVIOUS
  <1>2. \A e \in Documents : e \in Head(queue).docs /\ e \notin disturbed' =>
          /\ \A v \in Workers \ {w} : ~Holds(v, e)
          /\ Fits(NoWork, e) => Fits(new, e)'
    <2> SUFFICES ASSUME d \notin disturbed'
                 PROVE  /\ \A v \in Workers \ {w} : ~Holds(v, d)
                        /\ Fits(NoWork, d) => Fits(new, d)'
      OBVIOUS
    <2>1. QED
      OBVIOUS
  <1>3. QED
    BY <1>1, <1>2, TakeFits

LEMMA TakeRecoverLifeInv ==
    ASSUME IndexInv, LifeInv, TypeOK', NEW w \in Workers, NEW d \in Documents, TakeRecover(w, d)
    PROVE  LifeInv'
  <1>1. PICK new \in {[NoWork EXCEPT !.pc = "next", !.batch = {d}],
                      [NoWork EXCEPT !.pc = "purge", !.doc = d],
                      [NoWork EXCEPT !.pc = "collect", !.doc = d]} :
          /\ worker' = [worker EXCEPT ![w] = new]
          /\ \/ status[d] \in {"waiting", "parsing"} /\ new.pc = "next"
             \/ status[d] = "splitting" /\ new.pc = "purge"
             \/ status[d] = "indexing" /\ new.pc = "collect"
    BY DEF TakeRecover, NoWork
  <1>2. /\ TypeOK /\ Take(w, "recover") /\ Head(queue).docs = {d}
        /\ UNCHANGED <<status, segment, enabled, index>>
        /\ disturbed \subseteq disturbed'
        /\ d \notin disturbed' => ~Busy(w, d)
    BY DEF TakeRecover, Take, IndexInv
  <1>3. /\ new \in WorkerState /\ AtRest(new)
        /\ \A e \in Documents : Has(new, e) => e = d
        /\ new.pc = "next" => new.doc = NoDocument /\ new.batch = {d}
        /\ new.pc # "next" => new.doc = d /\ new.batch = {}
    <2>1. CASE new = [NoWork EXCEPT !.pc = "next", !.batch = {d}]
      <3>1. new.pc = "next" /\ new.doc = NoDocument /\ new.batch = {d} /\ new \in WorkerState
        BY <2>1 DEF NoWork, WorkerState, WorkerPC
      <3>2. QED
        BY <3>1, NoDocumentAssumption DEF AtRest, Has
    <2>2. ASSUME NEW pc \in {"purge", "collect"}, new = [NoWork EXCEPT !.pc = pc, !.doc = d]
          PROVE  /\ new \in WorkerState /\ AtRest(new)
                 /\ \A e \in Documents : Has(new, e) => e = d
                 /\ new.pc = "next" => new.doc = NoDocument /\ new.batch = {d}
                 /\ new.pc # "next" => new.doc = d /\ new.batch = {}
      <3>1. new.pc = pc /\ new.doc = d /\ new.batch = {} /\ new \in WorkerState
        BY <2>2 DEF NoWork, WorkerState, WorkerPC
      <3>2. QED
        BY <2>2, <3>1 DEF AtRest, Has
    <2>3. QED
      BY <1>1, <2>1, <2>2
  <1>4. ASSUME d \notin disturbed'
        PROVE  \A v \in Workers \ {w} : ~Holds(v, d)
    BY <1>2, <1>4 DEF Busy
  <1>5. ASSUME d \notin disturbed', Fits(NoWork, d)
        PROVE  Fits(new, d)'
    <2>1. /\ ~StartPending(d)' /\ ~UpdatePending(d)' /\ ~DeletePending(d)
          /\ ~DeletePending(d)' /\ ~UpdatePending(d)
      <3>1. ~Busy(w, d)
        BY <1>2, <1>5
      <3>2. QED
        BY <1>2, <3>1, NotBusyPending
    <2>2. InQueue({"clean"}, d) <=> InQueue({"clean"}, d)'
      <3>1. \A K : InQueue(K, d) <=> InQueue(K, d)' \/ ("recover" \in K /\ d \in Head(queue).docs)
        BY <1>2, TakePending
      <3>2. QED
        BY <3>1
    <2>3. Rows(d)' = Rows(d) /\ Entries(d)' = Entries(d) /\ UNCHANGED <<status, segment, enabled>>
      BY <1>2 DEF Rows, Entries
    <2>4. ~Updating(NoWork, d) /\ NoWork.doc # d
      BY NoDocumentAssumption DEF Updating, NoWork
    <2>5. status[d] \in {"waiting", "parsing"} => Rows(d) = {}
      BY <1>5, <2>1, <2>4 DEF Fits, Settled
    <2>6. ~Deleting(d) /\ ~Deleting(d)' /\ ~InQueue({"clean"}, d)
      <3>1. ~Deleting(d) /\ ~Deleting(d)'
        BY <1>1, <2>1, <2>3 DEF Deleting
      <3>2. QED
        BY <1>5, <3>1 DEF Fits, Settled
    <2>7. Settled(new, d)'
      BY <1>1, <1>5, <2>1, <2>2, <2>3, <2>4, <2>5, <2>6 DEF Fits, Settled
    <2>8. new.doc = d => Stage(new, d)'
      <3> SUFFICES ASSUME new.doc = d
                   PROVE  Stage(new, d)'
        OBVIOUS
      <3>1. new.pc # "next" /\ new.batch = {}
        BY <1>3, NoDocumentAssumption
      <3>2. CASE status[d] = "splitting" /\ new.pc = "purge"
        <4>1. Entries(d) = {}
          BY <1>5, <3>2 DEF Fits, Settled
        <4>2. QED
          BY <2>3, <3>1, <3>2, <4>1 DEF Stage
      <3>3. CASE status[d] = "indexing" /\ new.pc = "collect"
        <4>1. OneSplit(Rows(d), d) /\ \A s \in Rows(d) : segment[s] \in {"indexing", "completed"}
          BY <1>5, <2>1, <2>4, <3>3 DEF Fits, Settled
        <4>2. QED
          BY <2>3, <3>1, <3>3, <4>1 DEF Stage
      <3>4. QED
        BY <1>1, <3>1, <3>2, <3>3
    <2>9. d \in new.batch =>
            (status[d] \in {"waiting", "parsing", "deleted"} /\ Rows(d) = {})'
      BY <1>1, <1>3, <2>3, <2>5
    <2>10. QED
      BY <2>7, <2>8, <2>9 DEF Fits
  <1>6. QED
    BY <1>1, <1>2, <1>3, <1>4, <1>5, TakeOneLifeInv

LEMMA TakeUpdateLifeInv ==
    ASSUME IndexInv, LifeInv, TypeOK', NEW w \in Workers, NEW d \in Documents, TakeUpdate(w, d)
    PROVE  LifeInv'
  <1>1. PICK new : new = [NoWork EXCEPT !.pc = "update_index", !.doc = d]
    OBVIOUS
  <1>2. /\ TypeOK /\ Take(w, "update") /\ Head(queue).docs = {d} /\ Exists(d)
        /\ worker' = [worker EXCEPT ![w] = new]
        /\ status'[d] = "parsing" /\ \A e \in Documents \ {d} : status'[e] = status[e]
        /\ UNCHANGED <<segment, enabled, index>>
        /\ disturbed \subseteq disturbed'
        /\ d \notin disturbed' => ~Busy(w, d)
    BY <1>1 DEF TakeUpdate, Take, IndexInv, TypeOK
  <1>3. new.pc = "update_index" /\ new.doc = d /\ new.batch = {}
        /\ new \in WorkerState /\ AtRest(new)
        /\ \A e \in Documents : Has(new, e) => e = d
    BY <1>1 DEF NoWork, WorkerState, WorkerPC, AtRest, Has
  <1>4. ASSUME d \notin disturbed'
        PROVE  \A v \in Workers \ {w} : ~Holds(v, d)
    BY <1>2, <1>4 DEF Busy
  <1>5. ASSUME d \notin disturbed', Fits(NoWork, d)
        PROVE  Fits(new, d)'
    <2>1. ~StartPending(d)' /\ ~UpdatePending(d)' /\ ~DeletePending(d) /\ ~DeletePending(d)'
      <3>1. ~Busy(w, d)
        BY <1>2, <1>5
      <3>2. QED
        BY <1>2, <3>1, NotBusyPending
    <2>2. InQueue({"index", "update"}, d) /\ (InQueue({"clean"}, d) <=> InQueue({"clean"}, d)')
      <3>1. \A K : InQueue(K, d) <=> InQueue(K, d)' \/ ("update" \in K /\ d \in Head(queue).docs)
        BY <1>2, TakePending
      <3>2. QED
        BY <1>2, <3>1
    <2>3. Rows(d)' = Rows(d) /\ Entries(d)' = Entries(d)
      BY <1>2 DEF Rows, Entries
    <2>4. status[d] = "waiting"
      BY <1>2, <1>5, <2>2 DEF Fits, Settled, StartPending, Exists
    <2>5. ~InQueue({"clean"}, d)
      BY <1>5, <2>1, <2>4 DEF Fits, Settled, Deleting
    <2>6. Settled(new, d)'
      BY <1>2, <1>3, <1>5, <2>1, <2>2, <2>3, <2>5 DEF Fits, Settled, Deleting, Updating
    <2>7. Stage(new, d)'
      BY <1>2, <1>3 DEF Stage
    <2>8. QED
      BY <1>3, <2>6, <2>7 DEF Fits
  <1>6. QED
    BY <1>2, <1>3, <1>4, <1>5, TakeOneLifeInv

LEMMA TakeCleanLifeInv ==
    ASSUME IndexInv, LifeInv, TypeOK', NEW w \in Workers, NEW d \in Documents, TakeClean(w, d)
    PROVE  LifeInv'
  <1>1. PICK new : new = [NoWork EXCEPT !.pc = "clean_index", !.doc = d]
    OBVIOUS
  <1>2. /\ TypeOK /\ Take(w, "clean") /\ Head(queue).docs = {d}
        /\ worker' = [worker EXCEPT ![w] = new]
        /\ UNCHANGED <<status, segment, enabled, index>>
        /\ disturbed \subseteq disturbed'
        /\ d \notin disturbed' => \A v \in Workers \ {w} : ~Holds(v, d)
    BY <1>1 DEF TakeClean, Take, IndexInv
  <1>3. new.pc = "clean_index" /\ new.doc = d /\ new.batch = {}
        /\ new \in WorkerState /\ AtRest(new)
        /\ \A e \in Documents : Has(new, e) => e = d
    BY <1>1 DEF NoWork, WorkerState, WorkerPC, AtRest, Has
  <1>4. ASSUME Fits(NoWork, d)
        PROVE  Fits(new, d)'
    <2>1. /\ \A pcs : AtClient(pcs, d)' <=> AtClient(pcs, d)
          /\ DeletePending(d)' <=> DeletePending(d)
      BY <1>2, TakePending
    <2>2. \A K : InQueue(K, d) <=> InQueue(K, d)' \/ ("clean" \in K /\ d \in Head(queue).docs)
      BY <1>2, TakePending
    <2>3. /\ StartPending(d)' <=> StartPending(d)
          /\ UpdatePending(d)' <=> UpdatePending(d)
      BY <2>1, <2>2 DEF StartPending, UpdatePending
    <2>4. InQueue({"clean"}, d) /\ Mentioned(d)
      BY <1>2, <2>2 DEF Mentioned
    <2>5. Rows(d)' = Rows(d) /\ Entries(d)' = Entries(d)
      BY <1>2 DEF Rows, Entries
    <2>6. Deleting(d) /\ Deleting(d)'
      <3>1. Deleting(d)
        BY <1>4, <2>4 DEF Fits, Settled
      <3>2. QED
        BY <1>2, <2>1, <3>1 DEF Deleting
    <2>7. ~Updating(NoWork, d)
      BY DEF Updating, NoWork
    <2>8. Settled(new, d)'
      BY <1>2, <1>3, <1>4, <2>1, <2>3, <2>4, <2>5, <2>6, <2>7
         DEF Fits, Settled, Cleaning, Deleting
    <2>9. Stage(new, d)'
      BY <1>3, <2>6 DEF Stage
    <2>10. QED
      BY <1>3, <2>8, <2>9 DEF Fits
  <1>5. QED
    BY <1>2, <1>3, <1>4, TakeOneLifeInv

LEMMA TakeNothingLifeInv ==
    ASSUME IndexInv, LifeInv, NEW w \in Workers, NEW d \in Documents, TakeNothing(w, d)
    PROVE  LifeInv'
  <1>1. PICK kind \in {"recover", "update"} :
          Take(w, kind) /\ (kind = "update" => status[d] \notin {"waiting", "parsing"})
    BY DEF TakeNothing, Exists
  <1>2. /\ TypeOK /\ Head(queue).docs = {d}
        /\ UNCHANGED <<worker, status, segment, enabled, index, disturbed>>
    BY <1>1 DEF TakeNothing, Take, IndexInv
  <1>3. \A e \in Documents : NoMorePending(e)
    BY <1>1, <1>2, TakeNoMorePending
  <1>4. \A e \in Documents : SameRows(e)
    BY <1>2, RowsUntouched DEF TypeOK
  <1>5. \A e \in Documents : \A x \in WorkerState : Fits(x, e) => Fits(x, e)'
    BY <1>3, <1>4, NoMoreFits
  <1>6. QED
    BY <1>2, <1>5, QuietLifeInv

LEMMA TakeTaskLifeInv ==
    ASSUME IndexInv, LifeInv, TypeOK', NEW w \in Workers, TakeTask(w)
    PROVE  LifeInv'
  BY TakeIndexLifeInv, TakeRecoverLifeInv, TakeUpdateLifeInv, TakeCleanLifeInv,
     TakeNothingLifeInv DEF TakeTask

-----------------------------------------------------------------------------
(* The invariant *)

LEMMA InitLifeInv == Init => LifeInv
  <1> SUFFICES ASSUME Init
               PROVE  LifeInv
    OBVIOUS
  <1>1. NoWork.pc = "idle" /\ NoWork.doc = NoDocument /\ NoWork.batch = {}
        /\ NoRequest.pc = "idle" /\ NoRequest.docs = {}
    BY DEF NoWork, NoRequest
  <1>2. \A w \in Workers : worker[w] = NoWork
    BY DEF Init
  <1>3. \A w \in Workers : AtRest(worker[w])
    BY <1>1, <1>2 DEF AtRest
  <1>4. ASSUME NEW d \in Documents
        PROVE  DocumentFits(d)
    <2>1. \A pcs : ~AtClient(pcs, d)
      BY <1>1 DEF Init, AtClient
    <2>2. ~DeletePending(d)
      BY <1>1 DEF Init, DeletePending, Request
    <2>3. \A K : ~InQueue(K, d)
      BY DEF Init, InQueue
    <2>4. ~StartPending(d) /\ ~Mentioned(d)
      BY <2>1, <2>3 DEF StartPending, Mentioned
    <2>5. Rows(d) = {} /\ Entries(d) = {} /\ status[d] = "absent"
      BY DEF Init, Rows, Entries
    <2>6. ~Has(NoWork, d) /\ \A w \in Workers : ~Holds(w, d)
      BY <1>1, <1>2, NoDocumentAssumption DEF Has, Holds
    <2>7. Fits(NoWork, d)
      BY <2>2, <2>3, <2>4, <2>5, <2>6 DEF Fits, Settled, Has, Deleting
    <2>8. QED
      BY <2>6, <2>7 DEF DocumentFits
  <1>5. QED
    BY <1>3, <1>4 DEF LifeInv

LEMMA NextLifeInv == IndexInv /\ LifeInv /\ [Next]_vars => LifeInv'
  <1> SUFFICES ASSUME IndexInv, LifeInv, [Next]_vars
               PROVE  LifeInv'
    OBVIOUS
  <1>0. TypeOK /\ TypeOK'
    BY NextTypeOK DEF IndexInv
  <1>1. ASSUME NEW c \in Clients, NEW ds \in SUBSET Documents, UploadCommit(c, ds)
        PROVE  LifeInv'
    BY <1>0, <1>1, UploadCommitLifeInv
  <1>2. ASSUME NEW c \in Clients, UploadEnqueue(c)
        PROVE  LifeInv'
    BY <1>0, <1>2, UploadEnqueueLifeInv
  <1>3. ASSUME NEW c \in Clients, NEW d \in Documents, StartRequest(c, d) \/ ContinueRequest(c, d)
        PROVE  LifeInv'
    BY <1>0, <1>3, RequestLifeInv
  <1>4. ASSUME NEW w \in Workers, TakeTask(w)
        PROVE  LifeInv'
    BY <1>0, <1>4, TakeTaskLifeInv
  <1>5. ASSUME NEW w \in Workers, RunTask(w) \/ Crash(w)
        PROVE  LifeInv'
    BY <1>0, <1>5, RunTaskLifeInv
  <1>6. CASE UNCHANGED vars
    <2>1. UNCHANGED <<client, queue, worker, status, segment, enabled, index, disturbed>>
      BY <1>6 DEF vars
    <2>2. \A d \in Documents : SamePending(d) /\ SameRows(d)
      BY <1>0, <2>1, NothingPending, RowsUntouched DEF TypeOK
    <2>3. QED
      BY <1>0, <2>1, <2>2, FitsFrame, QuietLifeInv
  <1>7. QED
    BY <1>1, <1>2, <1>3, <1>4, <1>5, <1>6 DEF Next

LEMMA InitInv == Init => IndexInv /\ LifeInv
  BY InitIndexInv, InitLifeInv

LEMMA NextInv == IndexInv /\ LifeInv /\ [Next]_vars => (IndexInv /\ LifeInv)'
  BY NextIndexInv, NextLifeInv

-----------------------------------------------------------------------------
(* What a split leaves: each piece in exactly one row *)

LEMMA OneRowPerPiece ==
    ASSUME NEW d, NEW S, OneSplit(S, d), NEW p \in Pieces
    PROVE  Cardinality({s \in S : s.piece = p}) = 1
  <1>1. PICK n \in 1..MaxSplits : S = [doc : {d}, split : {n}, piece : Pieces]
    BY DEF OneSplit, Fresh
  <1>2. PICK x : x = [doc |-> d, split |-> n, piece |-> p]
    OBVIOUS
  <1>3. {s \in S : s.piece = p} = {x}
    <2>1. x \in S /\ x.piece = p
      BY <1>1, <1>2
    <2>2. \A s \in S : s.piece = p => s = x
      BY <1>1, <1>2
    <2>3. QED
      BY <2>1, <2>2
  <1>4. QED
    BY <1>3, FS_Singleton

(* What is known of an undisturbed document that no worker has.  *)
LEMMA FitsAlone ==
    ASSUME LifeInv, NEW d \in Documents, d \notin disturbed, \A w \in Workers : ~Holds(w, d)
    PROVE  Fits(NoWork, d)
  BY DEF LifeInv, DocumentFits

LEMMA NoWorkHasNothing ==
    ASSUME NEW d \in Documents
    PROVE  ~Has(NoWork, d) /\ ~Cleaning(NoWork, d) /\ ~Updating(NoWork, d) /\ NoWork.doc # d
  BY NoDocumentAssumption DEF Has, Cleaning, Updating, NoWork

LEMMA NobodyDrops ==
    ASSUME IndexInv, NEW s \in Segment, NEW w \in Workers, s \in worker[w].part
    PROVE  Holds(w, s.doc)
  BY DEF IndexInv, WorkersOwn, Owns, Holds

LEMMA LifeIsWhole == IndexInv /\ LifeInv => CompletedDocumentIsWhole
  <1> SUFFICES ASSUME IndexInv, LifeInv, NEW d \in Documents,
                      status[d] = "completed", d \notin disturbed,
                      \A w \in Workers : ~Holds(w, d),
                      \A c \in Clients : ~Request(c, "delete_commit", d)
               PROVE  /\ \A p \in Pieces : Cardinality({s \in Rows(d) : s.piece = p}) = 1
                      /\ \A s \in Rows(d) : segment[s] = "completed" /\ s \in enabled
                      /\ {s \in index : s.doc = d} = Rows(d)
    BY DEF CompletedDocumentIsWhole
  <1>1. Fits(NoWork, d)
    BY FitsAlone
  <1>2. ~DeletePending(d)
    BY DEF DeletePending
  <1>3. OneSplit(Rows(d), d) /\ \A s \in Rows(d) : segment[s] = "completed"
    BY <1>1, <1>2 DEF Fits, Settled
  <1>4. \A s \in Rows(d) : s \in enabled
    BY <1>1, <1>3 DEF Fits, Settled
  <1>5. Entries(d) \subseteq Rows(d)
    BY <1>1 DEF Fits, Settled
  <1>6. ASSUME NEW s \in Rows(d)
        PROVE  s \in index
    <2>1. s \in Segment /\ s.doc = d
      BY DEF Rows
    <2>2. \A w \in Workers : s \notin worker[w].part
      BY <2>1, NobodyDrops
    <2>3. QED
      BY <1>3, <2>1, <2>2 DEF IndexInv, CompletedRowIsIndexed
  <1>7. {s \in index : s.doc = d} = Rows(d)
    BY <1>5, <1>6 DEF Entries, Rows
  <1>8. QED
    BY <1>3, <1>4, <1>7, OneRowPerPiece

LEMMA IdleNothingPending ==
    ASSUME NEW d, Idle(d)
    PROVE  /\ ~DeletePending(d) /\ ~UpdatePending(d) /\ ~InQueue({"clean"}, d)
           /\ \A w \in Workers : ~Holds(w, d)
  BY DEF Idle, DeletePending, UpdatePending, AtClient, InQueue, Request

LEMMA LifeIsResumable == LifeInv => PausedIsResumable
  <1> SUFFICES ASSUME LifeInv, NEW d \in Documents, Idle(d), d \notin disturbed
               PROVE  /\ status[d] \in {"waiting", "parsing"} => Rows(d) = {}
                      /\ status[d] = "splitting" => {s \in index : s.doc = d} = {}
                      /\ status[d] = "indexing" =>
                           /\ \A p \in Pieces : Cardinality({s \in Rows(d) : s.piece = p}) = 1
                           /\ \A s \in Rows(d) : segment[s] \in {"indexing", "completed"}
    BY DEF PausedIsResumable
  <1>1. ~DeletePending(d) /\ ~UpdatePending(d) /\ Fits(NoWork, d)
    BY IdleNothingPending, FitsAlone
  <1>2. status[d] \in {"waiting", "parsing"} => Rows(d) = {}
    BY <1>1, NoWorkHasNothing DEF Fits, Settled
  <1>3. status[d] = "splitting" => Entries(d) = {}
    BY <1>1 DEF Fits, Settled
  <1>4. status[d] = "indexing" =>
          OneSplit(Rows(d), d) /\ \A s \in Rows(d) : segment[s] \in {"indexing", "completed"}
    BY <1>1, NoWorkHasNothing DEF Fits, Settled
  <1>5. QED
    BY <1>2, <1>3, <1>4, OneRowPerPiece DEF Entries

LEMMA LifeLeavesNothing == LifeInv => DeletedLeavesNothing
  <1> SUFFICES ASSUME LifeInv, NEW d \in Documents, Idle(d), status[d] = "deleted", d \notin disturbed
               PROVE  Rows(d) = {} /\ {s \in index : s.doc = d} = {}
    BY DEF DeletedLeavesNothing
  <1>1. ~InQueue({"clean"}, d) /\ Fits(NoWork, d)
    BY IdleNothingPending, FitsAlone
  <1>2. Rows(d) = {} /\ Entries(d) = {}
    BY <1>1, NoWorkHasNothing DEF Fits, Settled, Deleting
  <1>3. QED
    BY <1>2 DEF Entries

(* A completed document, however often it was paused, resumed or updated on  *)
(* the way and however its tasks interleaved with others, has each of its    *)
(* pieces in exactly one row, completed, enabled and indexed, and nothing    *)
(* else of it is in the vector index: what _build_index finishes is what     *)
(* the split saved, not the rows of two runs.                                *)
THEOREM CompletedDocumentsAreWhole == Spec => []CompletedDocumentIsWhole
  BY InitInv, NextInv, LifeIsWhole, PTL DEF Spec

(* Wherever a pause stops the runner, the rows it leaves are none, those of  *)
(* a split that will be purged, or one row for each piece in a status the    *)
(* recovery task takes up.                                                   *)
THEOREM PausedDocumentsAreResumable == Spec => []PausedIsResumable
  BY InitInv, NextInv, LifeIsResumable, PTL DEF Spec

(* When nothing is under way any more for a deleted document, it has neither *)
(* a row nor an index entry: for an undisturbed document clean_document_task *)
(* comes after every task that writes rows or entries of it.                 *)
THEOREM DeletedDocumentsLeaveNothing == Spec => []DeletedLeavesNothing
  BY InitInv, NextInv, LifeLeavesNothing, PTL DEF Spec

-----------------------------------------------------------------------------
(* What a step may do to the status of a document *)

(* The pairs of Lifecycle, one by one.  *)
LEMMA LifecyclePairs ==
    /\ <<"absent", "waiting">> \in Lifecycle
    /\ <<"waiting", "parsing">> \in Lifecycle
    /\ <<"waiting", "splitting">> \in Lifecycle
    /\ <<"parsing", "splitting">> \in Lifecycle
    /\ <<"splitting", "indexing">> \in Lifecycle
    /\ <<"indexing", "completed">> \in Lifecycle
    /\ <<"completed", "waiting">> \in Lifecycle
    /\ \A st \in {"waiting", "parsing", "splitting", "indexing"} :
         <<st, "error">> \in Lifecycle /\ <<st, "deleted">> \in Lifecycle
    /\ <<"completed", "deleted">> \in Lifecycle
    /\ <<"error", "deleted">> \in Lifecycle
  <1> DEFINE order == <<"absent", "waiting", "parsing", "splitting", "indexing", "completed">>
             pairs == {<<order[i], order[i + 1]>> : i \in 1..5}
  <1>1. /\ <<order[1], order[1 + 1]>> \in pairs /\ <<order[2], order[2 + 1]>> \in pairs
        /\ <<order[3], order[3 + 1]>> \in pairs /\ <<order[4], order[4 + 1]>> \in pairs
        /\ <<order[5], order[5 + 1]>> \in pairs
    OBVIOUS
  <1>2. /\ <<"absent", "waiting">> \in pairs /\ <<"waiting", "parsing">> \in pairs
        /\ <<"parsing", "splitting">> \in pairs /\ <<"splitting", "indexing">> \in pairs
        /\ <<"indexing", "completed">> \in pairs
    BY <1>1
  <1>3. pairs \subseteq Lifecycle
    BY DEF Lifecycle
  <1> HIDE DEF pairs
  <1>4. QED
    BY <1>2, <1>3 DEF Lifecycle

(* What is known of the document that a worker has at hand.  *)
LEMMA FitsAtHand ==
    ASSUME LifeInv, NEW w \in Workers, NEW d \in Documents, worker[w].doc = d, d \notin disturbed
    PROVE  Fits(worker[w], d) /\ Stage(worker[w], d)
  BY DEF LifeInv, DocumentFits, Holds, Fits

Follows(d) == status'[d] # status[d] => <<status[d], status'[d]>> \in Lifecycle

LEMMA RequestFollows ==
    ASSUME TypeOK, LifeInv, NEW c \in Clients, NEW e \in Documents,
           StartRequest(c, e) \/ ContinueRequest(c, e), NEW d \in Documents, d \notin disturbed'
    PROVE  Follows(d)
  <1>1. CASE DeleteCommit(c, e)
    <2>1. client[c].docs = {e} /\ client[c].pc \in ClientPC /\ d \notin disturbed
          /\ status' = [status EXCEPT ![e] = "deleted"]
      BY <1>1 DEF DeleteCommit, Step, Request, TypeOK, ClientState
    <2>2. d = e => status[d] # "absent"
      BY <2>1 DEF LifeInv, DocumentFits, Fits, Settled, Mentioned, AtClient
    <2>3. status[d] \in Status
      BY DEF TypeOK
    <2>4. QED
      BY <2>1, <2>2, <2>3, LifecyclePairs DEF Follows, TypeOK, Status
  <1>2. CASE UpdateCommit(c, e)
    <2>1. status' = [status EXCEPT ![e] = "waiting"] /\ (d = e => status[e] = "completed")
      BY <1>2 DEF UpdateCommit
    <2>2. QED
      BY <2>1, LifecyclePairs DEF Follows, TypeOK
  <1>3. CASE ~DeleteCommit(c, e) /\ ~UpdateCommit(c, e)
    <2>1. UNCHANGED status
      BY <1>3 DEF StartRequest, PauseRequest, RecoverRequest, DeleteRequest, UpdateRequest, Accept,
           ContinueRequest, PauseCommit, PauseSetFlag, RecoverCommit, RecoverClearFlag,
           RecoverEnqueue, UpdateMark, UpdateEnqueue, RequestFails, sharedVars, rowVars
    <2>2. QED
      BY <2>1 DEF Follows
  <1>4. QED
    BY <1>1, <1>2, <1>3

LEMMA TakeFollows ==
    ASSUME IndexInv, LifeInv, NEW w \in Workers, TakeTask(w), NEW d \in Documents, d \notin disturbed'
    PROVE  Follows(d)
  <1>0. TypeOK
    BY DEF IndexInv
  <1>1. ASSUME NEW kind \in {"index", "update"}, Take(w, kind), ~Busy(w, d),
               d \in Head(queue).docs, Exists(d), d \notin disturbed
        PROVE  status[d] = "waiting"
    <2>1. \A v \in Workers : ~Holds(v, d)
      BY <1>1, NoDocumentAssumption DEF Busy, LifeInv, AtRest, Take, Holds
    <2>2. \A K : InQueue(K, d) <=> InQueue(K, d)' \/ (kind \in K /\ d \in Head(queue).docs)
      BY <1>0, <1>1, TakePending
    <2>3. StartPending(d)
      BY <1>1, <2>2 DEF StartPending
    <2>4. QED
      BY <1>1, <2>1, <2>3, FitsAlone DEF Fits, Settled, Exists
  <1>2. CASE TakeIndex(w)
    <2>1. PICK ds : ds = {e \in Head(queue).docs : Exists(e)}
      OBVIOUS
    <2>2. /\ Take(w, "index") /\ status'[d] = IF d \in ds THEN "parsing" ELSE status[d]
          /\ d \notin disturbed /\ (d \in ds => ~Busy(w, d))
      BY <1>2, <2>1 DEF TakeIndex
    <2>3. d \in ds => status[d] = "waiting"
      BY <1>1, <2>1, <2>2
    <2>4. QED
      BY <2>2, <2>3, LifecyclePairs DEF Follows
  <1>3. ASSUME NEW e \in Documents, TakeUpdate(w, e)
        PROVE  Follows(d)
    <2>1. /\ Take(w, "update") /\ status' = [status EXCEPT ![e] = "parsing"] /\ Exists(e)
          /\ Head(queue).docs = {e}
          /\ d \notin disturbed /\ (d = e => ~Busy(w, d))
      BY <1>3 DEF TakeUpdate
    <2>2. d = e => status[d] = "waiting"
      BY <1>1, <2>1
    <2>3. QED
      BY <1>0, <2>1, <2>2, LifecyclePairs DEF Follows, TypeOK
  <1>4. ASSUME NEW e \in Documents, TakeRecover(w, e) \/ TakeClean(w, e) \/ TakeNothing(w, e)
        PROVE  Follows(d)
    BY <1>4 DEF TakeRecover, TakeClean, TakeNothing, Follows
  <1>5. QED
    BY <1>2, <1>3, <1>4 DEF TakeTask

LEMMA WriteFollows ==
    ASSUME IndexInv, LifeInv, NEW w \in Workers, NEW e \in Documents,
           SetSplitting(w, e) \/ SetIndexing(w, e) \/ SetCompleted(w, e) \/ Fail(w, e),
           NEW d \in Documents, d \notin disturbed'
    PROVE  Follows(d)
  <1>1. worker[w].doc = e /\ d \notin disturbed /\ status \in [Documents -> Status]
    BY DEF SetSplitting, SetIndexing, SetCompleted, Fail, IndexInv, TypeOK
  <1>2. CASE d # e
    BY <1>1, <1>2 DEF SetSplitting, SetIndexing, SetCompleted, Fail, WriteStatus, Follows
  <1>3. CASE d = e
    <2>1. Stage(worker[w], e)
      BY <1>1, <1>3, FitsAtHand
    <2>2. CASE SetSplitting(w, e)
      <3>1. /\ status[e] \in {"waiting", "parsing", "splitting", "deleted"}
            /\ status'[e] = IF Exists(e) THEN "splitting" ELSE status[e]
        BY <1>1, <2>1, <2>2 DEF SetSplitting, At, Stage, WriteStatus
      <3>2. QED
        BY <1>3, <3>1, LifecyclePairs DEF Follows, Exists
    <2>3. CASE SetIndexing(w, e)
      <3>1. /\ status[e] \in {"splitting", "deleted"}
            /\ status'[e] = IF Exists(e) THEN "indexing" ELSE status[e]
        BY <1>1, <2>1, <2>3 DEF SetIndexing, At, Stage, WriteStatus
      <3>2. QED
        BY <1>3, <3>1, LifecyclePairs DEF Follows, Exists
    <2>4. CASE SetCompleted(w, e)
      <3>1. /\ status[e] \in {"indexing", "deleted"}
            /\ status'[e] = IF Exists(e) THEN "completed" ELSE status[e]
        BY <1>1, <2>1, <2>4 DEF SetCompleted, At, Stage, WriteStatus
      <3>2. QED
        BY <1>3, <3>1, LifecyclePairs DEF Follows, Exists
    <2>5. CASE Fail(w, e)
      <3>1. /\ status[e] \in {"waiting", "parsing", "splitting", "indexing", "deleted"}
            /\ status'[e] = IF Exists(e) THEN "error" ELSE status[e]
        BY <1>1, <2>1, <2>5 DEF Fail, Stage, WriteStatus
      <3>2. QED
        BY <1>3, <3>1, LifecyclePairs DEF Follows, Exists
    <2>6. QED
      BY <2>2, <2>3, <2>4, <2>5
  <1>4. QED
    BY <1>2, <1>3

LEMMA NextFollows ==
    ASSUME IndexInv, LifeInv, [Next]_vars, NEW d \in Documents, d \notin disturbed'
    PROVE  Follows(d)
  <1>0. TypeOK
    BY DEF IndexInv
  <1>1. ASSUME NEW c \in Clients, NEW ds \in SUBSET Documents, UploadCommit(c, ds)
        PROVE  Follows(d)
    BY <1>1, LifecyclePairs DEF UploadCommit, Follows
  <1>2. ASSUME NEW c \in Clients, UploadEnqueue(c)
        PROVE  Follows(d)
    BY <1>2 DEF UploadEnqueue, sharedVars, Follows
  <1>3. ASSUME NEW c \in Clients, NEW e \in Documents, StartRequest(c, e) \/ ContinueRequest(c, e)
        PROVE  Follows(d)
    BY <1>0, <1>3, RequestFollows
  <1>4. ASSUME NEW w \in Workers, TakeTask(w)
        PROVE  Follows(d)
    BY <1>4, TakeFollows
  <1>5. ASSUME NEW w \in Workers, RunTask(w) \/ Crash(w)
        PROVE  Follows(d)
    <2>1. \/ UNCHANGED status
          \/ \E e \in Documents :
               SetSplitting(w, e) \/ SetIndexing(w, e) \/ SetCompleted(w, e) \/ Fail(w, e)
      BY <1>5
         DEF RunTask, Crash, EndTask, Release, AddTexts, SaveSegment, RunDocument, NextDocument,
             Load, Split, EndSplit, MarkSegments, BeginChunk, FinishChunk, EndBuild, StopPaused,
             StopDeleted, PurgeSegments, CollectSegments, DropIndex, DropRows, NothingToClean,
             CleanUpFails
    <2>2. QED
      BY <2>1, WriteFollows DEF Follows
  <1>6. CASE UNCHANGED vars
    BY <1>6 DEF vars, Follows
  <1>7. QED
    BY <1>1, <1>2, <1>3, <1>4, <1>5, <1>6 DEF Next

(* Whatever requests and tasks interleave, the status of an undisturbed      *)
(* document moves only along the life cycle its names describe: no task that *)
(* runs late or twice takes it back.                                         *)
THEOREM StatusChangesFollowLifecycle == Spec => StatusFollowsLifecycle
  <1> DEFINE Step1 == \A d \in Documents :
               d \notin disturbed' /\ status'[d] # status[d] => <<status[d], status'[d]>> \in Lifecycle
  <1>1. IndexInv /\ LifeInv /\ [Next]_vars => Step1
    BY NextFollows DEF Follows
  <1>2. Spec => [][Step1]_vars
    BY <1>1, InitInv, NextInv, PTL DEF Spec
  <1>3. QED
    BY <1>2 DEF StatusFollowsLifecycle

-----------------------------------------------------------------------------
(* What a step may do to a completed segment *)

Resumes(s) ==
    segment[s] = "completed" =>
      \/ segment'[s] \in {"completed", "re_segment"}
      \/ \E w \in Workers : /\ worker[w].pc \in Dropping
                            /\ s \in worker[w].part

(* A document without index entries has no completed row that stays.  *)
LEMMA NoEntryNoCompleted ==
    ASSUME IndexInv, NEW s \in Segment, s.doc \notin disturbed, Entries(s.doc) = {}
    PROVE  Resumes(s)
  BY DEF IndexInv, CompletedRowIsIndexed, Entries, Resumes, Dropping

LEMMA RunResumes ==
    ASSUME IndexInv, LifeInv, NEW w \in Workers, RunTask(w),
           NEW s \in Segment, s.doc \notin disturbed'
    PROVE  Resumes(s)
  <1>0. s.doc \in Documents /\ \A t \in worker[w].todo \cup worker[w].part : t.doc = worker[w].doc
    BY DEF Segment, IndexInv, WorkersOwn, Owns
  <1>1. ASSUME NEW t \in Segment, SaveSegment(w, t)
        PROVE  Resumes(s)
    <2>1. worker[w].pc = "save" /\ t \in worker[w].part /\ segment' = SegmentsSet({t}, "waiting")
          /\ UNCHANGED disturbed
      BY <1>1 DEF SaveSegment, At
    <2>2. CASE s = t
      <3>1. Stage(worker[w], s.doc)
        BY <1>0, <2>1, <2>2, FitsAtHand
      <3>2. QED
        BY <2>1, <3>1, NoEntryNoCompleted DEF Stage
    <2>3. CASE s # t
      BY <2>1, <2>3 DEF SegmentsSet, Resumes
    <2>4. QED
      BY <2>2, <2>3
  <1>2. ASSUME NEW e \in Documents, MarkSegments(w, e) \/ PurgeSegments(w, e)
        PROVE  Resumes(s)
    <2>1. worker[w].pc \in {"mark", "purge"} /\ worker[w].doc = e /\ UNCHANGED disturbed
          /\ \E st : segment' = SegmentsSet(Rows(e), st)
      BY <1>2 DEF MarkSegments, PurgeSegments, At
    <2>2. CASE s.doc = e
      <3>1. Stage(worker[w], s.doc)
        BY <1>0, <2>1, <2>2, FitsAtHand
      <3>2. QED
        BY <2>1, <3>1, NoEntryNoCompleted DEF Stage
    <2>3. CASE s.doc # e
      BY <2>1, <2>3 DEF SegmentsSet, Rows, Resumes
    <2>4. QED
      BY <2>2, <2>3
  <1>3. ASSUME NEW e \in Documents, FinishChunk(w, e)
        PROVE  Resumes(s)
    BY <1>3 DEF FinishChunk, SegmentsSet, Resumes
  <1>4. ASSUME NEW e \in Documents, DropRows(w, e)
        PROVE  Resumes(s)
    BY <1>4 DEF DropRows, At, SegmentsSet, Resumes, Dropping
  <1>5. CASE UNCHANGED segment
    BY <1>5 DEF Resumes
  <1>6. QED
    BY <1>1, <1>2, <1>3, <1>4, <1>5
       DEF RunTask, EndTask, Release, AddTexts, RunDocument, NextDocument, Load, SetSplitting,
           Split, EndSplit, SetIndexing, BeginChunk, EndBuild, SetCompleted, Fail, StopPaused,
           StopDeleted, CollectSegments, DropIndex, NothingToClean, CleanUpFails

LEMMA NextResumes ==
    ASSUME IndexInv, LifeInv, [Next]_vars, NEW s \in Segment, s.doc \notin disturbed'
    PROVE  Resumes(s)
  <1>1. ASSUME NEW c \in Clients, NEW d \in Documents, UpdateMark(c, d)
        PROVE  Resumes(s)
    BY <1>1 DEF UpdateMark, SegmentsSet, Resumes
  <1>2. ASSUME NEW w \in Workers, RunTask(w)
        PROVE  Resumes(s)
    BY <1>2, RunResumes
  <1>3. CASE UNCHANGED segment
    BY <1>3 DEF Resumes
  <1>4. ASSUME NEW c \in Clients, NEW d \in Documents, StartRequest(c, d) \/ ContinueRequest(c, d),
               ~UpdateMark(c, d)
        PROVE  UNCHANGED segment
    BY <1>4 DEF StartRequest, PauseRequest, RecoverRequest, DeleteRequest, UpdateRequest, Accept,
           ContinueRequest, PauseCommit, PauseSetFlag, RecoverCommit, RecoverClearFlag,
           RecoverEnqueue, DeleteCommit, UpdateCommit, UpdateEnqueue, RequestFails,
           sharedVars, rowVars
  <1>5. ASSUME NEW w \in Workers, TakeTask(w) \/ Crash(w)
        PROVE  UNCHANGED segment
    BY <1>5 DEF TakeTask, TakeIndex, TakeRecover, TakeUpdate, TakeClean, TakeNothing, Take, Crash
  <1>6. QED
    BY <1>1, <1>2, <1>3, <1>4, <1>5 DEF Next, vars, UploadCommit, UploadEnqueue, sharedVars

(* No run takes a completed segment of an undisturbed document back: the     *)
(* rows that a split, a mark or a purge rewrites have no index entry yet, so *)
(* none of them is completed; only an update or a deletion ends one.         *)
THEOREM ResumptionsKeepCompleted == Spec => ResumeKeepsCompleted
  <1> DEFINE Keeps == \A s \in Segment :
               segment[s] = "completed" /\ s.doc \notin disturbed' =>
                 \/ segment'[s] \in {"completed", "re_segment"}
                 \/ \E w \in Workers : /\ worker[w].pc \in {"update_rows", "clean_rows"}
                                       /\ s \in worker[w].part
  <1>1. IndexInv /\ LifeInv /\ [Next]_vars => Keeps
    BY NextResumes DEF Resumes, Dropping
  <1>2. Spec => [][Keeps]_vars
    BY <1>1, InitInv, NextInv, PTL DEF Spec
  <1>3. QED
    BY <1>2 DEF ResumeKeepsCompleted
=============================================================================
