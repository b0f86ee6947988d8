---------------------------- MODULE KeywordIndex ----------------------------
(***************************************************************************)
(* What the keyword index of a dataset promises to its callers, who see    *)
(* calls and returns: a call takes effect at its return, all at once, and  *)
(* touches the nodes it names and no other - except that it may undo what  *)
(* other calls wrote while it was in progress.  Nodes so exposed are       *)
(* unsure: the contract says nothing of them until they are deleted.       *)
(***************************************************************************)
CONSTANTS Nodes, Keywords, Writers, NoCall

VARIABLES
    entries,    \* the keywords that find a node, {} of an unsure one
    unsure,     \* nodes that a call may have undone
    open,       \* the call each writer is in
    missed      \* nodes that others wrote during the call of a writer

vars == <<entries, unsure, open, missed>>

\* A call names nodes, with the keywords to add to each; a deletion adds none.
Call == [kind : {"add", "delete"},
         words : UNION {[S -> SUBSET Keywords] : S \in SUBSET Nodes}]

Touched(c) == DOMAIN c.words

Erased(c) == IF c.kind = "delete" THEN Touched(c) ELSE {}

Effect(c, n) ==
    IF n \in Erased(c) THEN {}
    ELSE IF n \in Touched(c) THEN entries[n] \cup c.words[n]
    ELSE entries[n]

Init ==
    /\ entries = [n \in Nodes |-> {}]
    /\ unsure = {}
    /\ open = [w \in Writers |-> NoCall]
    /\ missed = [w \in Writers |-> {}]

Begin(w) ==
    /\ open[w] = NoCall
    /\ \E c \in Call : open' = [open EXCEPT ![w] = c]
    /\ missed' = [missed EXCEPT ![w] = {}]
    /\ UNCHANGED <<entries, unsure>>

\* Whoever is in a call now has missed the nodes S.
Miss(w, S) ==
    missed' = [v \in Writers |-> IF v # w /\ open[v] # NoCall THEN missed[v] \cup S ELSE missed[v]]

Return(w) ==
    /\ open[w] # NoCall
    /\ open' = [open EXCEPT ![w] = NoCall]
    /\ unsure' = (unsure \cup missed[w]) \ Erased(open[w])
    /\ entries' = [n \in Nodes |-> IF n \in unsure' THEN {} ELSE Effect(open[w], n)]
    /\ Miss(w, Touched(open[w]))

\* A call that fails has no effect.
Fail(w) ==
    /\ open[w] # NoCall
    /\ open' = [open EXCEPT ![w] = NoCall]
    /\ UNCHANGED <<entries, unsure, missed>>

\* The index of the dataset is dropped as a whole.
Drop(w) ==
    /\ open[w] = NoCall
    /\ entries' = [n \in Nodes |-> {}]
    /\ unsure' = {}
    /\ Miss(w, Nodes)
    /\ UNCHANGED open

Next == \E w \in Writers : Begin(w) \/ Return(w) \/ Fail(w) \/ Drop(w)

Spec == Init /\ [][Next]_vars
=============================================================================
