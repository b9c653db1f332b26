----------------------------- MODULE VectorStore -----------------------------
(***************************************************************************)
(* What a streaming vector index promises, whatever its layout.  Events    *)
(* ask for points to be present or absent; batches carry the requests out. *)
(* A requested insert makes its point visible once; a point disappears     *)
(* only when it is unwanted, and then for good, until it is asked again.   *)
(***************************************************************************)
CONSTANTS
  Pids,   \* every point id
  Base    \* the points present at the start

VARIABLES
  want,   \* the points the events so far leave present
  due,    \* the inserts asked for and not carried out
  live    \* the points a search can return

Init == want = Base /\ due = {} /\ live = Base

AskInsert(p) == want' = want \cup {p} /\ due' = due \cup {p} /\ UNCHANGED live
AskDelete(p) == want' = want \ {p} /\ UNCHANGED <<due, live>>

ApplyInserts ==
  \E P \in SUBSET due :
    /\ live' = live \cup P
    /\ due' = due \ P
    /\ UNCHANGED want

ApplyDeletes ==
  \E P \in SUBSET (live \ want) :
    /\ live' = live \ P
    /\ UNCHANGED <<want, due>>

Next == \/ \E p \in Pids : AskInsert(p) \/ AskDelete(p)
        \/ ApplyInserts \/ ApplyDeletes

Spec == Init /\ [][Next]_<<want, due, live>>
=============================================================================
