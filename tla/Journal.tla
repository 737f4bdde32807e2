------------------------------- MODULE Journal ------------------------------
(***************************************************************************)
(* What a stored run promises whoever reads it: a journal that only grows, *)
(* by whole ticks, up to its last one, and is closed once, when it has all *)
(* of them, under a seal that covers every entry, the closing entry        *)
(* included if the run has one.  The closing entry is not promised to be   *)
(* kept.  How the journal is written, torn, cut and repaired is the        *)
(* business of RunStore, which implements this.                            *)
(***************************************************************************)
EXTENDS Naturals, Sequences

VARIABLES goal,     \* entries of all ticks of the run
          closing,  \* whether the run has a closing entry after its ticks
          kept,     \* entries of its complete ticks
          closed,   \* its row says that it has ended
          seal      \* entries the hash in its row covers

journalVars == <<goal, closing, kept, closed, seal>>

Init ==
  /\ goal \in Nat
  /\ closing \in BOOLEAN
  /\ kept = <<>>
  /\ closed = FALSE
  /\ seal = 0

\* Ticks are added to what is there.
Record ==
  /\ Len(kept) < Len(kept') /\ Len(kept') <= goal
  /\ SubSeq(kept', 1, Len(kept)) = kept
  /\ UNCHANGED <<goal, closing, closed, seal>>

\* The row of a run with all its ticks is closed and sealed in one step.
Close ==
  /\ ~closed
  /\ Len(kept) = goal
  /\ closed' = TRUE
  /\ seal' \in {Len(kept), IF closing THEN Len(kept) + 1 ELSE Len(kept)}
  /\ UNCHANGED <<goal, closing, kept>>

Next == Record \/ Close

Spec == Init /\ [][Next]_journalVars
=============================================================================
