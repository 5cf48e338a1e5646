---------------------------- MODULE MCIntentStore ----------------------------
(* A small MemoryStore, offered explicit drafts of every kind that
   checkExplicitDraft tells apart.                                         *)
EXTENDS IntentStore

CONSTANTS p1, s1, rev1, op1, op2, run1, pos1

Fresh == {ExplicitDraft(o, s1, rev1) : o \in {op1, op2}}

MCExplicitDrafts ==
  Fresh
  \cup {[d EXCEPT !.RunID = run1] : d \in Fresh}
  \cup {[d EXCEPT !.Origin = "AUTOMATIC"] : d \in Fresh}
  \cup {[d EXCEPT !.PolicyID = p1] : d \in Fresh}

MCPublishedBefore == {}
MCSymmetry == Permutations(IDs) \cup Permutations(RunIDs)
=============================================================================
