---------------------------- MODULE ContentStates ----------------------------
(***************************************************************************)
(* The states of a content item and the moves between them                 *)
(* (packages/core/src/editorial/content.ts).  Pure: the modules that keep  *)
(* an item use these operators the way the code calls the table.           *)
(***************************************************************************)
EXTENDS Naturals

ContentState == {"draft", "generated", "in_review", "editing", "approved",
                 "scheduled", "publishing", "published", "publish_failed",
                 "publish_ambiguous", "archived"}

\* CONTENT_STATE_TRANSITIONS.
Transitions(state) ==
    CASE state = "draft"             -> {"generated", "archived"}
      [] state = "generated"         -> {"in_review", "editing", "archived"}
      [] state = "in_review"         -> {"editing", "approved", "archived"}
      [] state = "editing"           -> {"in_review", "generated", "archived"}
      [] state = "approved"          -> {"scheduled", "publishing", "in_review",
                                         "editing", "archived"}
      [] state = "scheduled"         -> {"publishing", "in_review", "approved",
                                         "archived"}
      [] state = "publishing"        -> {"published", "publish_failed",
                                         "publish_ambiguous"}
      [] state = "published"         -> {"archived"}
      [] state = "publish_failed"    -> {"approved", "publishing", "archived"}
      [] state = "publish_ambiguous" -> {"published", "approved", "archived"}
      [] OTHER                       -> {}

\* A table nobody reads: a mutant of MayMove.
MayMove_Any(from, to) == TRUE

\* assertTransition lets an item stay where it is.
MayMove(from, to) == from = to \/ to \in Transitions(from)

\* advanceThrough: the move itself, or a detour by "editing" whose second leg
\* is written without a check.
MayAdvance(from, to) == MayMove(from, to) \/ "editing" \in Transitions(from)

\* stateAfterWrite of an edit or a regeneration: an item that was approved or
\* being read goes back to its reader.
AfterRewrite(state, approved) ==
    IF approved \/ state \in {"in_review", "editing"} THEN "in_review" ELSE "generated"
==============================================================================
