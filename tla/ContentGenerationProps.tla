----------------------- MODULE ContentGenerationProps ------------------------
(***************************************************************************)
(* The card of a content on the review screen                              *)
(* (apps/web/src/features/editorial/state.ts), and the correctness         *)
(* properties of the writing of contents.                                  *)
(*                                                                         *)
(* What the card shows and which buttons it opens is computed by the       *)
(* screen from the row of the item, its current version, its notes and the *)
(* table of moves the API serves.  The screen decides without the          *)
(* operators of the routes, so that the two may disagree.  The motive of a *)
(* rejection is left out: the notes of a version are here the agents that  *)
(* have read it.                                                           *)
(***************************************************************************)
EXTENDS ContentGeneration

\* contentBundle: the item, its current version, and the notes of every one.
Bundle(row, texts) ==
    [item |-> row,
     notes |-> {note \in (DOMAIN texts) \X Reviewers : note[2] \in texts[note[1]].notes}]

\* Notes of any version open the approval: a mutant of NotesShown.
NotesShown_All(bundle) == {note[2] : note \in bundle.notes}

\* buildCard keeps the notes of the version that is shown.
NotesShown(bundle) == {note[2] : note \in {n \in bundle.notes : n[1] = bundle.item.current}}

\* A state that leads nowhere closes the card.
Terminal(bundle) == Transitions(bundle.item.state) = {}

RegenerationsLeft(bundle) ==
    IF bundle.item.regen >= MaxRegen THEN 0 ELSE MaxRegen - bundle.item.regen

\* buildCard: the approval is closed by the state, then by the absence of a
\* text, then by a control that has not been run on this version.
CanApprove(bundle) ==
    /\ "approved" \in Transitions(bundle.item.state)
    /\ bundle.item.current # 0
    /\ Reviewers \subseteq NotesShown(bundle)

CanRegenerate(bundle) == ~Terminal(bundle) /\ RegenerationsLeft(bundle) # 0

\* A card as the screen draws it; the number it gives as the approved one is
\* that of the version it shows.
Card(bundle) ==
    [canApprove |-> CanApprove(bundle), canRegenerate |-> CanRegenerate(bundle),
     canEdit |-> ~Terminal(bundle), canReject |-> ~Terminal(bundle),
     approved |-> bundle.item.state = "approved" /\ bundle.item.approved = bundle.item.current,
     approvedNumber |-> IF bundle.item.approved = 0 THEN 0 ELSE bundle.item.current]

\* versionOptions: the versions from the newest, with the two that matter.
History(row, texts) ==
    [n \in DOMAIN texts |-> LET v == Len(texts) + 1 - n
                            IN [version |-> v, isCurrent |-> v = row.current,
                                isApproved |-> v = row.approved]]

\* compareWithApproved: the versions the two columns of the comparison hold.
Compared(row, texts) ==
    [approved |-> {v \in DOMAIN texts : v = row.approved},
     current |-> {v \in DOMAIN texts : v = row.current}]

\* The routes, on the row the card was drawn from.
Accepts(row, texts) ==
    [approve |-> MayMove(row.state, "approved") /\ Approvable(row, texts),
     regenerate |-> MayRegenerate(row),
     edit |-> row.state # "archived" /\ MayAdvance(row.state, DraftState(row, "edited")),
     reject |-> MayMove(row.state, "archived")]

------------------------------------------------------------------------------
(* The properties.                                                         *)

\* The types of the tables and of the memory of the runs.
TypeOK ==
    /\ items \in Seq(ItemRow) /\ jobs \in Seq(JobRow) /\ versions \in Seq(Seq(VersionRow))
    /\ Len(versions) = Len(items) /\ Len(runs) = Len(jobs)
    /\ \A i \in ItemIds : /\ items[i].current \in 0 .. Len(versions[i])
                          /\ items[i].approved \in 0 .. Len(versions[i])
    /\ \A j \in JobIds : runs[j].pc # "idle" <=> jobs[j].status = "running"
    /\ \A r \in reviews : r[1] \in ItemIds /\ r[2] \in DOMAIN versions[r[1]]
    /\ overtaken \subseteq ItemIds

\* "Approuver un texte puis en ecrire un autre ne peut pas passer inapercu":
\* an approved item shows the text that was approved, whatever edits, reviews
\* and rewritings follow each other - unless somebody wrote the item while a
\* run held a copy of it.
ApprovedIsCurrent ==
    \A i \in ItemIds \ overtaken :
        /\ items[i].approved # 0 => items[i].approved = items[i].current
        /\ items[i].state \in {"approved", "published"} => items[i].approved # 0

\* What is approved has been read by the critic and the fact checker: that
\* version, not an earlier or a later text of the same item.
ApprovedWasReviewed ==
    \A i \in ItemIds : items[i].approved # 0 =>
        Reviewers \subseteq versions[i][items[i].approved].notes

\* What an item says is approved is what was read: the text it shows, which the
\* critic and the fact checker have reviewed.
ApprovalHolds == ApprovedIsCurrent /\ ApprovedWasReviewed

\* An archived item does not come back, unless a run had read it before.
ArchivedIsFinal ==
    [][\A i \in ItemIds \ overtaken :
          items[i].state = "archived" => items'[i].state = "archived"]_vars

Stage(state) ==
    IF state \in {"approved", "published", "archived"} THEN state ELSE "open"

\* A content as the human who answers for it sees it.
ContentOf(i) ==
    [stage    |-> IF i \in overtaken THEN "raced" ELSE Stage(items[i].state),
     shown    |-> items[i].current,
     approved |-> items[i].approved,
     read     |-> {v \in DOMAIN versions[i] : Reviewers \subseteq versions[i][v].notes},
     risky    |-> {v \in DOMAIN versions[i] : versions[i][v].risky}]

Contents == [i \in ItemIds |-> ContentOf(i)]

Contract == INSTANCE ContentContract WITH contents <- Contents

\* The routes and the job, with their crashes, resumptions and stale copies,
\* implement the life of a content that module ContentContract describes.
ImplementsContract == Contract!Spec

\* "Trois contenus sur quatre ne sont pas un resultat acceptable": a job that
\* ends well has written every target it was asked for, through its crashes,
\* resumptions and rewritings.
LotIsWhole ==
    \A j \in JobIds : jobs[j].status = "done" =>
        \A t \in jobs[j].targets : \E i \in ItemIds :
            /\ items[i].target = t
            /\ \E v \in DOMAIN versions[i] : versions[i][v].by = j

\* A rewriting that was started over: its executions beyond the first have
\* each counted one rewriting more.
StartedOver(i) ==
    \E j \in JobIds :
        /\ jobs[j].mode = "regenerated" /\ jobs[j].item = i
        /\ items[i].regen < MaxRegen + jobs[j].attempt

\* The limit of rewritings is looked at when the job is asked for and the
\* count written by a worker from what it read: it is exceeded by no more than
\* the further executions of one job, however often its workers die.
RegenBounded ==
    \A i \in ItemIds : items[i].regen <= MaxRegen \/ StartedOver(i)

\* A job resumed finds its own text and keeps it: it follows one of its texts
\* with another only when a crash had kept the first from its item.
ResumedWritesOnce ==
    \A j \in JobIds, i \in ItemIds \ overtaken : \A v \in 2 .. Len(versions[i]) :
        versions[i][v - 1].by = j /\ versions[i][v].by = j => <<i, v - 1>> \in orphans

\* No click makes a text be paid for without end, and each crash for one text
\* more at most: a resumed job keeps its own text unless somebody wrote over
\* it, and the rewritings beyond the limit are the executions of one job.
WritingIsBounded == ResumedWritesOnce /\ RegenBounded

\* "L'ecran ne fait que l'anticiper": the buttons of a card agree with the
\* routes.  What a route would accept is open - but for a second approval or
\* rejection, which changes nothing; a rewriting is open exactly when it is
\* accepted; an approval that is open is only refused for a risky claim, which
\* the card does not show.
ButtonsAgree(card, row, texts) ==
    LET accepts == Accepts(row, texts) IN
    /\ accepts.approve => card.canApprove \/ row.state = "approved"
    /\ card.canApprove => accepts.approve \/ texts[row.current].risky
    /\ card.canRegenerate <=> accepts.regenerate
    /\ accepts.edit => card.canEdit
    /\ accepts.reject => card.canReject \/ row.state = "archived"

\* What the card calls approved is what was approved, and was controlled:
\* its number, its mark in the list of the versions and the left column of the
\* comparison name one text.
ApprovalShown(card, row, texts) ==
    row.approved # 0 =>
        /\ card.approvedNumber = row.approved
        /\ Compared(row, texts).approved = {card.approvedNumber}
        /\ \E n \in DOMAIN texts : LET option == History(row, texts)[n]
                                   IN option.isApproved /\ option.version = card.approvedNumber
        /\ Reviewers \subseteq texts[row.approved].notes

\* The review screen tells the truth of every item: its buttons always, its
\* approval unless a run wrote over the item what it had read before.
CardIsHonest ==
    \A i \in ItemIds :
        LET card == Card(Bundle(items[i], versions[i]))
        IN /\ ButtonsAgree(card, items[i], versions[i])
           /\ i \notin overtaken => ApprovalShown(card, items[i], versions[i])

\* Every job ends: written, or failed for a reason the user reads.
JobEnds ==
    \A j \in 1 .. MaxJobs :
        (j \in JobIds /\ jobs[j].status = "queued")
            ~> (j \in JobIds /\ jobs[j].status \in {"done", "failed"})

------------------------------------------------------------------------------
(* What the code says of itself and does not do.                           *)

\* content.ts: the approval of a text does not cover another one.
NoUnnoticedRewriting ==
    \A i \in ItemIds : items[i].state = "approved" => items[i].approved = items[i].current

\* features/editorial.ts: two clicks do not pay twice for the same lot.
TwoClicksPayOnce ==
    \A j, k \in JobIds :
        /\ j # k /\ Active(j) /\ Active(k)
        /\ jobs[j].mode = "initial" /\ jobs[k].mode = "initial"
        => jobs[j].targets # jobs[k].targets
==============================================================================
