---------------------------- MODULE EditorialPlan ----------------------------
(***************************************************************************)
(* The editorial plan: a request reads the memory of the project, awaits   *)
(* the agent, keeps what rests on a fact and stores it                     *)
(* (apps/api/src/features/editorial.ts, core/editorial/plan.ts); then the  *)
(* angles of a subject are selected and rejected.  What a request writes   *)
(* it writes row by row and without a transaction: the process may die     *)
(* between two rows.                                                       *)
(***************************************************************************)
EXTENDS Naturals, Sequences, FiniteSets

CONSTANTS
    Facts,       \* the facts the project may hold
    Rests,       \* the facts each quotation rests on: one that holds it, or that
                 \* shares half of its words
    Answers,     \* the plans the agent may answer: sets of subjects
    MaxSubjects, \* bound: rows of content_subjects
    MaxCuts,     \* bound: deaths of the API in the middle of a request
    Requests     \* the requests POST /projects/:id/plan

PlanAssumption ==
    /\ \A q \in DOMAIN Rests : Rests[q] \subseteq Facts
    /\ \A plan \in Answers : IsFiniteSet(plan)

VARIABLES
    facts,     \* the facts listed by the memory
    brief,     \* the current brief: "none", "draft" or "validated"
    subjects,  \* content_subjects, with their angles
    asked,     \* the snapshot of the facts each request has taken, none while it is not sent
    halved,    \* the subjects whose creation or last selection was cut
    cuts       \* deaths so far, counted for their bound

planVars == <<facts, brief, subjects, asked, halved, cuts>>

\* A row of content_subjects, and the marks of content_angles: selected_at,
\* rejected_reason, or neither.
SubjectStatuses == {"proposed", "selected"}
AngleMarks == {"open", "selected", "rejected"}

Init ==
    /\ facts = Facts
    /\ brief \in {"none", "draft", "validated"}
    /\ subjects = <<>>
    /\ asked = [r \in Requests |-> {}]
    /\ halved = {} /\ cuts = 0

\* The API dies, and every request with it.
Dies ==
    /\ cuts < MaxCuts /\ cuts' = cuts + 1
    /\ asked' = [r \in Requests |-> {}]

\* generateEditorialPlan, up to the agent: the brief is validated, and the
\* snapshot of the facts taken.
Ask(r) ==
    /\ asked[r] = {} /\ brief = "validated"
    /\ asked' = [asked EXCEPT ![r] = {facts}]
    /\ UNCHANGED <<facts, brief, subjects, halved, cuts>>

\* Every fact is looked at, none is read: a mutant of Ungrounded.
Ungrounded_None(quotes, known) == IF known = {} THEN quotes ELSE {}

\* checkGrounding: the quotations that rest on no fact.
Ungrounded(quotes, known) == {q \in quotes : Rests[q] \cap known = {}}

\* The angles validatePlan keeps: those that quote facts, and only facts.
KeptAngles(subject, known) ==
    {a \in subject.angles : a.evidence # {} /\ Ungrounded(a.evidence, known) = {}}

\* validatePlan: a subject is accepted with its grounded angles, or rejected.
Accepted(subject, known) ==
    /\ subject.evidence # {}
    /\ Ungrounded(subject.evidence, known) = {}
    /\ KeptAngles(subject, known) # {}

\* One row for a subject, and one, open, for each of these angles.
RowOf(subject, angles) ==
    [status |-> "proposed", evidence |-> subject.evidence, angles |-> [a \in angles |-> "open"]]

Row(subject, known) == RowOf(subject, KeptAngles(subject, known))

\* createPlan: a row for each subject, in any order.
Stored(accepted, known) ==
    CHOOSE rows \in [1 .. Cardinality(accepted) -> {Row(s, known) : s \in accepted}] :
        \A s \in accepted : \E n \in DOMAIN rows : rows[n] = Row(s, known)

\* validatePlan and persistPlan: what was accepted is stored, and nothing when
\* nothing was.
Answer(r, plan) ==
    /\ \E known \in asked[r] :
         LET accepted == {subject \in plan : Accepted(subject, known)}
         IN /\ Len(subjects) + Cardinality(accepted) <= MaxSubjects
            /\ subjects' = subjects \o Stored(accepted, known)
    /\ asked' = [asked EXCEPT ![r] = {}]
    /\ UNCHANGED <<facts, brief, halved, cuts>>

\* Some subjects are stored whole, and a last one with the angles it had when
\* the API died, none perhaps.
AnswerCut(r, plan) ==
    /\ \E known \in asked[r] :
         LET accepted == {subject \in plan : Accepted(subject, known)}
         IN \E last \in accepted : \E whole \in SUBSET (accepted \ {last}),
                                    angles \in SUBSET KeptAngles(last, known) :
              /\ Len(subjects) + Cardinality(whole) < MaxSubjects
              /\ subjects' = subjects \o Stored(whole, known) \o <<RowOf(last, angles)>>
    /\ halved' = halved \cup {Len(subjects')}
    /\ Dies
    /\ UNCHANGED <<facts, brief>>

\* The store's selectAngle once it has looked at these siblings: those nobody
\* rejected yet are rejected.
Selecting(marks, a, siblings) ==
    [b \in DOMAIN marks |-> IF b = a THEN "selected"
                            ELSE IF b \in siblings THEN "rejected" ELSE marks[b]]

\* The siblings stay as they are: a mutant of Select.
Select_Alone(marks, a) == Selecting(marks, a, {})

Select(marks, a) == Selecting(marks, a, DOMAIN marks)

\* POST /angles/:angleId/select, whatever the angle was before: the angle, its
\* siblings, then its subject.
SelectAngle(n, a) ==
    /\ subjects' = [subjects EXCEPT ![n].angles = Select(@, a), ![n].status = "selected"]
    /\ halved' = halved \ {n}
    /\ UNCHANGED <<facts, brief, asked, cuts>>

\* The API dies before the subject, or before some of the siblings.
SelectCut(n, a) ==
    /\ Dies
    /\ \E siblings \in SUBSET (DOMAIN subjects[n].angles \ {a}) :
         subjects' = [subjects EXCEPT ![n].angles = Selecting(@, a, siblings)]
    /\ halved' = halved \cup {n}
    /\ UNCHANGED <<facts, brief>>

\* POST /angles/:angleId/reject: without a reason the angle is open again.
RejectAngle(n, a, mark) ==
    /\ subjects' = [subjects EXCEPT ![n].angles[a] = mark]
    /\ UNCHANGED <<facts, brief, asked, halved, cuts>>

\* The memory and the brief change meanwhile (modules ProjectMemory, Conversation).
Forget(f) ==
    /\ facts' = facts \ {f}
    /\ UNCHANGED <<brief, subjects, asked, halved, cuts>>

Rebrief(status) ==
    /\ brief' = status
    /\ UNCHANGED <<facts, subjects, asked, halved, cuts>>

\* POST /projects/:id/plan, in its two steps.
Planning(r) == Ask(r) \/ \E plan \in Answers : Answer(r, plan) \/ AnswerCut(r, plan)

\* The routes of one angle.
AngleRoutes(n, a) ==
    SelectAngle(n, a) \/ SelectCut(n, a) \/ \E mark \in AngleMarks \ {"selected"} : RejectAngle(n, a, mark)

Next ==
    \/ \E r \in Requests : Planning(r)
    \/ \E n \in DOMAIN subjects : \E a \in DOMAIN subjects[n].angles : AngleRoutes(n, a)
    \/ \E f \in facts : Forget(f)
    \/ \E status \in {"draft", "validated"} : Rebrief(status)

Spec == Init /\ [][Next]_planVars

------------------------------------------------------------------------------
TypeOK ==
    /\ facts \subseteq Facts
    /\ brief \in {"none", "draft", "validated"}
    /\ \A n \in DOMAIN subjects :
         /\ subjects[n].status \in SubjectStatuses
         /\ subjects[n].angles \in [DOMAIN subjects[n].angles -> AngleMarks]
    /\ halved \subseteq DOMAIN subjects

\* A subject has one selected angle at most, whatever was selected and
\* rejected before, and it is then a selected subject; unless the last
\* selection was cut, which the next one that is not repairs.
OneSelected ==
    \A n \in DOMAIN subjects \ halved :
        /\ \A a, b \in DOMAIN subjects[n].angles :
             subjects[n].angles[a] = "selected" /\ subjects[n].angles[b] = "selected" => a = b
        /\ \A a \in DOMAIN subjects[n].angles :
             subjects[n].angles[a] = "selected" => subjects[n].status = "selected"

\* "Chaque sujet et chaque angle cite au moins un fait du projet": nothing
\* enters the plan on a quotation that was invented, whatever the memory has
\* become since the agent read it; and no subject enters it without an angle
\* unless its creation was cut.
PlanIsGrounded ==
    \A n \in DOMAIN subjects :
        /\ DOMAIN subjects[n].angles # {} \/ n \in halved
        /\ \A evidence \in {subjects[n].evidence} \cup {a.evidence : a \in DOMAIN subjects[n].angles} :
             evidence # {} /\ \A q \in evidence : Rests[q] # {}
==============================================================================
