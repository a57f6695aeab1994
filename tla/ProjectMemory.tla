---------------------------- MODULE ProjectMemory ----------------------------
(***************************************************************************)
(* The memory of a project: its facts and their verification, their chain  *)
(* of replacements, and the status of the project                          *)
(* (packages/core/src/projects, repositories/project-memory.ts,            *)
(* schema/projects.ts, routes/projects.ts).  A request is synchronous; the *)
(* replacement of a fact writes two rows that a crash may separate, since  *)
(* store.transaction runs its operation after its transaction.             *)
(***************************************************************************)
EXTENDS Naturals, Sequences, FiniteSets

CONSTANTS
    MaxFacts,  \* bound: rows of project_facts, and of them those that are edited
    MaxCuts    \* bound: replacements cut in two

MemoryAssumption ==
    MaxFacts \in Nat /\ MaxCuts \in Nat

VARIABLES
    status,    \* projects.status
    facts,     \* project_facts, in the order of their creation
    confirmed, \* facts a human has confirmed, or entered as confirmed
    cuts       \* replacements cut so far, counted for their bound

memoryVars == <<status, facts, confirmed, cuts>>

ProjectStatuses == {"discovery", "active", "paused", "archived"}
FactStatuses == {"proposed", "user_provided", "verified", "uncertain", "obsolete", "superseded"}
Sources == {"user_input", "conversation"}

\* A row of project_facts: 0 names no fact, and verified stands for verified_by_user.
FactRow ==
    [source : Sources, status : FactStatuses, verified : BOOLEAN, dated : BOOLEAN,
     edited : BOOLEAN, supersedes : 0 .. MaxFacts, by : 0 .. MaxFacts]

Init ==
    /\ status = "discovery"
    /\ facts = <<>>
    /\ confirmed = {}
    /\ cuts = 0

\* Below the bound.
Room == Len(facts) + Cardinality({f \in DOMAIN facts : facts[f].edited}) < MaxFacts

------------------------------------------------------------------------------
(* The project.                                                            *)

\* PROJECT_STATUS_TRANSITIONS.
ProjectNext ==
    [discovery |-> {"active", "paused", "archived"}, active |-> {"paused", "archived"},
     paused |-> {"active", "archived"}, archived |-> {}]

\* An archived project takes what it is told: a mutant of Editable.
Editable_Always(s) == TRUE

\* assertProjectEditable.
Editable(s) == s # "archived"

\* updateProject and archiveProject.
UpdateProject(to) ==
    /\ Editable(status) /\ to \in ProjectNext[status]
    /\ status' = to
    /\ UNCHANGED <<facts, confirmed, cuts>>

------------------------------------------------------------------------------
(* Facts.                                                                  *)

\* FACT_STATUS_TRANSITIONS, a status to itself included.
CanBecome(from, to) ==
    from = to \/ (from # "superseded" /\ to # "proposed")

AiOrigin(source) == source = "conversation"

Default(source) == IF AiOrigin(source) THEN "proposed" ELSE "user_provided"

\* A fact is born as it is asked, whoever says it: a mutant of MayStart.
MayStart_Any(source, initial) == TRUE

\* assertSourceAllowsInitialStatus.
MayStart(source, initial) == AiOrigin(source) => initial = Default(source)

\* buildFact.
Built(source, initial, former) ==
    [source |-> source, status |-> initial, verified |-> initial = "verified",
     dated |-> initial = "verified", edited |-> FALSE, supersedes |-> former, by |-> 0]

\* The checks and the unique index of project_facts.
StoreAccepts(row) ==
    /\ row.status = "verified" => row.dated
    /\ row.verified <=> row.status = "verified"
    /\ row.status = "superseded" <=> row.by # 0

Unreplaced(f) == \A g \in DOMAIN facts : facts[g].supersedes # f

Confirm(f, to) == confirmed' = IF to = "verified" THEN confirmed \cup {f} ELSE confirmed

\* addFact.
AddFact(source, initial) ==
    /\ Editable(status) /\ Room
    /\ MayStart(source, initial)
    /\ StoreAccepts(Built(source, initial, 0))
    /\ facts' = Append(facts, Built(source, initial, 0))
    /\ IF AiOrigin(source) THEN UNCHANGED confirmed ELSE Confirm(Len(facts'), initial)
    /\ UNCHANGED <<status, cuts>>

\* updateFact: the content only, of any fact.
EditFact(f) ==
    /\ Editable(status) /\ Room
    /\ facts' = [facts EXCEPT ![f].edited = TRUE]
    /\ UNCHANGED <<status, confirmed, cuts>>

\* setFactVerification, and planFactVerification.
MayVerify(from, to) == to # "superseded" /\ CanBecome(from, to)

Verified(row, to) ==
    [row EXCEPT !.status = to, !.verified = to = "verified", !.dated = to = "verified"]

VerifyFact(f, to) ==
    /\ Editable(status) /\ MayVerify(facts[f].status, to)
    /\ StoreAccepts(Verified(facts[f], to))
    /\ facts' = [facts EXCEPT ![f] = Verified(@, to)]
    /\ Confirm(f, to)
    /\ UNCHANGED <<status, cuts>>

\* planFactSupersession, checked before anything is written.
MayReplace(f) == facts[f].status # "superseded"

\* The former fact stays as it was: a mutant of Replaced.
Replaced_Kept(row, successor) == row

\* planFactSupersession: what is written of the former fact.
Replaced(row, successor) ==
    [row EXCEPT !.status = "superseded", !.verified = FALSE, !.dated = FALSE, !.by = successor]

\* replaceFact, to its end: the new fact, then the former one.
ReplaceFact(f, source, initial) ==
    /\ Editable(status) /\ Room
    /\ MayStart(source, initial) /\ MayReplace(f) /\ Unreplaced(f)
    /\ StoreAccepts(Built(source, initial, f))
    /\ facts' = Append([facts EXCEPT ![f] = Replaced(@, Len(facts) + 1)], Built(source, initial, f))
    /\ IF AiOrigin(source) THEN UNCHANGED confirmed ELSE Confirm(Len(facts'), initial)
    /\ UNCHANGED <<status, cuts>>

\* The API dies between the two: the former fact lives on, and the index
\* refuses every replacement of it from then on.
ReplaceCut(f, source) ==
    /\ Editable(status) /\ Room /\ cuts < MaxCuts
    /\ MayReplace(f) /\ Unreplaced(f)
    /\ facts' = Append(facts, Built(source, Default(source), f))
    /\ cuts' = cuts + 1
    /\ UNCHANGED <<status, confirmed>>

------------------------------------------------------------------------------
\* PATCH /projects/:id and its archiving.
ProjectRoutes == \E to \in ProjectStatuses : UpdateProject(to)

\* The routes of the facts, and the acceptance of a proposal.
FactRoutes ==
    \/ \E source \in Sources, initial \in FactStatuses :
         AddFact(source, initial) \/ \E f \in DOMAIN facts : ReplaceFact(f, source, initial)
    \/ \E f \in DOMAIN facts : EditFact(f) \/ \E to \in FactStatuses : VerifyFact(f, to)

Next ==
    \/ ProjectRoutes \/ FactRoutes
    \/ \E f \in DOMAIN facts, source \in Sources : ReplaceCut(f, source)

Spec == Init /\ [][Next]_memoryVars

------------------------------------------------------------------------------
TypeOK ==
    /\ status \in ProjectStatuses
    /\ \A f \in DOMAIN facts : facts[f] \in FactRow
    /\ confirmed \subseteq DOMAIN facts

\* "Un fait ne peut etre remplace qu'une fois: sinon l'historique se
\* contredit": the two links of a replacement agree, a fact has one successor,
\* and both live only when the replacement was cut between its two rows.
HistoryIsLinear ==
    \A f, g \in DOMAIN facts :
        /\ facts[f].by = g => facts[g].supersedes = f
        /\ facts[g].supersedes = f =>
             /\ \A h \in DOMAIN facts : facts[h].supersedes = f => h = g
             /\ facts[f].by = g \/ (cuts > 0 /\ facts[f].by = 0)

\* The former fact of each replacement but the cut ones is dead.
ReplacedIsDead ==
    Cardinality({f \in DOMAIN facts : ~Unreplaced(f) /\ facts[f].status # "superseded"}) <= cuts

\* "L'IA n'est jamais une source suffisante": what a prompt may quote of what
\* the AI has proposed was confirmed by a human.
TrustedIsHuman ==
    \A f \in DOMAIN facts : facts[f].status = "verified" => f \in confirmed

\* "Il est en lecture seule": nothing of an archived project changes, its
\* status included.
ArchivedIsFrozen == [][status # "archived"]_memoryVars
==============================================================================
