----------------------------- MODULE Conversation ----------------------------
(***************************************************************************)
(* The conversations of one project: the turns of the interview, the plan  *)
(* of proposals each answer carries, the stage of a conversation and the   *)
(* versions of its master brief (packages/core/src/conversation,           *)
(* apps/api/src/features/conversation.ts, routes/conversations.ts,         *)
(* repositories/conversation.ts).  A turn and a generation await a model   *)
(* in the middle; the rest of a request is synchronous, hence one step of  *)
(* the API.  It is not one transaction: store.transaction runs its         *)
(* operation once the transaction is over, so what a crash or a refusal    *)
(* cuts keeps what it has written.  Beside the step of a request that goes *)
(* to its end is the one, `...Cut', that stops between two of its writes.  *)
(***************************************************************************)
EXTENDS Naturals, Sequences, FiniteSets

CONSTANTS
    Conversations, \* the conversations that may be created
    Requests,      \* the requests in flight
    Moving,        \* bound: the slots the memory may gain and lose
    Entries,       \* the kinds of the proposals of a plan that have a row of their own,
                   \* in their order
    MaxMessages,   \* bound: messages of a conversation
    MaxPlans,      \* bound: assistant messages with a plan
    MaxBriefs,     \* bound: versions of a brief
    MaxCuts        \* bound: requests cut between two statements

VARIABLES
    conv,     \* conversations: stage, missing slots, count of messages, closed_at
    messages, \* the rows of messages of each conversation, counted
    plans,    \* the plans stored in assistant messages
    briefs,   \* the status of each version of the brief of each conversation
    held,     \* the slots that the memory of the project fills
    turns,    \* the requests that await a model
    halted,   \* conversations sent to brief_ready by a request that was cut before
              \* it refreshed them
    cuts      \* requests cut so far, counted for their bound

convVars == <<conv, messages, plans, briefs, held, turns, halted, cuts>>

Slots == <<"skills", "positioning", "audience", "voice", "facts", "strategy">>

SlotSet == {Slots[n] : n \in DOMAIN Slots}

StageForSlot ==
    [skills |-> "intake", positioning |-> "positioning", audience |-> "audience",
     voice |-> "voice", facts |-> "fact_extraction", strategy |-> "strategy"]

Stages == {StageForSlot[s] : s \in SlotSet} \cup {"brief_ready", "closed"}

\* A row of conversations.
ConversationRow ==
    [stage : Stages \cup {"absent"}, missing : SUBSET SlotSet, count : Nat, closedAt : BOOLEAN]

\* A plan of an assistant message: what became of each entry, and the rows it wrote.
PlanRow ==
    [conv : Conversations, status : [DOMAIN Entries -> {"pending", "accepted"}],
     wrote : [DOMAIN Entries -> Nat]]

BriefStatuses == {"draft", "validated", "superseded"}

ConversationAssumption ==
    Moving \subseteq SlotSet /\ {Entries[n] : n \in DOMAIN Entries} \subseteq SlotSet

Absent == [stage |-> "absent", missing |-> {}, count |-> 0, closedAt |-> FALSE]
Idle == [kind |-> "idle", conv |-> "none"]

Created == {c \in Conversations : conv[c].stage # "absent"}

Init ==
    /\ conv = [c \in Conversations |-> Absent]
    /\ messages = [c \in Conversations |-> 0]
    /\ plans = <<>>
    /\ briefs = [c \in Conversations |-> <<>>]
    /\ held \in {SlotSet \ gone : gone \in SUBSET Moving}
    /\ turns = [q \in Requests |-> Idle]
    /\ halted = {} /\ cuts = 0

\* A refusal or a death in the middle of a request: a death is the end of
\* every request in flight.
Cut ==
    /\ cuts < MaxCuts /\ cuts' = cuts + 1
    /\ turns' \in {turns, [q \in Requests |-> Idle]}

------------------------------------------------------------------------------
(* The stage.                                                              *)

\* computeMissingSlots, on a memory.
MissingSlots(memory) == SlotSet \ memory

\* The first of them, in the order of the phases.
First(missing) ==
    Slots[CHOOSE n \in DOMAIN Slots :
            Slots[n] \in missing /\ \A m \in 1 .. n - 1 : Slots[m] \notin missing]

\* The end of an interview is forgotten: a mutant of NextStage.
NextStage_Reopens(missing, hasBrief, closed) ==
    IF missing # {} THEN StageForSlot[First(missing)]
    ELSE IF hasBrief THEN "brief_ready" ELSE "strategy"

\* nextStage.
NextStage(missing, hasBrief, closed) ==
    IF closed THEN "closed"
    ELSE IF missing # {} THEN StageForSlot[First(missing)]
    ELSE IF hasBrief THEN "brief_ready" ELSE "strategy"

\* The gaps are written without their stage: a mutant of Refreshed.
Refreshed_Gaps(row, memory, versions) == [row EXCEPT !.missing = MissingSlots(memory)]

\* refreshProgress: gaps and stage, from the memory as it is.
Refreshed(row, memory, versions) ==
    [row EXCEPT !.missing = MissingSlots(memory),
                !.stage = NextStage(MissingSlots(memory), versions # <<>>, row.stage = "closed")]

Refresh(c) ==
    /\ conv' = [conv EXCEPT ![c] = Refreshed(@, held, briefs[c])]
    /\ halted' = halted \ {c}

------------------------------------------------------------------------------
(* Conversations.                                                          *)

\* briefs.current: a version of the project that nothing replaced.
ProjectHasBrief == \E c \in Created : \E v \in DOMAIN briefs[c] : briefs[c][v] # "superseded"

\* createConversation.
Create(c) ==
    /\ c \notin Created
    /\ conv' = [conv EXCEPT ![c] =
                  [Absent EXCEPT !.missing = MissingSlots(held),
                                 !.stage = NextStage(MissingSlots(held), ProjectHasBrief, FALSE)]]
    /\ UNCHANGED <<messages, plans, briefs, held, turns, halted, cuts>>

\* closeConversation: the date of the first closing stays.
Close(c) ==
    /\ c \in Created
    /\ conv' = [conv EXCEPT ![c].stage = "closed", ![c].closedAt = TRUE]
    /\ UNCHANGED <<messages, plans, briefs, held, turns, halted, cuts>>

Reopened(row) == [row EXCEPT !.stage = "brief_ready", !.closedAt = FALSE]

\* reopenConversation, from any stage: to brief_ready, then where the gaps say.
Reopen(c) ==
    /\ c \in Created
    /\ conv' = [conv EXCEPT ![c] = Refreshed(Reopened(@), held, briefs[c])]
    /\ halted' = halted \ {c}
    /\ UNCHANGED <<messages, plans, briefs, held, turns, cuts>>

\* It is reopened, and not refreshed.
ReopenCut(c) ==
    /\ Cut /\ c \in Created
    /\ conv' = [conv EXCEPT ![c] = Reopened(@)]
    /\ halted' = halted \cup {c}
    /\ UNCHANGED <<messages, plans, briefs, held>>

\* The projects routes change the memory; nothing tells the conversations.
Remember(slot) ==
    /\ held' = IF slot \in held THEN held \ {slot} ELSE held \cup {slot}
    /\ UNCHANGED <<conv, messages, plans, briefs, turns, halted, cuts>>

------------------------------------------------------------------------------
(* A turn.                                                                 *)

Await(q, kind, c) == turns' = [turns EXCEPT ![q] = [kind |-> kind, conv |-> c]]
Leave(q) == turns' = [turns EXCEPT ![q] = Idle]

\* messages.insert.
Written(c) == messages' = [messages EXCEPT ![c] = @ + 1]

\* Only what the memory lacks is counted: a mutant of Counted.
Counted_Gap(row) == IF row.missing = {} THEN row ELSE [row EXCEPT !.count = @ + 1]

\* The conversation, with one message more.
Counted(row) == [row EXCEPT !.count = @ + 1]

\* appendUserMessage and buildTurnContext, up to the agent.
Say(q, c) ==
    /\ turns[q] = Idle /\ c \in Created /\ conv[c].stage # "closed"
    /\ messages[c] < MaxMessages
    /\ Written(c)
    /\ conv' = [conv EXCEPT ![c] = Refreshed(Counted(@), held, briefs[c])]
    /\ halted' = halted \ {c}
    /\ Await(q, "turn", c)
    /\ UNCHANGED <<plans, briefs, held, cuts>>

\* The message is written and not counted, or the row is not refreshed.
Uncounted(c) ==
    /\ Written(c)
    /\ conv' \in {conv, [conv EXCEPT ![c] = Counted(@)]}

SayCut(c) ==
    /\ Cut /\ c \in Created /\ conv[c].stage # "closed"
    /\ messages[c] < MaxMessages
    /\ Uncounted(c)
    /\ UNCHANGED <<plans, briefs, held, halted>>

\* planFromInterviewerOutput, for what the text of the user grounds.
Proposed(c) ==
    [conv |-> c, status |-> [e \in DOMAIN Entries |-> "pending"], wrote |-> [e \in DOMAIN Entries |-> 0]]

\* recordAssistantTurn: the row is read again after the agent, and whether it
\* was closed meanwhile is not asked.
Answer(q) ==
    /\ turns[q].kind = "turn"
    /\ Len(plans) < MaxPlans
    /\ LET c == turns[q].conv IN
       /\ Written(c)
       /\ plans' = Append(plans, Proposed(c))
       /\ conv' = [conv EXCEPT ![c] = Refreshed(Counted(@), held, briefs[c])]
       /\ halted' = halted \ {c}
    /\ Leave(q)
    /\ UNCHANGED <<briefs, held, cuts>>

\* The process dies with the answer written, the row behind.
AnswerCut(q) ==
    /\ cuts < MaxCuts /\ cuts' = cuts + 1
    /\ turns[q].kind = "turn" /\ turns' = [r \in Requests |-> Idle]
    /\ Len(plans) < MaxPlans
    /\ Uncounted(turns[q].conv)
    /\ plans' = Append(plans, Proposed(turns[q].conv))
    /\ UNCHANGED <<briefs, held, halted>>

\* The agent fails: the message of the user stays.
Fails(q) ==
    /\ turns[q] # Idle
    /\ Leave(q)
    /\ UNCHANGED <<conv, messages, plans, briefs, held, halted, cuts>>

------------------------------------------------------------------------------
(* The proposals.                                                          *)

\* What is accepted is written whatever its status: a mutant of ToWrite.
ToWrite_Again(plan, chosen) == chosen

\* applyEditPlan: an entry that was written once has the identifier of its
\* row, and is not written again.
ToWrite(plan, chosen) == {e \in chosen : plan.status[e] = "pending"}

Wrote(plan, written) ==
    [plan EXCEPT !.wrote = [e \in DOMAIN Entries |-> plan.wrote[e] + (IF e \in written THEN 1 ELSE 0)]]

\* The plan, told what was accepted.
Told(plan, chosen) ==
    [plan EXCEPT !.status = [e \in DOMAIN Entries |-> IF e \in chosen THEN "accepted" ELSE @[e]]]

\* An accepted fact may be too few, or not confirmed, to fill its slot.
Gained(written) ==
    LET kinds == {Entries[e] : e \in written}
    IN \E filled \in {kinds, kinds \ {"facts"}} : held' = held \cup filled

\* applyProposals: the rows, then the plan with what became of it.
Accept(p, chosen) ==
    /\ LET written == ToWrite(plans[p], chosen) IN
       /\ plans' = [plans EXCEPT ![p] = Told(Wrote(@, written), chosen)]
       /\ Gained(written)
    /\ conv' = [conv EXCEPT ![plans[p].conv] = Refreshed(@, held', briefs[plans[p].conv])]
    /\ halted' = halted \ {plans[p].conv}
    /\ UNCHANGED <<messages, briefs, turns, cuts>>

\* One entry is refused by the memory, or the API dies: what came before it is
\* written, and the plan does not know; or it knows, and the row is behind.
AcceptCut(p, chosen, last) ==
    /\ Cut /\ last \in chosen
    /\ LET written == {e \in ToWrite(plans[p], chosen) : e <= last} IN
       /\ \/ plans' = [plans EXCEPT ![p] = Wrote(@, written)]
          \/ /\ \A e \in chosen : e <= last
             /\ plans' = [plans EXCEPT ![p] = Told(Wrote(@, written), chosen)]
       /\ Gained(written)
    /\ UNCHANGED <<conv, messages, briefs, halted>>

------------------------------------------------------------------------------
(* The brief.                                                              *)

Latest(c) == Len(briefs[c])

\* generateMasterBrief, up to the agent.
AskBrief(q, c) ==
    /\ turns[q] = Idle /\ c \in Created
    /\ Refresh(c)
    /\ Await(q, "brief", c)
    /\ UNCHANGED <<messages, plans, briefs, held, cuts>>

\* assertBriefGenerationReady, on the gaps as they were stored.
Ready(c) == conv[c].missing \cap {"positioning", "audience"} = {}

\* The former version lives on: a mutant of Supersede.
Supersede_None(versions) == Append(versions, "draft")

\* A new version, and the former one superseded by it.
Supersede(versions) ==
    Append([v \in DOMAIN versions |-> IF v = Len(versions) THEN "superseded" ELSE versions[v]], "draft")

\* A generation that may store its version.
Storing(c) == c \in Created /\ Ready(c) /\ Latest(c) < MaxBriefs

BriefReady(row) == [row EXCEPT !.stage = "brief_ready"]

\* createMasterBrief and the refresh that follows: the stage becomes
\* brief_ready even for a closed conversation.
Brief(q) ==
    /\ turns[q].kind = "brief"
    /\ LET c == turns[q].conv IN
       /\ Storing(c)
       /\ briefs' = [briefs EXCEPT ![c] = Supersede(@)]
       /\ conv' = [conv EXCEPT ![c] = Refreshed(BriefReady(@), held, briefs'[c])]
       /\ halted' = halted \ {c}
    /\ Leave(q)
    /\ UNCHANGED <<messages, plans, held, cuts>>

\* The process dies in between: the new version is there, the former one may
\* be superseded, and the conversation may be in brief_ready with its gaps.
BriefCut(q) ==
    /\ cuts < MaxCuts /\ cuts' = cuts + 1
    /\ turns[q].kind = "brief" /\ turns' = [r \in Requests |-> Idle]
    /\ LET c == turns[q].conv IN
       /\ Storing(c)
       /\ \/ briefs' = [briefs EXCEPT ![c] = Append(@, "draft")] /\ UNCHANGED <<conv, halted>>
          \/ briefs' = [briefs EXCEPT ![c] = Supersede(@)] /\ UNCHANGED <<conv, halted>>
          \/ /\ briefs' = [briefs EXCEPT ![c] = Supersede(@)]
             /\ conv' = [conv EXCEPT ![c] = BriefReady(@)]
             /\ halted' = halted \cup {c}
    /\ UNCHANGED <<messages, plans, held>>

Correctable(c, v) == v = Latest(c) /\ briefs[c][v] # "superseded" /\ Latest(c) < MaxBriefs

\* updateMasterBrief: the version after the one that is corrected, which the
\* index refuses when it is there already.
Correct(c, v) ==
    /\ Correctable(c, v)
    /\ briefs' = [briefs EXCEPT ![c] = Supersede(@)]
    /\ UNCHANGED <<conv, messages, plans, held, turns, halted, cuts>>

\* The new version is there and the former one is not superseded.
CorrectCut(c, v) ==
    /\ Cut /\ Correctable(c, v)
    /\ briefs' = [briefs EXCEPT ![c] = Append(@, "draft")]
    /\ UNCHANGED <<conv, messages, plans, held, halted>>

\* validateMasterBrief: the version, then the positioning of the project, that
\* an archived project refuses.
Validate(c, v) ==
    /\ briefs[c][v] = "draft"
    /\ briefs' = [briefs EXCEPT ![c][v] = "validated"]
    /\ held' \in {held, held \cup {"positioning"}}
    /\ UNCHANGED <<conv, messages, plans, turns, halted, cuts>>

------------------------------------------------------------------------------
\* runConversationTurn, in its steps.
Turn(q) == (\E c \in Conversations : Say(q, c)) \/ Answer(q) \/ Fails(q)

\* generateMasterBrief, in its steps.
Generation(q) == (\E c \in Conversations : AskBrief(q, c)) \/ Brief(q)

\* The routes of a conversation that call no model.
Routes(c) ==
    \/ Create(c) \/ Close(c) \/ Reopen(c)
    \/ \E p \in DOMAIN plans, chosen \in (SUBSET DOMAIN Entries) \ {{}} :
         plans[p].conv = c /\ Accept(p, chosen)

\* The routes of its briefs.
BriefRoutes(c) == \E v \in DOMAIN briefs[c] : Correct(c, v) \/ Validate(c, v)

\* The requests that stop between two of their writes.
Cuts(c) ==
    \/ SayCut(c) \/ ReopenCut(c)
    \/ \E v \in DOMAIN briefs[c] : CorrectCut(c, v)
    \/ \E p \in DOMAIN plans, chosen \in (SUBSET DOMAIN Entries) \ {{}} :
         plans[p].conv = c /\ \E last \in chosen : AcceptCut(p, chosen, last)

Next ==
    \/ \E c \in Conversations : Routes(c) \/ BriefRoutes(c) \/ Cuts(c)
    \/ \E q \in Requests : Turn(q) \/ Generation(q) \/ AnswerCut(q) \/ BriefCut(q)
    \/ \E slot \in Moving : Remember(slot)

Spec == Init /\ [][Next]_convVars

------------------------------------------------------------------------------
TypeOK ==
    /\ conv \in [Conversations -> ConversationRow]
    /\ \A c \in Conversations : \A v \in DOMAIN briefs[c] : briefs[c][v] \in BriefStatuses
    /\ \A p \in DOMAIN plans : plans[p] \in PlanRow /\ plans[p].conv \in Created
    /\ held \subseteq SlotSet /\ halted \subseteq Created

\* "La precedente passe en superseded": a conversation has one version of its
\* brief that is alive, whatever generations, corrections and validations
\* cross, unless one of them was cut; and the latest version always is, or
\* neither a correction nor a generation could ever replace it.
OneBrief ==
    \A c \in Conversations :
        LET alive == {v \in DOMAIN briefs[c] : briefs[c][v] # "superseded"} IN
        /\ Cardinality(alive) <= 1 + cuts
        /\ briefs[c] # <<>> => Latest(c) \in alive

\* "Quitter closed sans reouverture explicite": an answer that comes after the
\* closing, a proposal accepted late, nothing takes a conversation out of
\* closed but its reopening, which clears the date, or a new brief.
ClosedStays ==
    [][\A c \in Conversations :
         conv[c].stage = "closed" /\ conv'[c].stage # "closed" =>
             ~conv'[c].closedAt \/ Len(briefs'[c]) > Len(briefs[c])]_convVars

\* The stage is decided by code: it is the one of the first gap that the
\* conversation shows, whatever turns, proposals and briefs crossed; or it is
\* brief_ready, when a reopening or a generation was cut before it refreshed
\* the conversation and nothing has refreshed it since.
StageNamesGap ==
    \A c \in Created :
        conv[c].stage # "closed" /\ conv[c].missing # {} =>
            conv[c].stage = IF c \in halted THEN "brief_ready"
                            ELSE StageForSlot[First(conv[c].missing)]

\* Two turns that cross each other on one conversation lose no message of its
\* count: only a cut may.
CountedMessages ==
    \A c \in Conversations :
        conv[c].count <= messages[c] /\ messages[c] <= conv[c].count + cuts

\* "Ce qui rend un double clic inoffensif": a proposal accepted again writes
\* nothing more, unless its first acceptance was cut.
WrittenOnce ==
    \A p \in DOMAIN plans : \A e \in DOMAIN Entries : plans[p].wrote[e] <= 1 + cuts

\* The prohibition taken at its word: a conversation that was closed is only
\* left by its reopening.  A brief asked for before the closing leaves it.
OnlyReopenedLeaves ==
    [][\A c \in Conversations :
         conv[c].stage = "closed" /\ conv'[c].stage # "closed" => ~conv'[c].closedAt]_convVars
==============================================================================
