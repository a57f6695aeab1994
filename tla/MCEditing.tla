------------------------------- MODULE MCEditing -----------------------------
(***************************************************************************)
(* Instances of what is written before anything is published: the          *)
(* interview and its briefs, the memory of a project and its profiles, the *)
(* editorial plan, the recordings and the videos, the versions of the      *)
(* prompts and the costs of the model calls; and of the pure rules of the  *)
(* editorial chain, one input of which is one initial state.  The          *)
(* components share no state that matters to their properties: a behaviour *)
(* is one of them, chosen by `part', while the others stay as they are.    *)
(***************************************************************************)
EXTENDS Integers, Sequences, FiniteSets, EditorialRules

CONSTANTS
    Conversations, Requests, MaxMessages, MaxPlans, MaxBriefs, MaxCuts, \* Conversation
    MaxFacts,                                                           \* ProjectMemory
    Skills, MaxLevel, MaxItems,                                         \* ProjectProfiles
    MaxSubjects,                                                        \* EditorialPlan
    Sounds, Senders, MaxAssets, MaxNotes,                               \* Recordings
    Films, Unfit, Uploaders, MaxTries,                                  \* VideoImport
    Contents, Starters, MaxStarts,                                      \* PromptSync
    Payers, DayLimit, MonthLimit, Estimates, MaxCost, MaxCalls, MaxDays, \* Spending
    MaxPacked, Budget, MinFacts, MaxAge,                                   \* FactSelection
    MinClip, AimClip, MinCue, LineChars, CueLines,                      \* ClipPlan
    DailyLimit, MonthlyLimit,                                           \* Spending
    MaxClip, Tenth, MaxAsks,                                            \* VideoScreen
    Standing, BatchSize, Interval, Silence, Lease, LastTime, MaxDeaths,     \* SystemHealth
    DailyMax, MonthlyMax,
    MaxAccounts, MaxVersions, MaxFalls,                                 \* PlatformAccounts
    MaxVideo,                                                           \* MediaRules
    Unsaid,                                                             \* MediaRules
    TextSize                                                            \* bound of the texts

VARIABLES
    part,                                                           \* the component at work
    conv, messages, plans, briefs, held, turns, halted, cuts,       \* Conversation
    status, facts, confirmed, memoryCuts,                           \* ProjectMemory
    archived, skills, audiences, styles,                            \* ProjectProfiles
    known, brief, subjects, asked, halved, planCuts,                \* EditorialPlan
    assets, keys, texts, notes, requests, sweep, made, doomed,         \* Recordings
    listed, kept, partial, imports, tries, told,                    \* VideoImport
    file, promptRows, syncing, starts, newest, crossed,             \* PromptSync
    sums, billed, calls, begun, lost, callRows, days,              \* Spending
    screen, bounds, montage, asking, approvals, transcribed, posted, proposals, asks, moved, \* VideoScreen
    now, table, worker, since, deaths,                              \* SystemHealth
    accounts, preferred, state, head, approved, authored, drafting, overtaken, packages, building,
    published, falls,                                               \* PlatformAccounts
    input                                                           \* of the rules

Interview == INSTANCE Conversation WITH
    Moving <- {"positioning", "facts"}, Entries <- <<"facts", "voice">>

Memory == INSTANCE ProjectMemory WITH cuts <- memoryCuts

Profiles == INSTANCE ProjectProfiles WITH
    Audiences <- {"Devs", "devs", "Leads"},
    Folded <- [Devs |-> "devs", devs |-> "devs", Leads |-> "leads"],
    Styles <- {<<"project", "none">>, <<"platform", "linkedin">>}

\* An answer of the agent: what its subjects and their angles quote, "q1" and
\* "q2" being of one fact each and "q0" of none.
Angle(id, evidence) == [id |-> id, evidence |-> evidence]
Subject(id, evidence, angles) == [id |-> id, evidence |-> evidence, angles |-> angles]

Answered ==
    {{Subject(1, {"q1"}, {Angle(1, {"q1"}), Angle(2, {"q2"}), Angle(3, {"q0"})}),
      Subject(2, {"q1", "q2"}, {Angle(1, {"q2"}), Angle(2, {})}),
      Subject(3, {"q0"}, {Angle(1, {"q1"})})},
     {Subject(1, {"q2"}, {Angle(1, {"q1", "q2"}), Angle(2, {"q1", "q0"})})}}

Plan == INSTANCE EditorialPlan WITH
    facts <- known, cuts <- planCuts, Facts <- {"f1", "f2"}, Answers <- Answered,
    Rests <- [q0 |-> {}, q1 |-> {"f1"}, q2 |-> {"f2"}]

Voice == INSTANCE Recordings WITH MaxMessages <- MaxNotes, messages <- notes, steps <- requests

Import == INSTANCE VideoImport WITH known <- listed, stored <- kept, parts <- partial, begun <- tries

Prompts == INSTANCE PromptSync WITH rows <- promptRows

\* Short days, weeks and months: what matters is where the clocks change.
Costs == INSTANCE Spending WITH
    Callers <- Payers, spent <- sums, rows <- callRows, DayHours <- 8, WeekDays <- 3, MonthDays <- 5

Facts == INSTANCE FactSelection WITH Limit <- MaxPacked

Clip == INSTANCE ClipPlan

Model == INSTANCE ModelAnswer

\* A video whose end is not on a tenth of a second, and a short one.
Said(start, end) == [start |-> start, end |-> end, words |-> <<2>>]
Times(start, end) == [start |-> start, end |-> end]

Shot ==
    [v1 |-> [length |-> 8, segments |-> <<Said(1, 3), Said(4, 6)>>],
     v2 |-> [length |-> 5, segments |-> <<Said(2, 4)>>]]

Answerable == {Times(0, 3), Times(4, 8), Times(3, 9)}

Entered == {Times(3, 4), Times(0, 6), Times(0, 2), Times(6, 8)}

Montage == INSTANCE VideoScreen WITH
    plan <- montage, asked <- asking, Texts <- {"t1", "t2"}, Videos <- Shot, Plans <- Answerable,
    Typed <- Entered

Health == INSTANCE SystemHealth WITH Rank <- Standing


\* Two places, the content being of the first one.
Hand == INSTANCE PlatformAccounts WITH
    Places <- {"p1", "p2"}, Home <- "p1", Remotes <- {"x"}, Requests <- Senders, None <- Unsaid,
    MaxDeaths <- MaxFalls, default <- preferred, current <- head, written <- authored, draft <- drafting,
    posted <- published, deaths <- falls

Media == INSTANCE MediaRules WITH Null <- Unsaid

ASSUME EditingAssumption ==
    /\ Interview!ConversationAssumption /\ Memory!MemoryAssumption
    /\ Profiles!ProfilesAssumption /\ Plan!PlanAssumption /\ Voice!RecordingsAssumption
    /\ Import!ImportAssumption
    /\ Prompts!PromptAssumption /\ Costs!SpendingAssumption
    /\ Facts!SelectionAssumption /\ Clip!ClipAssumption /\ Montage!ScreenAssumption
    /\ Health!HealthAssumption /\ Hand!AccountsAssumption /\ Media!MediaAssumption

------------------------------------------------------------------------------
(* The inputs of the rules.                                                *)

Texts == UNION {[1 .. n -> {"a", "b", "c"}] : n \in 0 .. TextSize}

Edits == {[kind |-> "edit", before |-> before, after |-> after] : before, after \in Texts}

Targets == {[kind |-> "target", target |-> target] : target \in TargetKeys}

Titles == {<<>>, <<"a">>, <<"a", "b">>, <<"a", "b", "c">>}

Pillars == {<<>>, <<"a">>}

Named(title, pillar) == [title |-> title, thesis |-> <<"b">>, pillar |-> pillar]

Scores ==
    {[kind |-> "score", subject |-> Named(title, pillar), brief |-> brief0,
      skills |-> known0, recent |-> recent,
      angle |-> [evidence |-> evidence, steps |-> steps, difficulty |-> difficulty]] :
        title \in Titles, pillar \in Pillars,
        brief0 \in {[exists |-> FALSE, pillars |-> {}], [exists |-> TRUE, pillars |-> {<<"a">>}]},
        known0 \in SUBSET {<<"a">>, <<"b">>, <<"b", "c">>},
        recent \in UNION {[1 .. n -> {Named(<<"a", "c">>, <<"a">>), Named(<<"b">>, <<>>)}] : n \in 0 .. 2},
        evidence \in SUBSET {"q1", "q2"}, steps \in {3, 4},
        difficulty \in {"faible", "moyenne", "elevee"}}

Rows(id) ==
    [id : {id}, importance : 1 .. 2, age : 0 .. MaxAge, used : 0 .. 1, cost : {1, 3},
     status : {"verified", "proposed"}]

Selections == {[kind |-> "facts", facts |-> {f, g, h}] : f \in Rows(1), g \in Rows(2), h \in Rows(3)}

\* Lengths and times up to six units, one or two segments in order.
Speech == UNION {[1 .. n -> {0, 2, 3}] : n \in 0 .. 3}

Segments == {[start |-> s, end |-> e, words |-> words] : s \in {0, 2, 5}, e \in {1, 4, 6}, words \in Speech}

Spoken == {s \in Segments : s.start < s.end}

Clips ==
    {[kind |-> "clip", length |-> length, segments |-> segments,
      plan |-> [start |-> start, end |-> start + lasting], maxClip |-> lasting] :
        length \in {2, 3, 6}, start \in {0, 1, 3}, lasting \in {2, 3},
        segments \in {<<>>} \cup {<<s>> : s \in Spoken}
                     \cup {<<s, t>> : s \in {u \in Spoken : u.start = 0 /\ Len(u.words) < 3},
                                      t \in {u \in Spoken : u.start = 5 /\ Len(u.words) < 3}}}

\* Two writings of budget_limits, and what each period has spent.
LimitRows ==
    [scope : {"global", "project", "task"}, period : {"day", "week", "month"}, limit : 0 .. 1,
     hard : BOOLEAN]

Brakes ==
    {[kind |-> "brake", written |-> <<row, other>>, spent |-> spent,
      action |-> [project |-> project, task |-> TRUE, estimate |-> estimate]] :
        row, other \in LimitRows, spent \in [{"day", "week", "month"} -> {0, 2}],
        project \in BOOLEAN, estimate \in 0 .. 1}

\* Clocks that change by an hour, any day and at the earliest two hours after
\* midnight, and the instants of the months around.
Instants ==
    LET zones == {z \in [before : {-4, -1, 0, 3}, after : -4 .. 4, change : 40 .. 64] :
                    /\ z.after - z.before \in -1 .. 1
                    /\ (z.change + z.before) % 8 >= 2}
    IN [kind : {"period"}, zone : zones, t : 30 .. 85]

\* Exchanges with a provider: what went wrong, or tokens and prices about the
\* roundings.
Usages == {u \in [prompt : 0 .. 3, cached : {0, 2}, completion : {0, 1, 4}] : u.cached <= u.prompt}

Exchanges(usages) ==
    [net : {"answered"}, status : {200}, usage : usages,
     payload : {"unreadable", "filtered", "empty", "json", "fenced", "unfit", "garbled"}]
    \cup [net : {"answered"}, status : {400, 401, 403, 404, 422, 429, 500, 503},
          usage : {[prompt |-> 3, cached |-> 2, completion |-> 0]}, payload : {"unreadable"}]
    \cup [net : {"cut", "late"}, status : {0},
          usage : {[prompt |-> 3, cached |-> 2, completion |-> 0]}, payload : {"unreadable"}]

Answers ==
    [kind : {"answer"}, key : BOOLEAN, first : Exchanges(Usages),
     second : Exchanges({[prompt |-> 3, cached |-> 2, completion |-> 1]}),
     price : {[input |-> 27, cached |-> 7, output |-> 110], [input |-> 50, cached |-> 50, output |-> 50],
              [input |-> 0, cached |-> 0, output |-> 0]}]

\* What the dashboard finds, the budget being below, at and above its marks.
Findings ==
    [kind : {"health"}, tables : BOOLEAN, wal : BOOLEAN, active : BOOLEAN, key : BOOLEAN,
     prompts : BOOLEAN, secret : BOOLEAN,
     sums : [day : {0, 16, 19, 20, 21}, month : {0, 32, 38, 40, 41}]]

Ranges == [kind : {"range"}, first : {Unsaid} \cup 0 .. 4, last : {Unsaid} \cup 0 .. 4, size : 0 .. 4]

\* What is recorded of an account.
Accounts ==
    {[kind |-> "level", platform |-> platform, connection |-> connection,
      recorded |-> [level |-> level, direct |-> direct, draft |-> draft]] :
        platform \in {"linkedin", "reddit"}, connection \in {"connected", "expired"},
        level \in {"A", "B", "C", "absent"}, direct, draft \in Capability}

\* Texts on either side of the limits of the platforms.
Posts ==
    [kind : {"request"}, target : TargetKeys, assets : 0 .. 1, tags : {0, 20},
     body : [chars : {400, 1000, 2990, 3010, 5010, 8000}, script : Scripts],
     title : [chars : {50, 110, 310}, script : {"ascii", "wide"}],
     account : {"none", "unnamed", "number", "urn"},
     scopes : {{}, {"r_liteprofile"}, {"w_member_social"}}]

FirstBytes == [kind : {"bytes"}, mark : Media!Marks, size : Media!Sizes]

\* Two streams at most, and lengths about the two limits.
Streams ==
    [type : {"video"}, codec : {"h264", "hevc"}, width : {Unsaid, 9, 16}, height : {Unsaid, 9, 16},
     duration : {Unsaid, 0, 20, 41}]
    \cup [type : {"audio", "data"}, codec : {"aac"}, width : {Unsaid}, height : {Unsaid}, duration : {20}]

Probed ==
    {[kind |-> "film", duration |-> duration, streams |-> streams] :
        duration \in {Unsaid, 0, 20, 31, 41},
        streams \in UNION {[1 .. n -> Streams] : n \in 0 .. 2}}

\* Blocks of ffmpeg: a value may be no number, before the start or past the end.
Lines == [key : {"out_time_us", "out_time_ms", "frame"}, value : {Unsaid, -5, 50, 199, 250}]

Blocks ==
    {[kind |-> "progress", lines |-> lines, expected |-> expected] :
        lines \in UNION {[1 .. n -> Lines] : n \in 0 .. 3}, expected \in {Unsaid, 0, 200}}

Inputs ==
    \/ input \in Accounts
    \/ input \in Posts
    \/ input \in FirstBytes
    \/ input \in Probed
    \/ input \in Blocks
    \/ input \in Edits
    \/ input \in Targets
    \/ input \in Scores
    \/ input \in Selections
    \/ input \in Clips
    \/ input \in Findings
    \/ input \in Ranges
    \/ input \in Brakes
    \/ input \in Instants
    \/ input \in Answers

------------------------------------------------------------------------------
interview == <<conv, messages, plans, briefs, held, turns, halted, cuts>>
memory == <<status, facts, confirmed, memoryCuts>>
profiles == <<archived, skills, audiences, styles>>
plan == <<known, brief, subjects, asked, halved, planCuts>>
voice == <<assets, keys, texts, notes, requests, sweep, made, doomed>>
import == <<listed, kept, partial, imports, tries, told>>
prompts == <<file, promptRows, syncing, starts, newest, crossed>>
costs == <<sums, billed, calls, begun, lost, callRows, days>>
cutting == <<screen, bounds, montage, asking, approvals, transcribed, posted, proposals, asks, moved>>
health == <<now, table, worker, since, deaths>>
hand == <<accounts, preferred, state, head, approved, authored, drafting, overtaken, packages, building,
          published, falls>>
vars == <<part, interview, memory, profiles, plan, voice, import, prompts, costs, cutting, health, hand, input>>

Init ==
    /\ part \in {"interview", "memory", "profiles", "plan", "voice", "import", "prompts", "costs", "montage",
                "health", "hand", "rules"}
    /\ Interview!Init /\ (part = "interview" \/ held = Interview!SlotSet)
    /\ Memory!Init /\ Profiles!Init
    /\ Plan!Init /\ (part = "plan" \/ brief = "validated")
    /\ Voice!Init /\ Import!Init /\ Prompts!Init /\ Costs!Init
    /\ Montage!Init /\ (part = "montage" \/ transcribed = {}) /\ Health!Init
    /\ Hand!Init /\ (part = "hand" \/ drafting = {})
    /\ IF part = "rules" THEN Inputs ELSE input = [kind |-> "none"]

Still(p, component) == IF part = p THEN TRUE ELSE UNCHANGED component

\* A step of one component, which leaves the others as they are.
Only(p, step) ==
    /\ part = p /\ step /\ UNCHANGED <<part, input>>
    /\ Still("interview", interview) /\ Still("memory", memory) /\ Still("profiles", profiles)
    /\ Still("plan", plan) /\ Still("voice", voice) /\ Still("import", import)
    /\ Still("prompts", prompts) /\ Still("costs", costs)
    /\ Still("montage", cutting) /\ Still("health", health)
    /\ Still("hand", hand)

Next ==
    \/ Only("interview", Interview!Next) \/ Only("memory", Memory!Next)
    \/ Only("profiles", Profiles!Next) \/ Only("plan", Plan!Next) \/ Only("voice", Voice!Next)
    \/ Only("import", Import!Next) \/ Only("prompts", Prompts!Next) \/ Only("costs", Costs!Next)
    \/ Only("montage", Montage!Next) \/ Only("health", Health!Next)
    \/ Only("hand", Hand!Next)

Spec == Init /\ [][Next]_vars

------------------------------------------------------------------------------
(* The properties: of each concern, those of the modules that share it.    *)

\* Every component keeps its types.
TypeOK ==
    /\ Interview!TypeOK /\ Memory!TypeOK /\ Profiles!TypeOK /\ Plan!TypeOK /\ Voice!TypeOK
    /\ Import!TypeOK /\ Prompts!TypeOK /\ Costs!TypeOK /\ Montage!TypeOK /\ Health!TypeOK
    /\ Hand!TypeOK
    /\ input.kind \in {"none", "edit", "target", "score", "facts", "clip", "brake", "health", "range",
                     "level", "request", "bytes", "film", "progress", "period", "answer"}

\* Conversation: whatever turns, briefs and acceptances cross each other, one
\* version of a brief is alive, the stage is the one of the first gap, no
\* message is lost from the count, and what is accepted twice is written once;
\* but for the requests that were cut, as each property says.
InterviewHolds ==
    /\ Interview!OneBrief /\ Interview!StageNamesGap
    /\ Interview!CountedMessages /\ Interview!WrittenOnce

\* ProjectMemory, ProjectProfiles: the two links of a replacement agree and
\* what was replaced is dead, what a prompt may quote was confirmed by a human,
\* a skill aims at something exactly while it is being learnt, and a name has
\* one profile.
MemoryIsSound ==
    /\ Memory!HistoryIsLinear /\ Memory!ReplacedIsDead /\ Memory!TrustedIsHuman
    /\ Profiles!LearningHasTarget /\ Profiles!OneProfilePerName

\* Conversation, ProjectMemory, ProjectProfiles, Recordings: a closed
\* conversation is left by a reopening or a new brief only, nothing of an
\* archived project changes, no interview lowers a level, and a recording that
\* a message holds is kept.
NothingIsUndone ==
    /\ Interview!ClosedStays /\ Memory!ArchivedIsFrozen
    /\ Profiles!LevelsRise /\ Voice!EvidenceIsKept

\* EditorialPlan: nothing enters the plan on an invented quotation, whatever
\* was asked for meanwhile, and a subject whose writing was not cut has angles,
\* one selected at most.
PlanIsSound == Plan!PlanIsGrounded /\ Plan!OneSelected

\* Recordings, VideoImport, PromptSync: what two requests or two processes
\* bring at once is stored once; a video that is listed has its file, and the
\* version of a prompt that was inserted last is the one that is served.
StoredOnce ==
    /\ Voice!OneRowPerSound /\ Import!OneRowPerFilm /\ Import!RowHasFile
    /\ Prompts!LastInsertedIsServed

\* Spending: a limit is passed by the calls in flight only, a call that is
\* over has a row and no cost is counted twice.
SpendingIsBounded == Costs!OverspendIsInFlight /\ Costs!EveryCallHasRow /\ Costs!CountedWasBilled

\* PlatformAccounts: what is said to be posted by hand is what was approved,
\* unless the API died or a draft was written on a content its run had not
\* read so, under an account of its place; and the default account is the last
\* one.
PublishedAsApproved == Hand!PostedIsApproved /\ Hand!DefaultIsTheLast

\* VideoScreen: the plan shown fits the video it was asked for, which is the one
\* that is chosen, and launched, unless a choice changed while the plan was
\* awaited; the API refuses what the form lets out for a short or a silent clip
\* and for what changed since, and only bounds of the agent bear its name.
MontageFits ==
    /\ Montage!PlanOfSelection /\ Montage!ProposalFits
    /\ Montage!FormAgrees /\ Montage!LabelIsTrue

\* Spending, ModelAnswer: an action is held exactly when the last hard limit
\* of one of its scopes would be passed; the periods are those of the user, but
\* for the hour of the clocks; the cost of an answer is that of its exchanges,
\* within what was estimated, and a call is paid again by the queue when that
\* may help.
CostRulesHold ==
    /\ input.kind = "brake" => Costs!HardLimitsHold(input.written, input.action, input.spent)
    /\ input.kind = "period" => Costs!PeriodsAreLocal(input.zone, input.t)
    /\ input.kind = "answer" =>
         /\ Model!CostIsWhole(input) /\ Model!EstimateCovers(input)
         /\ Model!RetriedWhenUseful(input)

\* EditorialRules, FactSelection: the rules of a target do not contradict each
\* other and the measure of an edition is the share of the words changed; more
\* skills and quotations never hurt a subject, and no fact is left out of a
\* prompt for one that is worse in everything, within its budget; no level is
\* above what an account may do, a draft that keeps to its aim can be published
\* by hand, and what the LinkedIn connector accepts, it can write.
EditorialRulesHold ==
    /\ input.kind = "target" => RulesAgree(input.target)
    /\ input.kind = "edit" => EditRatioCountsEdits(input.before, input.after)
    /\ input.kind = "score" =>
         ScoresRank(input.subject, input.brief, input.skills, input.recent, input.angle)
    /\ input.kind = "facts" =>
         /\ Facts!RankingIsTotal(input.facts) /\ Facts!BestAreSelected(input.facts)
         /\ Facts!PackKeepsItsFloor(input.facts)
    /\ input.kind = "level" => LevelIsEarned(input.recorded, input.platform, input.connection)
    /\ input.kind = "request" =>
         AimedDraftIsPackaged(input) /\ AcceptedCanBeWritten(input)

\* ClipPlan, MediaRules: the plan by default is valid and the subtitles follow
\* the speech; a film that was imported can be cut, or was said to be too long,
\* its progress is its time, and the part of a file that is announced can be
\* read.
MediaRulesHold ==
    /\ input.kind = "clip" =>
         /\ Clip!DefaultPlanIsValid(input.length, input.maxClip, input.segments)
         /\ Clip!CuesFollowSpeech(input.segments, input.plan)
    /\ input.kind = "bytes" => Media!AnnouncedIsTaken(input)
    /\ input.kind = "film" => Media!ImportedCanBeCut(input)
    /\ input.kind = "progress" => Media!ProgressIsExact(input.lines, input.expected)
    /\ input.kind = "range" => Media!RangeIsInside(input.first, input.last, input.size)

\* The pure rules of the chain, each on every input of its set.
RulesHold == CostRulesHold /\ EditorialRulesHold /\ MediaRulesHold

\* SystemHealth: a worker at work is shown at work and one that died there is
\* shown silent, whatever leases were taken over, and the worst of the checks is
\* what is shown.
HealthIsTrue ==
    /\ Health!BusyIsShown /\ Health!DeathIsShown
    /\ input.kind = "health" => Health!StatusIsTrue(input)
==============================================================================
