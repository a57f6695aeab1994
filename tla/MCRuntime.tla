------------------------------- MODULE MCRuntime -----------------------------
(***************************************************************************)
(* Instances of what runs beside the queue: the journal of a job and its   *)
(* streams, the rendering of videos and its semaphore, the programs it     *)
(* runs, the locks of the accounts, the client of the platforms, and the   *)
(* screens that follow a job, an interview and a recording.  The           *)
(* components share no state that matters to their properties: a behaviour *)
(* is one of them, chosen by `part', while the others stay as they are.    *)
(***************************************************************************)
EXTENDS Integers, Sequences, FiniteSets

CONSTANTS
    Writers, Clients, MaxAttempts, MaxExpiries, MaxLog, FirstPage, Page,  \* JobEvents
    Renders, Runners, Outputs, MaxJobs, MaxFaults,                        \* VideoRender
    Callers, Places,                                                      \* Semaphore
    Tasks, None,                                                          \* AccountLocks
    MaxSends,                                                             \* HttpClient
    Projects, MaxLaunches, Full,                                          \* JobScreen
    Conversations, MaxTurns,                                              \* ConversationScreen
    MaxRecordings                                                         \* VoiceInput

VARIABLES
    part,                                                         \* the component at work
    status, attempt, log, writing, streams, expiries, collided,   \* JobEvents
    renders, videos, files, jobs, runs, unqueued, faults, untold, \* VideoRender
    active, waiting, woken, running, arrived,                     \* Semaphore
    last, after, phase,                                           \* AccountLocks
    child, exit, stubborn, killed, signal, limit, abort, kills, outcome, \* ProcessRun
    replayable, sends, doing, posted, result,                     \* HttpClient
    view, project, launched, answers, asking, jobId, source, progress, settled, ends,
    cuts,                                                         \* JobScreen
    turns, shown, live, pages, turn, answered, stream, seen, channel, selection,
    drops,                                                        \* ConversationScreen
    mic, recorded, uploading, hearings, take, takeStatus, heard, corrected, error, sending,
    removing, spoken, failures                                    \* VoiceInput

Events == INSTANCE JobEvents WITH runs <- writing, Streams <- Clients

Render == INSTANCE VideoRender WITH
    rows <- renders, assets <- videos, OutputOf <- [r \in Renders |-> Outputs]

Gate == INSTANCE Semaphore WITH Limit <- Places

\* The first of the tasks is alone on its account.
Locks == INSTANCE AccountLocks WITH
    Account <- [t \in Tasks |-> IF t = CHOOSE first \in Tasks : TRUE THEN "reddit" ELSE "linkedin"]

Process == INSTANCE ProcessRun

Client == INSTANCE HttpClient WITH arrived <- posted

Screen == INSTANCE JobScreen WITH
    MaxJobs <- MaxLaunches, Nobody <- None,
    jobs <- launched, cache <- answers, request <- asking, told <- ends, faults <- cuts

Chat == INSTANCE ConversationScreen WITH
    MaxMessages <- MaxTurns, Nowhere <- None,
    messages <- turns, cache <- pages, request <- turn, last <- answered, sent <- seen,
    faults <- drops

Input == INSTANCE VoiceInput WITH
    made <- recorded, jobs <- hearings, asset <- take, status <- takeStatus, sent <- spoken,
    faults <- failures

ASSUME RuntimeAssumption ==
    /\ Events!EventsAssumption /\ Render!RenderAssumption /\ Gate!SemaphoreAssumption
    /\ Locks!LocksAssumption /\ Client!ClientAssumption /\ Screen!ScreenAssumption
    /\ Chat!ScreenAssumption /\ Input!VoiceAssumption

------------------------------------------------------------------------------
events == <<status, attempt, log, writing, streams, expiries, collided>>
video == <<renders, videos, files, jobs, runs, unqueued, faults, untold>>
places == <<active, waiting, woken, running, arrived>>
locks == <<last, after, phase>>
process == <<child, exit, stubborn, killed, signal, limit, abort, kills, outcome>>
client == <<replayable, sends, doing, posted, result>>
screen == <<view, project, launched, answers, asking, jobId, source, progress, settled, ends, cuts>>
chat == <<turns, shown, live, pages, turn, answered, stream, seen, channel, selection, drops>>
input == <<mic, recorded, uploading, hearings, take, takeStatus, heard, corrected, error, sending,
           removing, spoken, failures>>
vars == <<part, events, video, places, locks, process, client, screen, chat, input>>

Init ==
    /\ part \in {"events", "video", "places", "locks", "process", "client", "screen", "chat", "input"}
    /\ Events!Init /\ Render!Init /\ Gate!Init /\ Locks!Init /\ Process!Init /\ Client!Init
    /\ Screen!Init /\ Chat!Init /\ Input!Init

Still(p, component) == IF part = p THEN TRUE ELSE UNCHANGED component

\* A step of one component, which leaves the others as they are.
Only(p, step) ==
    /\ part = p /\ step /\ UNCHANGED part
    /\ Still("events", events) /\ Still("video", video) /\ Still("places", places)
    /\ Still("locks", locks) /\ Still("process", process) /\ Still("client", client)
    /\ Still("screen", screen) /\ Still("chat", chat) /\ Still("input", input)

Next ==
    \/ Only("events", Events!Next) \/ Only("video", Render!Next) \/ Only("places", Gate!Next)
    \/ Only("locks", Locks!Next) \/ Only("process", Process!Next) \/ Only("client", Client!Next)
    \/ Only("screen", Screen!Next) \/ Only("chat", Chat!Next) \/ Only("input", Input!Next)

\* The handlers of a job end, its workers claim and its streams poll; the
\* workers of the renders go on with their runs, and a request with its job; a
\* task that holds a lock ends; timers run out, and a program ends when it is
\* told to; the screens are served what they ask for.  (Each action is one of its own component: a step
\* of it leaves the variables of the others alone, by Next.)
Fairness ==
    /\ \A w \in Writers : /\ WF_events(part = "events" /\ Events!Writes(w))
                          /\ WF_events(part = "events" /\ Events!Claim(w))
    /\ \A s \in Clients : WF_events(part = "events" /\ Events!Follows(s))
    /\ \A w \in Runners : WF_video(part = "video" /\ Render!Polls(w))
    /\ \A r \in Renders : WF_video(part = "video" /\ Render!Attach(r))
    /\ \A t \in Tasks : WF_locks(part = "locks" /\ Locks!Goes(t))
    /\ WF_process(part = "process" /\ Process!Ends)
    /\ WF_process(part = "process" /\ Process!TimeOut)
    /\ WF_process(part = "process" /\ Process!Insist)
    /\ \A j \in 1 .. MaxLaunches : WF_screen(part = "screen" /\ Screen!Proceeds(j))
    /\ WF_screen(part = "screen" /\ Screen!Streams)
    /\ \A p \in Projects : WF_screen(part = "screen" /\ Screen!Fetch(p))
    /\ WF_chat(part = "chat" /\ Chat!Streams)
    /\ WF_input(part = "input" /\ Input!Works)
    /\ WF_input(part = "input" /\ Input!HearText)
    /\ WF_input(part = "input" /\ Input!HearNews)

Spec == Init /\ [][Next]_vars /\ Fairness

------------------------------------------------------------------------------
(* The properties: of each concern, those of the modules that share it.    *)

\* Every component keeps its types.
TypeOK ==
    /\ Events!TypeOK /\ Render!TypeOK /\ Gate!TypeOK /\ Locks!TypeOK /\ Process!TypeOK
    /\ Client!TypeOK /\ Screen!TypeOK /\ Chat!TypeOK /\ Input!TypeOK

\* JobEvents: though two runs of a job may append at once, its journal is
\* numbered without a gap, and a client receives it in order, each event once,
\* wherever its connection drops.
JournalIsWhole == Events!JournalCounts /\ Events!StreamIsPrefix

\* VideoRender: through crashes, stolen leases and resumptions, a completed
\* render has the file it names, and one that is shown in progress has a job,
\* a run or a request to take it further, unless a run or a request left it
\* without writing its row (the exceptions of InProgressHasRun).
RendersAreTrue == Render!CompletedIsWatchable /\ Render!InProgressHasRun

\* Semaphore, AccountLocks: however callers come while a place changes hands,
\* no more tasks run than there are places, nobody waits beside a free one or
\* is overtaken, and an account has one task at a time.
TurnsAreKept ==
    Gate!AtMostLimit /\ Gate!NobodyWaitsInVain /\ Gate!InOrder /\ Locks!OneTaskPerAccount

\* HttpClient, ProcessRun, JobScreen, ConversationScreen: an answer that comes
\* late is not taken for another one.  A post without a key reaches the
\* platform once, an encoding that was cut short is tried again however it
\* exits, the end of a job is told once, and the boxes that are ticked are of
\* the plan that is displayed.
AnswersAreMatched ==
    /\ Client!PostedOnce /\ Process!InterruptedIsRetried
    /\ Screen!ToldOnce /\ Chat!TicksAreOfThePlan

\* JobEvents, VideoRender, JobScreen, VoiceInput: what is over or was typed is
\* not undone by what arrives later: a completed job stays so (but for a
\* refused event or a lost lease), a completed render too, a bar never goes
\* back, and no transcript overwrites a correction.
NothingGoesBack ==
    /\ Events!CompletedStays /\ Render!CompletedIsFinal
    /\ Screen!BarNeverGoesBack /\ Input!CorrectionKept

\* What is waited for comes, under the fairness above: a stream that stays
\* connected ends, a render comes to rest, the line of an account empties, a
\* program that heeds its signal ends, a screen comes to show what its job
\* wrote and every message of its interview, and a recording becomes readable
\* or is said to have failed.
WaitsEnd ==
    /\ \A s \in Clients : Events!StreamEnds(s)
    /\ \A r \in Renders : Render!Settles(r)
    /\ Locks!LinesEmpty
    /\ Process!ObedientEnds
    /\ \A j \in 1 .. MaxLaunches : Screen!CatchesUp(j)
    /\ \A n \in 1 .. MaxTurns : Chat!AllShown(n)
    /\ Input!Settles
==============================================================================
