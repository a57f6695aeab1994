----------------------------- MODULE VideoScreen -----------------------------
(***************************************************************************)
(* The preparation of a short: the screen where a content and a video are  *)
(* chosen, a plan asked for, its bounds edited and the render launched     *)
(* (apps/web/src/features/video/VideoView.tsx and video.ts), and the API   *)
(* that proposes the plan and takes the launch (features/media.ts).        *)
(*                                                                         *)
(* A proposal awaits the agent: a choice made meanwhile is not undone by   *)
(* its answer, which the screen takes whatever is chosen by then.          *)
(***************************************************************************)
EXTENDS ClipPlan

CONSTANTS
    Texts,     \* the contents of the project
    Videos,    \* the videos of the project: their length and what is heard in them
    Plans,     \* the plans the agent may answer
    Typed,     \* the bounds a user may type
    MaxClip,   \* VIDEO_MAX_CLIP_S
    Tenth,     \* a tenth of a second
    MaxAsks    \* bound: proposals asked for, approvals lost and launches

\* env.ts: VIDEO_MAX_CLIP_S is five seconds at least, RENDER_CLIP_MIN_MS one.
ScreenAssumption == MaxClip \in Nat /\ MinClip <= MaxClip /\ Tenth \in Nat \ {0} /\ MaxAsks \in Nat

VARIABLES
    screen,      \* the chosen content and video
    bounds,      \* the two fields of the form
    plan,        \* the plan on the screen, with the choice it was asked for
    asked,       \* the choice of the proposal that is awaited
    approvals,   \* the contents with an approved version
    transcribed, \* the videos with a transcript
    posted,      \* the last launch, with the plan it was made on and the answer of the API
    proposals,   \* what the agent proposed
    asks,        \* counted for their bound
    moved        \* a choice has changed while a proposal was awaited

screenVars == <<screen, bounds, plan, asked, approvals, transcribed, posted, proposals, asks, moved>>

Nothing == "none"
NoChoice == [content |-> Nothing, source |-> Nothing]
NoPlan == [start |-> 0, end |-> 0, label |-> Nothing, for |-> NoChoice]
NoAnswer == [start |-> 0, end |-> 0]
NoLaunch == [content |-> Nothing, source |-> Nothing, start |-> 0, end |-> 0,
             label |-> Nothing, for |-> NoChoice, moved |-> FALSE, refusal |-> "none"]

Init ==
    /\ screen = NoChoice
    /\ bounds = [start |-> 0, end |-> 0]
    /\ plan = NoPlan /\ asked = NoChoice
    /\ approvals = Texts /\ transcribed \in SUBSET DOMAIN Videos
    /\ posted = NoLaunch /\ proposals = {} /\ asks = 0 /\ moved = FALSE

Segments(v) == IF v \in transcribed THEN Videos[v].segments ELSE <<>>

Once == asks < MaxAsks /\ asks' = asks + 1

------------------------------------------------------------------------------
(* The form.                                                               *)

\* formatTimecodeInput writes tenths, parseTimecode reads them back.
Field(time) == Tenth * Rounded(time, Tenth)

Fields(times) == [start |-> Field(times.start), end |-> Field(times.end)]

\* The form checks the video the plan was asked for: a mutant of FormAccepts.
FormAccepts_OfPlan(times, v) ==
    /\ times.start < times.end
    /\ times.end <= Videos[plan.for.source].length
    /\ times.end - times.start <= MaxClip

\* buildPlanDraft: the order of the bounds, the length of the video and of the
\* clip; nothing is said of a clip that is too short.
FormAccepts(times, v) ==
    /\ times.start < times.end
    /\ times.end <= Videos[v].length
    /\ times.end - times.start <= MaxClip

\* transcriptionBlocker: nothing can be proposed for a video without a text.
Blocked(v) == Segments(v) = <<>>

\* A bound left alone keeps the label: a mutant of Label.
Label_OneBound(times) == IF times.start = plan.start THEN plan.label ELSE "manual"

\* planSource: a plan whose bounds were moved is not the agent's any more.
Label(times) ==
    IF times.start = plan.start /\ times.end = plan.end THEN plan.label ELSE "manual"

------------------------------------------------------------------------------
(* The API.                                                                *)

\* An answer is a plan: a mutant of Proposal.
Proposal_Trusted(v, answer) ==
    [start |-> answer.start, end |-> answer.end, label |-> "agent"]

\* proposeVideoPlan: the plan of the agent when it is one, or the one computed.
Proposal(v, answer) ==
    LET heard == Segments(v)
        default == DefaultPlan(Videos[v].length, MaxClip, heard)
    IN IF answer \in Plans /\ heard # <<>> /\ ValidPlan(answer, Videos[v].length, MaxClip)
       THEN [start |-> answer.start, end |-> answer.end, label |-> "agent"]
       ELSE [start |-> default.start, end |-> default.end, label |-> "fallback"]

\* createVideoRender: the first refusal, in the order of its controls.
Refusal(content, v, times) ==
    CASE content \notin approvals                        -> "not approved"
      [] times.end <= times.start                        -> "reversed"
      [] times.end > Videos[v].length                    -> "beyond the source"
      [] times.end - times.start < MinClip               -> "too short"
      [] times.end - times.start > MaxClip               -> "too long"
      [] v \notin transcribed                            -> "not transcribed"
      [] ~HasSpeech(Segments(v), times)                  -> "silent"
      [] OTHER                                           -> "none"

------------------------------------------------------------------------------
(* The screen.                                                             *)

Awaited == asked # NoChoice

\* The plan of another content stays on the screen: a mutant of ChooseContent.
ChooseContent_Keep(c) ==
    /\ c \in approvals /\ c # screen.content
    /\ screen' = [screen EXCEPT !.content = c]
    /\ moved' = (moved \/ Awaited)
    /\ UNCHANGED <<bounds, plan, asked, approvals, transcribed, posted, proposals, asks>>

\* The list of the contents that may be mounted.
ChooseContent(c) ==
    /\ c \in approvals /\ c # screen.content
    /\ screen' = [screen EXCEPT !.content = c]
    /\ plan' = NoPlan
    /\ moved' = (moved \/ Awaited)
    /\ UNCHANGED <<bounds, asked, approvals, transcribed, posted, proposals, asks>>

\* The effect on the source: the bounds go back to the measured length.
Reset(v) ==
    /\ bounds' = Fields([start |-> 0, end |-> Least(Videos[v].length, MaxClip)])
    /\ plan' = NoPlan

\* "Choisir cette video".
ChooseSource(v) ==
    /\ v # screen.source
    /\ screen' = [screen EXCEPT !.source = v]
    /\ Reset(v)
    /\ moved' = (moved \/ Awaited)
    /\ UNCHANGED <<asked, approvals, transcribed, posted, proposals, asks>>

\* The transcription of a video ends: the list is loaded again, and the video
\* that is chosen is another object.
Transcribed(v) ==
    /\ v \notin transcribed
    /\ transcribed' = transcribed \cup {v}
    /\ IF v = screen.source THEN Reset(v) ELSE UNCHANGED <<bounds, plan>>
    /\ UNCHANGED <<screen, asked, approvals, posted, proposals, asks, moved>>

\* "Proposer un montage": one proposal at a time.
Propose ==
    /\ Once
    /\ screen.content # Nothing /\ screen.source # Nothing /\ ~Awaited
    /\ ~Blocked(screen.source)
    /\ asked' = IF screen.content \in approvals THEN screen ELSE NoChoice
    /\ moved' = (plan # NoPlan /\ moved)
    /\ UNCHANGED <<screen, bounds, plan, approvals, transcribed, posted, proposals>>

\* The answer, whatever is chosen now.
Proposed(answer) ==
    /\ Awaited
    /\ LET proposal == Proposal(asked.source, answer)
       IN /\ plan' = [start |-> proposal.start, end |-> proposal.end,
                      label |-> proposal.label, for |-> asked]
          /\ bounds' = Fields(proposal)
          /\ proposals' = proposals \cup {<<asked, proposal>>}
    /\ asked' = NoChoice
    /\ UNCHANGED <<screen, approvals, transcribed, posted, asks, moved>>

\* The request of the proposal fails: the message, and nothing else.
ProposalLost ==
    /\ Awaited
    /\ asked' = NoChoice
    /\ UNCHANGED <<screen, bounds, plan, approvals, transcribed, posted, proposals, asks, moved>>

\* The two fields are text: the user writes what he likes.
Type(times) ==
    /\ plan # NoPlan
    /\ bounds' = times
    /\ UNCHANGED <<screen, plan, asked, approvals, transcribed, posted, proposals, asks, moved>>

\* "Lancer le rendu": what the form accepts is posted for the choice of now.
Launch ==
    /\ Once
    /\ plan # NoPlan /\ screen.source # Nothing
    /\ FormAccepts(bounds, screen.source)
    /\ posted' = [content |-> screen.content, source |-> screen.source,
                  start |-> bounds.start, end |-> bounds.end, label |-> Label(bounds),
                  for |-> plan.for, moved |-> moved,
                  refusal |-> Refusal(screen.content, screen.source, bounds)]
    /\ UNCHANGED <<screen, bounds, plan, asked, approvals, transcribed, proposals, moved>>

\* The content is edited, rewritten or archived (module ContentGeneration).
Disapprove(c) ==
    /\ Once
    /\ approvals' = approvals \ {c}
    /\ UNCHANGED <<screen, bounds, plan, asked, transcribed, posted, proposals, moved>>

Next ==
    \/ \E c \in Texts : ChooseContent(c) \/ Disapprove(c)
    \/ \E v \in DOMAIN Videos : ChooseSource(v) \/ Transcribed(v)
    \/ Propose \/ Launch \/ ProposalLost
    \/ \E answer \in Plans \cup {NoAnswer} : Proposed(answer)
    \/ \E times \in Typed : Type(times)

------------------------------------------------------------------------------
TypeOK ==
    /\ screen.content \in Texts \cup {Nothing} /\ screen.source \in DOMAIN Videos \cup {Nothing}
    /\ bounds.start \in Nat /\ bounds.end \in Nat
    /\ plan.label \in {Nothing, "agent", "fallback"} /\ asks \in 0 .. MaxAsks

\* "Changer de video remet les bornes a zero": the plan on the screen was
\* asked for the content and the video that are chosen, unless a choice was
\* changed while a proposal was awaited.
PlanOfSelection == plan # NoPlan /\ ~moved => plan.for = screen

\* "Les bornes reelles sont verifiees en code": what the screen proposes fits
\* its video, whatever the agent answered, and from a video long enough.
ProposalFits ==
    plan # NoPlan /\ Videos[plan.for.source].length >= MinClip =>
        ValidPlan(plan, Videos[plan.for.source].length, MaxClip)

\* "Evite simplement de creer un job pour rien": a launch the form lets out
\* is refused for what the form does not look at - a clip too short, a silent
\* one, a content that lost its approval - never for bounds that are reversed,
\* outside the video or too far apart, and for want of a transcript only when
\* the plan was asked for another video.  It is made on a plan that was asked
\* for the content and the video it renders, unless a choice was changed while
\* that plan was awaited.
FormAgrees ==
    /\ \/ posted.refusal \in {"none", "too short", "silent", "not approved"}
       \/ posted.refusal = "not transcribed" /\ posted.for.source # posted.source
    /\ posted # NoLaunch /\ ~posted.moved =>
         posted.for = [content |-> posted.content, source |-> posted.source]

\* "Le plan n'est plus celui de l'agent - et c'est ecrit en base": a launch
\* under the name of the agent has the bounds the agent proposed for the
\* content and the video its plan was asked for, which FormAgrees compares with
\* those of the launch.
LabelIsTrue ==
    posted.label = "agent" =>
        \E proposal \in proposals :
            /\ proposal[1] = posted.for
            /\ proposal[2] = [start |-> posted.start, end |-> posted.end, label |-> "agent"]

\* "Si l'utilisateur a deplace les bornes": a plan nobody touched keeps its
\* label.  The form rounds to a tenth, and a rounded bound is a moved one.
UntouchedKeepsLabel ==
    plan # NoPlan /\ bounds = Fields(plan) => Label(bounds) = plan.label
==============================================================================
