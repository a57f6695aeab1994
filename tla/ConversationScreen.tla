--------------------------- MODULE ConversationScreen --------------------------
(***************************************************************************)
(* The screen of an interview (apps/web/src/features/conversation): the    *)
(* conversation chosen, its messages, which reach the screen by the        *)
(* answers of the API, by a stream that opens again when it is lost        *)
(* (apps/api/src/routes/conversations.ts) and by the request of the whole  *)
(* conversation, and the proposals ticked to be written in the memory of   *)
(* the project.  A handler of the screen, the render and the effects that  *)
(* follow are one action.                                                  *)
(*                                                                         *)
(* What the API does with a turn is module Conversation; here a turn is    *)
(* two messages, each answer carrying a plan.                              *)
(***************************************************************************)
EXTENDS Naturals, Sequences

CONSTANTS
    Conversations, \* the conversations the user goes between
    Nowhere,       \* no conversation chosen
    MaxMessages,   \* bound: rows of messages
    MaxFaults      \* bound: connections lost, turns that fail

ScreenAssumption ==
    /\ Conversations # {} /\ Nowhere \notin Conversations
    /\ MaxMessages \in Nat /\ MaxFaults \in Nat

VARIABLES
    messages, \* the rows of messages, in the order of their creation
    shown,    \* conversationId
    live,     \* liveMessages: numbers of messages
    cache,    \* the answer held for each conversation
    request,  \* the turn that is pending
    last,     \* lastAssistant: the answer received last, or 0
    stream,   \* "off", "opening" or "open"
    sent,     \* how many rows the server has looked at for this stream
    channel,  \* what the stream carries, on its way
    selection,\* the plan the ticks are of, or 0
    faults    \* counted for their bound

conversationVars == <<messages, shown, live, cache, request, last, stream, sent, channel,
                      selection, faults>>

NoTurn == [conv |-> Nowhere, pc |-> "idle", user |-> 0, answer |-> 0]

\* One interview has begun before the screen is opened.
Turn(c) == <<[conv |-> c, role |-> "user"], [conv |-> c, role |-> "assistant"]>>

Init ==
    /\ messages = Turn(CHOOSE c \in Conversations : TRUE)
    /\ shown = Nowhere /\ live = {}
    /\ cache = [c \in Conversations |-> [stale |-> TRUE, held |-> {}]]
    /\ request = NoTurn /\ last = 0
    /\ stream = "off" /\ sent = 0 /\ channel = <<>>
    /\ selection = 0 /\ faults = 0

Listed(c) == {n \in DOMAIN messages : messages[n].conv = c}

------------------------------------------------------------------------------
(* What the screen shows.                                                  *)

\* mergeMessages: one message for an identifier, in the order of creation.
Merged(held, new) == held \cup new

Displayed == IF shown = Nowhere THEN {} ELSE Merged(cache[shown].held, live)

\* lastPlan: the answer received last when it is displayed, or else the latest.
Plan(displayed, preferred) ==
    LET answers == {n \in displayed : messages[n].role = "assistant"}
    IN IF answers = {} THEN 0
       ELSE IF preferred \in answers THEN preferred
       ELSE CHOOSE n \in answers : \A m \in answers : m <= n

\* The ticks stay when there are some: a mutant of Selected.
Selected_Kept(plan) ==
    IF selection = 0 THEN plan ELSE selection

\* The effect on assistantPlan: another plan is ticked by default
\* (defaultSelection).
Selected(plan) == IF plan = 0 THEN selection ELSE plan

\* What follows each render.
Rendered ==
    LET displayed == IF shown' = Nowhere THEN {} ELSE Merged(cache'[shown'].held, live')
    IN selection' = Selected(Plan(displayed, last'))

------------------------------------------------------------------------------
(* The choices of the user.                                                *)

\* Another conversation, or none: the stream is closed, another one opened,
\* and an answer older than staleTime is asked for again.
Choose(c, aged) ==
    /\ c # shown
    /\ shown' = c
    /\ live' = IF c = Nowhere THEN live ELSE {}
    /\ cache' = IF c = Nowhere THEN cache ELSE [cache EXCEPT ![c].stale = @ \/ aged]
    /\ stream' = IF c = Nowhere THEN "off" ELSE "opening"
    /\ sent' = 0 /\ channel' = <<>>
    /\ UNCHANGED <<messages, request, last, faults>>
    /\ Rendered

\* A message is sent, written or transcribed (module VoiceInput).
Send ==
    /\ shown # Nowhere /\ request.pc = "idle"
    /\ request' = [NoTurn EXCEPT !.conv = shown, !.pc = "sent"]
    /\ UNCHANGED <<messages, shown, live, cache, last, stream, sent, channel, selection, faults>>

------------------------------------------------------------------------------
(* The API.                                                                *)

Row(c, role) == messages' = Append(messages, [conv |-> c, role |-> role])

\* The message of the user is written first.
Receive ==
    /\ request.pc = "sent" /\ Len(messages) < MaxMessages
    /\ Row(request.conv, "user")
    /\ request' = [request EXCEPT !.pc = "written", !.user = Len(messages')]
    /\ UNCHANGED <<shown, live, cache, last, stream, sent, channel, selection, faults>>

\* The agent has answered, and the response leaves.
Reply ==
    /\ request.pc = "written" /\ Len(messages) < MaxMessages
    /\ Row(request.conv, "assistant")
    /\ request' = [request EXCEPT !.pc = "answered", !.answer = Len(messages')]
    /\ UNCHANGED <<shown, live, cache, last, stream, sent, channel, selection, faults>>

\* A turn that fails, before or after the message of the user.
Fail ==
    /\ request.pc \in {"sent", "written"} /\ faults < MaxFaults
    /\ faults' = faults + 1
    /\ request' = NoTurn
    /\ UNCHANGED <<messages, shown, live, cache, last, stream, sent, channel, selection>>

\* The opening of a stream: the messages there are.
Open ==
    /\ stream = "opening"
    /\ stream' = "open" /\ sent' = Len(messages)
    /\ channel' = <<[kind |-> "snapshot", carried |-> Listed(shown)]>>
    /\ UNCHANGED <<messages, shown, live, cache, request, last, selection, faults>>

\* The snapshot is all there is: a mutant of Unseen.
Unseen_None(c) == {}

\* flush: the messages not seen yet.
Unseen(c) == {n \in Listed(c) : n > sent}

Poll ==
    /\ stream = "open" /\ Unseen(shown) # {}
    /\ sent' = Len(messages)
    /\ channel' = Append(channel, [kind |-> "messages", carried |-> Unseen(shown)])
    /\ UNCHANGED <<messages, shown, live, cache, request, last, stream, selection, faults>>

------------------------------------------------------------------------------
(* What comes back.                                                        *)

\* receiveTurn, and the success of send: the answer is shown, and the conversation asked for again - the one chosen by then.
Answered ==
    /\ request.pc = "answered"
    /\ live' = Merged(live, {request.user, request.answer})
    /\ last' = request.answer
    /\ cache' = IF shown = Nowhere THEN cache ELSE [cache EXCEPT ![shown].stale = TRUE]
    /\ request' = NoTurn
    /\ UNCHANGED <<messages, shown, stream, sent, channel, faults>>
    /\ Rendered

\* The answer to the request of the whole conversation.
Fetch(c) ==
    /\ c = shown /\ cache[c].stale
    /\ cache' = [cache EXCEPT ![c] = [stale |-> FALSE, held |-> Listed(c)]]
    /\ UNCHANGED <<messages, shown, live, request, last, stream, sent, channel, faults>>
    /\ Rendered

\* A snapshot takes the place of what the stream had brought; a message is
\* added to it.
Deliver ==
    /\ channel # <<>>
    /\ LET head == channel[1] IN
        /\ live' = IF head.kind = "snapshot" THEN head.carried ELSE Merged(live, head.carried)
        /\ channel' = SubSeq(channel, 2, Len(channel))
        /\ UNCHANGED <<messages, shown, cache, request, last, stream, sent, faults>>
        /\ Rendered

\* The connection is lost; the browser opens another.
Lose ==
    /\ stream = "open" /\ faults < MaxFaults
    /\ faults' = faults + 1
    /\ stream' = "opening" /\ channel' = <<>>
    /\ UNCHANGED <<messages, shown, live, cache, request, last, sent, selection>>

------------------------------------------------------------------------------
Streams == Open \/ Poll \/ Deliver

Next ==
    \/ \E c \in Conversations \cup {Nowhere}, aged \in BOOLEAN : Choose(c, aged)
    \/ Send
    \/ Receive \/ Reply \/ Fail
    \/ Streams \/ Lose
    \/ Answered \/ \E c \in Conversations : Fetch(c)

\* The stream is served, and what it carries arrives.
Fair == WF_conversationVars(Streams)

Spec == Init /\ [][Next]_conversationVars /\ Fair

------------------------------------------------------------------------------
TypeOK ==
    /\ shown \in Conversations \cup {Nowhere} /\ live \subseteq DOMAIN messages
    /\ last \in 0 .. Len(messages)
    /\ (stream = "off") <=> (shown = Nowhere)
    /\ \A c \in Conversations : cache[c].held \subseteq Listed(c)

\* "Le client qui se reconnecte ne perd rien": what a conversation holds comes
\* to the screen that shows it and stays there, whatever snapshots, answers
\* and polls cross.
Missing(n) == n \in DOMAIN messages /\ messages[n].conv = shown /\ n \notin Displayed

AllShown(n) == Missing(n) ~> ~Missing(n)

\* "Une proposition refusee ne peut pas etre acceptee par accident": the ticks
\* are those of the plan that is displayed, whichever message brought it.
TicksAreOfThePlan ==
    LET plan == Plan(Displayed, last) IN plan # 0 => selection = plan

------------------------------------------------------------------------------
(* What the code says of itself and does not do.                           *)

\* The screen of a conversation shows its messages: it also shows the turn of
\* the one that was left before the answer came.
ForeignStaysOut == shown # Nowhere => Displayed \subseteq Listed(shown)
==============================================================================
