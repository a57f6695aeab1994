------------------------------- MODULE ClipPlan ------------------------------
(***************************************************************************)
(* The plan of a clip and its subtitles: the bounds of a plan, the plan    *)
(* computed when no agent answers, the words heard in its window           *)
(* (packages/media/src/video.ts) and the cutting of a transcript into cues *)
(* (packages/media/src/subtitles.ts).  Pure operators, on times in a unit  *)
(* the constants share; a text is the sequence of the lengths of its       *)
(* words, a word of braces only being dropped before the cutting.          *)
(***************************************************************************)
EXTENDS Integers, Sequences, FiniteSets

LOCAL INSTANCE SequencesExt

CONSTANTS
    MinClip,   \* RENDER_CLIP_MIN_MS
    AimClip,   \* the sixty seconds of a default plan
    MinCue,    \* MIN_CUE_MS
    LineChars, \* DEFAULT_MAX_CHARS_PER_LINE
    CueLines   \* DEFAULT_MAX_LINES_PER_CUE

ClipAssumption ==
    /\ MinClip \in Nat \ {0} /\ AimClip \in Nat /\ MinCue \in Nat
    /\ LineChars \in Nat /\ CueLines \in Nat \ {0}

Least(a, b) == IF a <= b THEN a ELSE b
Most(a, b) == IF a <= b THEN b ELSE a

\* Math.round of a quotient.
Rounded(a, b) == (2 * a + b) \div (2 * b)

------------------------------------------------------------------------------
(* The plan.                                                               *)

\* validateRenderPlan.
ValidPlan(plan, length, maxClip) ==
    /\ 0 <= plan.start /\ plan.start < plan.end /\ plan.end <= length
    /\ plan.end - plan.start >= MinClip
    /\ plan.end - plan.start <= maxClip

\* A plan that starts with the speech, wherever that is: a mutant of DefaultPlan.
DefaultPlan_Late(length, maxClip, segments) ==
    LET target == Most(MinClip, Least(AimClip, maxClip))
        start == IF segments = <<>> THEN 0 ELSE segments[1].start
    IN [start |-> start, end |-> Most(start + MinClip, Least(length, start + target))]

\* defaultRenderPlan: from the first words heard, as long as allowed.
DefaultPlan(length, maxClip, segments) ==
    LET target == Most(MinClip, Least(AimClip, maxClip))
        heard == IF segments = <<>> THEN 0 ELSE segments[1].start
        start == Most(0, Least(heard, length - MinClip))
    IN [start |-> start, end |-> Most(start + MinClip, Least(length, start + target))]

\* hasSpeechInWindow, as the API asks it: a text of braces is a text.
HasSpeech(segments, plan) ==
    \E n \in DOMAIN segments :
        /\ segments[n].end > plan.start /\ segments[n].start < plan.end
        /\ segments[n].words # <<>>

------------------------------------------------------------------------------
(* The cues.                                                               *)

\* normalizeText: 0 is a word of braces only.
Normal(words) == SelectSeq(words, LAMBDA w : w > 0)

\* wrapText: the lengths of the lines.
Wrap(words) ==
    FoldLeft(LAMBDA lines, w :
               IF lines = <<>> THEN <<w>>
               ELSE IF lines[Len(lines)] + 1 + w <= LineChars
                    THEN [lines EXCEPT ![Len(lines)] = @ + 1 + w]
                    ELSE Append(lines, w),
             <<>>, words)

\* groupLines, each group by its characters: the lines joined by a space, and
\* one more for each break.
Groups(lines) ==
    [g \in 1 .. (Len(lines) + CueLines - 1) \div CueLines |->
        LET first == (g - 1) * CueLines + 1
            last == Least(g * CueLines, Len(lines))
        IN FoldLeft(LAMBDA sum, n : sum + n, 0, SubSeq(lines, first, last)) + 2 * (last - first)]

\* A cue lasts MinCue even past the end of its segment: a mutant of CueEnd.
CueEnd_Over(start, next, end) == Most(next, start + MinCue)

\* A cue lasts MinCue at least, as long as its segment does.
CueEnd(start, next, end) == Most(next, Least(end, start + MinCue))

\* The cues of one segment, its time shared by the characters of its groups.
SegmentCues(segment, plan) ==
    LET start == Most(segment.start, plan.start)
        end == Least(segment.end, plan.end)
        groups == Groups(Wrap(Normal(segment.words)))
        total == FoldLeft(LAMBDA sum, n : sum + n, 0, groups)
        Next(cursor, g) ==
            IF g = Len(groups) THEN end
            ELSE Least(end, cursor + Rounded(groups[g] * (end - start), total))
        Cut(done, g) ==
            [cursor |-> Next(done.cursor, g),
             cues |-> Append(done.cues,
                        [start |-> done.cursor - plan.start,
                         end |-> CueEnd(done.cursor, Next(done.cursor, g), end) - plan.start])]
    IN IF end <= start THEN <<>>
       ELSE FoldLeft(Cut, [cursor |-> start, cues |-> <<>>], [g \in DOMAIN groups |-> g]).cues

\* buildSubtitleCues.
Cues(segments, plan) ==
    FoldLeft(LAMBDA cues, segment : cues \o SegmentCues(segment, plan), <<>>, segments)

------------------------------------------------------------------------------
\* The plan computed without an agent is one that validateRenderPlan takes,
\* wherever the speech starts and however short the source is, from MinClip on.
DefaultPlanIsValid(length, maxClip, segments) ==
    length >= MinClip /\ maxClip >= MinClip =>
        ValidPlan(DefaultPlan(length, maxClip, segments), length, maxClip)

\* The subtitles follow the speech: they stay inside the clip, none ends
\* before it starts, none starts before the one it follows; each segment keeps
\* its time to the end; and the clip has some exactly when words are heard in
\* it, words of braces apart.
CuesFollowSpeech(segments, plan) ==
    LET cues == Cues(segments, plan)
        heard == {n \in DOMAIN segments :
                    /\ segments[n].end > plan.start /\ segments[n].start < plan.end
                    /\ \E k \in DOMAIN segments[n].words : segments[n].words[k] > 0}
    IN /\ \A n \in DOMAIN cues :
            /\ 0 <= cues[n].start /\ cues[n].start <= cues[n].end
            /\ cues[n].end <= plan.end - plan.start
            /\ n > 1 => cues[n - 1].start <= cues[n].start
       /\ \A n \in heard : \E k \in DOMAIN cues :
            cues[k].end = Least(segments[n].end, plan.end) - plan.start
       /\ cues # <<>> <=> heard # {}
       /\ heard # {} => HasSpeech(segments, plan)
==============================================================================
