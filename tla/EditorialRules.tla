---------------------------- MODULE EditorialRules ---------------------------
(***************************************************************************)
(* The local rules of the editorial chain: the table of the targets        *)
(* (packages/shared/src/content-targets.ts), the validation of a draft and *)
(* the measure of an edition (core/editorial/validation.ts), the scores of *)
(* a plan (core/editorial/plan.ts), and what is decided on a publication   *)
(* before it is sent.  Pure operators.  A text is a sequence of normalised *)
(* words; a draft is what its validation measures of it.                   *)
(***************************************************************************)
EXTENDS Integers, Sequences, FiniteSets

LOCAL INSTANCE FiniteSetsExt

TargetKeys == {"linkedin_post", "reddit_post", "tiktok_short", "youtube_short", "youtube_long"}

\* CONTENT_TARGET_SPECS; no title is a titleMax of 0.
TargetSpec ==
    [linkedin_post |-> [max |-> 3000, aim |-> 1800, titleMax |-> 0, hookMax |-> 210,
                        tagsMin |-> 3, tagsMax |-> 5, segments |-> FALSE],
     reddit_post   |-> [max |-> 40000, aim |-> 3000, titleMax |-> 300, hookMax |-> 300,
                        tagsMin |-> 0, tagsMax |-> 0, segments |-> FALSE],
     tiktok_short  |-> [max |-> 2200, aim |-> 900, titleMax |-> 0, hookMax |-> 100,
                        tagsMin |-> 3, tagsMax |-> 5, segments |-> FALSE],
     youtube_short |-> [max |-> 1800, aim |-> 900, titleMax |-> 100, hookMax |-> 120,
                        tagsMin |-> 2, tagsMax |-> 5, segments |-> FALSE],
     youtube_long  |-> [max |-> 8000, aim |-> 5000, titleMax |-> 100, hookMax |-> 300,
                        tagsMin |-> 3, tagsMax |-> 8, segments |-> TRUE]]

MinBody == 40

If(condition, code) == IF condition THEN {code} ELSE {}

\* As many tags as allowed are one too many: a mutant of Blocking.
Blocking_Strict(spec, d) ==
       If(d.chars < MinBody, "BODY_TOO_SHORT")
    \cup If(d.marker, "BODY_TEMPLATE_MARKER")
    \cup If(d.chars > spec.max, "BODY_TOO_LONG")
    \cup If(spec.titleMax # 0 /\ d.title = 0, "TITLE_MISSING")
    \cup If(spec.titleMax # 0 /\ d.title > spec.titleMax, "TITLE_TOO_LONG")
    \cup If(d.tags >= spec.tagsMax, "HASHTAGS_TOO_MANY")
    \cup If(spec.segments /\ d.chapters < 4, "CHAPTERS_MISSING")

\* validateDraft: what blocks.
Blocking(spec, d) ==
       If(d.chars < MinBody, "BODY_TOO_SHORT")
    \cup If(d.marker, "BODY_TEMPLATE_MARKER")
    \cup If(d.chars > spec.max, "BODY_TOO_LONG")
    \cup If(spec.titleMax # 0 /\ d.title = 0, "TITLE_MISSING")
    \cup If(spec.titleMax # 0 /\ d.title > spec.titleMax, "TITLE_TOO_LONG")
    \cup If(d.tags > spec.tagsMax, "HASHTAGS_TOO_MANY")
    \cup If(spec.segments /\ d.chapters < 4, "CHAPTERS_MISSING")

\* validateDraft: what is only said.
Warnings(target, spec, d) ==
       If(d.chars > spec.aim /\ d.chars <= spec.max, "BODY_OVER_TARGET")
    \cup If(2 * d.chars < spec.aim, "BODY_UNDER_TARGET")
    \cup If(d.hook > spec.hookMax, "HOOK_TOO_LONG")
    \cup If(d.hook > 0 /\ d.chars > 0 /\ ~d.quoted, "HOOK_NOT_IN_BODY")
    \cup If(d.tags < spec.tagsMin, "HASHTAGS_MISSING")
    \cup If(d.chapters > 8, "CHAPTERS_TOO_MANY")
    \cup If(target \in {"reddit_post", "youtube_long"} /\ d.notes = 0, "NOTES_MISSING")

------------------------------------------------------------------------------
(* Words.                                                                  *)

Words(text) == {text[n] : n \in DOMAIN text}
SumOver(set, F(_)) == FoldSet(LAMBDA w, sum : F(w) + sum, 0, set)

Count(text, w) == Cardinality({n \in DOMAIN text : text[n] = w})

\* tokenOverlap(a, b) >= p / q, on the sets of words.
Overlaps(a, b, p, q) ==
    /\ Words(a) # {} /\ Words(b) # {}
    /\ q * Cardinality(Words(a) \cap Words(b)) >= p * Cardinality(Words(a) \cup Words(b))

\* Math.round((1 - 2 kept / total) * 100).
Percent(kept, total) == (200 * (total - 2 * kept) + total) \div (2 * total)

\* The words kept, counted without taking them from the former text: a mutant.
Kept_Twice(before, after) ==
    Cardinality({n \in DOMAIN after : after[n] \in Words(before)})

\* editRatioPercent: each word of the new text takes one of the former text,
\* as long as one is left.
Kept(before, after) ==
    Cardinality({n \in DOMAIN after :
        Cardinality({k \in 1 .. n : after[k] = after[n]}) <= Count(before, after[n])})

EditRatio(before, after) ==
    IF before = <<>> /\ after = <<>> THEN 0
    ELSE IF before = <<>> \/ after = <<>> THEN 100
    ELSE Percent(Kept(before, after), Len(before) + Len(after))

------------------------------------------------------------------------------
(* Scores.                                                                 *)

\* The worst overlap decides: a mutant of Coverage.
Coverage_Worst(text, skills) ==
    IF skills # {} /\ \A s \in skills : Overlaps(text, s, 1, 2) THEN "couverte"
    ELSE IF skills # {} /\ \A s \in skills : Overlaps(text, s, 1, 5) THEN "partielle"
    ELSE "non_couverte"

\* skillCoverageFor: the best overlap of the title and thesis with a skill.
Coverage(text, skills) ==
    IF \E s \in skills : Overlaps(text, s, 1, 2) THEN "couverte"
    ELSE IF \E s \in skills : Overlaps(text, s, 1, 5) THEN "partielle"
    ELSE "non_couverte"

Positive(n) == IF n < 0 THEN 0 ELSE n

\* scoreSubject, where `recent' are the subjects of the same answer, this one
\* included: DUPLICATE_THRESHOLD is 0.6.
SubjectScore(subject, brief, skills, recent) ==
    LET coverage == Coverage(subject.title \o subject.thesis, skills)
        same == Cardinality({n \in DOMAIN recent : recent[n].pillar = subject.pillar})
        duplicate == \E n \in DOMAIN recent : Overlaps(recent[n].title, subject.title, 3, 5)
        has == subject.pillar # <<>>
    IN Positive((IF has /\ subject.pillar \in brief.pillars THEN 2 ELSE 0)
              + (CASE coverage = "couverte" -> 2 [] coverage = "partielle" -> 1 [] OTHER -> 0)
              + (IF has /\ brief.exists THEN 1 ELSE 0)
              + (IF has /\ same >= 2 THEN 0 ELSE 1)
              - (IF duplicate THEN 3 ELSE 0))

\* scoreAngle.
AngleScore(angle) ==
    Positive((IF Cardinality(angle.evidence) >= 2 THEN 2 ELSE 0)
           + (IF angle.steps >= 4 THEN 1 ELSE 0)
           + (CASE angle.difficulty = "faible" -> 1 [] angle.difficulty = "elevee" -> -1
                [] OTHER -> 0))

------------------------------------------------------------------------------
\* The rules of a target do not contradict each other: some draft of it,
\* whatever its length from half its aim to its aim, neither blocks nor warns.
RulesAgree(target) ==
    LET spec == TargetSpec[target] IN
    \A chars \in {spec.aim \div 2, spec.aim} : \A tags \in {spec.tagsMin, spec.tagsMax} :
        LET d == [chars |-> chars, marker |-> FALSE, title |-> spec.titleMax, hook |-> spec.hookMax,
                  quoted |-> TRUE, tags |-> tags, chapters |-> IF spec.segments THEN 4 ELSE 0, notes |-> 1]
        IN spec.hookMax <= chars /\ Blocking(spec, d) = {} /\ Warnings(target, spec, d) = {}

\* "Le pourcentage du texte qui a change": the words that only one of the two
\* texts has, each as often as it has it, over the words of both; the same
\* both ways, nothing when the words are only moved.
EditRatioCountsEdits(before, after) ==
    LET all == Words(before) \cup Words(after)
        Distance(w) == IF Count(before, w) >= Count(after, w) THEN Count(before, w) - Count(after, w)
                       ELSE Count(after, w) - Count(before, w)
        changed == SumOver(all, Distance)
        total == Len(before) + Len(after)
    IN /\ EditRatio(before, after) = EditRatio(after, before)
       /\ EditRatio(before, after) =
            IF total = 0 THEN 0 ELSE (200 * changed + total) \div (2 * total)

\* The scores rank: one more skill never lowers a subject, one more subject
\* of the plan never raises it, one more quotation never lowers an angle; and
\* none leaves the scale.
ScoresRank(subject, brief, skills, recent, angle) ==
    LET score == SubjectScore(subject, brief, skills, recent) IN
    /\ score \in 0 .. 6 /\ AngleScore(angle) \in 0 .. 4
    /\ \A s \in skills : SubjectScore(subject, brief, skills \ {s}, recent) <= score
    /\ recent # <<>> => SubjectScore(subject, brief, skills, Tail(recent)) >= score
    /\ \A q \in angle.evidence :
         AngleScore([angle EXCEPT !.evidence = @ \ {q}]) <= AngleScore(angle)

------------------------------------------------------------------------------
(* What is decided on a publication before anything is sent: the level of  *)
(* an account (packages/publishing/src/capabilities.ts, index.ts), what    *)
(* the connector of each platform refuses to publish (manual.ts,           *)
(* linkedin.ts), and what the LinkedIn connector still needs to write its  *)
(* request.  A text is here its UTF-16 length and the script it is written *)
(* in, which gives its bytes and its code points.                          *)

\* A capability that is recorded, refused, or not recorded at all.
Capability == {"no", "absent", "yes"}

\* The declared level, whatever the capabilities: a mutant of Mode.
Mode_Declared(c) ==
    IF c.level # "absent" THEN c.level
    ELSE IF c.direct = "yes" THEN "A"
    ELSE IF c.draft = "yes" THEN "B"
    ELSE "C"

\* resolvePublishMode: the declared level is capped by the capabilities, and
\* without one the capabilities decide.
Mode(c) ==
    IF c.level = "A" /\ c.direct = "no" THEN IF c.draft = "yes" THEN "B" ELSE "C"
    ELSE IF c.level = "B" /\ c.draft = "no" THEN "C"
    ELSE IF c.level # "absent" THEN c.level
    ELSE IF c.direct = "yes" THEN "A"
    ELSE IF c.draft = "yes" THEN "B"
    ELSE "C"

\* createApiConnector: no other platform has a connector that writes.
ApiPlatforms == {"linkedin"}

\* resolveConnectorForAccount.
Resolved(c, platform, connection) ==
    IF platform \in ApiPlatforms /\ connection = "connected" THEN Mode(c) ELSE "C"

------------------------------------------------------------------------------
(* Texts and what the connectors say of them.                              *)

PlatformOf ==
    [linkedin_post |-> "linkedin", reddit_post |-> "reddit", tiktok_short |-> "tiktok",
     youtube_short |-> "youtube", youtube_long |-> "youtube"]

Scripts == {"ascii", "accented", "wide", "paired"}

\* MEASURE: a character outside the first plane takes two units of UTF-16, four
\* bytes, and is one code point.
Measure(text, unit) ==
    CASE unit = "characters"  -> text.chars
      [] unit = "utf16_runes" -> IF text.script = "paired" THEN text.chars \div 2 ELSE text.chars
      [] unit = "utf8_bytes"  -> text.chars * (CASE text.script = "ascii" -> 1 [] text.script = "wide" -> 3
                                                 [] OTHER -> 2)

TextLimit(field, max, unit, advisory) == [field |-> field, max |-> max, unit |-> unit, advisory |-> advisory]

\* The limit of the descriptions of TikTok for those of YouTube: a mutant of
\* TextLimits.
TextLimits_Tiktok(platform) ==
    CASE platform = "linkedin" -> {TextLimit("body", 3000, "characters", TRUE)}
      [] platform = "reddit"   -> {TextLimit("title", 300, "characters", TRUE),
                                   TextLimit("body", 40000, "characters", TRUE)}
      [] OTHER                 -> {TextLimit("description", 2200, "utf16_runes", FALSE)}

\* CONFIGS: the limits that are known of each platform; the advisory ones warn.
TextLimits(platform) ==
    CASE platform = "linkedin" -> {TextLimit("body", 3000, "characters", TRUE)}
      [] platform = "reddit"   -> {TextLimit("title", 300, "characters", TRUE),
                                   TextLimit("body", 40000, "characters", TRUE)}
      [] platform = "tiktok"   -> {TextLimit("description", 2200, "utf16_runes", FALSE)}
      [] platform = "youtube"  -> {TextLimit("title", 100, "characters", FALSE),
                                   TextLimit("description", 5000, "utf8_bytes", FALSE)}

Issue(field, blocks) == [field |-> field, blocks |-> blocks]

\* validateContent of the manual connector of `platform': the routes describe a
\* content by its body.
ManualIssues(platform, request) ==
    LET text == [body |-> request.body, title |-> request.title, description |-> request.body]
    IN   If(PlatformOf[request.target] # platform, Issue("other", TRUE))
    \cup If(request.body.chars > TargetSpec[request.target].max, Issue("body", FALSE))
    \cup {Issue(limit.field, ~limit.advisory) :
            limit \in {l \in TextLimits(platform) : Measure(text[l.field], l.unit) > l.max}}

\* linkedInAuthorUrn: an identifier that is neither a URN nor a number is none.
HasAuthor(request) == request.account \in {"urn", "number"}

WriteScopes == {"w_member_social", "w_organization_social"}

\* Any account will do: a mutant of LinkedInIssues.
LinkedInIssues_AnyAccount(request) ==
         If(PlatformOf[request.target] # "linkedin", Issue("other", TRUE))
    \cup If(request.account = "none" \/ request.scopes \cap WriteScopes = {}, Issue("other", TRUE))
    \cup If(request.assets > 0, Issue("media", TRUE))
    \cup If(request.body.chars + request.tags > 3000, Issue("body", FALSE))

\* validateContent of the LinkedIn connector; `tags' is what the hashtags add
\* to the commentary.
LinkedInIssues(request) ==
         If(PlatformOf[request.target] # "linkedin", Issue("other", TRUE))
    \cup If(~HasAuthor(request), Issue("other", TRUE))
    \cup If(request.account = "none" \/ request.scopes \cap WriteScopes = {}, Issue("other", TRUE))
    \cup If(request.assets > 0, Issue("media", TRUE))
    \cup If(request.body.chars + request.tags > 3000, Issue("body", FALSE))

Accepted(issues) == \A issue \in issues : ~issue.blocks

\* buildRequest: the first thing that is missing raises, "none" when nothing is.
Missing(request, token, version) ==
    IF request.account = "none" THEN "LINKEDIN_ACCOUNT_REQUIRED"
    ELSE IF ~HasAuthor(request) THEN "LINKEDIN_AUTHOR_MISSING"
    ELSE IF ~token THEN "PLATFORM_TOKEN_MISSING"
    ELSE IF ~version THEN "LINKEDIN_API_VERSION_MISSING"
    ELSE "none"

------------------------------------------------------------------------------
LevelRank(level) == CASE level = "A" -> 2 [] level = "B" -> 1 [] OTHER -> 0

Given(capability) == CASE capability = "yes" -> 2 [] capability = "absent" -> 1 [] OTHER -> 0

\* "Pas de niveau A pour une plateforme non acquise": a level is never above
\* what the account may do, and an account that gains a capability does not
\* lose its level.
LevelIsEarned(c, platform, connection) ==
    LET level == Resolved(c, platform, connection)
    IN /\ level = "A" => c.direct # "no"
       /\ level = "B" => c.draft # "no"
       /\ level # "C" => platform \in ApiPlatforms /\ connection = "connected"
       /\ \A direct, draft \in Capability :
              Given(direct) >= Given(c.direct) /\ Given(draft) >= Given(c.draft) =>
                  LevelRank(Resolved([c EXCEPT !.direct = direct, !.draft = draft], platform, connection))
                      >= LevelRank(level)

\* A draft that the local validation neither blocks nor finds longer than its
\* aim, written in single bytes, can be published by hand.
AimedDraftIsPackaged(request) ==
    LET spec == TargetSpec[request.target]
        draft == [chars |-> request.body.chars, marker |-> FALSE, title |-> request.title.chars,
                  hook |-> 0, quoted |-> TRUE, tags |-> spec.tagsMin,
                  chapters |-> IF spec.segments THEN 4 ELSE 0, notes |-> 1]
    IN /\ request.body.script = "ascii" /\ request.title.script = "ascii"
       /\ Blocking(spec, draft) = {}
       /\ "BODY_OVER_TARGET" \notin Warnings(request.target, spec, draft)
       => Accepted(ManualIssues(PlatformOf[request.target], request))

\* The same of any draft that is not blocked and of any script; the code does
\* not promise it: youtube_long takes 8000 characters, its package 5000 bytes.
ApprovedDraftIsPackaged(request) ==
    LET spec == TargetSpec[request.target]
        draft == [chars |-> request.body.chars, marker |-> FALSE, title |-> request.title.chars,
                  hook |-> 0, quoted |-> TRUE, tags |-> spec.tagsMin,
                  chapters |-> IF spec.segments THEN 4 ELSE 0, notes |-> 1]
    IN Blocking(spec, draft) = {} => Accepted(ManualIssues(PlatformOf[request.target], request))

\* What the LinkedIn connector accepts, it can write: only the token and the
\* version of the API, that the validation does not see, may still be missing.
AcceptedCanBeWritten(request) ==
    Accepted(LinkedInIssues(request)) =>
        \A token, version \in BOOLEAN :
            /\ Missing(request, token, version)
                   \in {"none", "PLATFORM_TOKEN_MISSING", "LINKEDIN_API_VERSION_MISSING"}
            /\ Missing(request, TRUE, TRUE) = "none"
==============================================================================
