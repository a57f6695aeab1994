--------------------------- MODULE ProjectProfiles ---------------------------
(***************************************************************************)
(* The skills and the profiles of a project, which interviews and requests *)
(* write in any order and which are never written twice: a skill is known  *)
(* by its name, an audience by its name without its case, a style by its   *)
(* scope and platform (core/projects/skills.ts, profiles.ts, service.ts).  *)
(* The names are the ones that are left once trimmed; a skill or a profile *)
(* without a name is refused before anything is read.                      *)
(***************************************************************************)
EXTENDS Naturals, FiniteSets

CONSTANTS
    Skills,    \* the names of skills
    Audiences, \* the names of audiences, as they are typed
    Folded,    \* their names without their case
    Styles,    \* pairs of a scope and a platform
    MaxLevel,  \* the levels of a skill, debutant being 1; its confidence and
               \* the degrees of a style too
    MaxItems   \* PROFILE_ITEMS_MAX

ProfilesAssumption ==
    MaxLevel \in Nat \ {0} /\ MaxItems \in Nat /\ DOMAIN Folded = Audiences

VARIABLES
    archived,  \* the project is archived
    skills,    \* project_skill_facts, by name
    audiences, \* audience_profiles: the names they were given, and their items
    styles     \* style_profiles: their scope and platform, and their formality

profileVars == <<archived, skills, audiences, styles>>

Init ==
    /\ archived = FALSE
    /\ skills = [s \in {} |-> {}]
    /\ audiences = {} /\ styles = {}

\* A row of project_skill_facts; a target is what a learning skill aims at.
SkillRow == [level : 1 .. MaxLevel, confidence : 1 .. MaxLevel, learning : BOOLEAN, target : BOOLEAN]

\* What an accepted entry of an edit plan asks: its target is its own name
\* while it is being learnt, and is explicitly empty otherwise.
Entry(level, confidence, learning) ==
    [level |-> level, confidence |-> confidence, learning |-> learning, target |-> learning]

\* assertSkillContent: a confidence out of range, or a skill that is being
\* learnt without a target, is refused.
SkillIsFit(entry) == entry.confidence \in 1 .. MaxLevel /\ (entry.learning => entry.target)

Higher(a, b) == IF a >= b THEN a ELSE b

\* The last interview decides of the level too: a mutant of Merged.
Merged_Last(old, new) == new

\* An empty target is not written: a mutant of Merged.
Merged_TargetStays(old, new) ==
    [new EXCEPT !.level = Higher(old.level, new.level),
                !.confidence = Higher(old.confidence, new.confidence),
                !.target = old.target \/ new.target]

\* upsertSkillFact on a known skill: highestLevel, the best confidence, and
\* the learning and the target that the entry says.
Merged(old, new) ==
    [new EXCEPT !.level = Higher(old.level, new.level),
                !.confidence = Higher(old.confidence, new.confidence)]

\* upsertSkillFact.
UpsertSkill(name, new) ==
    /\ ~archived /\ SkillIsFit(new)
    /\ skills' = [s \in DOMAIN skills \cup {name} |->
                    IF s # name THEN skills[s]
                    ELSE IF name \in DOMAIN skills THEN Merged(skills[name], new) ELSE new]
    /\ UNCHANGED <<archived, audiences, styles>>

\* Names are compared as they are typed: a mutant of SameName.
SameName_Exact(a, b) == a = b

SameName(a, b) == Folded[a] = Folded[b]

\* assertItems, once the blank items are dropped.
ItemsFit(items) == items <= MaxItems

\* addAudienceProfile answers the profile of that name when there is one,
\* whatever the items; buildAudienceProfile checks them.
AddAudience(name, items) ==
    /\ ~archived
    /\ IF \E a \in audiences : SameName(a.name, name) THEN UNCHANGED audiences
       ELSE ItemsFit(items) /\ audiences' = audiences \cup {[name |-> name, items |-> items]}
    /\ UNCHANGED <<archived, skills, styles>>

\* Any degree: a mutant of DegreeFits.
DegreeFits_Any(degree) == TRUE

\* assertLevel.
DegreeFits(degree) == degree \in 1 .. MaxLevel

\* addStyleProfile keeps the one of that scope and platform, as it was.
AddStyle(style, formality) ==
    /\ ~archived
    /\ IF \E s \in styles : s.style = style THEN UNCHANGED styles
       ELSE DegreeFits(formality) /\ styles' = styles \cup {[style |-> style, formality |-> formality]}
    /\ UNCHANGED <<archived, skills, audiences>>

\* archiveProject.
Archive == archived' = TRUE /\ UNCHANGED <<skills, audiences, styles>>

Next ==
    \/ \E name \in Skills, level \in 1 .. MaxLevel, confidence \in 0 .. MaxLevel, learning \in BOOLEAN :
          UpsertSkill(name, Entry(level, confidence, learning))
    \/ \E name \in Audiences, items \in 0 .. MaxItems + 1 : AddAudience(name, items)
    \/ \E style \in Styles, formality \in 0 .. MaxLevel : AddStyle(style, formality)
    \/ Archive

Spec == Init /\ [][Next]_profileVars

------------------------------------------------------------------------------
TypeOK ==
    /\ archived \in BOOLEAN
    /\ \A s \in DOMAIN skills : s \in Skills /\ skills[s] \in SkillRow
    /\ audiences \subseteq [name : Audiences, items : 0 .. MaxItems]
    /\ styles \subseteq [style : Styles, formality : 1 .. MaxLevel]

\* "Le niveau ne regresse pas par accident", nor does the confidence, whatever
\* interviews are accepted in whatever order.
LevelsRise ==
    [][\A s \in DOMAIN skills :
         skills'[s].level >= skills[s].level /\ skills'[s].confidence >= skills[s].confidence]_profileVars

\* A skill has a target exactly while it is being learnt, though a row is
\* written column by column by interviews that say one thing and the other.
LearningHasTarget == \A s \in DOMAIN skills : skills[s].learning = skills[s].target

\* "Un profil d'audience nomme deux fois n'existe pas: c'est le meme public",
\* and a project has one voice on each platform.
OneProfilePerName ==
    /\ \A a, b \in audiences : Folded[a.name] = Folded[b.name] => a = b
    /\ \A s, t \in styles : s.style = t.style => s = t
==============================================================================
