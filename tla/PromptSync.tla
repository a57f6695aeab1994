------------------------------- MODULE PromptSync -----------------------------
(***************************************************************************)
(* The versions of a prompt (packages/ai/src/prompts/sync.ts,              *)
(* repositories/prompt-versions.ts): when they start, the API and the      *)
(* worker read the file of the prompt and give it a row when its content   *)
(* is new, which becomes the active one.  The row is looked for, written,  *)
(* and the others switched off by three statements, between which the      *)
(* other process comes, or the process dies.                               *)
(*                                                                         *)
(* One agent and task, one file; a content is what its hash says.  Two     *)
(* synchronisations do not begin in the same millisecond.                  *)
(***************************************************************************)
EXTENDS Naturals, FiniteSets

CONSTANTS
    Contents,  \* what the file may hold
    Starters,  \* the processes that synchronise
    MaxStarts  \* bound: synchronisations begun

PromptAssumption == Contents # {} /\ IsFiniteSet(Contents) /\ MaxStarts \in Nat

VARIABLES
    file,    \* the content of the file
    rows,    \* prompt_versions by content: whether active, and created_at
    syncing, \* what each process is doing, with what it read
    starts,  \* synchronisations begun, which is also the clock
    newest,  \* the content inserted last, as a set
    crossed  \* two synchronisations of two contents went on at the same time

promptVars == <<file, rows, syncing, starts, newest, crossed>>

Stopped == [pc |-> "stopped", content |-> CHOOSE c \in Contents : TRUE, now |-> 0]

Init ==
    /\ file = CHOOSE c \in Contents : TRUE
    /\ rows = [c \in {} |-> {}]
    /\ syncing = [p \in Starters |-> Stopped]
    /\ starts = 0 /\ newest = {} /\ crossed = FALSE

Syncing(p) == syncing[p].pc \in {"read", "found", "inserted"}

------------------------------------------------------------------------------
\* The file is edited, or put back as it was.
Edit(c) ==
    /\ c # file
    /\ file' = c
    /\ UNCHANGED <<rows, syncing, starts, newest, crossed>>

\* syncPrompts: the file is read.
Begin(p) ==
    /\ syncing[p].pc \in {"stopped", "serving"} /\ starts < MaxStarts
    /\ starts' = starts + 1
    /\ syncing' = [syncing EXCEPT ![p] = [pc |-> "read", content |-> file, now |-> starts']]
    /\ crossed' = (crossed \/ \E q \in Starters : Syncing(q) /\ syncing[q].content # file)
    /\ UNCHANGED <<file, rows, newest>>

\* findByHash: a content that is known changes nothing, active or not.
Find(p) ==
    /\ syncing[p].pc = "read"
    /\ syncing' = [syncing EXCEPT
         ![p].pc = IF syncing[p].content \in DOMAIN rows THEN "serving" ELSE "found"]
    /\ UNCHANGED <<file, rows, starts, newest, crossed>>

\* insertPromptVersion; the unique hash refuses the second of two rows, and
\* the process that inserts it does not start.
Insert(p) ==
    /\ syncing[p].pc = "found"
    /\ IF syncing[p].content \in DOMAIN rows
       THEN syncing' = [syncing EXCEPT ![p] = Stopped] /\ UNCHANGED <<rows, newest>>
       ELSE /\ rows' = [c \in DOMAIN rows \cup {syncing[p].content} |->
                          IF c = syncing[p].content THEN [active |-> TRUE, created |-> syncing[p].now]
                          ELSE rows[c]]
            /\ newest' = {syncing[p].content}
            /\ syncing' = [syncing EXCEPT ![p].pc = "inserted"]
    /\ UNCHANGED <<file, starts, crossed>>

\* deactivateOtherVersions.
Deactivate(p) ==
    /\ syncing[p].pc = "inserted"
    /\ rows' = [c \in DOMAIN rows |->
                  IF c = syncing[p].content THEN rows[c] ELSE [rows[c] EXCEPT !.active = FALSE]]
    /\ syncing' = [syncing EXCEPT ![p].pc = "serving"]
    /\ UNCHANGED <<file, starts, newest, crossed>>

\* The process dies, wherever it is.
Die(p) ==
    /\ syncing[p].pc # "stopped"
    /\ syncing' = [syncing EXCEPT ![p] = Stopped]
    /\ UNCHANGED <<file, rows, starts, newest, crossed>>

Active == {c \in DOMAIN rows : rows[c].active}

\* The oldest active version: a mutant of ActiveVersion.
ActiveVersion_Oldest == {c \in Active : \A d \in Active : rows[c].created <= rows[d].created}

\* activePromptVersion: the latest of the active ones, or none.
ActiveVersion == {c \in Active : \A d \in Active : rows[d].created <= rows[c].created}

------------------------------------------------------------------------------
Next ==
    \/ \E c \in Contents : Edit(c)
    \/ \E p \in Starters : Begin(p) \/ Find(p) \/ Insert(p) \/ Deactivate(p) \/ Die(p)

Spec == Init /\ [][Next]_promptVars

------------------------------------------------------------------------------
TypeOK ==
    /\ file \in Contents /\ DOMAIN rows \subseteq Contents
    /\ starts \in 0 .. MaxStarts /\ crossed \in BOOLEAN
    /\ \A p \in Starters : syncing[p].content \in Contents
    /\ \A c \in DOMAIN rows : rows[c].created \in 1 .. starts

\* "Une seule version active par couple (agent, task)": what the calls are
\* given is the version inserted last, also when a process died before it had
\* switched the others off; unless two contents were synchronised at once.
LastInsertedIsServed == ~crossed => ActiveVersion = newest

------------------------------------------------------------------------------
(* What the code says of itself and does not do.                           *)

\* "Version active d'un prompt": there is one as soon as there is a row.  Two
\* processes that read two contents switch off each other's version, and both
\* contents are known from then on.
SomeIsActive ==
    (\A p \in Starters : ~Syncing(p)) /\ DOMAIN rows # {} => Active # {}

\* "Un llm_call reference le hash exact du prompt utilise": the body that is
\* sent is read from the file when the call is made, and a content that comes
\* back is not made active again.
CallNamesItsText ==
    (\E p \in Starters : syncing[p].pc = "serving") => ActiveVersion = {file}
==============================================================================
